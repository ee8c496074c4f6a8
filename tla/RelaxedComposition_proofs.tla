--------------------- MODULE RelaxedComposition_proofs ---------------------
(***************************************************************************)
(* Proofs about the estimates of progression search, for problems of every *)
(* size.                                                                   *)
(***************************************************************************)
EXTENDS RelaxedComposition, DecompositionGraph_proofs, TLAPS

(* Queues of facts, cheapest first.                                        *)

\* Some numbers have a least one.
LEMMA MinOfNumbers ==
  ASSUME NEW T \in SUBSET Nat, T # {}
  PROVE  Min(T) \in T /\ \A y \in T : Min(T) <= y
  <1>1. \E x \in T : \A y \in T : x <= y
    BY LeastNumber
  <1>2. QED BY <1>1 DEF Min

\* The mark of what cannot be reached is a number.
LEMMA UnreachableIsLarge == UNREACHABLE \in Nat /\ UNREACHABLE > 0
  BY DEF UNREACHABLE

\* Products grow with their factors.
LEMMA TimesMore ==
  ASSUME NEW m \in Nat, NEW a \in Nat, NEW b \in Nat
  PROVE  /\ m * a \in Nat /\ m * (a + 1) = m * a + m
         /\ a <= b => m * a <= m * b
  <1>1. m * a \in Nat /\ m * (a + 1) = m * a + m
    OBVIOUS
  <1>2. ASSUME a <= b
        PROVE  m * a <= m * b
    <2>1. PICK d \in Nat : b = a + d
      <3>1. b - a \in Nat /\ b = a + (b - a)
        BY <1>2
      <3>2. QED BY <3>1
    <2>2. m * b = m * a + m * d /\ m * d \in Nat
      BY <2>1
    <2>3. QED BY <1>1, <2>2
  <1>3. QED BY <1>1, <1>2

\* The facts whose value w is final: the entry of the queue for it has been popped.
Settled(w, q) == {f \in DOMAIN w : w[f] < UNREACHABLE /\ <<w[f], f>> \notin q}

\* What is settled is not dearer than what is queued.
QueueOK(X, w, q) ==
  /\ w \in [X -> 0 .. UNREACHABLE]
  /\ q \subseteq (0 .. UNREACHABLE - 1) \X X
  /\ \A e \in q : w[e[2]] <= e[1]
  /\ \A f \in Settled(w, q) : \A e \in q : w[f] <= e[1]

\* The operators that are done now and make a fact cheaper, and those that enter it, one after
\* the other.
CheaperBy(add, done, val, w, f) == {o \in done : f \in add[o] /\ val[o] < w[f]}
Entering(add, done, val, w, f) ==
  {o \in CheaperBy(add, done, val, w, f) :
     \A e \in CheaperBy(add, done, val, w, f) : e < o => val[o] < val[e]}

\* What the fact costs then.
Best(add, done, val, w, f) == Min({w[f]} \union {val[o] : o \in CheaperBy(add, done, val, w, f)})

\* The cheapest of them enters the fact.
LEMMA CheapestEnters ==
  ASSUME NEW done \in SUBSET Nat, NEW val \in [done -> Nat], NEW add, NEW w, NEW f, w[f] \in Nat,
         CheaperBy(add, done, val, w, f) # {}
  PROVE  \E o \in Entering(add, done, val, w, f) :
           \A e \in CheaperBy(add, done, val, w, f) : val[o] <= val[e]
  <1> DEFINE C == CheaperBy(add, done, val, w, f)
             V == {val[o] : o \in C}
             B == {o \in C : val[o] = Min(V)}
  <1>1. C \subseteq done
    BY DEF CheaperBy
  <1>2. V \in SUBSET Nat /\ V # {}
    BY <1>1
  <1>3. Min(V) \in V /\ \A y \in V : Min(V) <= y
    <2> HIDE DEF V
    <2>1. QED BY <1>2, MinOfNumbers
  <1>4. B \in SUBSET Nat /\ B # {}
    BY <1>1, <1>3
  <1>5. PICK o \in B : \A e \in B : o <= e
    <2> HIDE DEF B
    <2>1. QED BY <1>4, LeastNumber
  <1>6. o \in C /\ \A e \in C : val[o] <= val[e]
    BY <1>3, <1>5
  <1>7. \A e \in C : e < o => val[o] < val[e]
    <2>1. SUFFICES ASSUME NEW e \in C, e < o
                   PROVE  val[o] < val[e]
      OBVIOUS
    <2>2. e \in Nat /\ o \in Nat /\ val[e] \in Nat /\ val[o] \in Nat
      BY <1>1, <1>6
    <2>3. e \notin B
      BY <1>5, <2>1, <2>2
    <2>4. val[e] # val[o] /\ val[o] <= val[e]
      BY <1>5, <1>6, <2>3
    <2>5. QED BY <2>2, <2>4
  <1>8. QED BY <1>6, <1>7 DEF Entering

\* The entry p is popped, and the operators that are done with it enter what they make cheaper.
Pops(X, w, q, p, done, val, add, w2, q2) ==
  /\ QueueOK(X, w, q)
  /\ p \in q /\ (\A e \in q : p[1] <= e[1]) /\ w[p[2]] = p[1]
  /\ done \in SUBSET Nat /\ val \in [done -> Nat] /\ \A o \in done : p[1] <= val[o]
  /\ \A o \in done : add[o] \in SUBSET X
  /\ w2 \in [X -> Int] /\ \A f \in X : w2[f] = Best(add, done, val, w, f)
  /\ \A e : e \in q2 <=> \/ e \in q /\ e # p
                         \/ \E f \in X : \E o \in Entering(add, done, val, w, f) : e = <<val[o], f>>

\* The fact of that entry is settled, and what was settled stays as it is.
LEMMA QueueStep ==
  ASSUME NEW X, NEW w, NEW q, NEW p, NEW done, NEW val, NEW add, NEW w2, NEW q2,
         Pops(X, w, q, p, done, val, add, w2, q2)
  PROVE  /\ QueueOK(X, w2, q2)
         /\ p[2] \in X /\ p[2] \notin Settled(w, q)
         /\ Settled(w2, q2) = Settled(w, q) \union {p[2]}
         /\ \A f \in Settled(w2, q2) : w2[f] = w[f]
         /\ \A f \in X : w2[f] <= w[f]
         /\ \A f \in X : w2[f] # w[f] => \E o \in CheaperBy(add, done, val, w, f) : w2[f] = val[o]
         /\ \A o \in done : \A f \in add[o] : w2[f] <= val[o]
         /\ \A f \in X : w2[f] # w[f] <=> Entering(add, done, val, w, f) # {}
  <1> DEFINE C(f) == CheaperBy(add, done, val, w, f)
             E(f) == Entering(add, done, val, w, f)
  <1> USE DEF Pops
  <1>0. UNREACHABLE \in Nat
    BY UnreachableIsLarge
  <1>1. /\ w \in [X -> 0 .. UNREACHABLE] /\ q \subseteq (0 .. UNREACHABLE - 1) \X X
        /\ \A e \in q : e[1] \in 0 .. UNREACHABLE - 1 /\ e[2] \in X /\ e = <<e[1], e[2]>>
        /\ \A f \in X : w[f] \in Nat /\ w[f] <= UNREACHABLE
    BY <1>0 DEF QueueOK
  <1>2. \A f \in X : C(f) \subseteq done /\ E(f) \subseteq C(f)
    BY DEF CheaperBy, Entering
  <1>3. ASSUME NEW f \in X
        PROVE  /\ w2[f] \in 0 .. UNREACHABLE /\ w2[f] <= w[f] /\ (\A o \in C(f) : w2[f] <= val[o])
               /\ w2[f] = w[f] \/ \E o \in C(f) : w2[f] = val[o]
    <2> DEFINE V == {w[f]} \union {val[o] : o \in C(f)}
    <2>0. w[f] \in Nat /\ \A o \in C(f) : val[o] \in Nat
      <3> HIDE DEF C
      <3>1. QED BY <1>1, <1>2
    <2>1. V \in SUBSET Nat /\ V # {}
      <3> HIDE DEF C
      <3>1. QED BY <2>0
    <2>2. Min(V) \in V /\ \A y \in V : Min(V) <= y
      <3> HIDE DEF V
      <3>1. QED BY <2>1, MinOfNumbers
    <2>3. w2[f] = Min(V)
      BY DEF Best
    <2>4. w2[f] \in V /\ \A y \in V : w2[f] <= y
      BY <2>2, <2>3
    <2>5. w2[f] \in Nat /\ w2[f] <= w[f]
      BY <2>1, <2>4
    <2>6. w2[f] \in 0 .. UNREACHABLE
      <3>1. w[f] \in Nat /\ w[f] <= UNREACHABLE
        BY <1>1
      <3>2. QED BY <1>0, <2>5, <3>1
    <2>7. QED BY <2>4, <2>5, <2>6
  <1>4. ASSUME NEW f \in X, w2[f] # w[f]
        PROVE  /\ C(f) # {} /\ w2[f] < w[f] /\ p[1] <= w2[f]
               /\ \E o \in E(f) : w2[f] = val[o]
    <2>1. PICK c \in C(f) : w2[f] = val[c]
      BY <1>3, <1>4
    <2>2. PICK o \in E(f) : \A e \in C(f) : val[o] <= val[e]
      BY <1>1, <2>1, CheapestEnters
    <2>3. o \in C(f) /\ val[o] \in Nat /\ val[c] \in Nat /\ val[o] <= val[c] /\ w2[f] <= val[o]
      BY <1>2, <1>3, <2>1, <2>2
    <2>4. w2[f] = val[o]
      BY <2>1, <2>3
    <2>5. p[1] <= val[o]
      BY <1>2, <2>3
    <2>6. w2[f] <= w[f] /\ w2[f] \in Nat /\ w[f] \in Nat
      BY <1>1, <1>3
    <2>7. QED BY <1>4, <2>1, <2>2, <2>4, <2>5, <2>6
  <1>5. p[2] \in X /\ p[1] \in 0 .. UNREACHABLE - 1 /\ p = <<p[1], p[2]>> /\ w[p[2]] = p[1]
    BY <1>1
  <1>6. ASSUME NEW f \in X, f \in Settled(w, q) \/ f = p[2]
        PROVE  w2[f] = w[f] /\ C(f) = {} /\ w[f] <= p[1]
    <2>1. w[f] <= p[1]
      BY <1>5, <1>6 DEF QueueOK
    <2>2. ASSUME NEW o \in C(f)
          PROVE  FALSE
      <3>1. val[o] < w[f] /\ o \in done /\ val[o] \in Nat /\ p[1] <= val[o] /\ w[f] \in Nat /\ p[1] \in Nat
        BY <1>1, <1>5, <2>2 DEF CheaperBy
      <3>2. QED BY <2>1, <3>1
    <2>3. QED BY <1>3, <2>1, <2>2
  <1>7. ASSUME NEW f \in X, NEW o \in E(f)
        PROVE  /\ val[o] \in 0 .. UNREACHABLE - 1 /\ w2[f] <= val[o] /\ p[1] <= val[o] /\ val[o] < w[f]
               /\ w2[f] # w[f]
    <2>1. o \in C(f) /\ o \in done
      BY <1>2
    <2>2. val[o] < w[f] /\ val[o] \in Nat /\ p[1] <= val[o] /\ w[f] \in Nat /\ w[f] <= UNREACHABLE
      BY <1>1, <2>1 DEF CheaperBy
    <2>3. w2[f] <= val[o] /\ w2[f] \in Nat
      BY <1>3, <2>1
    <2>4. QED BY <1>0, <2>2, <2>3
  <1>8. q2 \subseteq (0 .. UNREACHABLE - 1) \X X /\ \A e \in q2 : w2[e[2]] <= e[1] /\ p[1] <= e[1]
    <2>1. ASSUME NEW e \in q2
          PROVE  e \in (0 .. UNREACHABLE - 1) \X X /\ w2[e[2]] <= e[1] /\ p[1] <= e[1]
      <3>1. CASE e \in q
        <4>1. w[e[2]] <= e[1] /\ e[2] \in X /\ e[1] \in Nat
          BY <1>1, <3>1 DEF QueueOK
        <4>2. w2[e[2]] <= w[e[2]] /\ w2[e[2]] \in Nat /\ w[e[2]] \in Nat
          BY <1>1, <1>3, <4>1
        <4>3. QED BY <1>1, <3>1, <4>1, <4>2
      <3>2. CASE \E f \in X : \E o \in E(f) : e = <<val[o], f>>
        <4>1. PICK f \in X : \E o \in E(f) : e = <<val[o], f>>
          BY <3>2
        <4>2. PICK o \in E(f) : e = <<val[o], f>>
          BY <4>1
        <4>3. QED BY <1>7, <4>2
      <3>3. QED BY <2>1, <3>1, <3>2
    <2>2. QED BY <2>1
  <1>9. ASSUME NEW f \in X
        PROVE  f \in Settled(w2, q2) <=> f \in Settled(w, q) \/ f = p[2]
    <2>1. DOMAIN w = X /\ DOMAIN w2 = X
      BY <1>1
    <2>2. ASSUME f \in Settled(w, q) \/ f = p[2]
          PROVE  f \in Settled(w2, q2)
      <3>1. w2[f] = w[f] /\ C(f) = {}
        BY <1>6, <2>2
      <3>2. w[f] < UNREACHABLE
        BY <1>0, <1>5, <2>2 DEF Settled
      <3>3. <<w[f], f>> \notin q \/ <<w[f], f>> = p
        BY <1>5, <2>2 DEF Settled
      <3>4. \A g \in X : \A o \in E(g) : <<w[f], f>> # <<val[o], g>>
        BY <1>2, <3>1
      <3>5. <<w[f], f>> \notin q2
        BY <3>3, <3>4
      <3>6. QED BY <2>1, <3>1, <3>2, <3>5 DEF Settled
    <2>3. ASSUME f \in Settled(w2, q2), f # p[2]
          PROVE  f \in Settled(w, q)
      <3>1. w2[f] < UNREACHABLE /\ <<w2[f], f>> \notin q2
        BY <2>3 DEF Settled
      <3>2. CASE w2[f] = w[f]
        <4>1. <<w[f], f>> # p
          BY <1>5, <2>3
        <4>2. <<w[f], f>> \notin q
          BY <3>1, <3>2, <4>1
        <4>3. QED BY <2>1, <3>1, <3>2, <4>2 DEF Settled
      <3>3. CASE w2[f] # w[f]
        <4>1. PICK o \in E(f) : w2[f] = val[o]
          BY <1>4, <3>3
        <4>2. <<w2[f], f>> \in q2
          BY <4>1
        <4>3. QED BY <3>1, <4>2
      <3>4. QED BY <3>2, <3>3
    <2>4. QED BY <2>2, <2>3
  <1>10. Settled(w2, q2) = Settled(w, q) \union {p[2]}
    <2>1. Settled(w2, q2) \subseteq X /\ Settled(w, q) \subseteq X
      BY <1>1 DEF Settled
    <2>2. QED BY <1>5, <1>9, <2>1
  <1>11. p[2] \notin Settled(w, q)
    BY <1>5 DEF Settled
  <1>12. \A f \in Settled(w2, q2) : f \in X /\ w2[f] = w[f] /\ w[f] <= p[1] /\ w[f] \in Nat
    <2>1. \A f \in Settled(w2, q2) : f \in X /\ (f \in Settled(w, q) \/ f = p[2])
      BY <1>9 DEF Settled
    <2>2. QED BY <1>1, <1>6, <2>1
  <1>13. \A f \in Settled(w2, q2) : \A e \in q2 : w2[f] <= e[1]
    <2>1. SUFFICES ASSUME NEW f \in Settled(w2, q2), NEW e \in q2
                   PROVE  w2[f] <= e[1]
      OBVIOUS
    <2>2. w2[f] <= p[1] /\ p[1] <= e[1] /\ w2[f] \in Nat /\ p[1] \in Nat /\ e[1] \in Nat
      BY <1>5, <1>8, <1>12
    <2>3. QED BY <2>2
  <1>14. w2 \in [X -> 0 .. UNREACHABLE]
    BY <1>3
  <1>15. QueueOK(X, w2, q2)
    BY <1>8, <1>13, <1>14 DEF QueueOK
  <1>16. \A o \in done : \A f \in add[o] : w2[f] <= val[o]
    <2>1. SUFFICES ASSUME NEW o \in done, NEW f \in add[o]
                   PROVE  w2[f] <= val[o]
      OBVIOUS
    <2>2. f \in X /\ val[o] \in Nat /\ w2[f] \in Nat /\ w[f] \in Nat
      BY <1>1, <1>3
    <2>3. CASE o \in C(f)
      BY <1>3, <2>2, <2>3
    <2>4. CASE o \notin C(f)
      <3>1. ~(val[o] < w[f])
        BY <2>1, <2>4 DEF CheaperBy
      <3>2. w2[f] <= w[f]
        BY <1>3, <2>2
      <3>3. QED BY <2>2, <3>1, <3>2
    <2>5. QED BY <2>3, <2>4
  <1>17. \A f \in X : w2[f] # w[f] <=> E(f) # {}
    BY <1>4, <1>7
  <1>18. QED BY <1>3, <1>5, <1>10, <1>11, <1>12, <1>15, <1>16, <1>17
-----------------------------------------------------------------------------
(* Sets that grow by a step until it adds nothing.                         *)

\* The recursive functions in which Closure, Backward and Mark end.
GrowsBy(X, more, w) == w = [F \in SUBSET X |-> IF more[F] = F THEN F ELSE w[more[F]]]

Inflating(X, more) == Monotone(X, more) /\ \A F \in SUBSET X : F \subseteq more[F]

\* Such a function grows sets, in the sense of the graphs of objects.
LEMMA GrowsByGrows ==
  ASSUME NEW X, NEW more, Inflating(X, more), NEW w
  PROVE  GrowsBy(X, more, w) <=> Grows(X, more, w)
  <1>1. ASSUME NEW F \in SUBSET X
        PROVE  (more[F] = F <=> more[F] \subseteq F) /\ F \union more[F] = more[F]
    BY DEF Inflating
  <1>2. [F \in SUBSET X |-> IF more[F] = F THEN F ELSE w[more[F]]]
        = [F \in SUBSET X |-> IF more[F] \subseteq F THEN F ELSE w[F \union more[F]]]
    BY <1>1
  <1>3. QED BY <1>2 DEF GrowsBy, Grows

\* There is one.
LEMMA GrowthExists ==
  ASSUME NEW X, NEW more, Inflating(X, more)
  PROVE  \E w : GrowsBy(X, more, w)
  BY GrowingExists, GrowsByGrows DEF Inflating

\* Where it ends is the least set that the step adds nothing to.
LEMMA GrowthEnds ==
  ASSUME NEW X, IsFiniteSet(X), NEW more, Inflating(X, more), NEW w, GrowsBy(X, more, w),
         NEW F \in SUBSET X
  PROVE  /\ w[F] \in SUBSET X /\ F \subseteq w[F] /\ more[w[F]] \subseteq w[F]
         /\ \A C \in SUBSET X : F \subseteq C /\ more[C] \subseteq C => w[F] \subseteq C
  <1>1. Monotone(X, more) /\ Grows(X, more, w)
    BY GrowsByGrows DEF Inflating
  <1>2. w[F] = LeastClosed(X, more, F)
    BY <1>1, GrowsToClosure
  <1>3. QED BY <1>1, <1>2, ClosureIsLeast
-----------------------------------------------------------------------------
(* The problem without deletes.                                            *)

\* Operators are numbers, each has a precondition, and one of each is not too dear.
IsModel ==
  /\ IsFiniteSet(rc.facts) /\ NOPREC \notin rc.facts
  /\ \E n \in Nat : Ops = 0 .. n - 1
  /\ rc.prec \in [Ops -> (SUBSET rc.facts) \ {{}}]
  /\ rc.add \in [Ops -> SUBSET rc.facts]
  /\ rc.cost \in [Ops -> Nat]
  /\ \E m \in Nat : (\A o \in Ops : rc.cost[o] <= m) /\ m * numOps < UNREACHABLE

\* What is said of operators, one by one.
LEMMA OpsFacts ==
  ASSUME IsModel
  PROVE  /\ Ops \subseteq Nat /\ IsFiniteSet(Ops) /\ numOps \in Nat /\ Ops = 0 .. numOps - 1
         /\ \A o \in Ops : /\ rc.prec[o] \subseteq rc.facts /\ rc.prec[o] # {} /\ IsFiniteSet(rc.prec[o])
                           /\ rc.add[o] \subseteq rc.facts /\ rc.cost[o] \in Nat
  <1>1. PICK n \in Nat : Ops = 0 .. n - 1
    BY DEF IsModel
  <1>2. IsFiniteSet(0 .. n - 1) /\ Cardinality(0 .. n - 1) = n
    BY FS_Interval
  <1>3. Ops \subseteq Nat /\ IsFiniteSet(Ops) /\ numOps = n
    BY <1>1, <1>2 DEF numOps
  <1>4. ASSUME NEW o \in Ops
        PROVE  /\ rc.prec[o] \subseteq rc.facts /\ rc.prec[o] # {} /\ IsFiniteSet(rc.prec[o])
               /\ rc.add[o] \subseteq rc.facts /\ rc.cost[o] \in Nat
    <2>1. rc.prec[o] \subseteq rc.facts /\ rc.prec[o] # {} /\ rc.add[o] \subseteq rc.facts /\ rc.cost[o] \in Nat
      BY DEF IsModel
    <2>2. IsFiniteSet(rc.prec[o])
      BY <2>1, FS_Subset DEF IsModel
    <2>3. QED BY <2>1, <2>2
  <1>5. QED BY <1>1, <1>3, <1>4

\* The closure holds what is true, what its operators add, and nothing else.
LEMMA ClosureFacts ==
  ASSUME IsModel, NEW F \in SUBSET rc.facts, NEW O \in SUBSET Ops
  PROVE  /\ Closure(F, O) \subseteq rc.facts /\ F \subseteq Closure(F, O)
         /\ \A o \in O : rc.prec[o] \subseteq Closure(F, O) => rc.add[o] \subseteq Closure(F, O)
         /\ \A C : F \subseteq C /\ (\A o \in O : rc.prec[o] \subseteq C => rc.add[o] \subseteq C)
                   => Closure(F, O) \subseteq C
  <1> DEFINE X == rc.facts
             more(A) == A \union UNION {rc.add[o] : o \in {x \in O : rc.prec[x] \subseteq A}}
             step == [A \in SUBSET X |-> more(A)]
             W == CHOOSE w : w = [A \in SUBSET X |-> IF more(A) = A THEN A ELSE w[more(A)]]
  <1>1. Inflating(X, step)
    <2>1. \A A \in SUBSET X : more(A) \in SUBSET X
      BY OpsFacts
    <2>2. step \in [SUBSET X -> SUBSET X]
      BY <2>1
    <2>3. ASSUME NEW A \in SUBSET X, NEW B \in SUBSET X, A \subseteq B
          PROVE  more(A) \subseteq more(B)
      BY <2>3
    <2>4. \A A, B \in SUBSET X : A \subseteq B => step[A] \subseteq step[B]
      BY <2>3
    <2>5. \A A \in SUBSET X : A \subseteq step[A]
      OBVIOUS
    <2>6. QED BY <2>2, <2>4, <2>5 DEF Inflating, Monotone
  <1>2. \A w : GrowsBy(X, step, w) <=> w = [A \in SUBSET X |-> IF more(A) = A THEN A ELSE w[more(A)]]
    <2>1. ASSUME NEW w
          PROVE  [A \in SUBSET X |-> IF step[A] = A THEN A ELSE w[step[A]]]
                 = [A \in SUBSET X |-> IF more(A) = A THEN A ELSE w[more(A)]]
      OBVIOUS
    <2>2. QED BY <2>1 DEF GrowsBy
  <1>3. GrowsBy(X, step, W)
    <2>1. \E w : w = [A \in SUBSET X |-> IF more(A) = A THEN A ELSE w[more(A)]]
      BY <1>1, <1>2, GrowthExists
    <2>2. W = [A \in SUBSET X |-> IF more(A) = A THEN A ELSE W[more(A)]]
      BY <2>1
    <2>3. QED BY <2>2, <1>2
  <1>4. Closure(F, O) = W[F]
    BY DEF Closure
  <1>5. \A A \in SUBSET X : step[A] = more(A)
    OBVIOUS
  <1> HIDE DEF W, step
  <1>6. /\ W[F] \in SUBSET X /\ F \subseteq W[F] /\ step[W[F]] \subseteq W[F]
        /\ \A C \in SUBSET X : F \subseteq C /\ step[C] \subseteq C => W[F] \subseteq C
    <2>1. IsFiniteSet(X)
      BY DEF IsModel
    <2> HIDE DEF X
    <2>2. QED BY <1>1, <1>3, <2>1, GrowthEnds DEF X
  <1>7. \A o \in O : rc.prec[o] \subseteq W[F] => rc.add[o] \subseteq W[F]
    <2>1. more(W[F]) \subseteq W[F]
      BY <1>5, <1>6
    <2>2. QED BY <2>1
  <1>8. ASSUME NEW C, F \subseteq C, \A o \in O : rc.prec[o] \subseteq C => rc.add[o] \subseteq C
        PROVE  W[F] \subseteq C
    <2> DEFINE D == C \intersect X
    <2>1. F \subseteq D /\ D \in SUBSET X
      BY <1>8
    <2>2. \A o \in O : rc.prec[o] \subseteq D => rc.add[o] \subseteq D
      BY <1>8, OpsFacts
    <2>3. more(D) \subseteq D
      BY <2>2
    <2>4. W[F] \subseteq D
      BY <1>5, <1>6, <2>1, <2>3
    <2>5. QED BY <2>4
  <1>9. QED BY <1>4, <1>6, <1>7, <1>8
\* The images of finite sets that make up the facts are finite.
LEMMA NamesFinite ==
  ASSUME NEW A, IsFiniteSet(A)
  PROVE  IsFiniteSet({t2tdr(a) : a \in A}) /\ IsFiniteSet({t2bur(a) : a \in A}) /\ IsFiniteSet(StateFacts(A))
  <1>1. ASSUME NEW B, NEW f \in [A -> B], \A b \in B : \E a \in A : f[a] = b
        PROVE  IsFiniteSet(B)
    <2>1. f \in Surjection(A, B)
      BY <1>1 DEF Surjection
    <2>2. QED BY <2>1, FS_Surjection
  <1>2. IsFiniteSet({t2tdr(a) : a \in A})
    <2> DEFINE B == {t2tdr(a) : a \in A}
               f == [a \in A |-> t2tdr(a)]
    <2>1. f \in [A -> B] /\ \A b \in B : \E a \in A : f[a] = b
      OBVIOUS
    <2> HIDE DEF B, f
    <2>2. IsFiniteSet(B)
      BY <1>1, <2>1
    <2>3. QED BY <2>2 DEF B
  <1>3. IsFiniteSet({t2bur(a) : a \in A})
    <2> DEFINE B == {t2bur(a) : a \in A}
               f == [a \in A |-> t2bur(a)]
    <2>1. f \in [A -> B] /\ \A b \in B : \E a \in A : f[a] = b
      OBVIOUS
    <2> HIDE DEF B, f
    <2>2. IsFiniteSet(B)
      BY <1>1, <2>1
    <2>3. QED BY <2>2 DEF B
  <1>4. IsFiniteSet(StateFacts(A))
    <2> DEFINE B == {StateFact(a) : a \in A}
               f == [a \in A |-> StateFact(a)]
    <2>1. f \in [A -> B] /\ \A b \in B : \E a \in A : f[a] = b
      OBVIOUS
    <2>2. StateFacts(A) = B
      BY DEF StateFacts
    <2> HIDE DEF B, f
    <2>3. QED BY <1>1, <2>1, <2>2
  <1>5. QED BY <1>2, <1>3, <1>4

\* Problems as far as planning is concerned.
LEMMA PlanningFacts ==
  ASSUME htn \in Problems
  PROVE  /\ htn.numActions \in Nat /\ Len(htn.methods) \in Nat /\ Methods = 1 .. Len(htn.methods)
         /\ Actions \subseteq Tasks /\ htn.initialTask \in Tasks
         /\ \A a \in Actions : /\ htn.precLists[a] \subseteq htn.facts /\ htn.addLists[a] \subseteq htn.facts
                               /\ htn.actionCosts[a] \in Nat
         /\ \A m \in Methods : /\ htn.methods[m].task \in Tasks /\ htn.methods[m].task \notin Actions
                               /\ subTasks(m) \in Seq(Tasks) /\ subTasks(m) # <<>>
         /\ IsFiniteSet(htn.facts) /\ htn.s0 \subseteq htn.facts /\ htn.gList \subseteq htn.facts
  <1>1. /\ htn.numTasks \in Nat /\ htn.numActions \in 0 .. htn.numTasks
        /\ htn.methods \in Seq([task : htn.numActions .. htn.numTasks - 1,
                                subTasks : Seq(0 .. htn.numTasks - 1) \ {<<>>}])
    BY ProblemsAssumption
  <1>2. htn.numActions \in Nat /\ htn.numActions <= htn.numTasks /\ htn.initialTask \in Tasks
    BY <1>1, ProblemFacts
  <1>3. Actions \subseteq Tasks
    BY <1>1, <1>2 DEF Actions, Tasks
  <1> DEFINE M1 == [task : htn.numActions .. htn.numTasks - 1, subTasks : Seq(0 .. htn.numTasks - 1) \ {<<>>}]
  <1>4. Len(htn.methods) \in Nat /\ DOMAIN htn.methods = 1 .. Len(htn.methods)
        /\ \A m \in DOMAIN htn.methods : htn.methods[m] \in M1
    <2>1. htn.methods \in Seq(M1)
      BY <1>1
    <2> HIDE DEF M1
    <2>2. QED BY <2>1, SeqParts
  <1>5. ASSUME NEW m \in Methods
        PROVE  /\ htn.methods[m].task \in Tasks /\ htn.methods[m].task \notin Actions
               /\ subTasks(m) \in Seq(Tasks) /\ subTasks(m) # <<>>
    <2>1. htn.methods[m] \in M1
      BY <1>4 DEF Methods
    <2>2. htn.methods[m].task \in htn.numActions .. htn.numTasks - 1
          /\ htn.methods[m].subTasks \in Seq(0 .. htn.numTasks - 1) /\ htn.methods[m].subTasks # <<>>
      BY <2>1
    <2>3. htn.methods[m].task \in Tasks /\ htn.methods[m].task \notin Actions
      <3>1. \A t \in htn.numActions .. htn.numTasks - 1 : t \in 0 .. htn.numTasks - 1 /\ t \notin 0 .. htn.numActions - 1
        BY <1>1, <1>2
      <3>2. QED BY <2>2, <3>1 DEF Tasks, Actions
    <2>4. QED BY <2>2, <2>3 DEF Tasks, subTasks
  <1>6. htn.actionCosts \in [0 .. htn.numActions - 1 -> Nat]
    BY CostsAssumption
  <1>7. /\ \A lists \in {htn.precLists, htn.addLists, htn.delLists} :
             lists \in [0 .. htn.numActions - 1 -> SUBSET htn.facts]
        /\ IsFiniteSet(htn.facts) /\ htn.s0 \subseteq htn.facts /\ htn.gList \subseteq htn.facts
    BY PlanningAssumption
  <1>8. htn.precLists \in [Actions -> SUBSET htn.facts] /\ htn.addLists \in [Actions -> SUBSET htn.facts]
    BY <1>7 DEF Actions
  <1>9. ASSUME NEW a \in Actions
        PROVE  htn.precLists[a] \subseteq htn.facts /\ htn.addLists[a] \subseteq htn.facts
               /\ htn.actionCosts[a] \in Nat
    <2>1. htn.actionCosts[a] \in Nat
      BY <1>6 DEF Actions
    <2>2. QED BY <1>8, <2>1
  <1>10. QED BY <1>2, <1>3, <1>4, <1>5, <1>7, <1>9 DEF Methods

\* The dearest operator is cheap enough for one of each, and one for each step.
LEMMA PricesFit ==
  ASSUME htn \in Problems
  PROVE  \E m \in Nat : /\ htn.numActions + Len(htn.methods) > 0 => m >= 1
                        /\ \A a \in Actions : htn.actionCosts[a] <= m
                        /\ m * (htn.numActions + Len(htn.methods) + htn.maxSteps) < UNREACHABLE
  <1> DEFINE n == htn.numActions + Len(htn.methods) + htn.maxSteps
             T == {1} \union {htn.actionCosts[a] : a \in Actions}
  <1>1. n \in Nat /\ htn.numActions \in Nat /\ Len(htn.methods) \in Nat /\ htn.maxSteps \in Nat
        /\ T \in SUBSET Nat /\ 1 \in T
    BY PlanningFacts, PlanningAssumption
  <1>2. \A price \in T : price * n < UNREACHABLE
    BY CostsFit DEF Actions
  <1>3. CASE n = 0
    <2>1. htn.numActions + Len(htn.methods) = 0 /\ htn.numActions = 0
      BY <1>1, <1>3
    <2>2. Actions = {}
      BY <2>1 DEF Actions
    <2>3. 0 * n < UNREACHABLE
      BY <1>3, UnreachableIsLarge
    <2>4. QED BY <2>1, <2>2, <2>3
  <1>4. CASE n # 0
    <2> HIDE DEF n, T
    <2>1. \A price \in T : price <= UNREACHABLE
      <3>1. SUFFICES ASSUME NEW price \in T
                     PROVE  price <= UNREACHABLE
        OBVIOUS
      <3>2. price \in Nat /\ n \in Nat /\ n >= 1
        BY <1>1, <1>4
      <3>3. price <= price * n
        BY <3>2
      <3>4. price * n < UNREACHABLE /\ price * n \in Nat
        BY <1>2, <3>2
      <3>5. QED BY <3>2, <3>3, <3>4, UnreachableIsLarge
    <2>2. PICK m \in T : \A y \in T : y <= m
      <3>1. T # {}
        BY <1>1
      <3>2. QED BY <1>1, <2>1, <3>1, GreatestNumber, UnreachableIsLarge
    <2>3. m \in Nat /\ m >= 1 /\ m * n < UNREACHABLE
      BY <1>1, <1>2, <2>2
    <2>4. \A a \in Actions : htn.actionCosts[a] <= m
      BY <2>2 DEF T
    <2>5. QED BY <2>3, <2>4 DEF n
  <1>5. QED BY <1>3, <1>4

\* What getRCmodelSTRIPS builds is such a problem.
LEMMA RCModelIsModel ==
  ASSUME htn \in Problems, rc = RCModel
  PROVE  /\ IsModel /\ Ops = 0 .. htn.numActions + Len(htn.methods) - 1
         /\ \E m \in Nat : /\ \A o \in Ops : rc.cost[o] <= m
                           /\ \A a \in Actions : htn.actionCosts[a] <= m
                           /\ m * (numOps + htn.maxSteps) < UNREACHABLE
  <1> DEFINE n == htn.numActions + Len(htn.methods)
             Operators == 0 .. htn.numActions + Len(htn.methods) - 1
             methodOf(o) == o - htn.numActions + 1
             X == StateFacts(htn.facts) \union {t2tdr(a) : a \in Actions} \union {t2bur(t) : t \in Tasks}
             P(o) == IF o \in Actions THEN StateFacts(htn.precLists[o]) \union {t2tdr(o)}
                     ELSE ComposedOf(methodOf(o))
             A(o) == IF o \in Actions THEN StateFacts(htn.addLists[o]) \union {t2bur(o)}
                     ELSE {t2bur(htn.methods[methodOf(o)].task)}
             C(o) == IF o \in Actions
                       THEN IF options.estimate = "estDISTANCE" THEN 1 ELSE htn.actionCosts[o]
                       ELSE IF options.estimate = "estCOSTS" THEN 0 ELSE 1
  <1>1. /\ rc.facts = X /\ rc.prec = [o \in Operators |-> P(o)]
        /\ rc.add = [o \in Operators |-> A(o)] /\ rc.cost = [o \in Operators |-> C(o)]
    <2>1. rc = [facts |-> X, prec |-> [o \in Operators |-> P(o)], add |-> [o \in Operators |-> A(o)],
                cost |-> [o \in Operators |-> C(o)]]
      BY Zenon DEF RCModel
    <2> HIDE DEF X, P, A, C
    <2>2. QED BY <2>1
  <1>2. n \in Nat /\ Operators = 0 .. n - 1
    BY PlanningFacts
  <1>3. Ops = 0 .. n - 1
    <2>1. DOMAIN [o \in Operators |-> P(o)] = Operators
      OBVIOUS
    <2> HIDE DEF P, Operators, n
    <2>2. QED BY <1>1, <1>2, <2>1 DEF Ops
  <1>4. ASSUME NEW o \in 0 .. n - 1, o \notin Actions
        PROVE  methodOf(o) \in Methods
    BY <1>4, PlanningFacts DEF Actions
  <1>5. ASSUME NEW o \in 0 .. n - 1
        PROVE  P(o) \subseteq X /\ P(o) # {}
    <2>1. CASE o \in Actions
      BY <2>1, PlanningFacts DEF StateFacts
    <2>2. CASE o \notin Actions
      <3> DEFINE s == subTasks(methodOf(o))
      <3>1. s \in Seq(Tasks) /\ s # <<>>
        BY <1>4, <2>2, PlanningFacts
      <3> HIDE DEF s
      <3>2. ToSet(s) \subseteq Tasks /\ s[1] \in ToSet(s)
        <4>1. 1 \in DOMAIN s
          BY <3>1, SeqParts, EmptySeq
        <4>2. QED BY <3>1, <4>1, SeqParts
      <3>3. {t2bur(t) : t \in ToSet(s)} \subseteq X /\ t2bur(s[1]) \in {t2bur(t) : t \in ToSet(s)}
        BY <3>2
      <3>4. P(o) = {t2bur(t) : t \in ToSet(s)}
        BY <2>2 DEF ComposedOf, s
      <3> HIDE DEF P
      <3>5. QED BY <3>3, <3>4
    <2>3. QED BY <2>1, <2>2
  <1>6. ASSUME NEW o \in 0 .. n - 1
        PROVE  A(o) \subseteq X
    <2>1. CASE o \in Actions
      BY <2>1, PlanningFacts DEF StateFacts
    <2>2. CASE o \notin Actions
      <3>1. htn.methods[methodOf(o)].task \in Tasks
        BY <1>4, <2>2, PlanningFacts
      <3>2. QED BY <2>2, <3>1
    <2>3. QED BY <2>1, <2>2
  <1>7. ASSUME NEW o \in 0 .. n - 1
        PROVE  C(o) \in Nat
    BY PlanningFacts
  <1>8. PICK m \in Nat : /\ n > 0 => m >= 1
                         /\ \A a \in Actions : htn.actionCosts[a] <= m
                         /\ m * (n + htn.maxSteps) < UNREACHABLE
    BY PricesFit
  <1>9. \A o \in 0 .. n - 1 : C(o) <= m
    <2>1. SUFFICES ASSUME NEW o \in 0 .. n - 1
                   PROVE  C(o) <= m
      OBVIOUS
    <2>2. m >= 1 /\ m \in Nat
      BY <1>2, <1>8
    <2>3. QED BY <1>8, <2>2
  <1>10. IsFiniteSet(X)
    <2>1. IsFiniteSet(Tasks) /\ Actions \subseteq Tasks /\ IsFiniteSet(htn.facts)
      BY PlanningFacts, ProblemFacts
    <2>2. IsFiniteSet(Actions)
      BY <2>1, FS_Subset
    <2>3. IsFiniteSet({t2tdr(a) : a \in Actions}) /\ IsFiniteSet({t2bur(t) : t \in Tasks})
          /\ IsFiniteSet(StateFacts(htn.facts))
      BY <2>1, <2>2, NamesFinite
    <2>4. QED BY <2>3, FS_Union
  <1>11. NOPREC \notin X
    BY DEF NOPREC, StateFacts, StateFact, t2tdr, t2bur
  <1> HIDE DEF X, P, A, C, n, Operators
  <1>12. /\ rc.prec \in [Ops -> (SUBSET rc.facts) \ {{}}] /\ rc.add \in [Ops -> SUBSET rc.facts]
         /\ rc.cost \in [Ops -> Nat]
    BY <1>1, <1>2, <1>3, <1>5, <1>6, <1>7
  <1>13. numOps = n
    BY <1>2, <1>3, FS_Interval DEF numOps
  <1>14. \A o \in Ops : rc.cost[o] <= m
    BY <1>1, <1>2, <1>3, <1>9
  <1>15. m * numOps < UNREACHABLE /\ m * (numOps + htn.maxSteps) < UNREACHABLE
    <2>1. htn.maxSteps \in Nat
      BY PlanningAssumption
    <2>2. n + htn.maxSteps \in Nat /\ n <= n + htn.maxSteps
      BY <1>2, <2>1
    <2>3. m * n <= m * (n + htn.maxSteps) /\ m * n \in Nat /\ m * (n + htn.maxSteps) \in Nat
      BY <1>2, <2>2, TimesMore
    <2>4. m * n < UNREACHABLE
      BY <1>8, <2>3, UnreachableIsLarge
    <2>5. QED BY <1>8, <1>13, <2>4
  <1>16. IsModel
    <2>1. \E k \in Nat : Ops = 0 .. k - 1
      BY <1>2, <1>3
    <2>2. \E k \in Nat : (\A o \in Ops : rc.cost[o] <= k) /\ k * numOps < UNREACHABLE
      BY <1>8, <1>14, <1>15
    <2>3. IsFiniteSet(rc.facts) /\ NOPREC \notin rc.facts
      BY <1>1, <1>10, <1>11
    <2>4. QED BY <1>12, <2>1, <2>2, <2>3 DEF IsModel
  <1>17. QED BY <1>2, <1>3, <1>8, <1>14, <1>15, <1>16 DEF Operators
-----------------------------------------------------------------------------
(* LM-Cut: the values of facts.                                            *)

\* The facts whose value is final, and the operators that have all their preconditions there.
Reached == Settled(hMaxVal, heap)
DoneOps == {o \in Ops : unsatPrecs[o] = 0}

\* An operator counts the preconditions it waits for, and knows a final one, the dearest when it
\* is done.  Then what it adds is no dearer than that and its own costs; and as each operator is
\* done once, no value gets too large.
HMaxOK ==
  /\ QueueOK(rc.facts, hMaxVal, heap)
  /\ costs \in [Ops -> Nat] /\ \A o \in Ops : costs[o] <= rc.cost[o]
  /\ s0set \subseteq rc.facts /\ \A f \in s0set : hMaxVal[f] = 0
  /\ unsatPrecs = [o \in Ops |-> Cardinality(rc.prec[o] \ Reached)]
  /\ maxPrec \in [Ops -> rc.facts \union {NOPREC}]
  /\ \A o \in Ops : IF rc.prec[o] \intersect Reached = {} THEN maxPrec[o] = NOPREC
                    ELSE maxPrec[o] \in rc.prec[o] \intersect Reached
  /\ \A o \in DoneOps : \A f \in rc.add[o] : hMaxVal[f] <= hMaxVal[maxPrec[o]] + costs[o]
  /\ \A m \in Nat : (\A o \in Ops : rc.cost[o] <= m) =>
       /\ \A f \in rc.facts : hMaxVal[f] < UNREACHABLE => hMaxVal[f] <= m * Cardinality(DoneOps)
       /\ \A o \in DoneOps : hMaxVal[maxPrec[o]] + costs[o] <= m * Cardinality(DoneOps)

\* Operators have what they wait for, or wait.
LEMMA DoneIs ==
  ASSUME IsModel, HMaxOK
  PROVE  /\ Reached \subseteq rc.facts /\ DoneOps \subseteq Ops /\ IsFiniteSet(DoneOps)
         /\ \A o \in Ops : o \in DoneOps <=> rc.prec[o] \subseteq Reached
         /\ \A o \in DoneOps : maxPrec[o] \in rc.prec[o] \intersect Reached
         /\ \A o \in Ops : unsatPrecs[o] \in Nat /\ unsatPrecs[o] = Cardinality(rc.prec[o] \ Reached)
  <1>1. Reached \subseteq rc.facts
    BY DEF HMaxOK, QueueOK, Reached, Settled
  <1>2. DoneOps \subseteq Ops /\ IsFiniteSet(DoneOps)
    BY OpsFacts, FS_Subset DEF DoneOps
  <1>3. ASSUME NEW o \in Ops
        PROVE  /\ o \in DoneOps <=> rc.prec[o] \subseteq Reached
               /\ unsatPrecs[o] \in Nat /\ unsatPrecs[o] = Cardinality(rc.prec[o] \ Reached)
    <2> DEFINE W == rc.prec[o] \ Reached
    <2>1. unsatPrecs[o] = Cardinality(W)
      BY DEF HMaxOK
    <2>2. IsFiniteSet(W)
      BY OpsFacts, FS_Difference
    <2>3. Cardinality(W) = 0 <=> W = {}
      BY <2>2, FS_EmptySet
    <2>4. Cardinality(W) \in Nat
      BY <2>2, FS_CardinalityType
    <2>5. o \in DoneOps <=> W = {}
      BY <2>1, <2>3 DEF DoneOps
    <2>6. QED BY <2>1, <2>4, <2>5
  <1>4. ASSUME NEW o \in DoneOps
        PROVE  maxPrec[o] \in rc.prec[o] \intersect Reached
    <2>1. o \in Ops /\ rc.prec[o] \subseteq Reached /\ rc.prec[o] # {}
      BY <1>2, <1>3, OpsFacts
    <2>2. rc.prec[o] \intersect Reached # {}
      BY <2>1
    <2>3. QED BY <2>1, <2>2 DEF HMaxOK
  <1>5. QED BY <1>1, <1>2, <1>3, <1>4

\* Before the first fact has been popped.
LEMMA StartHMaxKeeps ==
  ASSUME IsModel, rc' = rc, NEW s \in SUBSET rc.facts, s0set' = s, StartHMax(s),
         costs' \in [Ops -> Nat], \A o \in Ops : costs'[o] <= rc.cost[o]
  PROVE  HMaxOK'
  <1>1. /\ unsatPrecs' = [o \in Ops |-> Cardinality(rc.prec[o])]
        /\ maxPrec' = [o \in Ops |-> NOPREC]
        /\ hMaxVal' = [f \in rc.facts |-> IF f \in s THEN 0 ELSE UNREACHABLE]
        /\ heap' = {<<0, f>> : f \in s}
        /\ Ops' = Ops
    BY DEF StartHMax, Ops
  <1>2. UNREACHABLE \in Nat /\ UNREACHABLE > 0
    BY UnreachableIsLarge
  <1>3. hMaxVal' \in [rc.facts -> 0 .. UNREACHABLE] /\ heap' \subseteq (0 .. UNREACHABLE - 1) \X rc.facts
    BY <1>1, <1>2
  <1>4. \A f \in rc.facts : hMaxVal'[f] < UNREACHABLE => f \in s /\ hMaxVal'[f] = 0
    BY <1>1, <1>2
  <1>5. Settled(hMaxVal', heap') = {}
    <2>1. SUFFICES ASSUME NEW f \in Settled(hMaxVal', heap')
                   PROVE  FALSE
      OBVIOUS
    <2>2. f \in rc.facts /\ hMaxVal'[f] < UNREACHABLE /\ <<hMaxVal'[f], f>> \notin heap'
      BY <1>1 DEF Settled
    <2>3. f \in s /\ hMaxVal'[f] = 0
      BY <1>4, <2>2
    <2>4. <<0, f>> \in heap'
      BY <1>1, <2>3
    <2>5. QED BY <2>2, <2>3, <2>4
  <1>6. QueueOK(rc.facts, hMaxVal', heap')
    <2>1. \A e \in heap' : hMaxVal'[e[2]] <= e[1]
      BY <1>1
    <2>2. QED BY <1>3, <1>5, <2>1 DEF QueueOK
  <1>7. Reached' = {}
    BY <1>5 DEF Reached
  <1>8. DoneOps' = {}
    <2>1. SUFFICES ASSUME NEW o \in Ops, unsatPrecs'[o] = 0
                   PROVE  FALSE
      BY <1>1 DEF DoneOps
    <2>2. IsFiniteSet(rc.prec[o]) /\ rc.prec[o] # {} /\ Cardinality(rc.prec[o]) = 0
      BY <1>1, <2>1, OpsFacts
    <2>3. QED BY <2>2, FS_EmptySet
  <1>9. Cardinality(DoneOps') = 0
    BY <1>8, FS_EmptySet
  <1>10. unsatPrecs' = [o \in Ops |-> Cardinality(rc.prec[o] \ Reached')]
    <2>1. \A o \in Ops : rc.prec[o] \ Reached' = rc.prec[o]
      BY <1>7
    <2>2. QED BY <1>1, <2>1
  <1>11. maxPrec' \in [Ops -> rc.facts \union {NOPREC}]
    BY <1>1
  <1>12. \A o \in Ops : IF rc.prec[o] \intersect Reached' = {} THEN maxPrec'[o] = NOPREC
                        ELSE maxPrec'[o] \in rc.prec[o] \intersect Reached'
    BY <1>1, <1>7
  <1>13. \A f \in s : hMaxVal'[f] = 0
    BY <1>1
  <1>14. \A m \in Nat : (\A o \in Ops : rc.cost[o] <= m) =>
           /\ \A f \in rc.facts : hMaxVal'[f] < UNREACHABLE => hMaxVal'[f] <= m * Cardinality(DoneOps')
           /\ \A o \in DoneOps' : hMaxVal'[maxPrec'[o]] + costs'[o] <= m * Cardinality(DoneOps')
    <2>1. SUFFICES ASSUME NEW m \in Nat, NEW f \in rc.facts, hMaxVal'[f] < UNREACHABLE
                   PROVE  hMaxVal'[f] <= m * Cardinality(DoneOps')
      BY <1>8
    <2>2. m * 0 = 0
      OBVIOUS
    <2>3. QED BY <1>4, <1>9, <2>1, <2>2
  <1>15. QED BY <1>1, <1>6, <1>8, <1>10, <1>11, <1>12, <1>13, <1>14 DEF HMaxOK

\* A fact is popped: what gets a value then is added by an operator all of whose preconditions have one.
LEMMA PropagateKeeps ==
  ASSUME IsModel, HMaxOK, Propagate
  PROVE  /\ HMaxOK'
         /\ \A f \in rc.facts : hMaxVal'[f] < UNREACHABLE =>
              \/ hMaxVal[f] < UNREACHABLE
              \/ \E o \in Ops : f \in rc.add[o] /\ \A x \in rc.prec[o] : hMaxVal[x] < UNREACHABLE
  <1> DEFINE X == rc.facts
             touched(p) == {o \in Ops : p[2] \in rc.prec[o]}
             done(p) == {o \in touched(p) : unsatPrecs[o] = 1}
             dearest(p) == [o \in Ops |-> IF o \in touched(p) /\ Dearer(o, p[2]) THEN p[2] ELSE maxPrec[o]]
             value(p, o) == hMaxVal[dearest(p)[o]] + costs[o]
             cheaper(p, f) == {o \in done(p) : f \in rc.add[o] /\ value(p, o) < hMaxVal[f]}
             taking(p, f) == {o \in cheaper(p, f) : \A e \in cheaper(p, f) : e < o => value(p, o) < value(p, e)}
  <1>1. PICK p \in heap :
          /\ IsOnTop(p) /\ hMaxVal[p[2]] = p[1]
          /\ maxPrec' = dearest(p)
          /\ unsatPrecs' = [o \in Ops |-> IF o \in touched(p) THEN unsatPrecs[o] - 1 ELSE unsatPrecs[o]]
          /\ hMaxVal' = [f \in rc.facts |-> Min({hMaxVal[f]} \union {value(p, o) : o \in cheaper(p, f)})]
          /\ heap' = (heap \ {p}) \union UNION {{<<value(p, o), f>> : o \in taking(p, f)} : f \in rc.facts}
    BY Zenon DEF Propagate
  <1>2. rc' = rc /\ s0set' = s0set /\ costs' = costs /\ Ops' = Ops
    BY DEF Propagate, callVars, Ops
  <1> DEFINE T == touched(p)
             N == done(p)
             best == dearest(p)
             val == [o \in N |-> hMaxVal[best[o]] + costs[o]]
  <1>3. /\ \A o \in Ops : o \in T <=> p[2] \in rc.prec[o]
        /\ T \subseteq Ops /\ N \subseteq T /\ \A o \in T : o \in N <=> unsatPrecs[o] = 1
    OBVIOUS
  <1>4. \A o \in Ops : best[o] = IF o \in T /\ Dearer(o, p[2]) THEN p[2] ELSE maxPrec[o]
    OBVIOUS
  <1>5. /\ \A f \in X : cheaper(p, f) = CheaperBy(rc.add, N, val, hMaxVal, f)
        /\ \A f \in X : taking(p, f) = Entering(rc.add, N, val, hMaxVal, f)
    <2>1. \A o \in N : val[o] = value(p, o)
      OBVIOUS
    <2> HIDE DEF val, value, done
    <2>2. \A f \in X : cheaper(p, f) = CheaperBy(rc.add, N, val, hMaxVal, f)
      BY <2>1 DEF CheaperBy
    <2>3. ASSUME NEW f \in X
          PROVE  taking(p, f) = Entering(rc.add, N, val, hMaxVal, f)
      <3>1. cheaper(p, f) = CheaperBy(rc.add, N, val, hMaxVal, f) /\ cheaper(p, f) \subseteq N
        BY <2>2
      <3> HIDE DEF cheaper
      <3>2. QED BY <2>1, <3>1 DEF Entering
    <2>4. QED BY <2>2, <2>3
  <1>6. \A f \in X : \A o \in N : val[o] = value(p, o)
    OBVIOUS
  <1>7. /\ maxPrec' = best /\ unsatPrecs' = [o \in Ops |-> IF o \in T THEN unsatPrecs[o] - 1 ELSE unsatPrecs[o]]
    BY <1>1
  <1>8. hMaxVal' = [f \in X |-> Best(rc.add, N, val, hMaxVal, f)]
    <2>1. \A f \in X : {value(p, o) : o \in cheaper(p, f)} = {val[o] : o \in CheaperBy(rc.add, N, val, hMaxVal, f)}
      <3>1. \A f \in X : cheaper(p, f) \subseteq N
        OBVIOUS
      <3> HIDE DEF val, value, cheaper, done
      <3>2. QED BY <1>5, <1>6, <3>1
    <2> HIDE DEF val, value, cheaper, done
    <2>2. QED BY <1>1, <2>1 DEF Best
  <1>9. \A e : e \in heap' <=> \/ e \in heap /\ e # p
                               \/ \E f \in X : \E o \in Entering(rc.add, N, val, hMaxVal, f) : e = <<val[o], f>>
    <2>1. \A f \in X : \A o \in taking(p, f) : value(p, o) = val[o]
      OBVIOUS
    <2> HIDE DEF val, value, cheaper, done, taking
    <2>2. QED BY <1>1, <1>5, <2>1
  <1> HIDE DEF touched, done, dearest, value, cheaper, taking, T, N, best
  <1>10. QueueOK(X, hMaxVal, heap) /\ UNREACHABLE \in Nat
    BY UnreachableIsLarge DEF HMaxOK
  <1>11. /\ p \in heap /\ (\A e \in heap : p[1] <= e[1]) /\ hMaxVal[p[2]] = p[1]
         /\ p[2] \in X /\ p[1] \in 0 .. UNREACHABLE - 1
         /\ \A f \in X : hMaxVal[f] \in 0 .. UNREACHABLE
    <2>1. \A e \in heap : p[1] <= e[1]
      BY <1>1 DEF IsOnTop
    <2>2. QED BY <1>1, <1>10, <2>1 DEF QueueOK
  <1>12. p[2] \notin Reached /\ Reached \subseteq X
    <2>1. <<hMaxVal[p[2]], p[2]>> = p
      BY <1>10, <1>11 DEF QueueOK
    <2>2. p[2] \notin Settled(hMaxVal, heap)
      BY <1>11, <2>1 DEF Settled
    <2>3. QED BY <2>2, DoneIs DEF Reached
  <1>13. ASSUME NEW o \in N
         PROVE  /\ o \in Ops /\ best[o] \in X /\ hMaxVal[best[o]] \in 0 .. UNREACHABLE - 1
                /\ p[1] <= hMaxVal[best[o]] /\ costs[o] \in Nat
                /\ best[o] \in rc.prec[o] /\ (best[o] = p[2] \/ best[o] \in Reached)
    <2>1. o \in Ops /\ o \in T /\ p[2] \in rc.prec[o] /\ costs[o] \in Nat
      BY <1>3 DEF HMaxOK
    <2>2. CASE Dearer(o, p[2])
      BY <1>4, <1>11, <2>1, <2>2
    <2>3. CASE ~Dearer(o, p[2])
      <3>1. best[o] = maxPrec[o] /\ maxPrec[o] # NOPREC /\ ~(hMaxVal[maxPrec[o]] < hMaxVal[p[2]])
        BY <1>4, <2>1, <2>3 DEF Dearer
      <3>2. maxPrec[o] \in rc.prec[o] \intersect Reached
        BY <2>1, <3>1 DEF HMaxOK
      <3>3. hMaxVal[maxPrec[o]] < UNREACHABLE /\ maxPrec[o] \in X
        BY <1>12, <3>2 DEF Reached, Settled
      <3>4. hMaxVal[maxPrec[o]] \in Nat /\ hMaxVal[p[2]] \in Nat
        BY <1>11, <3>3
      <3>5. p[1] <= hMaxVal[best[o]]
        BY <1>11, <3>1, <3>4
      <3>6. QED BY <1>10, <2>1, <3>1, <3>2, <3>3, <3>4, <3>5
    <2>4. QED BY <2>2, <2>3
  <1>14. /\ N \in SUBSET Nat /\ val \in [N -> Nat] /\ (\A o \in N : p[1] <= val[o])
         /\ (\A o \in N : rc.add[o] \in SUBSET X)
    <2>1. N \in SUBSET Nat
      BY <1>13, OpsFacts
    <2>2. \A o \in N : hMaxVal[best[o]] + costs[o] \in Nat /\ p[1] <= hMaxVal[best[o]] + costs[o]
      <3>1. SUFFICES ASSUME NEW o \in N
                     PROVE  hMaxVal[best[o]] + costs[o] \in Nat /\ p[1] <= hMaxVal[best[o]] + costs[o]
        OBVIOUS
      <3>2. hMaxVal[best[o]] \in Nat /\ p[1] <= hMaxVal[best[o]] /\ costs[o] \in Nat /\ p[1] \in Nat
        BY <1>11, <1>13
      <3>3. QED BY <3>2
    <2>3. QED BY <1>13, <2>1, <2>2, OpsFacts
  <1>15. \A o \in N : val[o] = hMaxVal[best[o]] + costs[o]
    OBVIOUS
  <1> HIDE DEF val
  <1>16. hMaxVal' \in [X -> Int]
    <2>1. ASSUME NEW f \in X
          PROVE  Best(rc.add, N, val, hMaxVal, f) \in Int
      <3> DEFINE C == CheaperBy(rc.add, N, val, hMaxVal, f)
                 V == {hMaxVal[f]} \union {val[o] : o \in C}
      <3>1. hMaxVal[f] \in Nat
        BY <1>11
      <3>0. C \subseteq N
        BY Zenon DEF CheaperBy
      <3> HIDE DEF C
      <3>2. V \in SUBSET Nat /\ V # {}
        BY <3>0, <3>1, <1>14
      <3> HIDE DEF V
      <3>3. Min(V) \in Nat
        BY <3>2, MinOfNumbers
      <3>4. QED BY <3>3 DEF V, C, Best
    <2>2. QED BY <1>8, <2>1
  <1>17. \A f \in X : hMaxVal'[f] = Best(rc.add, N, val, hMaxVal, f)
    BY <1>8
  <1>18. /\ QueueOK(X, hMaxVal', heap')
         /\ Settled(hMaxVal', heap') = Settled(hMaxVal, heap) \union {p[2]}
         /\ \A f \in Settled(hMaxVal', heap') : hMaxVal'[f] = hMaxVal[f]
         /\ \A f \in X : hMaxVal'[f] <= hMaxVal[f]
         /\ \A f \in X : hMaxVal'[f] # hMaxVal[f] =>
              \E o \in CheaperBy(rc.add, N, val, hMaxVal, f) : hMaxVal'[f] = val[o]
         /\ \A o \in N : \A f \in rc.add[o] : hMaxVal'[f] <= val[o]
    <2>1. Pops(X, hMaxVal, heap, p, N, val, rc.add, hMaxVal', heap')
      BY <1>9, <1>10, <1>11, <1>14, <1>16, <1>17 DEF Pops
    <2>2. QED BY <2>1, QueueStep
  <1>19. Reached' = Reached \union {p[2]} /\ \A f \in Reached' : f \in X /\ hMaxVal'[f] = hMaxVal[f]
    BY <1>11, <1>12, <1>18 DEF Reached
  <1>20. ASSUME NEW o \in Ops
         PROVE  /\ unsatPrecs'[o] = Cardinality(rc.prec[o] \ Reached')
                /\ o \in T => unsatPrecs[o] >= 1
                /\ unsatPrecs'[o] = 0 <=> o \in DoneOps \/ o \in N
                /\ ~(o \in DoneOps /\ o \in T)
    <2>1. unsatPrecs[o] = Cardinality(rc.prec[o] \ Reached) /\ unsatPrecs[o] \in Nat
      BY DoneIs
    <2>2. o \in DoneOps <=> unsatPrecs[o] = 0
      BY DEF DoneOps
    <2>3. CASE o \in T
      <3> DEFINE A == rc.prec[o] \ Reached
                 B == rc.prec[o] \ Reached'
      <3>1. p[2] \in A /\ B = A \ {p[2]}
        BY <1>3, <1>12, <1>19, <2>3
      <3>2. IsFiniteSet(A)
        BY OpsFacts, FS_Difference
      <3> HIDE DEF A, B
      <3>3. Cardinality(B) = Cardinality(A) - 1
        BY <3>1, <3>2, FS_RemoveElement
      <3>4. Cardinality(A) # 0
        BY <3>1, <3>2, FS_EmptySet
      <3>5. unsatPrecs'[o] = unsatPrecs[o] - 1 /\ unsatPrecs[o] = Cardinality(A)
        BY <1>7, <2>1, <2>3 DEF A
      <3>6. o \in N <=> unsatPrecs[o] = 1
        BY <1>3, <2>3
      <3>7. unsatPrecs[o] >= 1 /\ unsatPrecs'[o] = Cardinality(B)
        BY <2>1, <3>3, <3>4, <3>5
      <3>8. unsatPrecs'[o] = 0 <=> unsatPrecs[o] = 1
        BY <2>1, <3>5
      <3>9. QED BY <2>2, <2>3, <3>6, <3>7, <3>8 DEF B
    <2>4. CASE o \notin T
      <3>1. rc.prec[o] \ Reached' = rc.prec[o] \ Reached
        BY <1>3, <1>19, <2>4
      <3>2. unsatPrecs'[o] = unsatPrecs[o] /\ o \notin N
        BY <1>3, <1>7, <2>4
      <3>3. QED BY <2>1, <2>2, <2>4, <3>1, <3>2
    <2>5. QED BY <2>3, <2>4
  <1>21. DoneOps' = DoneOps \union N /\ DoneOps \intersect N = {} /\ IsFiniteSet(DoneOps')
    <2>1. DoneOps' = {o \in Ops : unsatPrecs'[o] = 0}
      BY <1>2 DEF DoneOps
    <2>2. DoneOps \subseteq Ops /\ N \subseteq Ops /\ N \subseteq T
      BY <1>3 DEF DoneOps
    <2>3. DoneOps' = DoneOps \union N /\ DoneOps \intersect N = {}
      BY <1>20, <2>1, <2>2
    <2>4. IsFiniteSet(DoneOps')
      BY <2>2, <2>3, OpsFacts, FS_Subset
    <2>5. QED BY <2>3, <2>4
  <1>22. unsatPrecs' = [o \in Ops |-> Cardinality(rc.prec[o] \ Reached')]
    <2>1. unsatPrecs' = [o \in Ops |-> unsatPrecs'[o]]
      BY <1>7
    <2>2. QED BY <1>20, <2>1
  <1>23. ASSUME NEW o \in Ops
         PROVE  /\ best[o] \in X \union {NOPREC}
                /\ IF rc.prec[o] \intersect Reached' = {} THEN best[o] = NOPREC
                   ELSE best[o] \in rc.prec[o] \intersect Reached'
    <2>1. /\ maxPrec[o] \in X \union {NOPREC}
          /\ IF rc.prec[o] \intersect Reached = {} THEN maxPrec[o] = NOPREC
             ELSE maxPrec[o] \in rc.prec[o] \intersect Reached
      BY DEF HMaxOK
    <2>2. CASE o \in T /\ Dearer(o, p[2])
      <3>1. best[o] = p[2] /\ p[2] \in rc.prec[o] /\ p[2] \in Reached'
        BY <1>3, <1>4, <1>19, <2>2
      <3>2. QED BY <1>11, <3>1
    <2>3. CASE o \in T /\ ~Dearer(o, p[2])
      <3>1. best[o] = maxPrec[o] /\ maxPrec[o] # NOPREC
        BY <1>4, <2>3 DEF Dearer
      <3>2. QED BY <1>19, <2>1, <3>1
    <2>4. CASE o \notin T
      <3>1. rc.prec[o] \intersect Reached' = rc.prec[o] \intersect Reached /\ best[o] = maxPrec[o]
        BY <1>3, <1>4, <1>19, <2>4
      <3>2. QED BY <2>1, <3>1
    <2>5. QED BY <2>2, <2>3, <2>4
  <1>24. maxPrec' \in [Ops -> X \union {NOPREC}]
    <2>1. best = [o \in Ops |-> best[o]]
      BY DEF best, dearest
    <2>2. QED BY <1>7, <1>23, <2>1
  <1>25. ASSUME NEW o \in DoneOps
         PROVE  /\ o \in Ops /\ maxPrec'[o] = maxPrec[o] /\ hMaxVal'[maxPrec[o]] = hMaxVal[maxPrec[o]]
    <2>1. o \in Ops /\ o \notin T
      BY <1>20 DEF DoneOps
    <2>2. maxPrec[o] \in Reached
      BY DoneIs
    <2>3. QED BY <1>4, <1>7, <1>19, <2>1, <2>2
  <1>26. ASSUME NEW o \in N
         PROVE  /\ maxPrec'[o] = best[o] /\ hMaxVal'[best[o]] = hMaxVal[best[o]]
                /\ hMaxVal'[maxPrec'[o]] + costs[o] = val[o]
    <2>1. best[o] \in Reached'
      BY <1>13, <1>19
    <2>2. QED BY <1>7, <1>15, <1>19, <2>1
  <1>27. \A o \in DoneOps' : \A f \in rc.add[o] : hMaxVal'[f] <= hMaxVal'[maxPrec'[o]] + costs[o]
    <2>1. SUFFICES ASSUME NEW o \in DoneOps', NEW f \in rc.add[o]
                   PROVE  hMaxVal'[f] <= hMaxVal'[maxPrec'[o]] + costs[o]
      OBVIOUS
    <2>2. CASE o \in N
      BY <1>18, <1>26, <2>2
    <2>3. CASE o \in DoneOps
      <3>1. hMaxVal[f] <= hMaxVal[maxPrec[o]] + costs[o] /\ f \in X /\ maxPrec[o] \in X /\ costs[o] \in Nat
        BY <1>12, <1>25, <2>3, OpsFacts, DoneIs DEF HMaxOK
      <3>2. hMaxVal'[f] <= hMaxVal[f] /\ hMaxVal'[f] \in Int /\ hMaxVal[f] \in Int /\ hMaxVal[maxPrec[o]] \in Int
        BY <1>11, <1>16, <1>18, <3>1
      <3>3. hMaxVal'[maxPrec'[o]] = hMaxVal[maxPrec[o]]
        BY <1>25, <2>3
      <3>4. hMaxVal'[f] <= hMaxVal[maxPrec[o]] + costs[o]
        BY <3>1, <3>2
      <3>5. QED BY <3>3, <3>4
    <2>4. QED BY <1>21, <2>2, <2>3
  <1>28. ASSUME NEW m \in Nat, \A o \in Ops : rc.cost[o] <= m
         PROVE  /\ \A f \in X : hMaxVal'[f] < UNREACHABLE => hMaxVal'[f] <= m * Cardinality(DoneOps')
                /\ \A o \in DoneOps' : hMaxVal'[maxPrec'[o]] + costs[o] <= m * Cardinality(DoneOps')
    <2> DEFINE k == Cardinality(DoneOps)
               k2 == Cardinality(DoneOps')
    <2>1. /\ \A f \in X : hMaxVal[f] < UNREACHABLE => hMaxVal[f] <= m * k
          /\ \A o \in DoneOps : hMaxVal[maxPrec[o]] + costs[o] <= m * k
      BY <1>28 DEF HMaxOK
    <2>2. k \in Nat /\ k2 \in Nat /\ k <= k2 /\ IsFiniteSet(DoneOps)
      <3>1. IsFiniteSet(DoneOps) /\ DoneOps \subseteq DoneOps'
        BY <1>21, FS_Subset
      <3>2. QED BY <1>21, <3>1, FS_CardinalityType, FS_Subset
    <2>3. \A o \in N : k + 1 <= k2
      <3>1. SUFFICES ASSUME NEW o \in N
                     PROVE  k + 1 <= k2
        OBVIOUS
      <3>2. Cardinality(DoneOps \union {o}) = k + 1
        BY <1>21, <2>2, FS_AddElement
      <3>3. DoneOps \union {o} \subseteq DoneOps'
        BY <1>21
      <3>4. Cardinality(DoneOps \union {o}) <= k2
        BY <1>21, <3>3, FS_Subset
      <3>5. QED BY <3>2, <3>4
    <2> HIDE DEF k, k2
    <2>4. m * k \in Nat /\ m * k2 \in Nat /\ m * k <= m * k2
      BY <2>2, TimesMore
    <2>5. \A o \in N : val[o] <= m * k2 /\ val[o] \in Nat
      <3>1. SUFFICES ASSUME NEW o \in N
                     PROVE  val[o] <= m * k2
        BY <1>14
      <3>2. hMaxVal[best[o]] \in Nat /\ hMaxVal[best[o]] < UNREACHABLE /\ best[o] \in X
        BY <1>10, <1>13
      <3>3. hMaxVal[best[o]] <= m * k
        BY <2>1, <3>2
      <3>4. costs[o] \in Nat /\ costs[o] <= rc.cost[o] /\ rc.cost[o] <= m /\ rc.cost[o] \in Nat
        BY <1>13, <1>28, OpsFacts DEF HMaxOK
      <3>5. m * (k + 1) = m * k + m /\ m * (k + 1) <= m * k2
        <4>1. k + 1 \in Nat /\ k + 1 <= k2
          BY <2>2, <2>3
        <4>2. m * (k + 1) <= m * k2
          BY <2>2, <4>1, TimesMore
        <4>3. m * (k + 1) = m * k + m
          BY <2>2, TimesMore
        <4>4. QED BY <4>2, <4>3
      <3>6. hMaxVal[best[o]] + costs[o] <= m * k + m
        BY <2>4, <3>2, <3>3, <3>4
      <3>7. QED BY <1>15, <2>4, <3>2, <3>4, <3>5, <3>6
    <2>6. ASSUME NEW f \in X, hMaxVal'[f] < UNREACHABLE
          PROVE  hMaxVal'[f] <= m * k2
      <3>1. CASE hMaxVal'[f] = hMaxVal[f]
        <4>1. hMaxVal[f] <= m * k /\ hMaxVal[f] \in Nat
          BY <1>11, <2>1, <2>6, <3>1
        <4>2. QED BY <2>4, <3>1, <4>1
      <3>2. CASE hMaxVal'[f] # hMaxVal[f]
        <4>1. PICK o \in CheaperBy(rc.add, N, val, hMaxVal, f) : hMaxVal'[f] = val[o]
          BY <1>18, <3>2
        <4>2. o \in N
          BY DEF CheaperBy
        <4>3. QED BY <2>5, <4>1, <4>2
      <3>3. QED BY <3>1, <3>2
    <2>7. ASSUME NEW o \in DoneOps'
          PROVE  hMaxVal'[maxPrec'[o]] + costs[o] <= m * k2
      <3>1. CASE o \in N
        BY <1>26, <2>5, <3>1
      <3>2. CASE o \in DoneOps
        <4>1. hMaxVal[maxPrec[o]] + costs[o] <= m * k
          BY <2>1, <3>2
        <4>2. maxPrec[o] \in X /\ costs[o] \in Nat
          BY <1>12, <1>25, <3>2, DoneIs DEF HMaxOK
        <4>3. hMaxVal[maxPrec[o]] + costs[o] \in Int
          BY <1>11, <4>2
        <4>4. hMaxVal[maxPrec[o]] + costs[o] <= m * k2
          BY <2>4, <4>1, <4>3
        <4>5. QED BY <1>25, <3>2, <4>4
      <3>3. QED BY <1>21, <3>1, <3>2
    <2>8. QED BY <2>6, <2>7 DEF k2
  <1>29. \A f \in s0set : hMaxVal'[f] = 0
    <2>1. SUFFICES ASSUME NEW f \in s0set
                   PROVE  hMaxVal'[f] = 0
      OBVIOUS
    <2>2. f \in X /\ hMaxVal[f] = 0
      BY DEF HMaxOK
    <2>3. hMaxVal'[f] <= 0 /\ hMaxVal'[f] \in 0 .. UNREACHABLE
      BY <1>18, <2>2 DEF QueueOK
    <2>4. QED BY <2>3
  <1>30. /\ costs' \in [Ops -> Nat] /\ \A o \in Ops : costs'[o] <= rc.cost[o]
         /\ s0set' \subseteq rc.facts
    BY <1>2 DEF HMaxOK
  <1>31. \A o \in Ops : IF rc.prec[o] \intersect Reached' = {} THEN maxPrec'[o] = NOPREC
                        ELSE maxPrec'[o] \in rc.prec[o] \intersect Reached'
    BY <1>7, <1>23
  <1>32. \A m \in Nat : (\A o \in Ops : rc.cost[o] <= m) =>
           /\ \A f \in X : hMaxVal'[f] < UNREACHABLE => hMaxVal'[f] <= m * Cardinality(DoneOps')
           /\ \A o \in DoneOps' : hMaxVal'[maxPrec'[o]] + costs'[o] <= m * Cardinality(DoneOps')
    BY <1>2, <1>28
  <1>33. HMaxOK'
    BY <1>2, <1>18, <1>22, <1>24, <1>27, <1>29, <1>30, <1>31, <1>32 DEF HMaxOK
  <1>34. ASSUME NEW f \in X, hMaxVal'[f] < UNREACHABLE, ~(hMaxVal[f] < UNREACHABLE)
         PROVE  \E o \in Ops : f \in rc.add[o] /\ \A x \in rc.prec[o] : hMaxVal[x] < UNREACHABLE
    <2>1. PICK o \in CheaperBy(rc.add, N, val, hMaxVal, f) : TRUE
      BY <1>18, <1>34
    <2>2. o \in N /\ f \in rc.add[o] /\ o \in Ops
      BY <1>13, <2>1 DEF CheaperBy
    <2>3. rc.prec[o] \ Reached' = {}
      <3>1. unsatPrecs'[o] = 0 /\ unsatPrecs'[o] = Cardinality(rc.prec[o] \ Reached')
        BY <1>20, <2>2
      <3>2. IsFiniteSet(rc.prec[o] \ Reached')
        BY <2>2, OpsFacts, FS_Difference
      <3>3. QED BY <3>1, <3>2, FS_EmptySet
    <2>4. \A x \in rc.prec[o] : x \in Reached \/ x = p[2]
      BY <1>19, <2>3
    <2>5. \A x \in Reached : hMaxVal[x] < UNREACHABLE
      BY DEF Reached, Settled
    <2>6. hMaxVal[p[2]] < UNREACHABLE
      BY <1>10, <1>11
    <2>7. QED BY <2>2, <2>4, <2>5, <2>6
  <1>35. QED BY <1>33, <1>34
\* What has a value can be reached.
ValuesOK == \A f \in rc.facts : hMaxVal[f] < UNREACHABLE => f \in Closure(s0set, Ops)

\* That is so when the facts that are true have one, and whenever a fact is popped.
LEMMA ValuesKeep ==
  ASSUME IsModel, rc' = rc
  PROVE  /\ \A s \in SUBSET rc.facts : s0set' = s /\ StartHMax(s) => ValuesOK'
         /\ HMaxOK /\ ValuesOK /\ Propagate => ValuesOK'
         /\ ValuesOK /\ hMaxVal' = hMaxVal /\ s0set' = s0set => ValuesOK'
  <1>1. Ops' = Ops /\ \A F, O : Closure(F, O)' = Closure(F, O)
    BY DEF Ops, Closure
  <1>2. ASSUME NEW s \in SUBSET rc.facts, s0set' = s, StartHMax(s)
        PROVE  ValuesOK'
    <2>1. \A f \in rc.facts : hMaxVal'[f] < UNREACHABLE => f \in s
      BY <1>2, UnreachableIsLarge DEF StartHMax
    <2>2. s \subseteq Closure(s, Ops)
      BY ClosureFacts
    <2>3. \A f \in rc.facts : hMaxVal'[f] < UNREACHABLE => f \in Closure(s0set', Ops')
      BY <1>1, <1>2, <2>1, <2>2
    <2>4. QED BY <1>1, <2>3 DEF ValuesOK
  <1>3. ASSUME HMaxOK, ValuesOK, Propagate
        PROVE  ValuesOK'
    <2>1. s0set' = s0set /\ s0set \in SUBSET rc.facts
      BY <1>3 DEF Propagate, callVars, HMaxOK
    <2>2. \A o \in Ops : rc.prec[o] \subseteq Closure(s0set, Ops) => rc.add[o] \subseteq Closure(s0set, Ops)
      BY <2>1, ClosureFacts
    <2>3. ASSUME NEW f \in rc.facts, hMaxVal'[f] < UNREACHABLE
          PROVE  f \in Closure(s0set, Ops)
      <3>1. CASE hMaxVal[f] < UNREACHABLE
        BY <1>3, <3>1 DEF ValuesOK
      <3>2. CASE \E o \in Ops : f \in rc.add[o] /\ \A x \in rc.prec[o] : hMaxVal[x] < UNREACHABLE
        <4>1. PICK o \in Ops : f \in rc.add[o] /\ \A x \in rc.prec[o] : hMaxVal[x] < UNREACHABLE
          BY <3>2
        <4>2. rc.prec[o] \subseteq rc.facts
          BY OpsFacts
        <4>3. rc.prec[o] \subseteq Closure(s0set, Ops)
          BY <1>3, <4>1, <4>2 DEF ValuesOK
        <4>4. QED BY <2>2, <4>1, <4>3
      <3>3. QED BY <1>3, <2>3, <3>1, <3>2, PropagateKeeps
    <2>4. QED BY <1>1, <2>1, <2>3 DEF ValuesOK
  <1>4. ASSUME ValuesOK, hMaxVal' = hMaxVal, s0set' = s0set
        PROVE  ValuesOK'
    BY <1>1, <1>4 DEF ValuesOK
  <1>5. QED BY <1>2, <1>3, <1>4

\* A stale entry is popped.
LEMMA QueueSkip ==
  ASSUME NEW X, NEW w, NEW q, QueueOK(X, w, q), NEW p \in q, w[p[2]] < p[1], NEW q2, q2 = q \ {p}
  PROVE  QueueOK(X, w, q2) /\ Settled(w, q2) = Settled(w, q)
  <1>1. \A f : <<w[f], f>> # p
    <2>1. SUFFICES ASSUME NEW f, <<w[f], f>> = p
                   PROVE  FALSE
      OBVIOUS
    <2>2. p[2] = f /\ p[1] = w[f]
      BY <2>1
    <2>3. w[f] < w[f] /\ p[1] \in Int
      <3>1. p[1] \in 0 .. UNREACHABLE - 1
        BY DEF QueueOK
      <3>2. QED BY <2>2, <3>1
    <2>4. QED BY <2>2, <2>3
  <1>2. Settled(w, q2) = Settled(w, q)
    BY <1>1 DEF Settled
  <1>3. QED BY <1>2 DEF QueueOK

\* The values stay when that happens.
LEMMA SkipStaleKeeps ==
  ASSUME HMaxOK, SkipStale
  PROVE  HMaxOK'
  <1>1. PICK p \in heap : hMaxVal[p[2]] < p[1] /\ heap' = heap \ {p}
    BY DEF SkipStale
  <1>2. /\ rc' = rc /\ s0set' = s0set /\ costs' = costs /\ Ops' = Ops
        /\ unsatPrecs' = unsatPrecs /\ maxPrec' = maxPrec /\ hMaxVal' = hMaxVal
    BY DEF SkipStale, callVars, Ops
  <1>3. QueueOK(rc.facts, hMaxVal, heap') /\ Settled(hMaxVal, heap') = Settled(hMaxVal, heap)
    BY <1>1, QueueSkip DEF HMaxOK
  <1>4. Reached' = Reached /\ DoneOps' = DoneOps
    BY <1>2, <1>3 DEF Reached, DoneOps
  <1>5. QED BY <1>2, <1>3, <1>4 DEF HMaxOK

\* When the queue is empty, what has a value is all that can be reached.
LEMMA HMaxEnds ==
  ASSUME IsModel, HMaxOK, heap = {}
  PROVE  /\ \A f \in rc.facts : hMaxVal[f] \in Nat /\ (f \in Reached <=> hMaxVal[f] # UNREACHABLE)
         /\ s0set \subseteq Reached
         /\ \A o \in Ops : rc.prec[o] \subseteq Reached => rc.add[o] \subseteq Reached
  <1>1. QueueOK(rc.facts, hMaxVal, heap) /\ UNREACHABLE \in Nat /\ UNREACHABLE > 0
    BY UnreachableIsLarge DEF HMaxOK
  <1>2. \A f \in rc.facts : hMaxVal[f] \in Nat /\ (f \in Reached <=> hMaxVal[f] # UNREACHABLE)
    <2>1. SUFFICES ASSUME NEW f \in rc.facts
                   PROVE  hMaxVal[f] \in Nat /\ (f \in Reached <=> hMaxVal[f] # UNREACHABLE)
      OBVIOUS
    <2>2. hMaxVal[f] \in 0 .. UNREACHABLE /\ DOMAIN hMaxVal = rc.facts
      BY <1>1 DEF QueueOK
    <2>3. f \in Reached <=> hMaxVal[f] < UNREACHABLE
      BY <2>2 DEF Reached, Settled
    <2>4. QED BY <1>1, <2>2, <2>3
  <1>3. s0set \subseteq Reached
    BY <1>1, <1>2 DEF HMaxOK
  <1>4. ASSUME NEW o \in Ops, rc.prec[o] \subseteq Reached, NEW f \in rc.add[o]
        PROVE  f \in Reached
    <2>1. PICK m \in Nat : (\A x \in Ops : rc.cost[x] <= m) /\ m * numOps < UNREACHABLE
      BY DEF IsModel
    <2>2. o \in DoneOps
      BY <1>4, DoneIs
    <2>3. /\ hMaxVal[f] <= hMaxVal[maxPrec[o]] + costs[o]
          /\ hMaxVal[maxPrec[o]] + costs[o] <= m * Cardinality(DoneOps)
      BY <2>1, <2>2 DEF HMaxOK
    <2>4. Cardinality(DoneOps) \in Nat /\ Cardinality(DoneOps) <= numOps /\ numOps \in Nat
      BY OpsFacts, DoneIs, FS_Subset, FS_CardinalityType DEF numOps
    <2>5. m * Cardinality(DoneOps) <= m * numOps
      BY <2>1, <2>4, TimesMore
    <2>6. maxPrec[o] \in rc.facts /\ f \in rc.facts /\ costs[o] \in Nat
      BY <1>4, <2>2, DoneIs, OpsFacts DEF HMaxOK
    <2>7. hMaxVal[f] \in Nat /\ hMaxVal[maxPrec[o]] + costs[o] \in Nat
      BY <1>2, <2>6
    <2>8. m * Cardinality(DoneOps) \in Nat /\ m * numOps \in Nat
      BY <2>1, <2>4
    <2>9. hMaxVal[f] < UNREACHABLE
      BY <1>1, <2>1, <2>3, <2>5, <2>7, <2>8
    <2>10. QED BY <1>1, <1>2, <2>6, <2>7, <2>9
  <1>5. QED BY <1>2, <1>3, <1>4
-----------------------------------------------------------------------------
(* LM-Cut: the goal zone and the cut.                                      *)

\* What holds before a loop and in each round holds at its end.
LEMMA LoopKeeps ==
  ASSUME NEW n \in Nat, NEW T, 0 \in T, \A i \in 1 .. n : i - 1 \in T => i \in T
  PROVE  0 .. n \subseteq T
  <1> DEFINE Bad == {i \in 0 .. n : i \notin T}
  <1>1. SUFFICES ASSUME Bad # {}
                 PROVE  FALSE
    OBVIOUS
  <1>2. PICK i \in Bad : \A j \in Bad : i <= j
    <2>1. Bad \in SUBSET Nat
      OBVIOUS
    <2> HIDE DEF Bad
    <2>2. QED BY <1>1, <2>1, LeastNumber
  <1>3. i \in 1 .. n /\ i - 1 \in 0 .. n /\ ~(i <= i - 1)
    <2>1. i # 0
      BY <1>2
    <2>2. QED BY <1>2, <2>1
  <1>4. i - 1 \in T
    BY <1>2, <1>3
  <1>5. QED BY <1>3, <1>4

\* The facts from which the goal costs nothing: all of them are dear, and what produces one that
\* has been looked at comes from the zone or is in the cut.
ZoneFacts == goalZone \union {maxPrecG}

ZoneOK ==
  /\ heap = {}
  /\ gset \subseteq rc.facts /\ maxPrecG \in gset
  /\ goalZone \subseteq rc.facts /\ \A f \in ZoneFacts : hMaxVal[f] > 0
  /\ zoneStack \in Seq(ZoneFacts)
  /\ cut \subseteq Ops /\ \A o \in cut : costs[o] > 0
  /\ precsOfCutNodes \subseteq rc.facts
  /\ \A f \in ZoneFacts : f \in ToSet(zoneStack) \/ \A o \in Producers(f) : maxPrec[o] \in goalZone \/ o \in cut

\* The zone starts with the dearest goal.
LEMMA StartCutKeeps ==
  ASSUME IsModel, HMaxOK, gset \subseteq rc.facts, gset # {}, StartCut
  PROVE  HMaxOK' /\ ZoneOK'
  <1>1. /\ heap = {} /\ hMax # 0
        /\ maxPrecG' \in DearestGoals /\ zoneStack' = <<maxPrecG'>>
        /\ goalZone' = {} /\ cut' = {} /\ precsOfCutNodes' = {}
    BY DEF StartCut, hMaxDone, IsFree
  <1>2. /\ rc' = rc /\ s0set' = s0set /\ gset' = gset /\ costs' = costs /\ Ops' = Ops
        /\ heap' = heap /\ unsatPrecs' = unsatPrecs /\ maxPrec' = maxPrec /\ hMaxVal' = hMaxVal
    BY DEF StartCut, callVars, hMaxVars, Ops
  <1>3. HMaxOK'
    <2>1. Reached' = Reached /\ DoneOps' = DoneOps
      BY <1>2 DEF Reached, DoneOps
    <2>2. QED BY <1>2, <2>1 DEF HMaxOK
  <1>4. maxPrecG' \in gset /\ hMaxVal[maxPrecG'] = hMax
    BY <1>1 DEF DearestGoals
  <1>5. hMaxVal[maxPrecG'] > 0
    <2>1. hMaxVal[maxPrecG'] \in Nat
      BY <1>1, <1>4, HMaxEnds
    <2>2. QED BY <1>1, <1>4, <2>1
  <1>6. ToSet(zoneStack') = {maxPrecG'} /\ zoneStack' \in Seq({maxPrecG'})
    BY <1>1 DEF ToSet
  <1>7. ZoneFacts' = {maxPrecG'}
    BY <1>1 DEF ZoneFacts
  <1>8. ZoneOK'
    BY <1>1, <1>2, <1>4, <1>5, <1>6, <1>7 DEF ZoneOK
  <1>9. QED BY <1>3, <1>8
\* A stack without its top, and with one more element.
LEMMA StackParts ==
  ASSUME NEW X, NEW s \in Seq(X)
  PROVE  /\ s # <<>> => /\ Front(s) \in Seq(X) /\ Last(s) \in X
                        /\ ToSet(s) \subseteq ToSet(Front(s)) \union {Last(s)}
         /\ \A x \in X : Append(s, x) \in Seq(X) /\ ToSet(Append(s, x)) = ToSet(s) \union {x}
  <1> DEFINE n == Len(s)
  <1>1. n \in Nat /\ DOMAIN s = 1 .. n /\ \A i \in 1 .. n : s[i] \in X
    BY SeqParts
  <1>2. ASSUME s # <<>>
        PROVE  /\ Front(s) \in Seq(X) /\ Last(s) \in X
               /\ ToSet(s) \subseteq ToSet(Front(s)) \union {Last(s)}
    <2>1. n \in 1 .. n
      BY <1>1, <1>2, EmptySeq
    <2>2. /\ SubSeq(s, 1, n - 1) \in Seq(X) /\ DOMAIN SubSeq(s, 1, n - 1) = 1 .. n - 1
          /\ \A i \in 1 .. n - 1 : SubSeq(s, 1, n - 1)[i] = s[i]
      BY <2>1, SplitList
    <2>3. Front(s) = SubSeq(s, 1, n - 1) /\ Last(s) = s[n]
      BY DEF Front, Last
    <2>4. \A i \in 1 .. n : s[i] \in ToSet(Front(s)) \/ s[i] = Last(s)
      <3>1. SUFFICES ASSUME NEW i \in 1 .. n, i # n
                     PROVE  s[i] \in ToSet(Front(s))
        BY <2>3
      <3>2. i \in 1 .. n - 1
        <4> HIDE DEF n
        <4>1. QED BY <1>1, <3>1
      <3>3. i \in DOMAIN Front(s) /\ Front(s)[i] = s[i]
        BY <2>2, <2>3, <3>2
      <3>4. QED BY <3>3 DEF ToSet
    <2>5. QED BY <1>1, <2>1, <2>2, <2>3, <2>4 DEF ToSet
  <1>3. ASSUME NEW x \in X
        PROVE  Append(s, x) \in Seq(X) /\ ToSet(Append(s, x)) = ToSet(s) \union {x}
    <2>1. <<x>> \in Seq(X) /\ ToSet(<<x>>) = {x}
      BY DEF ToSet
    <2>2. Append(s, x) = s \o <<x>>
      BY AppendIsConcat
    <2>3. s \o <<x>> \in Seq(X) /\ ToSet(s \o <<x>>) = ToSet(s) \union ToSet(<<x>>)
      BY <2>1, ConcatSet
    <2>4. QED BY <2>1, <2>2, <2>3
  <1>4. QED BY <1>2, <1>3

\* What the producers of a fact do to the zone, the stack and the cut: those up to number i have
\* entered, from the zone or through the cut.
EnteredOK(z, i, x) ==
  /\ goalZone \subseteq z.zone /\ z.zone \subseteq rc.facts /\ \A f \in z.zone : hMaxVal[f] > 0
  /\ z.stack \in Seq(z.zone \union {maxPrecG})
  /\ ToSet(Front(zoneStack)) \subseteq ToSet(z.stack) /\ z.zone \ goalZone \subseteq ToSet(z.stack)
  /\ cut \subseteq z.cut /\ z.cut \subseteq Ops /\ \A o \in z.cut : costs[o] > 0
  /\ z.precs \subseteq rc.facts
  /\ \A o \in Producers(x) : o < i => maxPrec[o] \in z.zone \/ o \in z.cut

\* One of them.
LEMMA EnterKeeps ==
  ASSUME IsModel, HMaxOK, heap = {}, maxPrecG \in rc.facts, NEW x \in rc.facts, hMaxVal[x] > 0,
         NEW o \in Producers(x), NEW z, EnteredOK(z, o, x),
         z = [zone |-> z.zone, stack |-> z.stack, cut |-> z.cut, precs |-> z.precs]
  PROVE  EnteredOK(Enter(z, o), o + 1, x)
  <1> DEFINE p == maxPrec[o]
             R(zone, stk, c, precs) == [zone |-> zone, stack |-> stk, cut |-> c, precs |-> precs]
  <1>1. o \in Ops /\ o \in Nat /\ x \in rc.add[o] /\ o \in DoneOps
    BY OpsFacts DEF Producers, DoneOps
  <1>2. p \in rc.facts /\ p \in rc.prec[o] /\ p \in Reached
    BY <1>1, OpsFacts, DoneIs
  <1>3. hMaxVal[x] <= hMaxVal[p] + costs[o] /\ costs[o] \in Nat
    BY <1>1 DEF HMaxOK
  <1>4. hMaxVal[x] \in Nat /\ hMaxVal[p] \in Nat
    BY <1>2, HMaxEnds
  <1>5. \A e \in Producers(x) : e \in Nat /\ (e < o + 1 => e < o \/ e = o)
    BY <1>1, OpsFacts DEF Producers
  <1>6. /\ goalZone \subseteq z.zone /\ z.zone \subseteq rc.facts /\ (\A f \in z.zone : hMaxVal[f] > 0)
        /\ z.stack \in Seq(z.zone \union {maxPrecG})
        /\ ToSet(Front(zoneStack)) \subseteq ToSet(z.stack) /\ z.zone \ goalZone \subseteq ToSet(z.stack)
        /\ cut \subseteq z.cut /\ z.cut \subseteq Ops /\ (\A e \in z.cut : costs[e] > 0)
        /\ z.precs \subseteq rc.facts
        /\ \A e \in Producers(x) : e < o => maxPrec[e] \in z.zone \/ e \in z.cut
    BY DEF EnteredOK
  <1>9. CASE p \in z.zone
    <2>1. Enter(z, o) = z
      BY <1>9 DEF Enter
    <2>2. EnteredOK(z, o + 1, x)
      BY <1>5, <1>6, <1>9 DEF EnteredOK
    <2>3. QED BY <2>1, <2>2
  <1>10. CASE p \notin z.zone /\ costs[o] = 0
    <2> DEFINE zone == z.zone \union {p}
               stk == Append(z.stack, p)
               precs == z.precs \ {p}
    <2>1. Enter(z, o) = R(zone, stk, z.cut, precs)
      <3>1. Enter(z, o) = [z EXCEPT !.zone = @ \union {p}, !.precs = @ \ {p}, !.stack = Append(@, p)]
        BY <1>10 DEF Enter
      <3>2. QED BY <3>1
    <2>2. hMaxVal[p] > 0
      BY <1>3, <1>4, <1>10
    <2>3. stk \in Seq(zone \union {maxPrecG}) /\ ToSet(stk) = ToSet(z.stack) \union {p}
      <3>1. z.stack \in Seq(zone \union {maxPrecG})
        <4>1. z.zone \union {maxPrecG} \subseteq zone \union {maxPrecG}
          OBVIOUS
        <4>2. QED BY <1>6, <4>1, SeqMonotonic
      <3>2. p \in zone \union {maxPrecG}
        OBVIOUS
      <3> DEFINE Y == zone \union {maxPrecG}
      <3> HIDE DEF zone, Y, p
      <3>3. z.stack \in Seq(Y) /\ p \in Y
        BY <3>1, <3>2 DEF Y
      <3>4. Append(z.stack, p) \in Seq(Y) /\ ToSet(Append(z.stack, p)) = ToSet(z.stack) \union {p}
        BY <3>3, StackParts
      <3>5. QED BY <3>4 DEF Y
    <2>4. /\ goalZone \subseteq zone /\ zone \subseteq rc.facts /\ (\A f \in zone : hMaxVal[f] > 0)
          /\ precs \subseteq rc.facts /\ ToSet(Front(zoneStack)) \subseteq ToSet(stk)
          /\ zone \ goalZone \subseteq ToSet(stk)
      BY <1>2, <1>6, <2>2, <2>3
    <2>5. \A e \in Producers(x) : e < o + 1 => maxPrec[e] \in zone \/ e \in z.cut
      BY <1>5, <1>6
    <2> HIDE DEF zone, stk, precs
    <2>6. EnteredOK(R(zone, stk, z.cut, precs), o + 1, x)
      BY <1>6, <2>3, <2>4, <2>5 DEF EnteredOK
    <2>7. QED BY <2>1, <2>6
  <1>11. CASE p \notin z.zone /\ costs[o] # 0
    <2> DEFINE c == z.cut \union {o}
               precs == z.precs \union {p}
    <2>1. Enter(z, o) = R(z.zone, z.stack, c, precs)
      <3>1. Enter(z, o) = [z EXCEPT !.cut = @ \union {o}, !.precs = @ \union {p}]
        BY <1>11 DEF Enter
      <3>2. QED BY <3>1
    <2>2. cut \subseteq c /\ c \subseteq Ops /\ (\A e \in c : costs[e] > 0) /\ precs \subseteq rc.facts
      BY <1>1, <1>2, <1>3, <1>6, <1>11
    <2>3. \A e \in Producers(x) : e < o + 1 => maxPrec[e] \in z.zone \/ e \in c
      BY <1>5, <1>6
    <2> HIDE DEF c, precs
    <2>4. EnteredOK(R(z.zone, z.stack, c, precs), o + 1, x)
      BY <1>6, <2>2, <2>3 DEF EnteredOK
    <2>5. QED BY <2>1, <2>4
  <1>12. QED BY <1>9, <1>10, <1>11

\* Whatever they do is about facts and operators.
LEMMA EnterIn ==
  ASSUME IsModel, NEW o \in Ops, maxPrec[o] \in rc.facts,
         NEW z \in [zone : SUBSET rc.facts, stack : Seq(rc.facts), cut : SUBSET Ops, precs : SUBSET rc.facts]
  PROVE  Enter(z, o) \in [zone : SUBSET rc.facts, stack : Seq(rc.facts), cut : SUBSET Ops,
                          precs : SUBSET rc.facts]
  <1> DEFINE p == maxPrec[o]
  <1>1. Append(z.stack, p) \in Seq(rc.facts)
    <2>1. z.stack \in Seq(rc.facts)
      OBVIOUS
    <2>2. QED BY <2>1, StackParts
  <1>2. QED BY <1>1 DEF Enter

\* A fact is taken from the stack.
LEMMA CalcGoalZoneKeeps ==
  ASSUME IsModel, HMaxOK, ZoneOK, CalcGoalZone
  PROVE  HMaxOK' /\ ZoneOK'
  <1> DEFINE x == Last(zoneStack)
             N == numOps
             A == [zone : SUBSET rc.facts, stack : Seq(rc.facts), cut : SUBSET Ops, precs : SUBSET rc.facts]
             start == [zone |-> goalZone, stack |-> Front(zoneStack), cut |-> cut, precs |-> precsOfCutNodes]
             P == Producers(Last(zoneStack))
             E == CHOOSE e : e = [n \in 0 .. N |->
                                    IF n = 0 THEN start
                                    ELSE IF n - 1 \in P THEN Enter(e[n - 1], n - 1) ELSE e[n - 1]]
             z == E[N]
             G == {y \in A : EnteredOK(y, 0, x)}
  <1>1. goalZone' = z.zone /\ zoneStack' = z.stack /\ cut' = z.cut /\ precsOfCutNodes' = z.precs
        /\ zoneStack # <<>>
    BY Zenon DEF CalcGoalZone
  <1>2. /\ rc' = rc /\ s0set' = s0set /\ gset' = gset /\ costs' = costs /\ Ops' = Ops
        /\ heap' = heap /\ unsatPrecs' = unsatPrecs /\ maxPrec' = maxPrec /\ hMaxVal' = hMaxVal
        /\ maxPrecG' = maxPrecG
    BY DEF CalcGoalZone, callVars, hMaxVars, Ops
  <1>3. HMaxOK'
    <2>1. Reached' = Reached /\ DoneOps' = DoneOps
      BY <1>2 DEF Reached, DoneOps
    <2>2. QED BY <1>2, <2>1 DEF HMaxOK
  <1>4. /\ heap = {} /\ gset \subseteq rc.facts /\ maxPrecG \in gset /\ maxPrecG \in rc.facts
        /\ goalZone \subseteq rc.facts /\ (\A f \in ZoneFacts : hMaxVal[f] > 0)
        /\ zoneStack \in Seq(ZoneFacts)
        /\ cut \subseteq Ops /\ (\A o \in cut : costs[o] > 0) /\ precsOfCutNodes \subseteq rc.facts
    BY DEF ZoneOK
  <1>5. /\ Front(zoneStack) \in Seq(ZoneFacts) /\ x \in ZoneFacts
        /\ ToSet(zoneStack) \subseteq ToSet(Front(zoneStack)) \union {x}
    BY <1>1, <1>4, StackParts
  <1>6. x \in rc.facts /\ hMaxVal[x] > 0 /\ ZoneFacts \subseteq rc.facts
    BY <1>4, <1>5 DEF ZoneFacts
  <1>7. start \in A /\ EnteredOK(start, 0, x)
    <2>1. Front(zoneStack) \in Seq(rc.facts)
      BY <1>5, <1>6, SeqMonotonic
    <2>2. start \in A
      BY <1>4, <2>1
    <2>3. \A o \in Producers(x) : ~(o < 0)
      BY OpsFacts DEF Producers
    <2>4. start.zone = goalZone /\ start.stack = Front(zoneStack) /\ start.cut = cut
          /\ start.precs = precsOfCutNodes
      OBVIOUS
    <2>5. \A f \in goalZone : hMaxVal[f] > 0
      BY <1>4 DEF ZoneFacts
    <2> HIDE DEF start, x
    <2>6. EnteredOK(start, 0, x)
      BY <1>4, <1>5, <2>3, <2>4, <2>5 DEF EnteredOK, ZoneFacts
    <2>7. QED BY <2>2, <2>6
  <1>8. N \in Nat /\ \A i \in 1 .. N : i - 1 \in Ops /\ i - 1 \in Nat
    BY OpsFacts
  <1> DEFINE F(i, y) == IF i - 1 \in P THEN Enter(y, i - 1) ELSE y
  <1>9. ASSUME NEW i \in 1 .. N, NEW y \in A
        PROVE  /\ F(i, y) \in A
               /\ EnteredOK(y, i - 1, x) => EnteredOK(F(i, y), i, x)
    <2>1. CASE i - 1 \in P
      <3> DEFINE o == i - 1
      <3>1. o + 1 = i /\ o \in Producers(x) /\ o \in Ops
        BY <1>8, <2>1
      <3>2. y = [zone |-> y.zone, stack |-> y.stack, cut |-> y.cut, precs |-> y.precs]
        OBVIOUS
      <3>3. maxPrec[o] \in rc.facts
        <4>1. o \in DoneOps
          BY <3>1 DEF Producers, DoneOps
        <4>2. QED BY <3>1, <4>1, DoneIs, OpsFacts
      <3>4. Enter(y, o) \in A
        <4> HIDE DEF o
        <4>1. QED BY <3>1, <3>3, EnterIn
      <3>5. ASSUME EnteredOK(y, i - 1, x)
            PROVE  EnteredOK(Enter(y, o), o + 1, x)
        <4>1. EnteredOK(y, o, x)
          BY <3>5
        <4> HIDE DEF o, x, A
        <4>2. QED BY <1>4, <1>6, <3>1, <3>2, <4>1, EnterKeeps
      <3> HIDE DEF A
      <3>6. F(i, y) = Enter(y, o)
        BY <2>1
      <3> HIDE DEF F
      <3>7. QED BY <3>1, <3>4, <3>5, <3>6
    <2>2. CASE i - 1 \notin P
      <3>1. F(i, y) = y
        BY <2>2
      <3>2. \A o \in Producers(x) : o < i => o < i - 1
        <4>1. SUFFICES ASSUME NEW o \in Producers(x), o < i
                       PROVE  o < i - 1
          OBVIOUS
        <4>2. o \in Nat /\ o # i - 1 /\ i \in Nat
          BY <2>2, OpsFacts DEF Producers
        <4>3. QED BY <4>1, <4>2
      <3> HIDE DEF F, A, x
      <3>3. ASSUME EnteredOK(y, i - 1, x)
            PROVE  EnteredOK(y, i, x)
        BY <3>2, <3>3 DEF EnteredOK
      <3>4. QED BY <3>1, <3>3
    <2>3. QED BY <2>1, <2>2
  <1>10. \E e \in [0 .. N -> A] : e = [n \in 0 .. N |->
                                        IF n = 0 THEN start
                                        ELSE IF n - 1 \in P THEN Enter(e[n - 1], n - 1) ELSE e[n - 1]]
    <2> DEFINE step == [i \in 1 .. N |-> [y \in A |-> F(i, y)]]
    <2>1. step \in [1 .. N -> [A -> A]]
      <3> HIDE DEF F, A
      <3>1. QED BY <1>9
    <2>2. PICK e \in [0 .. N -> A] : Iterates(e, N, start, step)
      <3> HIDE DEF step, start, A, N
      <3>1. QED BY <1>7, <1>8, <2>1, IterationExists
    <2>3. ASSUME NEW n \in 0 .. N
          PROVE  e[n] = IF n = 0 THEN start ELSE F(n, e[n - 1])
      <3>1. e[n] = IF n = 0 THEN start ELSE step[n][e[n - 1]]
        <4> HIDE DEF step, start, A, N
        <4>1. QED BY <2>2, <2>3 DEF Iterates
      <3>2. n # 0 => n \in 1 .. N /\ e[n - 1] \in A
        <4>1. n # 0 => n \in 1 .. N /\ n - 1 \in 0 .. N
          BY <1>8, <2>3
        <4> HIDE DEF A, N
        <4>2. QED BY <4>1
      <3>3. n # 0 => step[n][e[n - 1]] = F(n, e[n - 1])
        <4> HIDE DEF F, A, N
        <4>1. QED BY <3>2
      <3> HIDE DEF F, step, start, A, N
      <3>4. QED BY <3>1, <3>3
    <2>4. e = [n \in 0 .. N |-> IF n = 0 THEN start ELSE F(n, e[n - 1])]
      <3> HIDE DEF F, start, A, N
      <3>1. QED BY <2>2, <2>3
    <2>5. QED BY <2>4
  <1>11. E = [n \in 0 .. N |-> IF n = 0 THEN start
                               ELSE IF n - 1 \in P THEN Enter(E[n - 1], n - 1) ELSE E[n - 1]]
    BY <1>10, Zenon
  <1>12. \A n \in 0 .. N : E[n] = IF n = 0 THEN start ELSE F(n, E[n - 1])
    <2> HIDE DEF E, start, N
    <2>1. QED BY <1>11
  <1> HIDE DEF E, F, start, A, x, P, N
  <1>13. E[N] \in A /\ EnteredOK(E[N], N, x)
    <2> DEFINE T == {n \in 0 .. N : E[n] \in A /\ EnteredOK(E[n], n, x)}
    <2>1. 0 \in T
      BY <1>7, <1>8, <1>12
    <2>2. ASSUME NEW i \in 1 .. N, i - 1 \in T
          PROVE  i \in T
      <3>1. i \in 0 .. N /\ i # 0
        BY <1>8
      <3>2. E[i] = F(i, E[i - 1])
        BY <1>12, <3>1
      <3>3. E[i - 1] \in A /\ EnteredOK(E[i - 1], i - 1, x)
        BY <2>2
      <3>4. QED BY <1>9, <3>1, <3>2, <3>3
    <2>3. 0 .. N \subseteq T
      <3> HIDE DEF T
      <3>1. QED BY <1>8, <2>1, <2>2, LoopKeeps
    <2>4. N \in 0 .. N
      BY <1>8
    <2>5. QED BY <2>3, <2>4
  <1>14. /\ goalZone \subseteq goalZone' /\ goalZone' \subseteq rc.facts /\ (\A f \in goalZone' : hMaxVal[f] > 0)
         /\ zoneStack' \in Seq(goalZone' \union {maxPrecG})
         /\ ToSet(Front(zoneStack)) \subseteq ToSet(zoneStack') /\ goalZone' \ goalZone \subseteq ToSet(zoneStack')
         /\ cut \subseteq cut' /\ cut' \subseteq Ops /\ (\A o \in cut' : costs[o] > 0)
         /\ precsOfCutNodes' \subseteq rc.facts
         /\ \A o \in Producers(x) : o < N => maxPrec[o] \in goalZone' \/ o \in cut'
    BY <1>1, <1>13 DEF EnteredOK
  <1>15. ZoneFacts' = goalZone' \union {maxPrecG} /\ ZoneFacts = goalZone \union {maxPrecG}
    BY <1>2 DEF ZoneFacts
  <1>16. \A f : Producers(f)' = Producers(f)
    BY <1>2 DEF Producers
  <1>17. \A f \in ZoneFacts' : f \in ToSet(zoneStack') \/
                                \A o \in Producers(f) : maxPrec[o] \in goalZone' \/ o \in cut'
    <2>1. SUFFICES ASSUME NEW f \in ZoneFacts', f \notin ToSet(zoneStack'), NEW o \in Producers(f)
                   PROVE  maxPrec[o] \in goalZone' \/ o \in cut'
      OBVIOUS
    <2>2. f \in ZoneFacts
      BY <1>14, <1>15, <2>1
    <2>3. CASE f = x
      <3>1. o \in Ops
        BY DEF Producers
      <3>2. o < N
        BY <3>1, OpsFacts DEF N
      <3>3. QED BY <1>14, <2>1, <2>3, <3>2
    <2>4. CASE f # x
      <3>1. f \notin ToSet(zoneStack)
        BY <1>5, <1>14, <2>1, <2>4
      <3>2. maxPrec[o] \in goalZone \/ o \in cut
        BY <2>1, <2>2, <3>1 DEF ZoneOK
      <3>3. QED BY <1>14, <3>2
    <2>5. QED BY <2>3, <2>4
  <1>18. \A f \in ZoneFacts' : hMaxVal[f] > 0
    BY <1>4, <1>14, <1>15
  <1>19. ZoneOK'
    BY <1>2, <1>4, <1>14, <1>15, <1>16, <1>17, <1>18 DEF ZoneOK
  <1>20. QED BY <1>3, <1>19
\* Only operators whose dearest precondition is bad are erased.
LEMMA EraseFromFacts ==
  ASSUME IsModel, NEW C \in SUBSET Ops, NEW bad
  PROVE  EraseFrom(C, bad) \subseteq C /\ \A o \in C : o \in EraseFrom(C, bad) \/ maxPrec[o] \in bad
  <1> DEFINE N == numOps
             A == [left : SUBSET Ops, seen : Int]
             start == [left |-> C, seen |-> 0]
             visit(v, o) == IF v.seen = Cardinality(v.left) /\ v.seen > 0 THEN v
                            ELSE [left |-> IF maxPrec[o] \in bad THEN v.left \ {o} ELSE v.left,
                                  seen |-> v.seen + 1]
             E == CHOOSE e : e = [n \in 0 .. N |-> IF n = 0 THEN start
                                                   ELSE IF n - 1 \in C THEN visit(e[n - 1], n - 1) ELSE e[n - 1]]
             F(i, y) == IF i - 1 \in C THEN visit(y, i - 1) ELSE y
             OK(y) == y.left \subseteq C /\ \A o \in C : o \in y.left \/ maxPrec[o] \in bad
  <1>1. EraseFrom(C, bad) = E[N].left
    BY Zenon DEF EraseFrom
  <1>2. N \in Nat
    BY OpsFacts
  <1>3. start \in A /\ OK(start)
    OBVIOUS
  <1>4. ASSUME NEW i \in 1 .. N, NEW y \in A
        PROVE  F(i, y) \in A /\ (OK(y) => OK(F(i, y)))
    <2>1. \A o : visit(y, o) \in A /\ (OK(y) => OK(visit(y, o)))
      OBVIOUS
    <2> HIDE DEF A, visit, OK
    <2>2. QED BY <2>1
  <1>5. \E e \in [0 .. N -> A] : e = [n \in 0 .. N |-> IF n = 0 THEN start
                                                   ELSE IF n - 1 \in C THEN visit(e[n - 1], n - 1) ELSE e[n - 1]]
    <2> DEFINE step == [i \in 1 .. N |-> [y \in A |-> F(i, y)]]
    <2>1. step \in [1 .. N -> [A -> A]]
      <3> HIDE DEF F, A
      <3>1. QED BY <1>4
    <2>2. PICK e \in [0 .. N -> A] : Iterates(e, N, start, step)
      <3> HIDE DEF step, start, A, N
      <3>1. QED BY <1>2, <1>3, <2>1, IterationExists
    <2>3. ASSUME NEW n \in 0 .. N
          PROVE  e[n] = IF n = 0 THEN start ELSE F(n, e[n - 1])
      <3>1. e[n] = IF n = 0 THEN start ELSE step[n][e[n - 1]]
        <4> HIDE DEF step, start, A, N
        <4>1. QED BY <2>2, <2>3 DEF Iterates
      <3>2. n # 0 => n \in 1 .. N /\ e[n - 1] \in A
        <4>1. n # 0 => n \in 1 .. N /\ n - 1 \in 0 .. N
          BY <1>2, <2>3
        <4> HIDE DEF A, N
        <4>2. QED BY <4>1
      <3>3. n # 0 => step[n][e[n - 1]] = F(n, e[n - 1])
        <4> HIDE DEF F, A, N
        <4>1. QED BY <3>2
      <3> HIDE DEF F, step, start, A, N
      <3>4. QED BY <3>1, <3>3
    <2>4. e = [n \in 0 .. N |-> IF n = 0 THEN start ELSE F(n, e[n - 1])]
      <3> HIDE DEF F, start, A, N
      <3>1. QED BY <2>2, <2>3
    <2>5. QED BY <2>4
  <1>6. E = [n \in 0 .. N |-> IF n = 0 THEN start
                              ELSE IF n - 1 \in C THEN visit(E[n - 1], n - 1) ELSE E[n - 1]]
    BY <1>5, Zenon
  <1>7. \A n \in 0 .. N : E[n] = IF n = 0 THEN start ELSE F(n, E[n - 1])
    <2> HIDE DEF E, start, N, visit
    <2>1. QED BY <1>6
  <1> HIDE DEF E, F, start, A, N, OK
  <1>8. E[N] \in A /\ OK(E[N])
    <2> DEFINE T == {n \in 0 .. N : E[n] \in A /\ OK(E[n])}
    <2>1. 0 \in T
      BY <1>2, <1>3, <1>7
    <2>2. ASSUME NEW i \in 1 .. N, i - 1 \in T
          PROVE  i \in T
      <3>1. i \in 0 .. N /\ i # 0
        BY <1>2
      <3>2. E[i] = F(i, E[i - 1]) /\ E[i - 1] \in A /\ OK(E[i - 1])
        BY <1>7, <2>2, <3>1
      <3>3. QED BY <1>4, <3>1, <3>2
    <2>3. 0 .. N \subseteq T
      <3> HIDE DEF T
      <3>1. QED BY <1>2, <2>1, <2>2, LoopKeeps
    <2>4. N \in 0 .. N
      BY <1>2
    <2>5. QED BY <2>3, <2>4
  <1>9. QED BY <1>1, <1>8 DEF OK

\* The backward search stays outside the goal zone, and finds all that leads on.
LEMMA BackwardFacts ==
  ASSUME IsModel, HMaxOK, NEW f \in rc.facts
  PROVE  /\ Backward(f) \subseteq rc.facts /\ f \in Backward(f)
         /\ \A x \in Backward(f) : \A o \in Producers(x) : maxPrec[o] \in Backward(f) \/ maxPrec[o] \in goalZone
         /\ \A x \in Backward(f) : x = f \/ (x \notin goalZone /\ \E y \in Backward(f) : \E o \in Producers(y) : x = maxPrec[o])
  <1> DEFINE X == rc.facts
             before(F) == F \union ({maxPrec[o] : o \in UNION {Producers(x) : x \in F}} \ goalZone)
             step == [F \in SUBSET X |-> before(F)]
             W == CHOOSE w : w = [F \in SUBSET X |-> IF before(F) = F THEN F ELSE w[before(F)]]
  <1>1. \A x : \A o \in Producers(x) : maxPrec[o] \in X
    <2>1. SUFFICES ASSUME NEW x, NEW o \in Producers(x)
                   PROVE  maxPrec[o] \in X
      OBVIOUS
    <2>2. o \in Ops /\ o \in DoneOps
      BY DEF Producers, DoneOps
    <2>3. QED BY <2>2, DoneIs, OpsFacts
  <1>2. Inflating(X, step)
    <2>1. \A F \in SUBSET X : before(F) \in SUBSET X
      BY <1>1
    <2>2. step \in [SUBSET X -> SUBSET X]
      BY <2>1
    <2>3. ASSUME NEW F \in SUBSET X, NEW G \in SUBSET X, F \subseteq G
          PROVE  before(F) \subseteq before(G)
      BY <2>3
    <2>4. \A F, G \in SUBSET X : F \subseteq G => step[F] \subseteq step[G]
      BY <2>3
    <2>5. \A F \in SUBSET X : F \subseteq step[F]
      OBVIOUS
    <2>6. QED BY <2>2, <2>4, <2>5 DEF Inflating, Monotone
  <1>3. \A w : GrowsBy(X, step, w) <=> w = [F \in SUBSET X |-> IF before(F) = F THEN F ELSE w[before(F)]]
    <2>1. ASSUME NEW w
          PROVE  [F \in SUBSET X |-> IF step[F] = F THEN F ELSE w[step[F]]]
                 = [F \in SUBSET X |-> IF before(F) = F THEN F ELSE w[before(F)]]
      OBVIOUS
    <2>2. QED BY <2>1 DEF GrowsBy
  <1>4. GrowsBy(X, step, W)
    <2>1. \E w : w = [F \in SUBSET X |-> IF before(F) = F THEN F ELSE w[before(F)]]
      BY <1>2, <1>3, GrowthExists
    <2>2. W = [F \in SUBSET X |-> IF before(F) = F THEN F ELSE W[before(F)]]
      BY <2>1
    <2>3. QED BY <2>2, <1>3
  <1>5. Backward(f) = W[{f}]
    BY Zenon DEF Backward
  <1>6. \A F \in SUBSET X : step[F] = before(F)
    OBVIOUS
  <1> DEFINE B == W[{f}]
  <1> HIDE DEF W, step
  <1>7. /\ B \in SUBSET X /\ {f} \subseteq B /\ step[B] \subseteq B
        /\ \A C \in SUBSET X : {f} \subseteq C /\ step[C] \subseteq C => B \subseteq C
    <2>1. IsFiniteSet(X)
      BY DEF IsModel
    <2> DEFINE F == {f}
    <2>2. F \in SUBSET X
      OBVIOUS
    <2> HIDE DEF X, F
    <2>3. /\ W[F] \in SUBSET X /\ F \subseteq W[F] /\ step[W[F]] \subseteq W[F]
          /\ \A C \in SUBSET X : F \subseteq C /\ step[C] \subseteq C => W[F] \subseteq C
      BY <1>2, <1>4, <2>1, <2>2, GrowthEnds
    <2>4. QED BY <2>3 DEF F
  <1>8. before(B) \subseteq B
    BY <1>6, <1>7
  <1> HIDE DEF B
  <1>9. \A x \in B : \A o \in Producers(x) : maxPrec[o] \in B \/ maxPrec[o] \in goalZone
    BY <1>8
  <1>0. B = Backward(f)
    BY <1>5 DEF B
  <1> DEFINE C == {x \in B : x = f \/ (x \notin goalZone /\ \E y \in B : \E o \in Producers(y) : x = maxPrec[o])}
  <1>10. B \subseteq C
    <2>1. C \in SUBSET X /\ {f} \subseteq C
      BY <1>7
    <2>2. before(C) \subseteq C
      <3>1. SUFFICES ASSUME NEW y \in C, NEW o \in Producers(y), maxPrec[o] \notin goalZone
                     PROVE  maxPrec[o] \in C
        OBVIOUS
      <3>2. y \in B /\ maxPrec[o] \in B
        BY <1>9, <3>1
      <3>3. QED BY <3>1, <3>2
    <2> HIDE DEF C, before
    <2>3. step[C] \subseteq C
      BY <1>6, <2>1, <2>2
    <2>4. QED BY <1>7, <2>1, <2>3
  <1> HIDE DEF C, before, step
  <1>11. \A x \in B : x = f \/ (x \notin goalZone /\ \E y \in B : \E o \in Producers(y) : x = maxPrec[o])
    BY <1>10 DEF C
  <1>12. QED BY <1>0, <1>7, <1>9, <1>11

\* While costs are taken from the cut.
CutOK ==
  /\ heap = {} /\ gset \subseteq rc.facts /\ gset \subseteq Closure(s0set, Ops)
  /\ cut \subseteq Ops /\ \A o \in cut : costs[o] > 0
  /\ ~(gset \subseteq Closure(s0set, Ops \ cut))

\* What the goals are cut off from: the zone, what cannot be reached, and what only leads there.
LEMMA CheckForwardKeeps ==
  ASSUME IsModel, HMaxOK, ZoneOK, gset \subseteq Closure(s0set, Ops), CheckForwardReachability
  PROVE  HMaxOK' /\ CutOK'
  <1> DEFINE Bad == NotReachedFromS0
             Left == EraseFrom(cut, Bad)
             Off == ZoneFacts \union {f \in rc.facts : hMaxVal[f] = UNREACHABLE} \union UNION {Backward(b) : b \in Bad}
             C == rc.facts \ Off
  <1>1. zoneStack = <<>> /\ cut' = Left
    BY DEF CheckForwardReachability
  <1>2. /\ rc' = rc /\ s0set' = s0set /\ gset' = gset /\ costs' = costs /\ Ops' = Ops
        /\ heap' = heap /\ unsatPrecs' = unsatPrecs /\ maxPrec' = maxPrec /\ hMaxVal' = hMaxVal
    BY DEF CheckForwardReachability, callVars, hMaxVars, Ops
  <1>3. HMaxOK'
    <2>1. Reached' = Reached /\ DoneOps' = DoneOps
      BY <1>2 DEF Reached, DoneOps
    <2>2. QED BY <1>2, <2>1 DEF HMaxOK
  <1>4. /\ heap = {} /\ gset \subseteq rc.facts /\ maxPrecG \in gset
        /\ goalZone \subseteq rc.facts /\ (\A f \in ZoneFacts : hMaxVal[f] > 0)
        /\ cut \subseteq Ops /\ (\A o \in cut : costs[o] > 0) /\ precsOfCutNodes \subseteq rc.facts
    BY DEF ZoneOK
  <1>5. \A f \in ZoneFacts : \A o \in Producers(f) : maxPrec[o] \in goalZone \/ o \in cut
    <2>1. ToSet(zoneStack) = {}
      BY <1>1 DEF ToSet
    <2>2. QED BY <2>1 DEF ZoneOK
  <1>6. Left \subseteq cut /\ \A o \in cut : o \in Left \/ maxPrec[o] \in Bad
    BY <1>4, EraseFromFacts
  <1> HIDE DEF Left
  <1>7. /\ \A f \in rc.facts : hMaxVal[f] \in Nat /\ (f \in Reached <=> hMaxVal[f] # UNREACHABLE)
        /\ s0set \subseteq Reached
        /\ \A o \in Ops : rc.prec[o] \subseteq Reached => rc.add[o] \subseteq Reached
    BY <1>4, HMaxEnds
  <1>8. \A b \in Bad : /\ b \in rc.facts /\ b \in Backward(b)
                       /\ \A x \in Backward(b) : x \notin s0set
    <2>1. SUFFICES ASSUME NEW b \in Bad
                   PROVE  /\ b \in rc.facts /\ b \in Backward(b)
                          /\ \A x \in Backward(b) : x \notin s0set
      OBVIOUS
    <2>2. b \in precsOfCutNodes /\ b \notin s0set
          /\ ~\E x \in Backward(b) : \E o \in Producers(x) : maxPrec[o] \in s0set \ goalZone
      BY DEF NotReachedFromS0
    <2>3. b \in rc.facts
      BY <1>4, <2>2
    <2>4. ASSUME NEW x \in Backward(b), x \in s0set
          PROVE  FALSE
      <3>1. x # b
        BY <2>2, <2>4
      <3>2. x \notin goalZone /\ \E y \in Backward(b) : \E o \in Producers(y) : x = maxPrec[o]
        BY <2>3, <3>1, BackwardFacts
      <3>3. QED BY <2>2, <2>4, <3>2
    <2>5. QED BY <2>3, <2>4, BackwardFacts
  <1>9. s0set \subseteq C
    <2>1. SUFFICES ASSUME NEW f \in s0set, f \in Off
                   PROVE  FALSE
      BY DEF HMaxOK
    <2>2. f \in rc.facts /\ hMaxVal[f] = 0
      BY DEF HMaxOK
    <2>3. f \notin ZoneFacts
      BY <1>4, <2>2
    <2>4. hMaxVal[f] # UNREACHABLE
      BY <2>2, UnreachableIsLarge
    <2>5. QED BY <1>8, <2>1, <2>3, <2>4
  <1>10. ASSUME NEW o \in Ops \ Left, rc.prec[o] \subseteq C
         PROVE  rc.add[o] \subseteq C
    <2>1. \A f \in C : f \in rc.facts /\ hMaxVal[f] # UNREACHABLE /\ f \in Reached /\ f \notin ZoneFacts
      BY <1>7
    <2>2. rc.prec[o] \subseteq Reached /\ o \in Ops
      BY <1>10, <2>1
    <2>3. o \in DoneOps
      BY <2>2, DoneIs
    <2>4. maxPrec[o] \in C /\ maxPrec[o] \notin goalZone /\ maxPrec[o] \notin Off
      BY <1>10, <2>1, <2>3, DoneIs DEF ZoneFacts
    <2>5. maxPrec[o] \notin Bad
      BY <1>8, <2>4
    <2>6. o \notin cut
      BY <1>6, <1>10, <2>5
    <2>7. SUFFICES ASSUME NEW f \in rc.add[o], f \in Off
                   PROVE  FALSE
      BY <2>2, OpsFacts
    <2>8. f \in Reached /\ f \in rc.facts /\ o \in Producers(f)
      BY <1>7, <2>2, <2>3, <2>7, OpsFacts DEF Producers, DoneOps
    <2>9. f \notin ZoneFacts
      BY <1>5, <2>4, <2>6, <2>8
    <2>10. hMaxVal[f] # UNREACHABLE
      BY <1>7, <2>8
    <2>11. PICK b \in Bad : f \in Backward(b)
      BY <2>7, <2>9, <2>10
    <2>12. maxPrec[o] \in Backward(b)
      <3>1. b \in rc.facts
        BY <1>8
      <3>2. QED BY <2>4, <2>8, <2>11, <3>1, BackwardFacts
    <2>13. QED BY <2>4, <2>12
  <1>11. Closure(s0set, Ops \ Left) \subseteq C
    <2>1. s0set \in SUBSET rc.facts /\ Ops \ Left \in SUBSET Ops
      BY DEF HMaxOK
    <2> HIDE DEF C
    <2>2. QED BY <1>9, <1>10, <2>1, ClosureFacts
  <1>12. maxPrecG \notin C
    BY DEF ZoneFacts
  <1>13. ~(gset \subseteq Closure(s0set, Ops \ Left))
    <2> HIDE DEF C
    <2>1. QED BY <1>4, <1>11, <1>12
  <1>14. \A F, O : Closure(F, O)' = Closure(F, O)
    BY <1>2 DEF Closure
  <1>15. CutOK'
    <2>1. gset' \subseteq Closure(s0set', Ops')
      BY <1>2
    <2>2. QED BY <1>1, <1>2, <1>4, <1>6, <1>13, <1>14, <2>1 DEF CutOK
  <1>16. QED BY <1>3, <1>15
\* The greatest of the values of the goals.
LEMMA HMaxIs ==
  ASSUME HMaxOK, gset \subseteq rc.facts, gset # {}
  PROVE  /\ hMax \in 0 .. UNREACHABLE /\ (\E f \in gset : hMaxVal[f] = hMax)
         /\ \A f \in gset : hMaxVal[f] \in Nat /\ hMaxVal[f] <= hMax
  <1> DEFINE T == {hMaxVal[f] : f \in gset}
  <1>1. \A f \in gset : hMaxVal[f] \in 0 .. UNREACHABLE
    BY DEF HMaxOK, QueueOK
  <1>2. T \in SUBSET Nat /\ T # {} /\ \A x \in T : x <= UNREACHABLE
    BY <1>1, UnreachableIsLarge
  <1>3. hMax = Max(T)
    BY DEF hMax
  <1>4. Max(T) \in T /\ \A y \in T : y <= Max(T)
    <2> HIDE DEF T
    <2>1. \E x \in T : \A y \in T : y <= x
      BY <1>2, GreatestNumber, UnreachableIsLarge
    <2>2. QED BY <2>1 DEF Max
  <1>5. QED BY <1>1, <1>2, <1>3, <1>4

\* The least costs of the cut are positive, and no costs get negative.
LEMMA TakeCostsFacts ==
  ASSUME IsModel, HMaxOK, CutOK
  PROVE  /\ minCosts \in Nat /\ minCosts > 0 /\ \A o \in cut : minCosts <= costs[o]
         /\ Subtract \in [Ops -> Nat]
         /\ \A o \in Ops : Subtract[o] = IF o \in cut THEN costs[o] - minCosts ELSE costs[o]
  <1> DEFINE T == {costs[o] : o \in cut}
  <1>1. costs \in [Ops -> Nat] /\ cut \subseteq Ops /\ \A o \in cut : costs[o] > 0
    BY DEF HMaxOK, CutOK
  <1>2. cut # {}
    <2>1. SUFFICES ASSUME cut = {}
                   PROVE  FALSE
      OBVIOUS
    <2>2. Ops \ cut = Ops
      BY <2>1
    <2>3. QED BY <2>2 DEF CutOK
  <1>3. T \in SUBSET Nat /\ T # {}
    BY <1>1, <1>2
  <1>4. Min(T) \in T /\ \A y \in T : Min(T) <= y
    <2> HIDE DEF T
    <2>1. QED BY <1>3, MinOfNumbers
  <1>5. minCosts \in T /\ \A y \in T : minCosts <= y
    BY <1>4 DEF minCosts
  <1>6. minCosts \in Nat /\ minCosts > 0 /\ \A o \in cut : minCosts <= costs[o]
    BY <1>1, <1>5
  <1>7. \A o \in Ops : (IF o \in cut THEN costs[o] - minCosts ELSE costs[o]) \in Nat
    <2>1. SUFFICES ASSUME NEW o \in Ops, o \in cut
                   PROVE  costs[o] - minCosts \in Nat
      BY <1>1
    <2>2. costs[o] \in Nat /\ minCosts <= costs[o]
      BY <1>1, <1>6, <2>1
    <2>3. QED BY <1>6, <2>2
  <1>8. QED BY <1>6, <1>7 DEF Subtract

\* Then the values are computed anew.
LEMMA TakeCostsKeeps ==
  ASSUME IsModel, HMaxOK, CutOK, TakeCosts
  PROVE  HMaxOK' /\ ValuesOK'
  <1>1. rc' = rc /\ s0set' = s0set /\ costs' = Subtract /\ StartHMax(s0set) /\ s0set \in SUBSET rc.facts
    BY DEF TakeCosts, callVars, HMaxOK
  <1>2. \A o \in Ops : costs'[o] <= rc.cost[o]
    <2>1. SUFFICES ASSUME NEW o \in Ops
                   PROVE  costs'[o] <= rc.cost[o]
      OBVIOUS
    <2>2. costs[o] \in Nat /\ costs[o] <= rc.cost[o] /\ rc.cost[o] \in Nat
      BY OpsFacts DEF HMaxOK
    <2>3. costs'[o] = costs[o] \/ costs'[o] = costs[o] - minCosts
      BY <1>1, TakeCostsFacts
    <2>4. minCosts \in Nat
      BY TakeCostsFacts
    <2>5. QED BY <2>2, <2>3, <2>4
  <1>3. costs' \in [Ops -> Nat]
    BY <1>1, TakeCostsFacts
  <1>4. HMaxOK'
    BY <1>1, <1>2, <1>3, StartHMaxKeeps
  <1>5. QED BY <1>1, <1>4, ValuesKeep
-----------------------------------------------------------------------------
(* What holds in a search.                                                 *)

\* The node is one of the problem, and an estimate is only computed for it.
NodeOK ==
  /\ phase # "search" => calc = "none"
  /\ phase = "search" => /\ rc = RCModel /\ state \subseteq htn.facts
                         /\ net \in Seq(Tasks) /\ Len(net) <= htn.maxSteps + 1
  /\ calc # "none" => /\ s0set = StateFacts(state) \union {t2tdr(a) : a \in ReachableActions}
                      /\ gset = StateFacts(htn.gList) \union {t2bur(t) : t \in ToSet(net)}

\* The goals can be reached.
GoalsReachable == gset \subseteq Closure(s0set, Ops)

\* They do not depend on the rest of the state.
LEMMA GoalsStay ==
  ASSUME rc' = rc, s0set' = s0set, gset' = gset
  PROVE  GoalsReachable => GoalsReachable'
  <1>1. Ops' = Ops /\ \A F, O : Closure(F, O)' = Closure(F, O)
    BY DEF Ops, Closure
  <1>2. QED BY <1>1 DEF GoalsReachable

\* A call of LM-Cut.
LmCutOK ==
  /\ calc \in {"hMax", "goalZone", "cut"} => HMaxOK /\ ValuesOK /\ gset # {}
  /\ calc = "goalZone" => ZoneOK /\ GoalsReachable
  /\ calc = "cut" => CutOK

\* The facts of a node are facts of the problem without deletes.
LEMMA NodeFacts ==
  ASSUME GraphInv, NodeOK, phase = "search"
  PROVE  /\ htn \in Problems /\ IsModel
         /\ StateFacts(state) \union {t2tdr(a) : a \in ReachableActions} \subseteq rc.facts
         /\ StateFacts(htn.gList) \union {t2bur(t) : t \in ToSet(net)} \subseteq rc.facts
  <1>1. htn \in Problems /\ reachable = [t \in Tasks |-> ActionsBelow(t)]
    BY DEF GraphInv
  <1>2. IsModel
    BY <1>1, RCModelIsModel DEF NodeOK
  <1>3. rc.facts = StateFacts(htn.facts) \union {t2tdr(a) : a \in Actions} \union {t2bur(t) : t \in Tasks}
    BY DEF NodeOK, RCModel
  <1>4. state \subseteq htn.facts /\ net \in Seq(Tasks) /\ htn.gList \subseteq htn.facts
    BY <1>1, PlanningFacts DEF NodeOK
  <1>5. ToSet(net) \subseteq Tasks /\ \A i \in DOMAIN net : net[i] \in Tasks
    BY <1>4, SeqParts
  <1>6. ReachableActions \subseteq Actions
    BY <1>1, <1>5 DEF ReachableActions, ActionsBelow, Actions
  <1>7. QED BY <1>1, <1>2, <1>3, <1>4, <1>5, <1>6 DEF StateFacts

\* The node stays what it is while its estimate is computed.
LEMMA NodeRests ==
  ASSUME NodeOK, phase' = phase, rc' = rc, htn' = htn, options' = options, reachable' = reachable,
         state' = state, net' = net, s0set' = s0set, gset' = gset, calc # "none"
  PROVE  NodeOK'
  <1>1. phase = "search"
    BY DEF NodeOK
  <1>2. RCModel' = RCModel /\ Tasks' = Tasks
    BY DEF RCModel, Actions, Tasks, ComposedOf, subTasks
  <1>3. ReachableActions' = ReachableActions
    BY DEF ReachableActions
  <1>4. QED BY <1>1, <1>2, <1>3 DEF NodeOK

\* A list is what is before a place, what is there, and what is behind it.
LEMMA ListAround ==
  ASSUME NEW X, NEW n \in Seq(X), NEW i \in DOMAIN n
  PROVE  /\ SubSeq(n, 1, i - 1) \in Seq(X) /\ SubSeq(n, i + 1, Len(n)) \in Seq(X)
         /\ ToSet(n) = ToSet(SubSeq(n, 1, i - 1)) \union {n[i]} \union ToSet(SubSeq(n, i + 1, Len(n)))
         /\ Len(SubSeq(n, 1, i - 1)) = i - 1 /\ Len(SubSeq(n, i + 1, Len(n))) = Len(n) - i
         /\ \A j \in 1 .. i - 1 : SubSeq(n, 1, i - 1)[j] = n[j]
         /\ \A j \in 1 .. Len(n) - i : SubSeq(n, i + 1, Len(n))[j] = n[i + j]
  <1> DEFINE a == SubSeq(n, 1, i - 1)
             b == SubSeq(n, i + 1, Len(n))
  <1>1. Len(n) \in Nat /\ DOMAIN n = 1 .. Len(n) /\ i \in 1 .. Len(n) /\ \A j \in 1 .. Len(n) : n[j] \in X
    BY SeqParts
  <1>2. a \in Seq(X) /\ Len(a) = i - 1 /\ DOMAIN a = 1 .. i - 1 /\ \A j \in 1 .. i - 1 : a[j] = n[j]
    <2>1. /\ a \in Seq(X) /\ Len(a) = (IF 1 <= i - 1 THEN i - 1 - 1 + 1 ELSE 0)
          /\ \A j \in 1 .. i - 1 - 1 + 1 : a[j] = n[1 + j - 1]
      <3>1. 1 \in Int /\ i - 1 \in Int /\ \A j \in 1 .. i - 1 : n[j] \in X
        BY <1>1
      <3>2. QED BY <3>1, SubSeqProperties
    <2>2. DOMAIN a = 1 .. Len(a)
      BY <2>1, LenProperties
    <2>3. Len(a) = i - 1
      <3>1. CASE 1 <= i - 1
        BY <1>1, <2>1, <3>1
      <3>2. CASE ~(1 <= i - 1)
        <4>1. i = 1 /\ Len(a) = 0
          BY <1>1, <2>1, <3>2
        <4>2. QED BY <4>1
      <3>3. QED BY <3>1, <3>2
    <2>4. \A j \in 1 .. i - 1 : 1 + j - 1 = j /\ j \in 1 .. i - 1 - 1 + 1
      BY <1>1
    <2>5. QED BY <2>1, <2>2, <2>3, <2>4
  <1>3. /\ b \in Seq(X) /\ Len(b) = Len(n) - i /\ DOMAIN b = 1 .. Len(n) - i
        /\ \A j \in 1 .. Len(n) - i : b[j] = n[i + j]
    <2>1. /\ b \in Seq(X) /\ Len(b) = (IF i + 1 <= Len(n) THEN Len(n) - (i + 1) + 1 ELSE 0)
          /\ \A j \in 1 .. Len(n) - (i + 1) + 1 : b[j] = n[(i + 1) + j - 1]
      <3>1. i + 1 \in Int /\ Len(n) \in Int /\ \A j \in i + 1 .. Len(n) : n[j] \in X
        BY <1>1
      <3>2. QED BY <3>1, SubSeqProperties
    <2>2. DOMAIN b = 1 .. Len(b)
      BY <2>1, LenProperties
    <2>3. \A j \in 1 .. Len(n) - i : (i + 1) + j - 1 = i + j /\ j \in 1 .. Len(n) - (i + 1) + 1
      BY <1>1
    <2>4. Len(b) = Len(n) - i
      <3>1. CASE i + 1 <= Len(n)
        BY <1>1, <2>1, <3>1
      <3>2. CASE ~(i + 1 <= Len(n))
        <4>1. i = Len(n) /\ Len(b) = 0
          BY <1>1, <2>1, <3>2
        <4>2. QED BY <1>1, <4>1
      <3>3. QED BY <3>1, <3>2
    <2>5. QED BY <2>1, <2>2, <2>3, <2>4
  <1> HIDE DEF a, b
  <1>4. ASSUME NEW j \in 1 .. Len(n)
        PROVE  n[j] \in ToSet(a) \union {n[i]} \union ToSet(b)
    <2>1. CASE j < i
      <3>1. j \in DOMAIN a /\ a[j] = n[j]
        BY <1>1, <1>2, <2>1
      <3>2. QED BY <3>1 DEF ToSet
    <2>2. CASE j = i
      BY <2>2
    <2>3. CASE j > i
      <3>1. j - i \in 1 .. Len(n) - i /\ i + (j - i) = j
        BY <1>1, <2>3
      <3>2. j - i \in DOMAIN b /\ b[j - i] = n[j]
        BY <1>3, <3>1
      <3>3. QED BY <3>2 DEF ToSet
    <2>4. QED BY <1>1, <2>1, <2>2, <2>3
  <1>5. \A j \in DOMAIN a : a[j] \in ToSet(n)
    <2>1. \A j \in 1 .. i - 1 : j \in 1 .. Len(n)
      BY <1>1
    <2>2. QED BY <1>1, <1>2, <2>1 DEF ToSet
  <1>6. \A j \in DOMAIN b : b[j] \in ToSet(n)
    <2>1. \A j \in 1 .. Len(n) - i : i + j \in 1 .. Len(n)
      BY <1>1
    <2>2. QED BY <1>1, <1>3, <2>1 DEF ToSet
  <1>7. ToSet(n) = ToSet(a) \union {n[i]} \union ToSet(b)
    <2>1. ToSet(a) \subseteq ToSet(n) /\ ToSet(b) \subseteq ToSet(n)
      BY <1>5, <1>6 DEF ToSet
    <2>2. ToSet(n) \subseteq ToSet(a) \union {n[i]} \union ToSet(b)
      BY <1>1, <1>4 DEF ToSet
    <2>3. n[i] \in ToSet(n)
      BY DEF ToSet
    <2>4. QED BY <2>1, <2>2, <2>3
  <1>8. QED BY <1>2, <1>3, <1>7 DEF a, b

\* Where the steps are when one of them has been replaced.
LEMMA ReplacedPlaces ==
  ASSUME NEW X, NEW n \in Seq(X), NEW i \in DOMAIN n, NEW list \in Seq(X)
  PROVE  /\ Len(Replaced(n, i, list)) = Len(n) - 1 + Len(list)
         /\ \A j \in 1 .. i - 1 : Replaced(n, i, list)[j] = n[j]
         /\ \A j \in i + 1 .. Len(n) : Replaced(n, i, list)[(j - 1) + Len(list)] = n[j]
  <1> DEFINE a == SubSeq(n, 1, i - 1)
             b == SubSeq(n, i + 1, Len(n))
             c == a \o list
             k == Len(list)
             l == Len(n)
  <1>1. l \in Nat /\ i \in 1 .. l /\ k \in Nat
    BY SeqParts
  <1>2. /\ a \in Seq(X) /\ b \in Seq(X) /\ Len(a) = i - 1 /\ Len(b) = l - i
        /\ (\A j \in 1 .. i - 1 : a[j] = n[j]) /\ \A j \in 1 .. l - i : b[j] = n[i + j]
    BY ListAround
  <1>3. Replaced(n, i, list) = c \o b
    BY DEF Replaced
  <1> HIDE DEF a, b, k, l
  <1>4. c \in Seq(X) /\ Len(c) = i - 1 + k /\ \A j \in 1 .. i - 1 : c[j] = n[j]
    <2>1. /\ c \in Seq(X) /\ Len(c) = Len(a) + k
          /\ \A j \in 1 .. Len(a) + k : c[j] = IF j <= Len(a) THEN a[j] ELSE list[j - Len(a)]
      BY <1>2, ConcatProperties DEF k
    <2> HIDE DEF c
    <2>2. \A j \in 1 .. i - 1 : c[j] = n[j]
      <3>1. SUFFICES ASSUME NEW j \in 1 .. i - 1
                     PROVE  c[j] = n[j]
        OBVIOUS
      <3>2. Len(a) = i - 1
        BY <1>2
      <3>3. j \in 1 .. Len(a) + k /\ j <= Len(a)
        BY <1>1, <3>2
      <3>4. c[j] = a[j] /\ a[j] = n[j]
        BY <1>2, <2>1, <3>3
      <3>5. QED BY <3>4
    <2>3. QED BY <1>2, <2>1, <2>2
  <1> HIDE DEF c
  <1> DEFINE r == c \o b
  <1>5. /\ Len(r) = Len(c) + Len(b)
        /\ \A j \in 1 .. Len(c) + Len(b) : r[j] = IF j <= Len(c) THEN c[j] ELSE b[j - Len(c)]
    BY <1>2, <1>4, ConcatProperties
  <1> HIDE DEF r
  <1>0. i \in Int /\ Len(c) = i - 1 + k /\ Len(b) = l - i
    BY <1>1, <1>2, <1>4
  <1>6. Len(r) = l - 1 + k
    BY <1>0, <1>1, <1>5
  <1>7. ASSUME NEW j \in 1 .. i - 1
        PROVE  r[j] = n[j]
    <2>0. j <= i - 1 /\ Len(b) \in Nat /\ k \in Nat /\ j \in Nat /\ j >= 1
      BY <1>0, <1>1
    <2>1. j \in 1 .. Len(c) + Len(b) /\ j <= Len(c)
      BY <1>0, <2>0
    <2>2. r[j] = c[j] /\ c[j] = n[j]
      BY <1>4, <1>5, <2>1
    <2>3. QED BY <2>2
  <1>8. ASSUME NEW j \in i + 1 .. l
        PROVE  r[(j - 1) + k] = n[j]
    <2>0. j \in Nat /\ j >= i + 1 /\ j <= l /\ k \in Nat /\ l \in Nat /\ Len(c) \in Nat /\ i >= 1
      BY <1>0, <1>1
    <2>1. (j - 1) + k \in 1 .. Len(c) + Len(b) /\ ~((j - 1) + k <= Len(c)) /\ ((j - 1) + k) - Len(c) = j - i
      <3> DEFINE x == Len(c)
                 y == Len(b)
      <3>1. x = i - 1 + k /\ y = l - i /\ x \in Int /\ y \in Int /\ i \in Int
        BY <1>0, <2>0
      <3> HIDE DEF x, y, k, l
      <3>2. j - 1 \in Int /\ (j - 1) + k \in Int /\ (j - 1) + k >= 1 /\ x + y = (l - 1) + k
        BY <2>0, <3>1, SMTT(20)
      <3>3. (j - 1) + k <= x + y /\ ~((j - 1) + k <= x)
        <4>1. (j - 1) + k <= x + y
          BY <2>0, <3>2
        <4>2. j - 1 >= i
          BY <2>0, <3>1
        <4>3. (j - 1) + k >= x + 1
          BY <2>0, <3>1, <4>2, SMTT(20)
        <4>4. QED BY <3>1, <3>2, <4>1, <4>3
      <3>4. ((j - 1) + k) - x = j - i
        BY <2>0, <3>1, SMTT(20)
      <3>5. QED BY <3>1, <3>2, <3>3, <3>4 DEF x, y
    <2>2. j - i \in 1 .. l - i /\ i + (j - i) = j
      BY <1>1
    <2>3. r[(j - 1) + k] = b[j - i]
      BY <1>5, <2>1
    <2>4. b[j - i] = n[j]
      BY <1>2, <2>2
    <2>5. QED BY <2>3, <2>4
  <1>9. QED BY <1>3, <1>6, <1>7, <1>8 DEF r, k, l

\* A step of a network is replaced.
LEMMA ReplacedIn ==
  ASSUME NEW X, NEW n \in Seq(X), NEW i \in DOMAIN n, NEW list \in Seq(X)
  PROVE  /\ Replaced(n, i, list) \in Seq(X)
         /\ ToSet(n) \subseteq ToSet(Replaced(n, i, list)) \union {n[i]}
         /\ ToSet(Replaced(n, i, list)) \subseteq ToSet(n) \union ToSet(list)
         /\ ToSet(list) \subseteq ToSet(Replaced(n, i, list))
  <1> DEFINE a == SubSeq(n, 1, i - 1)
             b == SubSeq(n, i + 1, Len(n))
  <1>1. a \in Seq(X) /\ b \in Seq(X) /\ ToSet(n) = ToSet(a) \union {n[i]} \union ToSet(b)
    BY ListAround
  <1>2. Replaced(n, i, list) = a \o list \o b
    BY DEF Replaced
  <1> HIDE DEF a, b
  <1>3. a \o list \in Seq(X) /\ ToSet(a \o list) = ToSet(a) \union ToSet(list)
    BY <1>1, ConcatSet
  <1>4. (a \o list) \o b \in Seq(X) /\ ToSet((a \o list) \o b) = ToSet(a) \union ToSet(list) \union ToSet(b)
    <2> DEFINE c == a \o list
    <2>1. c \in Seq(X) /\ ToSet(c) = ToSet(a) \union ToSet(list)
      BY <1>3
    <2> HIDE DEF c
    <2>2. ToSet(c \o b) = ToSet(c) \union ToSet(b) /\ c \o b \in Seq(X)
      BY <1>1, <2>1, ConcatSet
    <2>3. QED BY <2>1, <2>2 DEF c
  <1>5. QED BY <1>1, <1>2, <1>4

\* Every step leaves the node as one of the problem.
LEMMA NextNode ==
  ASSUME GraphInv, NodeOK, [Next]_vars
  PROVE  NodeOK'
  <1>1. htn \in Problems
    BY DEF GraphInv
  <1>2. CASE Prepare
    <2>1. htn' = htn /\ phase # "search" /\ phase' # "search" /\ calc' = calc
      <3>1. CASE GraphNext
        BY <1>2, <3>1 DEF Prepare, GraphNext, Descend, SeeChild, CloseComponent, LeaveInside,
           FindCyclic, AnalyseCyclicity, StartReachability, Process, GraphKnown, inTarjan, heuristicVars
      <3>2. CASE DistanceNext
        BY <1>2, <3>2, Zenon DEF Prepare, DistanceNext, StartDistances, LookAtMethod, LookAtTask,
           DistancesKnown, heuristicVars
      <3>3. QED BY <1>2, <3>1, <3>2 DEF Prepare
    <2>2. QED BY <2>1 DEF NodeOK
  <1>3. CASE Construct
    <2>1. phase' = "search" /\ rc' = RCModel /\ htn' = htn /\ options' = options /\ calc' = calc
          /\ state' = htn.s0 /\ net' = <<htn.initialTask>> /\ phase # "search"
      BY <1>3 DEF Construct
    <2>2. RCModel' = RCModel /\ Tasks' = Tasks
      BY <2>1 DEF RCModel, Actions, Tasks, ComposedOf, subTasks
    <2>3. htn.s0 \subseteq htn.facts /\ <<htn.initialTask>> \in Seq(Tasks) /\ Len(<<htn.initialTask>>) <= htn.maxSteps + 1
      BY <1>1, PlanningFacts, PlanningAssumption
    <2>4. QED BY <2>1, <2>2, <2>3 DEF NodeOK
  <1>4. ASSUME NewNode, state' \subseteq htn.facts, net' \in Seq(Tasks), Len(net') <= htn.maxSteps + 1
        PROVE  NodeOK'
    <2>1. /\ phase = "search" /\ calc' = "none"
          /\ phase' = phase /\ rc' = rc /\ htn' = htn /\ options' = options
      BY <1>4 DEF NewNode
    <2>2. RCModel' = RCModel /\ Tasks' = Tasks
      BY <2>1 DEF RCModel, Actions, Tasks, ComposedOf, subTasks
    <2>3. QED BY <1>4, <2>1, <2>2 DEF NodeOK
  <1>5. CASE Decompose
    <2>0. PICK i \in FirstSteps(net) : \E m \in taskToMethods(net[i]) :
            /\ Len(net) - 1 + Len(subTasks(m)) <= htn.maxSteps
            /\ net' = Replaced(net, i, subTasks(m))
      BY <1>5 DEF Decompose
    <2>1. PICK m \in taskToMethods(net[i]) : /\ Len(net) - 1 + Len(subTasks(m)) <= htn.maxSteps
                                             /\ net' = Replaced(net, i, subTasks(m))
      BY <2>0
    <2>2. NewNode /\ state' = state
      BY <1>5 DEF Decompose
    <2>3. net \in Seq(Tasks) /\ state \subseteq htn.facts
      BY <2>2 DEF NewNode, NodeOK
    <2>4. i \in DOMAIN net /\ m \in Methods
      BY <2>1 DEF FirstSteps, taskToMethods, Methods
    <2>5. subTasks(m) \in Seq(Tasks)
      BY <1>1, <2>4, PlanningFacts
    <2>6. net' \in Seq(Tasks) /\ Len(net') <= htn.maxSteps
      BY <2>1, <2>3, <2>4, <2>5, ReplacedIn, ReplacedPlaces
    <2>7. Len(net') <= htn.maxSteps + 1
      BY <1>1, <2>6, PlanningAssumption, LenProperties
    <2>8. QED BY <1>4, <2>2, <2>3, <2>6, <2>7
  <1>6. CASE Apply
    <2>1. PICK i \in FirstSteps(net) : /\ Applicable(net[i], state)
                                       /\ state' = Applied(net[i], state)
                                       /\ net' = Replaced(net, i, <<>>)
      BY <1>6 DEF Apply
    <2>2. NewNode
      BY <1>6 DEF Apply
    <2>3. net \in Seq(Tasks) /\ state \subseteq htn.facts
      BY <2>2 DEF NewNode, NodeOK
    <2>4. i \in DOMAIN net /\ <<>> \in Seq(Tasks)
      BY <2>1 DEF FirstSteps
    <2>5. net' \in Seq(Tasks) /\ Len(net') <= htn.maxSteps + 1
      <3>1. net' \in Seq(Tasks) /\ Len(net') = Len(net) - 1 + Len(<<>>)
        BY <2>1, <2>3, <2>4, ReplacedIn, ReplacedPlaces
      <3>2. Len(net) \in Nat /\ Len(net) <= htn.maxSteps + 1 /\ htn.maxSteps \in Nat
        BY <1>1, <2>2, <2>3, PlanningAssumption, LenProperties DEF NewNode, NodeOK
      <3>3. Len(net') = Len(net) - 1
        BY <3>1, <3>2
      <3>4. QED BY <3>1, <3>2, <3>3
    <2>6. htn.addLists[net[i]] \subseteq htn.facts
      BY <1>1, <2>1, PlanningFacts DEF Applicable
    <2>7. state' \subseteq htn.facts
      BY <2>1, <2>3, <2>6 DEF Applied
    <2>8. QED BY <1>4, <2>2, <2>5, <2>7
  <1>7. CASE Evaluate
    <2>1. /\ phase = "search" /\ phase' = phase /\ rc' = rc /\ htn' = htn /\ options' = options
          /\ reachable' = reachable /\ state' = state /\ net' = net
          /\ s0set' = StateFacts(state) \union {t2tdr(a) : a \in ReachableActions}
          /\ gset' = StateFacts(htn.gList) \union {t2bur(t) : t \in ToSet(net)}
      BY <1>7 DEF Evaluate, graphVars, nodeVars
    <2>2. RCModel' = RCModel /\ Tasks' = Tasks /\ ReachableActions' = ReachableActions
      BY <2>1 DEF RCModel, Actions, Tasks, ComposedOf, subTasks, ReachableActions
    <2>3. QED BY <2>1, <2>2 DEF NodeOK
  <1>8. CASE Estimating
    <2>1. /\ calc # "none" /\ phase' = phase /\ rc' = rc /\ htn' = htn /\ options' = options
          /\ reachable' = reachable /\ state' = state /\ net' = net /\ s0set' = s0set /\ gset' = gset
      <3>1. CASE AddFFNext /\ UNCHANGED <<htn, phase, graphVars, distanceVars, lmCutVars, options, nodeVars>>
        <4>1. calc # "none" /\ callVars' = callVars
          BY <3>1, Zenon DEF AddFFNext, PopStale, PopFact, PopLastGoal, QueueEmpty
        <4>2. QED BY <3>1, <4>1 DEF callVars, graphVars, nodeVars
      <3>2. CASE LmCutNext /\ UNCHANGED <<htn, phase, graphVars, distanceVars, heuristic, addFFVars, options,
                                          nodeVars>>
        <4>1. calc # "none" /\ callVars' = callVars
          BY <3>2, Zenon DEF LmCutNext, SkipStale, Propagate, Unreachable, CutsDone, StartCut, CalcGoalZone,
             CheckForwardReachability, TakeCosts, hMaxDone
        <4>2. QED BY <3>2, <4>1 DEF callVars, graphVars, nodeVars
      <3>3. CASE Correct
        BY <3>3 DEF Correct, callVars, graphVars, nodeVars
      <3>4. QED BY <1>8, <3>1, <3>2, <3>3 DEF Estimating
    <2>2. QED BY <2>1, NodeRests
  <1>9. CASE UNCHANGED vars
    <2>1. /\ phase' = phase /\ rc' = rc /\ htn' = htn /\ options' = options /\ calc' = calc
          /\ reachable' = reachable /\ state' = state /\ net' = net /\ s0set' = s0set /\ gset' = gset
      BY <1>9 DEF vars, callVars, graphVars, nodeVars
    <2>2. RCModel' = RCModel /\ Tasks' = Tasks /\ ReachableActions' = ReachableActions
      BY <2>1 DEF RCModel, Actions, Tasks, ComposedOf, subTasks, ReachableActions
    <2>3. QED BY <2>1, <2>2 DEF NodeOK
  <1>10. QED BY <1>2, <1>3, <1>5, <1>6, <1>7, <1>8, <1>9 DEF Next
\* What LM-Cut counts on does not depend on the rest of the state.
LEMMA LmCutRests ==
  ASSUME LmCutOK, callVars' = callVars, calc' = calc, lmCutVars' = lmCutVars
  PROVE  LmCutOK'
  <1>1. /\ rc' = rc /\ s0set' = s0set /\ gset' = gset /\ costs' = costs
        /\ heap' = heap /\ unsatPrecs' = unsatPrecs /\ maxPrec' = maxPrec /\ hMaxVal' = hMaxVal
        /\ maxPrecG' = maxPrecG /\ goalZone' = goalZone /\ zoneStack' = zoneStack /\ cut' = cut
        /\ precsOfCutNodes' = precsOfCutNodes
    BY DEF callVars, lmCutVars, hMaxVars, cutVars
  <1>2. /\ Ops' = Ops /\ Reached' = Reached /\ DoneOps' = DoneOps /\ ZoneFacts' = ZoneFacts
        /\ \A F, O : Closure(F, O)' = Closure(F, O)
        /\ \A f : Producers(f)' = Producers(f)
    BY <1>1 DEF Ops, Reached, DoneOps, ZoneFacts, Closure, Producers
  <1>3. (HMaxOK => HMaxOK') /\ (ValuesOK => ValuesOK')
    BY <1>1, <1>2 DEF HMaxOK, ValuesOK
  <1>4. ZoneOK => ZoneOK'
    BY <1>1, <1>2 DEF ZoneOK
  <1>5. CutOK => CutOK'
    BY <1>1, <1>2 DEF CutOK
  <1>6. GoalsReachable => GoalsReachable'
    BY <1>1, GoalsStay
  <1>7. QED BY <1>1, <1>3, <1>4, <1>5, <1>6 DEF LmCutOK

\* A step of LM-Cut.
LEMMA LmCutNextKeeps ==
  ASSUME IsModel, LmCutOK, gset \subseteq rc.facts, LmCutNext
  PROVE  LmCutOK'
  <1>1. CASE SkipStale
    <2>1. /\ calc = "hMax" /\ calc' = calc /\ gset' = gset /\ rc' = rc /\ s0set' = s0set /\ hMaxVal' = hMaxVal
      BY <1>1 DEF SkipStale, callVars
    <2>2. HMaxOK' /\ ValuesOK'
      BY <1>1, <2>1, SkipStaleKeeps, ValuesKeep DEF LmCutOK
    <2>3. QED BY <2>1, <2>2 DEF LmCutOK
  <1>2. CASE Propagate
    <2>1. /\ calc = "hMax" /\ calc' = calc /\ gset' = gset /\ rc' = rc
      BY <1>2 DEF Propagate, callVars
    <2>2. HMaxOK' /\ ValuesOK'
      BY <1>2, <2>1, PropagateKeeps, ValuesKeep DEF LmCutOK
    <2>3. QED BY <2>1, <2>2 DEF LmCutOK
  <1>3. CASE Unreachable \/ CutsDone
    <2>1. calc' = "done"
      BY <1>3 DEF Unreachable, CutsDone
    <2>2. QED BY <2>1 DEF LmCutOK
  <1>4. CASE StartCut
    <2>1. /\ calc = "hMax" /\ heap = {} /\ hMax # UNREACHABLE
          /\ calc' = "goalZone" /\ gset' = gset /\ rc' = rc /\ s0set' = s0set /\ hMaxVal' = hMaxVal
      BY <1>4 DEF StartCut, hMaxDone, callVars, hMaxVars
    <2>2. HMaxOK /\ ValuesOK /\ gset # {}
      BY <2>1 DEF LmCutOK
    <2>3. HMaxOK' /\ ZoneOK'
      BY <1>4, <2>2, StartCutKeeps
    <2>4. ValuesOK'
      BY <2>1, <2>2, ValuesKeep
    <2>5. GoalsReachable
      <3>1. \A f \in gset : hMaxVal[f] < UNREACHABLE
        BY <2>1, <2>2, HMaxIs, UnreachableIsLarge
      <3>2. QED BY <2>2, <3>1 DEF ValuesOK, GoalsReachable
    <2>6. GoalsReachable'
      BY <2>1, <2>5, GoalsStay
    <2>7. QED BY <2>1, <2>2, <2>3, <2>4, <2>6 DEF LmCutOK
  <1>5. CASE CalcGoalZone
    <2>1. /\ calc = "goalZone" /\ calc' = calc /\ gset' = gset /\ rc' = rc /\ s0set' = s0set /\ hMaxVal' = hMaxVal
      BY <1>5 DEF CalcGoalZone, callVars, hMaxVars
    <2>2. HMaxOK /\ ValuesOK /\ gset # {} /\ ZoneOK /\ GoalsReachable
      BY <2>1 DEF LmCutOK
    <2>3. HMaxOK' /\ ZoneOK' /\ ValuesOK'
      BY <1>5, <2>1, <2>2, CalcGoalZoneKeeps, ValuesKeep
    <2>4. GoalsReachable'
      BY <2>1, <2>2, GoalsStay
    <2>5. QED BY <2>1, <2>2, <2>3, <2>4 DEF LmCutOK
  <1>6. CASE CheckForwardReachability
    <2>1. /\ calc = "goalZone" /\ calc' = "cut" /\ gset' = gset /\ rc' = rc /\ s0set' = s0set /\ hMaxVal' = hMaxVal
      BY <1>6 DEF CheckForwardReachability, callVars, hMaxVars
    <2>2. HMaxOK /\ ValuesOK /\ gset # {} /\ ZoneOK /\ GoalsReachable
      BY <2>1 DEF LmCutOK
    <2>3. HMaxOK' /\ CutOK' /\ ValuesOK'
      BY <1>6, <2>1, <2>2, CheckForwardKeeps, ValuesKeep DEF GoalsReachable
    <2>4. QED BY <2>1, <2>2, <2>3 DEF LmCutOK
  <1>7. CASE TakeCosts
    <2>1. /\ calc = "cut" /\ calc' = "hMax" /\ gset' = gset
      BY <1>7 DEF TakeCosts, StartHMax, callVars
    <2>2. HMaxOK /\ CutOK /\ gset # {}
      BY <2>1 DEF LmCutOK
    <2>3. HMaxOK' /\ ValuesOK'
      BY <1>7, <2>2, TakeCostsKeeps
    <2>4. QED BY <2>1, <2>2, <2>3 DEF LmCutOK
  <1>8. QED BY <1>1, <1>2, <1>3, <1>4, <1>5, <1>6, <1>7 DEF LmCutNext

\* The first values of facts.
LEMMA EvaluateLmCut ==
  ASSUME GraphInv, NodeOK, Evaluate
  PROVE  LmCutOK'
  <1> DEFINE s == StateFacts(state) \union {t2tdr(a) : a \in ReachableActions}
             g == StateFacts(htn.gList) \union {t2bur(t) : t \in ToSet(net)}
  <1>1. s0set' = s /\ gset' = g /\ rc' = rc /\ phase = "search"
    BY DEF Evaluate
  <1>2. \/ calc' = "done"
        \/ calc' = "addFF"
        \/ g # {} /\ StartLmCut(s)
    <2>1. CASE g = {}
      BY <1>1, <2>1 DEF Evaluate
    <2>2. CASE g # {} /\ heuristic # "lmCut"
      BY <1>1, <2>2 DEF Evaluate, StartAddFF
    <2>3. CASE g # {} /\ heuristic = "lmCut"
      BY <1>1, <2>3 DEF Evaluate
    <2>4. QED BY <2>1, <2>2, <2>3
  <1>3. IsModel /\ s \in SUBSET rc.facts
    BY <1>1, NodeFacts
  <1> HIDE DEF s, g
  <1>4. ASSUME g # {}, StartLmCut(s)
        PROVE  LmCutOK'
    <2>1. costs' = rc.cost /\ StartHMax(s) /\ calc' = "hMax"
      BY <1>4 DEF StartLmCut, StartHMax
    <2>2. costs' \in [Ops -> Nat] /\ \A o \in Ops : costs'[o] <= rc.cost[o]
      BY <1>3, <2>1 DEF IsModel
    <2>3. HMaxOK' /\ ValuesOK'
      BY <1>1, <1>3, <2>1, <2>2, StartHMaxKeeps, ValuesKeep
    <2>4. QED BY <1>1, <1>4, <2>1, <2>3 DEF LmCutOK
  <1>5. QED BY <1>2, <1>4 DEF LmCutOK

\* Every step leaves a call of LM-Cut with what it counts on.
LEMMA NextLmCut ==
  ASSUME GraphInv, NodeOK, LmCutOK, [Next]_vars
  PROVE  LmCutOK'
  <1>1. CASE Prepare \/ Construct \/ Decompose \/ Apply
    <2>1. calc' \notin {"hMax", "goalZone", "cut"}
      <3>1. CASE Prepare
        <4>1. phase # "search" /\ calc' = calc
          BY <3>1, Zenon DEF Prepare, GraphNext, Descend, SeeChild, CloseComponent, LeaveInside,
             FindCyclic, AnalyseCyclicity, StartReachability, Process, GraphKnown, inTarjan,
             DistanceNext, StartDistances, LookAtMethod, LookAtTask, DistancesKnown, heuristicVars
        <4>2. QED BY <4>1 DEF NodeOK
      <3>2. CASE Construct
        BY <3>2 DEF Construct, NodeOK
      <3>3. CASE Decompose \/ Apply
        BY <3>3 DEF Decompose, Apply, NewNode
      <3>4. QED BY <1>1, <3>1, <3>2, <3>3
    <2>2. QED BY <2>1 DEF LmCutOK
  <1>2. CASE Evaluate
    BY <1>2, EvaluateLmCut
  <1>3. CASE LmCutNext
    <2>1. calc # "none"
      BY <1>3, Zenon DEF LmCutNext, SkipStale, Propagate, Unreachable, CutsDone, StartCut, CalcGoalZone,
         CheckForwardReachability, TakeCosts, hMaxDone
    <2>2. IsModel /\ gset \subseteq rc.facts
      BY <2>1, NodeFacts DEF NodeOK
    <2>3. QED BY <1>3, <2>2, LmCutNextKeeps
  <1>4. CASE AddFFNext \/ Correct
    <2>1. calc' \in {"addFF", "done", "valued"}
      <3>1. CASE AddFFNext
        BY <3>1, Zenon DEF AddFFNext, PopStale, PopFact, PopLastGoal, QueueEmpty
      <3>2. CASE Correct
        BY <3>2 DEF Correct
      <3>3. QED BY <1>4, <3>1, <3>2
    <2>2. QED BY <2>1 DEF LmCutOK
  <1>5. CASE UNCHANGED vars
    BY <1>5, LmCutRests DEF vars
  <1>6. QED BY <1>1, <1>2, <1>3, <1>4, <1>5 DEF Next, Estimating
-----------------------------------------------------------------------------
(* Sums of costs.                                                          *)

\* The sums up to each number.
LEMMA TotalFacts ==
  ASSUME NEW n \in Nat, NEW w, \A i \in 0 .. n - 1 : w[i] \in Nat
  PROVE  \E f \in [0 .. n -> Nat] : /\ f[0] = 0 /\ f[n] = Total(n, w)
                                    /\ \A i \in 1 .. n : f[i] = f[i - 1] + w[i - 1]
  <1> DEFINE step == [i \in 1 .. n |-> [sum \in Nat |-> sum + w[i - 1]]]
             v == CHOOSE f : f = [i \in 0 .. n |-> IF i = 0 THEN 0 ELSE f[i - 1] + w[i - 1]]
  <1>1. \A i \in 1 .. n : i - 1 \in 0 .. n - 1 /\ i - 1 \in 0 .. n
    OBVIOUS
  <1>2. step \in [1 .. n -> [Nat -> Nat]] /\ \A i \in 1 .. n : \A sum \in Nat : step[i][sum] = sum + w[i - 1]
    BY <1>1
  <1>3. PICK g \in [0 .. n -> Nat] : Iterates(g, n, 0, step)
    <2> HIDE DEF step
    <2>1. QED BY <1>2, IterationExists
  <1>4. g = [i \in 0 .. n |-> IF i = 0 THEN 0 ELSE g[i - 1] + w[i - 1]]
    <2>1. \A i \in 0 .. n : g[i] = IF i = 0 THEN 0 ELSE g[i - 1] + w[i - 1]
      <3>1. SUFFICES ASSUME NEW i \in 0 .. n
                     PROVE  g[i] = IF i = 0 THEN 0 ELSE g[i - 1] + w[i - 1]
        OBVIOUS
      <3>2. g[i] = IF i = 0 THEN 0 ELSE step[i][g[i - 1]]
        BY <1>3 DEF Iterates
      <3>3. i # 0 => i \in 1 .. n /\ g[i - 1] \in Nat
        BY <1>1
      <3> HIDE DEF step
      <3>4. QED BY <1>2, <3>2, <3>3
    <2>2. QED BY <2>1
  <1>5. v = [i \in 0 .. n |-> IF i = 0 THEN 0 ELSE v[i - 1] + w[i - 1]]
    BY <1>4, Zenon
  <1>6. Total(n, w) = v[n]
    BY Zenon DEF Total
  <1> HIDE DEF v, step
  <1>7. v[0] = 0 /\ \A i \in 1 .. n : v[i] = v[i - 1] + w[i - 1]
    <2>1. \A i \in 0 .. n : v[i] = IF i = 0 THEN 0 ELSE v[i - 1] + w[i - 1]
      BY <1>5
    <2>2. QED BY <2>1
  <1>8. \A i \in 0 .. n : v[i] \in Nat
    <2> DEFINE T == {i \in 0 .. n : v[i] \in Nat}
    <2>1. 0 \in T
      BY <1>7
    <2>2. \A i \in 1 .. n : i - 1 \in T => i \in T
      <3>1. SUFFICES ASSUME NEW i \in 1 .. n, v[i - 1] \in Nat
                     PROVE  v[i] \in Nat
        OBVIOUS
      <3>2. w[i - 1] \in Nat
        <4>1. i - 1 \in 0 .. n - 1
          OBVIOUS
        <4>2. QED BY <4>1
      <3>3. v[i] = v[i - 1] + w[i - 1]
        BY <1>7
      <3>4. QED BY <3>1, <3>2, <3>3
    <2> HIDE DEF T
    <2>3. 0 .. n \subseteq T
      BY <2>1, <2>2, LoopKeeps
    <2>4. QED BY <2>3 DEF T
  <1>9. v \in [0 .. n -> Nat]
    BY <1>5, <1>8
  <1>10. QED BY <1>6, <1>7, <1>9

\* Sums differ at most by what the terms do.
LEMMA TotalsDiffer ==
  ASSUME NEW n \in Nat, NEW w, NEW v, \A i \in 0 .. n - 1 : w[i] \in Nat /\ v[i] \in Nat,
         NEW d \in Nat, NEW j \in 0 .. n - 1, \A i \in 0 .. n - 1 : i # j => w[i] <= v[i]
  PROVE  /\ Total(n, w) \in Nat /\ Total(n, v) \in Nat
         /\ w[j] <= v[j] + d => Total(n, w) <= Total(n, v) + d
         /\ w[j] + d <= v[j] => Total(n, w) + d <= Total(n, v)
  <1>1. PICK f \in [0 .. n -> Nat] : /\ f[0] = 0 /\ f[n] = Total(n, w)
                                     /\ \A i \in 1 .. n : f[i] = f[i - 1] + w[i - 1]
    BY TotalFacts
  <1>2. PICK g \in [0 .. n -> Nat] : /\ g[0] = 0 /\ g[n] = Total(n, v)
                                     /\ \A i \in 1 .. n : g[i] = g[i - 1] + v[i - 1]
    BY TotalFacts
  <1>3. ASSUME NEW i \in 1 .. n
        PROVE  /\ i - 1 \in 0 .. n - 1 /\ i - 1 \in 0 .. n
               /\ f[i] = f[i - 1] + w[i - 1] /\ g[i] = g[i - 1] + v[i - 1]
               /\ f[i - 1] \in Nat /\ g[i - 1] \in Nat /\ w[i - 1] \in Nat /\ v[i - 1] \in Nat
               /\ i - 1 # j => w[i - 1] <= v[i - 1]
    BY <1>1, <1>2
  <1>4. ASSUME w[j] <= v[j] + d
        PROVE  f[n] <= g[n] + d
    <2> DEFINE T == {i \in 0 .. n : /\ i <= j => f[i] <= g[i]
                                    /\ f[i] <= g[i] + d}
    <2>1. 0 \in T
      BY <1>1, <1>2
    <2>2. ASSUME NEW i \in 1 .. n, i - 1 \in T
          PROVE  i \in T
      <3> DEFINE a == f[i - 1]
                 b == g[i - 1]
                 x == w[i - 1]
                 y == v[i - 1]
      <3>0. /\ i - 1 \in 0 .. n - 1 /\ f[i] = a + x /\ g[i] = b + y
            /\ a \in Nat /\ b \in Nat /\ x \in Nat /\ y \in Nat
            /\ (i - 1 # j => x <= y) /\ (i - 1 = j => x <= y + d)
        BY <1>3, <1>4
      <3>1. (i - 1 <= j => a <= b) /\ a <= b + d
        BY <2>2
      <3> HIDE DEF a, b, x, y
      <3>2. CASE i - 1 = j
        <4>1. a <= b /\ x <= y + d /\ ~(i <= j)
          BY <3>0, <3>1, <3>2
        <4>2. f[i] <= g[i] + d
          BY <3>0, <4>1
        <4>3. QED BY <4>1, <4>2
      <3>3. CASE i - 1 # j
        <4>1. x <= y /\ (i <= j => i - 1 <= j)
          BY <3>0, <3>3
        <4>2. f[i] <= g[i] + d
          BY <3>0, <3>1, <4>1
        <4>3. i <= j => f[i] <= g[i]
          BY <3>0, <3>1, <4>1
        <4>4. QED BY <4>2, <4>3
      <3>4. QED BY <3>2, <3>3
    <2> HIDE DEF T
    <2>3. 0 .. n \subseteq T
      BY <2>1, <2>2, LoopKeeps
    <2>4. QED BY <2>3 DEF T
  <1>5. ASSUME w[j] + d <= v[j]
        PROVE  f[n] + d <= g[n]
    <2> DEFINE T == {i \in 0 .. n : /\ f[i] <= g[i]
                                    /\ i > j => f[i] + d <= g[i]}
    <2>1. 0 \in T
      BY <1>1, <1>2
    <2>2. ASSUME NEW i \in 1 .. n, i - 1 \in T
          PROVE  i \in T
      <3> DEFINE a == f[i - 1]
                 b == g[i - 1]
                 x == w[i - 1]
                 y == v[i - 1]
      <3>0. /\ i - 1 \in 0 .. n - 1 /\ f[i] = a + x /\ g[i] = b + y
            /\ a \in Nat /\ b \in Nat /\ x \in Nat /\ y \in Nat
            /\ (i - 1 # j => x <= y) /\ (i - 1 = j => x + d <= y)
        BY <1>3, <1>5
      <3>1. a <= b /\ (i - 1 > j => a + d <= b)
        BY <2>2
      <3> HIDE DEF a, b, x, y
      <3>2. CASE i - 1 = j
        <4>1. x + d <= y
          BY <3>0, <3>2
        <4>2. f[i] + d <= g[i] /\ f[i] <= g[i]
          BY <3>0, <3>1, <4>1
        <4>3. QED BY <4>2
      <3>3. CASE i - 1 # j
        <4>1. x <= y /\ (i > j => i - 1 > j)
          BY <3>0, <3>3
        <4>2. f[i] <= g[i]
          BY <3>0, <3>1, <4>1
        <4>3. i > j => f[i] + d <= g[i]
          BY <3>0, <3>1, <4>1
        <4>4. QED BY <4>2, <4>3
      <3>4. QED BY <3>2, <3>3
    <2> HIDE DEF T
    <2>3. 0 .. n \subseteq T
      BY <2>1, <2>2, LoopKeeps
    <2>4. n > j /\ n \in T
      BY <2>3
    <2>5. QED BY <2>4 DEF T
  <1>6. f[n] \in Nat /\ g[n] \in Nat
    OBVIOUS
  <1>7. QED BY <1>1, <1>2, <1>4, <1>5, <1>6

\* Sums add up, and are bounded by their terms.
LEMMA TotalsAdd ==
  ASSUME NEW n \in Nat, NEW w, NEW v, NEW u,
         \A i \in 0 .. n - 1 : w[i] \in Nat /\ v[i] \in Nat /\ u[i] \in Nat /\ u[i] <= w[i] + v[i]
  PROVE  /\ Total(n, u) \in Nat /\ Total(n, w) \in Nat /\ Total(n, v) \in Nat
         /\ Total(n, u) <= Total(n, w) + Total(n, v)
         /\ (\A i \in 0 .. n - 1 : u[i] = w[i] + v[i]) => Total(n, u) = Total(n, w) + Total(n, v)
  <1>1. PICK f \in [0 .. n -> Nat] : /\ f[0] = 0 /\ f[n] = Total(n, w)
                                     /\ \A i \in 1 .. n : f[i] = f[i - 1] + w[i - 1]
    BY TotalFacts
  <1>2. PICK g \in [0 .. n -> Nat] : /\ g[0] = 0 /\ g[n] = Total(n, v)
                                     /\ \A i \in 1 .. n : g[i] = g[i - 1] + v[i - 1]
    BY TotalFacts
  <1>3. PICK e \in [0 .. n -> Nat] : /\ e[0] = 0 /\ e[n] = Total(n, u)
                                     /\ \A i \in 1 .. n : e[i] = e[i - 1] + u[i - 1]
    BY TotalFacts
  <1> DEFINE Same == \A i \in 0 .. n - 1 : u[i] = w[i] + v[i]
             T == {i \in 0 .. n : e[i] <= f[i] + g[i] /\ (Same => e[i] = f[i] + g[i])}
  <1>4. 0 \in T
    BY <1>1, <1>2, <1>3
  <1>5. ASSUME NEW i \in 1 .. n, i - 1 \in T
        PROVE  i \in T
    <2>1. e[i - 1] <= f[i - 1] + g[i - 1] /\ (Same => e[i - 1] = f[i - 1] + g[i - 1])
      BY <1>5
    <2>2. i - 1 \in 0 .. n - 1 /\ e[i - 1] \in Nat /\ f[i - 1] \in Nat /\ g[i - 1] \in Nat
      OBVIOUS
    <2>3. w[i - 1] \in Nat /\ v[i - 1] \in Nat /\ u[i - 1] \in Nat /\ u[i - 1] <= w[i - 1] + v[i - 1]
          /\ (Same => u[i - 1] = w[i - 1] + v[i - 1])
      BY <2>2
    <2>4. e[i] = e[i - 1] + u[i - 1] /\ f[i] = f[i - 1] + w[i - 1] /\ g[i] = g[i - 1] + v[i - 1]
      BY <1>1, <1>2, <1>3
    <2> DEFINE a == f[i - 1]
               b == g[i - 1]
               c == e[i - 1]
               x == w[i - 1]
               y == v[i - 1]
               z == u[i - 1]
    <2>5. /\ c <= a + b /\ (Same => c = a + b) /\ z <= x + y /\ (Same => z = x + y)
          /\ a \in Nat /\ b \in Nat /\ c \in Nat /\ x \in Nat /\ y \in Nat /\ z \in Nat
          /\ e[i] = c + z /\ f[i] = a + x /\ g[i] = b + y
      BY <2>1, <2>2, <2>3, <2>4
    <2> HIDE DEF Same, a, b, c, x, y, z
    <2>6. c + z <= (a + x) + (b + y)
      BY <2>5
    <2>7. e[i] <= f[i] + g[i] /\ (Same => e[i] = f[i] + g[i])
      <3>1. e[i] <= f[i] + g[i]
        BY <2>5, <2>6
      <3>2. ASSUME Same
            PROVE  e[i] = f[i] + g[i]
        <4>1. c = a + b /\ z = x + y
          BY <2>5, <3>2
        <4>2. c + z = (a + x) + (b + y)
          BY <2>5, <4>1
        <4>3. QED BY <2>5, <4>2
      <3>3. QED BY <3>1, <3>2
    <2>8. QED BY <2>7
  <1> HIDE DEF T
  <1>6. n \in T
    <2>1. 0 .. n \subseteq T
      BY <1>4, <1>5, LoopKeeps
    <2>2. QED BY <2>1
  <1>7. e[n] <= f[n] + g[n] /\ (Same => e[n] = f[n] + g[n])
    BY <1>6 DEF T
  <1>8. e[n] \in Nat /\ f[n] \in Nat /\ g[n] \in Nat
    OBVIOUS
  <1>9. QED BY <1>1, <1>2, <1>3, <1>7, <1>8

\* A sum is at most as many times its greatest term.
LEMMA TotalBounded ==
  ASSUME NEW n \in Nat, NEW w, NEW m \in Nat, \A i \in 0 .. n - 1 : w[i] \in Nat /\ w[i] <= m
  PROVE  Total(n, w) \in Nat /\ Total(n, w) <= m * n
  <1>1. PICK f \in [0 .. n -> Nat] : /\ f[0] = 0 /\ f[n] = Total(n, w)
                                     /\ \A i \in 1 .. n : f[i] = f[i - 1] + w[i - 1]
    BY TotalFacts
  <1> DEFINE T == {i \in 0 .. n : f[i] <= m * i}
  <1>2. 0 \in T
    <2>1. m * 0 = 0
      OBVIOUS
    <2>2. QED BY <1>1, <2>1
  <1>3. ASSUME NEW i \in 1 .. n, i - 1 \in T
        PROVE  i \in T
    <2>1. i - 1 \in Nat /\ i - 1 \in 0 .. n /\ (i - 1) + 1 = i /\ i - 1 \in 0 .. n - 1
      OBVIOUS
    <2>2. m * ((i - 1) + 1) = m * (i - 1) + m /\ m * (i - 1) \in Nat
      BY <2>1, TimesMore
    <2>3. f[i] = f[i - 1] + w[i - 1] /\ f[i - 1] <= m * (i - 1) /\ w[i - 1] <= m
      BY <1>1, <1>3, <2>1
    <2> DEFINE a == f[i - 1]
               x == w[i - 1]
               c == m * (i - 1)
    <2>4. f[i] = a + x /\ a <= c /\ x <= m /\ a \in Nat /\ x \in Nat /\ c \in Nat
      BY <2>1, <2>2, <2>3
    <2> HIDE DEF a, x
    <2>5. f[i] <= m * (i - 1) + m
      BY <2>4
    <2>6. f[i] <= m * i
      BY <2>1, <2>2, <2>5
    <2>7. QED BY <2>6
  <1> HIDE DEF T
  <1>4. n \in T
    <2>1. 0 .. n \subseteq T
      BY <1>2, <1>3, LoopKeeps
    <2>2. QED BY <2>1
  <1>5. f[n] \in Nat
    OBVIOUS
  <1>6. QED BY <1>1, <1>4, <1>5 DEF T
\* A sum whose last terms are zero is a shorter one.
LEMMA TotalShort ==
  ASSUME NEW n \in Nat, NEW k \in 0 .. n, NEW w, NEW v, \A i \in 0 .. n - 1 : w[i] \in Nat,
         \A i \in 0 .. k - 1 : v[i] = w[i], \A i \in k .. n - 1 : w[i] = 0
  PROVE  Total(n, w) = Total(k, v)
  <1>1. PICK f \in [0 .. n -> Nat] : /\ f[0] = 0 /\ f[n] = Total(n, w)
                                     /\ \A i \in 1 .. n : f[i] = f[i - 1] + w[i - 1]
    BY TotalFacts
  <1>2. \A i \in 0 .. k - 1 : v[i] \in Nat
    <2>1. \A i \in 0 .. k - 1 : i \in 0 .. n - 1
      OBVIOUS
    <2>2. QED BY <2>1
  <1>3. PICK g \in [0 .. k -> Nat] : /\ g[0] = 0 /\ g[k] = Total(k, v)
                                     /\ \A i \in 1 .. k : g[i] = g[i - 1] + v[i - 1]
    <2>1. k \in Nat
      OBVIOUS
    <2>2. QED BY <1>2, <2>1, TotalFacts
  <1> DEFINE T == {i \in 0 .. n : f[i] = IF i <= k THEN g[i] ELSE g[k]}
  <1>4. 0 \in T
    BY <1>1, <1>3
  <1>5. ASSUME NEW i \in 1 .. n, i - 1 \in T
        PROVE  i \in T
    <2>1. f[i - 1] = (IF i - 1 <= k THEN g[i - 1] ELSE g[k]) /\ f[i] = f[i - 1] + w[i - 1]
      BY <1>1, <1>5
    <2>2. CASE i <= k
      <3>1. i - 1 \in 0 .. k - 1 /\ i \in 1 .. k /\ i - 1 <= k
        BY <2>2
      <3>2. g[i] = g[i - 1] + w[i - 1]
        BY <1>3, <3>1
      <3>3. f[i] = g[i]
        BY <2>1, <3>1, <3>2
      <3>4. QED BY <2>2, <3>3
    <2>3. CASE ~(i <= k)
      <3>1. i - 1 \in k .. n - 1
        BY <2>3
      <3>2. w[i - 1] = 0 /\ f[i - 1] \in Nat
        BY <3>1
      <3>3. f[i] = f[i - 1]
        BY <2>1, <3>2
      <3>4. f[i - 1] = g[k]
        <4>1. i - 1 <= k => i - 1 = k
          BY <3>1
        <4>2. QED BY <2>1, <4>1
      <3>5. QED BY <2>3, <3>3, <3>4
    <2>4. QED BY <2>2, <2>3
  <1> HIDE DEF T
  <1>6. n \in T
    <2>1. 0 .. n \subseteq T
      BY <1>4, <1>5, LoopKeeps
    <2>2. QED BY <2>1
  <1>7. f[n] = g[k]
    <2>1. n <= k => n = k
      OBVIOUS
    <2>2. QED BY <1>6, <2>1 DEF T
  <1>8. QED BY <1>1, <1>3, <1>7

\* What operators cost.
LEMMA CostsFacts ==
  ASSUME IsModel, NEW O \in SUBSET Ops, NEW c \in [Ops -> Nat]
  PROVE  /\ CostsOf(c, O) \in Nat
         /\ \A m \in Nat : (\A o \in Ops : c[o] <= m) => CostsOf(c, O) <= m * numOps
  <1> DEFINE w == [o \in Ops |-> IF o \in O THEN c[o] ELSE 0]
  <1>1. numOps \in Nat /\ Ops = 0 .. numOps - 1
    BY OpsFacts
  <1>2. \A o \in Ops : w[o] \in Nat /\ w[o] = IF o \in O THEN c[o] ELSE 0
    OBVIOUS
  <1>3. CostsOf(c, O) = Total(numOps, w)
    BY DEF CostsOf
  <1> HIDE DEF w
  <1>4. Total(numOps, w) \in Nat
    <2>1. \A i \in 0 .. numOps - 1 : w[i] \in Nat /\ w[i] <= w[i] + w[i]
      BY <1>1, <1>2
    <2>2. \A i \in 0 .. numOps - 1 : w[i] \in Nat /\ w[i] \in Nat /\ w[i] \in Nat /\ w[i] <= w[i] + w[i]
      BY <2>1
    <2>3. QED BY <1>1, <2>2, TotalsAdd
  <1>5. ASSUME NEW m \in Nat, \A o \in Ops : c[o] <= m
        PROVE  Total(numOps, w) <= m * numOps
    <2>1. \A i \in 0 .. numOps - 1 : w[i] \in Nat /\ w[i] <= m
      BY <1>1, <1>2, <1>5
    <2>2. QED BY <1>1, <2>1, TotalBounded
  <1>6. QED BY <1>3, <1>4, <1>5

\* What has been taken for the cuts is part of the costs of every relaxed plan.
CostsOK ==
  /\ hLmCut \in Nat
  /\ \A O \in SUBSET Ops : gset \subseteq Closure(s0set, O) =>
       hLmCut + CostsOf(costs, O) <= CostsOf(rc.cost, O)

\* Such a plan has an operator of the cut.
LEMMA TakeCostsFromPlans ==
  ASSUME IsModel, HMaxOK, CutOK, CostsOK, TakeCosts
  PROVE  CostsOK'
  <1>1. /\ rc' = rc /\ s0set' = s0set /\ gset' = gset /\ Ops' = Ops /\ numOps' = numOps
        /\ costs' = Subtract /\ hLmCut' = hLmCut + minCosts
    BY DEF TakeCosts, callVars, Ops, numOps
  <1>2. \A F, O : Closure(F, O)' = Closure(F, O)
    BY <1>1 DEF Closure
  <1>3. /\ minCosts \in Nat /\ (\A o \in cut : minCosts <= costs[o])
        /\ \A o \in Ops : Subtract[o] \in Nat /\ Subtract[o] = IF o \in cut THEN costs[o] - minCosts ELSE costs[o]
    BY TakeCostsFacts
  <1>4. numOps \in Nat /\ Ops = 0 .. numOps - 1
    BY OpsFacts
  <1>5. ASSUME NEW O \in SUBSET Ops, gset \subseteq Closure(s0set, O)
        PROVE  hLmCut' + CostsOf(Subtract, O) <= CostsOf(rc.cost, O)
    <2> DEFINE w == [o \in Ops |-> IF o \in O THEN Subtract[o] ELSE 0]
               v == [o \in Ops |-> IF o \in O THEN costs[o] ELSE 0]
    <2>1. CostsOf(Subtract, O) = Total(numOps, w) /\ CostsOf(costs, O) = Total(numOps, v)
      BY DEF CostsOf
    <2>2. \A o \in Ops : /\ w[o] = (IF o \in O THEN Subtract[o] ELSE 0)
                         /\ v[o] = (IF o \in O THEN costs[o] ELSE 0)
                         /\ costs[o] \in Nat
      BY DEF HMaxOK
    <2>3. PICK j \in O : j \in cut
      <3>1. SUFFICES ASSUME O \subseteq Ops \ cut
                     PROVE  FALSE
        OBVIOUS
      <3>2. s0set \in SUBSET rc.facts /\ Ops \ cut \in SUBSET Ops
        BY DEF HMaxOK
      <3>3. Closure(s0set, O) \subseteq Closure(s0set, Ops \ cut)
        <4> DEFINE C == Closure(s0set, Ops \ cut)
        <4>1. s0set \subseteq C /\ \A o \in O : rc.prec[o] \subseteq C => rc.add[o] \subseteq C
          BY <3>1, <3>2, ClosureFacts
        <4> HIDE DEF C
        <4>2. Closure(s0set, O) \subseteq C
          BY <3>2, <4>1, ClosureFacts
        <4>3. QED BY <4>2 DEF C
      <3>4. QED BY <1>5, <3>3 DEF CutOK
    <2> HIDE DEF w, v
    <2>4. ASSUME NEW o \in Ops
          PROVE  w[o] \in Nat /\ v[o] \in Nat /\ w[o] <= v[o] /\ (o = j => w[o] + minCosts <= v[o])
      <3> DEFINE a == costs[o]
                 b == Subtract[o]
      <3>1. /\ w[o] = (IF o \in O THEN b ELSE 0) /\ v[o] = (IF o \in O THEN a ELSE 0)
            /\ a \in Nat /\ b \in Nat /\ b = (IF o \in cut THEN a - minCosts ELSE a)
            /\ (o = j => o \in O /\ o \in cut) /\ (o \in cut => minCosts <= a)
        BY <1>3, <2>2, <2>3
      <3> HIDE DEF a, b
      <3>2. QED BY <1>3, <3>1
    <2>5. Total(numOps, w) \in Nat /\ Total(numOps, v) \in Nat /\ Total(numOps, w) + minCosts <= Total(numOps, v)
      <3>1. j \in 0 .. numOps - 1 /\ w[j] + minCosts <= v[j]
        BY <1>4, <2>3, <2>4
      <3>2. \A i \in 0 .. numOps - 1 : w[i] \in Nat /\ v[i] \in Nat
        BY <1>4, <2>4
      <3>3. \A i \in 0 .. numOps - 1 : i # j => w[i] <= v[i]
        BY <1>4, <2>4
      <3>5. numOps \in Nat /\ minCosts \in Nat
        BY <1>3, <1>4
      <3>4. QED BY <3>1, <3>2, <3>3, <3>5, TotalsDiffer
    <2>6. hLmCut \in Nat /\ hLmCut + CostsOf(costs, O) <= CostsOf(rc.cost, O) /\ CostsOf(rc.cost, O) \in Nat
      <3>1. CostsOf(rc.cost, O) \in Nat
        BY CostsFacts DEF IsModel
      <3>2. QED BY <1>5, <3>1 DEF CostsOK
    <2>7. QED BY <1>1, <1>3, <2>1, <2>5, <2>6
  <1>6. hLmCut' \in Nat
    BY <1>1, <1>3 DEF CostsOK
  <1>7. \A c, O : CostsOf(c, O)' = CostsOf(c, O)
    BY <1>1 DEF CostsOf
  <1>8. QED BY <1>1, <1>2, <1>5, <1>6, <1>7 DEF CostsOK
-----------------------------------------------------------------------------
(* How often tasks occur.                                                  *)

CountIn(n, t) == Cardinality({j \in DOMAIN n : n[j] = t})

\* A task occurs as often as there are places with it.
LEMMA CountFacts ==
  ASSUME NEW X, NEW n \in Seq(X), NEW t
  PROVE  /\ IsFiniteSet({j \in DOMAIN n : n[j] = t}) /\ CountIn(n, t) \in Nat
         /\ t \in ToSet(n) => CountIn(n, t) >= 1
         /\ t \notin ToSet(n) => CountIn(n, t) = 0
  <1> DEFINE D == DOMAIN n
             P == {j \in D : n[j] = t}
  <1>1. IsFiniteSet(D)
    <2>1. D = 1 .. Len(n) /\ Len(n) \in Nat
      BY SeqParts
    <2>2. QED BY <2>1, FS_Interval
  <1>2. P \subseteq D /\ (t \in ToSet(n) <=> P # {})
    BY DEF ToSet
  <1> HIDE DEF D
  <1>3. CountIn(n, t) = Cardinality(P)
    BY DEF CountIn, D
  <1> HIDE DEF P
  <1>4. IsFiniteSet(P)
    BY <1>1, <1>2, FS_Subset
  <1>5. Cardinality(P) \in Nat /\ (Cardinality(P) = 0 <=> P = {})
    BY <1>4, FS_CardinalityType, FS_EmptySet
  <1>6. QED BY <1>2, <1>3, <1>4, <1>5 DEF P, D

\* When a step is replaced, no other task loses an occurrence.
LEMMA CountReplaced ==
  ASSUME NEW X, NEW n \in Seq(X), NEW i \in DOMAIN n, NEW list \in Seq(X), NEW t
  PROVE  CountIn(n, t) <= CountIn(Replaced(n, i, list), t) + (IF t = n[i] THEN 1 ELSE 0)
  <1> DEFINE r == Replaced(n, i, list)
             l == Len(n)
             k == Len(list)
             P == {j \in DOMAIN n : n[j] = t}
             R == {j \in DOMAIN r : r[j] = t}
             Q == P \ {i}
             to == [j \in Q |-> IF j < i THEN j ELSE (j - 1) + k]
  <1>1. /\ DOMAIN n = 1 .. l /\ l \in Nat /\ k \in Nat /\ r \in Seq(X) /\ DOMAIN r = 1 .. l - 1 + k /\ i \in 1 .. l
        /\ (\A j \in 1 .. i - 1 : r[j] = n[j]) /\ \A j \in i + 1 .. l : r[(j - 1) + k] = n[j]
    <2>1. r \in Seq(X)
      BY ReplacedIn
    <2>2. Len(r) = l - 1 + k
      BY ReplacedPlaces
    <2>3. DOMAIN n = 1 .. l /\ l \in Nat /\ k \in Nat
      BY SeqParts
    <2>4. DOMAIN r = 1 .. Len(r)
      BY <2>1, SeqParts
    <2>5. (\A j \in 1 .. i - 1 : r[j] = n[j]) /\ \A j \in i + 1 .. l : r[(j - 1) + k] = n[j]
      BY ReplacedPlaces
    <2>6. QED BY <2>1, <2>2, <2>3, <2>4, <2>5
  <1> HIDE DEF r, l, k
  <1>2. \A j \in Q : to[j] \in R
    <2>1. SUFFICES ASSUME NEW j \in Q
                   PROVE  to[j] \in R
      OBVIOUS
    <2>2. j \in 1 .. l /\ j # i /\ n[j] = t
      BY <1>1
    <2>3. CASE j < i
      <3>1. j \in 1 .. i - 1 /\ j \in 1 .. l - 1 + k
        BY <1>1, <2>2, <2>3
      <3>2. r[j] = t /\ j \in DOMAIN r
        BY <1>1, <2>2, <3>1
      <3>3. QED BY <2>3, <3>2
    <2>4. CASE ~(j < i)
      <3>1. j \in i + 1 .. l /\ (j - 1) + k \in 1 .. l - 1 + k
        BY <1>1, <2>2, <2>4
      <3>2. r[(j - 1) + k] = t /\ (j - 1) + k \in DOMAIN r
        BY <1>1, <2>2, <3>1
      <3>3. QED BY <2>4, <3>2
    <2>5. QED BY <2>3, <2>4
  <1>3. \A j, e \in Q : to[j] = to[e] => j = e
    <2>1. SUFFICES ASSUME NEW j \in Q, NEW e \in Q, to[j] = to[e]
                   PROVE  j = e
      OBVIOUS
    <2>2. j \in Nat /\ e \in Nat /\ j # i /\ e # i /\ i \in Nat /\ k \in Nat
      BY <1>1
    <2>3. (IF j < i THEN j ELSE (j - 1) + k) = IF e < i THEN e ELSE (e - 1) + k
      BY <2>1
    <2>4. QED BY <2>2, <2>3
  <1>4. /\ IsFiniteSet(P) /\ Cardinality(P) = CountIn(n, t) /\ Cardinality(P) \in Nat
        /\ IsFiniteSet(R) /\ Cardinality(R) = CountIn(r, t) /\ Cardinality(R) \in Nat
    BY <1>1, CountFacts DEF CountIn
  <1>5. IsFiniteSet(Q) /\ Cardinality(P) = IF i \in P THEN Cardinality(Q) + 1 ELSE Cardinality(Q)
    <2> HIDE DEF P
    <2>1. Cardinality(Q) = IF i \in P THEN Cardinality(P) - 1 ELSE Cardinality(P)
      BY <1>4, FS_RemoveElement
    <2>2. QED BY <1>4, <2>1, FS_RemoveElement
  <1>6. i \in P <=> t = n[i]
    OBVIOUS
  <1>7. Cardinality(Q) <= Cardinality(R) /\ Cardinality(Q) \in Nat
    <2>1. to \in [Q -> R]
      BY <1>2
    <2> HIDE DEF to, Q, R, P
    <2>3. to \in Injection(Q, R)
      BY <1>3, <2>1 DEF Injection, IsInjective
    <2>2. QED BY <1>4, <1>5, <2>3, FS_Injection, FS_CardinalityType
  <1> HIDE DEF P, Q, R, to
  <1>8. QED BY <1>4, <1>5, <1>6, <1>7 DEF r
-----------------------------------------------------------------------------
(* What a plan costs at least.                                             *)

\* How often a plan for the network n uses an operator, if it uses it at all.
Times(n, o) == IF o \in Actions /\ o \in ToSet(n) THEN CountIn(n, o) ELSE 1

WeightOf(n, O) == Total(numOps, [o \in Ops |-> IF o \in O THEN rc.cost[o] * Times(n, o) ELSE 0])

\* That is once at least.
LEMMA WeightFacts ==
  ASSUME IsModel, NEW n \in Seq(Tasks)
  PROVE  /\ \A o \in Ops : Times(n, o) \in Nat /\ Times(n, o) >= 1
         /\ \A O \in SUBSET Ops : WeightOf(n, O) \in Nat
  <1>1. \A o \in Ops : Times(n, o) \in Nat /\ Times(n, o) >= 1
    <2>1. \A t : CountIn(n, t) \in Nat /\ (t \in ToSet(n) => CountIn(n, t) >= 1)
      BY CountFacts
    <2>2. QED BY <2>1 DEF Times
  <1>2. ASSUME NEW O \in SUBSET Ops
        PROVE  WeightOf(n, O) \in Nat
    <2> DEFINE w == [o \in Ops |-> IF o \in O THEN rc.cost[o] * Times(n, o) ELSE 0]
    <2>1. numOps \in Nat /\ Ops = 0 .. numOps - 1
      BY OpsFacts
    <2>2. \A o \in Ops : w[o] \in Nat
      <3>1. SUFFICES ASSUME NEW o \in Ops
                     PROVE  w[o] \in Nat
        OBVIOUS
      <3>2. rc.cost[o] \in Nat /\ Times(n, o) \in Nat
        BY <1>1, OpsFacts
      <3>3. rc.cost[o] * Times(n, o) \in Nat
        BY <3>2, TimesMore
      <3>4. QED BY <3>3
    <2>3. WeightOf(n, O) = Total(numOps, w)
      BY DEF WeightOf
    <2> HIDE DEF w
    <2>4. \A i \in 0 .. numOps - 1 : w[i] \in Nat /\ w[i] \in Nat /\ w[i] \in Nat /\ w[i] <= w[i] + w[i]
      BY <2>1, <2>2
    <2>5. QED BY <2>1, <2>3, <2>4, TotalsAdd
  <1>3. QED BY <1>1, <1>2

\* An operator is used once more.
LEMMA WeightStep ==
  ASSUME IsModel, NEW n \in Seq(Tasks), NEW r \in Seq(Tasks), NEW O \in SUBSET Ops, NEW j \in Ops,
         \A o \in Ops : o # j => Times(n, o) <= Times(r, o),
         Times(n, j) <= Times(r, j) + 1, j \notin O => Times(n, j) = 1
  PROVE  WeightOf(n, O \union {j}) <= rc.cost[j] + WeightOf(r, O)
  <1> DEFINE w == [o \in Ops |-> IF o \in O \union {j} THEN rc.cost[o] * Times(n, o) ELSE 0]
             v == [o \in Ops |-> IF o \in O THEN rc.cost[o] * Times(r, o) ELSE 0]
  <1>1. numOps \in Nat /\ Ops = 0 .. numOps - 1 /\ \A o \in Ops : rc.cost[o] \in Nat
    BY OpsFacts
  <1>2. \A o \in Ops : Times(n, o) \in Nat /\ Times(n, o) >= 1 /\ Times(r, o) \in Nat /\ Times(r, o) >= 1
    BY WeightFacts
  <1>3. \A o \in Ops : /\ w[o] = IF o \in O \union {j} THEN rc.cost[o] * Times(n, o) ELSE 0
                       /\ v[o] = IF o \in O THEN rc.cost[o] * Times(r, o) ELSE 0
    OBVIOUS
  <1>4. WeightOf(n, O \union {j}) = Total(numOps, w) /\ WeightOf(r, O) = Total(numOps, v)
    BY DEF WeightOf
  <1> HIDE DEF w, v
  <1>5. \A o \in Ops : rc.cost[o] * Times(n, o) \in Nat /\ rc.cost[o] * Times(r, o) \in Nat
    BY <1>1, <1>2, TimesMore
  <1>6. \A o \in Ops : w[o] \in Nat /\ v[o] \in Nat
    BY <1>3, <1>5
  <1>7. ASSUME NEW o \in Ops, o # j
        PROVE  w[o] <= v[o]
    <2>1. rc.cost[o] * Times(n, o) <= rc.cost[o] * Times(r, o)
      BY <1>1, <1>2, <1>7, TimesMore
    <2> DEFINE x == rc.cost[o] * Times(n, o)
               y == rc.cost[o] * Times(r, o)
    <2>2. /\ w[o] = (IF o \in O THEN x ELSE 0) /\ v[o] = (IF o \in O THEN y ELSE 0)
          /\ x \in Nat /\ y \in Nat /\ x <= y
      BY <1>3, <1>5, <1>7, <2>1
    <2> HIDE DEF x, y
    <2>3. QED BY <2>2
  <1>8. w[j] <= v[j] + rc.cost[j]
    <2>1. CASE j \in O
      <3>1. w[j] = rc.cost[j] * Times(n, j) /\ v[j] = rc.cost[j] * Times(r, j)
        BY <1>3, <2>1
      <3>2. rc.cost[j] * Times(n, j) <= rc.cost[j] * (Times(r, j) + 1)
        BY <1>1, <1>2, TimesMore
      <3>3. rc.cost[j] * (Times(r, j) + 1) = rc.cost[j] * Times(r, j) + rc.cost[j]
        BY <1>1, <1>2, TimesMore
      <3>4. QED BY <3>1, <3>2, <3>3
    <2>2. CASE j \notin O
      <3>1. w[j] = rc.cost[j] * 1 /\ v[j] = 0
        BY <1>3, <2>2
      <3>2. QED BY <1>1, <3>1
    <2>3. QED BY <2>1, <2>2
  <1>9. Total(numOps, w) <= Total(numOps, v) + rc.cost[j]
    <2>1. \A i \in 0 .. numOps - 1 : w[i] \in Nat /\ v[i] \in Nat
      BY <1>1, <1>6
    <2>2. j \in 0 .. numOps - 1 /\ \A i \in 0 .. numOps - 1 : i # j => w[i] <= v[i]
      BY <1>1, <1>7
    <2>3. rc.cost[j] \in Nat
      BY <1>1
    <2>4. QED BY <1>1, <1>8, <2>1, <2>2, <2>3, TotalsDiffer
  <1>10. Total(numOps, w) \in Nat /\ Total(numOps, v) \in Nat /\ rc.cost[j] \in Nat
    <2>1. O \union {j} \in SUBSET Ops
      OBVIOUS
    <2>2. QED BY <1>1, <1>4, <2>1, WeightFacts
  <1>11. QED BY <1>4, <1>9, <1>10

\* An operator that is no action, or one that the step that is replaced stands for, is used for it.
LEMMA WeightReplaced ==
  ASSUME htn \in Problems, IsModel, NEW n \in Seq(Tasks), NEW i \in DOMAIN n, NEW list \in Seq(Tasks),
         NEW O \in SUBSET Ops, NEW j \in Ops, Actions \intersect ToSet(Replaced(n, i, list)) \subseteq O,
         n[i] \in Actions => j = n[i], j \in Actions => j = n[i]
  PROVE  WeightOf(n, O \union {j}) <= rc.cost[j] + WeightOf(Replaced(n, i, list), O)
  <1> DEFINE r == Replaced(n, i, list)
  <1>1. r \in Seq(Tasks) /\ ToSet(n) \subseteq ToSet(r) \union {n[i]}
    BY ReplacedIn
  <1>2. \A t : /\ CountIn(n, t) <= CountIn(r, t) + (IF t = n[i] THEN 1 ELSE 0)
               /\ CountIn(n, t) \in Nat /\ CountIn(r, t) \in Nat
               /\ (t \in ToSet(n) => CountIn(n, t) >= 1) /\ (t \notin ToSet(r) => CountIn(r, t) = 0)
    BY <1>1, CountReplaced, CountFacts
  <1> HIDE DEF r
  <1>3. ASSUME NEW o \in Ops, o # j
        PROVE  Times(n, o) <= Times(r, o)
    <2>1. CASE o \in Actions /\ o \in ToSet(n)
      <3>1. o # n[i]
        BY <1>3, <2>1
      <3>2. o \in ToSet(r) /\ CountIn(n, o) <= CountIn(r, o) + 0
        BY <1>1, <1>2, <2>1, <3>1
      <3>3. Times(n, o) = CountIn(n, o) /\ Times(r, o) = CountIn(r, o)
        BY <2>1, <3>2 DEF Times
      <3>4. QED BY <1>2, <3>2, <3>3
    <2>2. CASE ~(o \in Actions /\ o \in ToSet(n))
      <3>1. Times(n, o) = 1 /\ Times(r, o) >= 1
        BY <1>1, <2>2, WeightFacts DEF Times
      <3>2. QED BY <3>1
    <2>3. QED BY <2>1, <2>2
  <1>4. Times(n, j) <= Times(r, j) + 1
    <2>1. Times(r, j) \in Nat /\ Times(r, j) >= 1
      BY <1>1, WeightFacts
    <2>2. CASE j \in Actions /\ j \in ToSet(n)
      <3>1. Times(n, j) = CountIn(n, j) /\ CountIn(n, j) <= CountIn(r, j) + 1
        BY <1>2, <2>2 DEF Times
      <3>2. CountIn(r, j) <= Times(r, j)
        BY <1>2, <2>1, <2>2 DEF Times
      <3>3. QED BY <1>2, <2>1, <3>1, <3>2
    <2>3. CASE ~(j \in Actions /\ j \in ToSet(n))
      BY <2>1, <2>3 DEF Times
    <2>4. QED BY <2>2, <2>3
  <1>5. ASSUME j \notin O
        PROVE  Times(n, j) = 1
    <2>1. CASE j \in Actions /\ j \in ToSet(n)
      <3>1. j \notin ToSet(r)
        BY <1>5, <2>1 DEF r
      <3>2. CountIn(n, j) <= 0 + 1 /\ CountIn(n, j) >= 1
        BY <1>2, <2>1, <3>1
      <3>3. QED BY <1>2, <2>1, <3>2 DEF Times
    <2>2. CASE ~(j \in Actions /\ j \in ToSet(n))
      BY <2>2 DEF Times
    <2>3. QED BY <2>1, <2>2
  <1>6. QED BY <1>1, <1>3, <1>4, <1>5, WeightStep DEF r
-----------------------------------------------------------------------------
(* Plans are relaxed plans.                                                *)

NetActions(n) == UNION {reachable[n[i]] : i \in DOMAIN n}

\* What is true in a relaxed problem for the state F and the network n, and its goals.
GivenFor(F, n) == StateFacts(F) \union {t2tdr(a) : a \in NetActions(n)}
GoalsFor(n) == StateFacts(htn.gList) \union {t2bur(t) : t \in ToSet(n)}

ClosedUnder(O, Y) == Y \subseteq rc.facts /\ \A o \in O : rc.prec[o] \subseteq Y => rc.add[o] \subseteq Y

\* There are operators that reach the goals, and using each as often as the tasks of the network
\* occur costs no more than that.
HasRelaxedPlan(F, n, cost) ==
  /\ cost \in Nat
  /\ \E O \in SUBSET Ops :
       /\ Actions \intersect ToSet(n) \subseteq O
       /\ WeightOf(n, O) <= cost
       /\ \A Y : ClosedUnder(O, Y) /\ GivenFor(F, n) \subseteq Y => GoalsFor(n) \subseteq Y

\* Actions of subtasks are actions of the task, and an action is one of its own.
LEMMA ReachableBelow ==
  ASSUME htn \in Problems, reachable = [t \in Tasks |-> ActionsBelow(t)]
  PROVE  /\ \A a \in Actions : a \in reachable[a]
         /\ \A t \in Tasks : \A m \in taskToMethods(t) : \A u \in ToSet(subTasks(m)) : reachable[u] \subseteq reachable[t]
  <1>1. Actions \subseteq Tasks
    BY PlanningFacts
  <1>2. ASSUME NEW a \in Actions
        PROVE  a \in reachable[a]
    BY <1>1, LeadsToFacts DEF ActionsBelow, Actions
  <1>3. ASSUME NEW t \in Tasks, NEW m \in taskToMethods(t), NEW u \in ToSet(subTasks(m))
        PROVE  reachable[u] \subseteq reachable[t]
    <2>1. u \in ToSet(Children(t))
      BY <1>3, ChildrenOfTask DEF taskToMethods, Methods, subTasks
    <2>2. u \in Subtasks[t] /\ u \in Tasks
      BY <2>1, SubtasksAreGraph
    <2>3. LeadsTo(t, u)
      BY <2>2, LeadsToFacts
    <2>4. \A a \in Actions : a \in Tasks /\ (LeadsTo(u, a) => LeadsTo(t, a))
      BY <1>1, <2>2, <2>3, LeadsToFacts
    <2>5. QED BY <2>2, <2>4 DEF ActionsBelow, Actions
  <1>4. QED BY <1>2, <1>3

\* The operators of the problem without deletes.
LEMMA RCModelOps ==
  ASSUME htn \in Problems, rc = RCModel
  PROVE  /\ \A a \in Actions : /\ a \in Ops
                               /\ rc.prec[a] = StateFacts(htn.precLists[a]) \union {t2tdr(a)}
                               /\ rc.add[a] = StateFacts(htn.addLists[a]) \union {t2bur(a)}
         /\ \A m \in Methods : /\ MethodAction(m) \in Ops /\ MethodAction(m) \notin Actions
                               /\ rc.prec[MethodAction(m)] = ComposedOf(m)
                               /\ rc.add[MethodAction(m)] = {t2bur(htn.methods[m].task)}
  <1> DEFINE A == htn.numActions
             k == Len(htn.methods)
  <1>1. /\ A \in Nat /\ k \in Nat /\ Actions = 0 .. A - 1 /\ Methods = 1 .. k /\ Ops = 0 .. A + k - 1
    <2>1. Actions = 0 .. A - 1
      BY DEF Actions
    <2>2. QED BY <2>1, PlanningFacts, RCModelIsModel
  <1> HIDE DEF A, k
  <1>2. ASSUME NEW a \in Actions
        PROVE  a \in Ops
    BY <1>1
  <1>3. ASSUME NEW m \in Methods
        PROVE  MethodAction(m) \in Ops /\ MethodAction(m) \notin Actions /\ MethodAction(m) - htn.numActions + 1 = m
    <2>1. MethodAction(m) = (A + m) - 1
      BY <1>1 DEF MethodAction, A
    <2>2. m \in Nat /\ m >= 1 /\ m <= k
      BY <1>1
    <2>3. (A + m) - 1 \in 0 .. A + k - 1 /\ (A + m) - 1 \notin 0 .. A - 1 /\ ((A + m) - 1) - A + 1 = m
      BY <1>1, <2>2
    <2>4. QED BY <1>1, <2>1, <2>3 DEF A
  <1>4. ASSUME NEW o \in Ops
        PROVE  /\ rc.prec[o] = IF o \in Actions THEN StateFacts(htn.precLists[o]) \union {t2tdr(o)}
                               ELSE ComposedOf(o - htn.numActions + 1)
               /\ rc.add[o] = IF o \in Actions THEN StateFacts(htn.addLists[o]) \union {t2bur(o)}
                              ELSE {t2bur(htn.methods[o - htn.numActions + 1].task)}
    BY <1>1 DEF RCModel, A, k
  <1>5. QED BY <1>2, <1>3, <1>4
\* What is said where a plan is looked for.
PlanningOK ==
  /\ htn \in Problems /\ rc = RCModel
  /\ reachable = [t \in Tasks |-> ActionsBelow(t)]

\* A network has the actions of its tasks.
LEMMA NetActionsFacts ==
  ASSUME NEW n, NEW r, NEW t
  PROVE  /\ t \in ToSet(n) => reachable[t] \subseteq NetActions(n)
         /\ (\A u \in ToSet(r) : reachable[u] \subseteq NetActions(n)) => NetActions(r) \subseteq NetActions(n)
  BY DEF NetActions, ToSet

\* An action is applied: its operator is used.
LEMMA AppliedPlan ==
  ASSUME PlanningOK, NEW F \in SUBSET htn.facts, NEW n \in Seq(Tasks), NEW i \in DOMAIN n, Applicable(n[i], F),
         NEW c, HasRelaxedPlan(Applied(n[i], F), Replaced(n, i, <<>>), c)
  PROVE  HasRelaxedPlan(F, n, rc.cost[n[i]] + c)
  <1> DEFINE a == n[i]
             G == Applied(a, F)
             r == Replaced(n, i, <<>>)
  <1>1. IsModel /\ htn \in Problems /\ rc = RCModel
    BY RCModelIsModel DEF PlanningOK
  <1>2. a \in Actions /\ a \in Ops /\ a \in ToSet(n) /\ htn.precLists[a] \subseteq F
        /\ rc.prec[a] = StateFacts(htn.precLists[a]) \union {t2tdr(a)}
        /\ rc.add[a] = StateFacts(htn.addLists[a]) \union {t2bur(a)}
    BY <1>1, RCModelOps DEF Applicable, ToSet
  <1>3. /\ r \in Seq(Tasks) /\ ToSet(n) \subseteq ToSet(r) \union {a} /\ ToSet(r) \subseteq ToSet(n)
    <2>1. <<>> \in Seq(Tasks) /\ ToSet(<<>>) = {}
      BY EmptySeq DEF ToSet
    <2>2. QED BY <2>1, ReplacedIn
  <1>4. PICK O \in SUBSET Ops :
              /\ Actions \intersect ToSet(r) \subseteq O
              /\ WeightOf(r, O) <= c
              /\ \A Y : ClosedUnder(O, Y) /\ GivenFor(G, r) \subseteq Y => GoalsFor(r) \subseteq Y
    BY DEF HasRelaxedPlan
  <1>5. c \in Nat /\ rc.cost[a] \in Nat /\ rc.cost[a] + c \in Nat
    <2>1. c \in Nat /\ rc.cost[a] \in Nat
      BY <1>1, <1>2, OpsFacts DEF HasRelaxedPlan
    <2>2. QED BY <2>1
  <1> DEFINE P == O \union {a}
  <1>6. P \in SUBSET Ops /\ Actions \intersect ToSet(n) \subseteq P
    BY <1>2, <1>3, <1>4
  <1>7. WeightOf(n, P) <= rc.cost[a] + c
    <2>1. <<>> \in Seq(Tasks)
      BY EmptySeq
    <2>2. WeightOf(n, P) <= rc.cost[a] + WeightOf(r, O)
      BY <1>1, <1>2, <1>4, <2>1, WeightReplaced
    <2>3. WeightOf(n, P) \in Nat /\ WeightOf(r, O) \in Nat
      BY <1>1, <1>3, <1>6, WeightFacts
    <2>4. QED BY <1>4, <1>5, <2>2, <2>3
  <1>8. ASSUME NEW Y, ClosedUnder(P, Y), GivenFor(F, n) \subseteq Y
        PROVE  GoalsFor(n) \subseteq Y
    <2>1. ClosedUnder(O, Y) /\ (rc.prec[a] \subseteq Y => rc.add[a] \subseteq Y)
      BY <1>8 DEF ClosedUnder
    <2>2. rc.prec[a] \subseteq Y
      <3>1. a \in reachable[a]
        BY <1>1, <1>2, ReachableBelow DEF PlanningOK
      <3>2. a \in NetActions(n)
        BY <1>2, <3>1, NetActionsFacts
      <3>3. QED BY <1>2, <1>8, <3>2 DEF GivenFor, StateFacts
    <2>3. StateFacts(htn.addLists[a]) \subseteq Y /\ t2bur(a) \in Y
      BY <1>2, <2>1, <2>2
    <2>4. StateFacts(G) \subseteq Y
      BY <1>8, <2>3 DEF GivenFor, StateFacts, Applied
    <2>5. NetActions(r) \subseteq NetActions(n)
      BY <1>3, NetActionsFacts
    <2>6. GivenFor(G, r) \subseteq Y
      BY <1>8, <2>4, <2>5 DEF GivenFor
    <2>7. GoalsFor(r) \subseteq Y
      BY <1>4, <2>1, <2>6
    <2>8. QED BY <1>3, <2>3, <2>7 DEF GoalsFor
  <1> HIDE DEF P, r, G
  <1>9. QED BY <1>5, <1>6, <1>7, <1>8 DEF HasRelaxedPlan, a

\* A task is decomposed: the operator of the method composes it from its subtasks.
LEMMA DecomposedPlan ==
  ASSUME PlanningOK, NEW F \in SUBSET htn.facts, NEW n \in Seq(Tasks), NEW i \in DOMAIN n,
         NEW m \in taskToMethods(n[i]), NEW c, HasRelaxedPlan(F, Replaced(n, i, subTasks(m)), c)
  PROVE  HasRelaxedPlan(F, n, rc.cost[MethodAction(m)] + c)
  <1> DEFINE o == MethodAction(m)
             list == subTasks(m)
             r == Replaced(n, i, list)
  <1>1. IsModel /\ htn \in Problems /\ rc = RCModel
    BY RCModelIsModel DEF PlanningOK
  <1>2. /\ m \in Methods /\ htn.methods[m].task = n[i] /\ n[i] \in Tasks /\ n[i] \notin Actions /\ n[i] \in ToSet(n)
        /\ list \in Seq(Tasks) /\ o \in Ops /\ o \notin Actions
        /\ rc.prec[o] = {t2bur(u) : u \in ToSet(list)} /\ rc.add[o] = {t2bur(n[i])}
    <2>1. m \in Methods /\ htn.methods[m].task = n[i] /\ n[i] \in ToSet(n)
      BY DEF taskToMethods, ToSet
    <2>2. QED BY <1>1, <2>1, RCModelOps, PlanningFacts DEF ComposedOf
  <1> HIDE DEF o, list
  <1>3. /\ r \in Seq(Tasks) /\ ToSet(n) \subseteq ToSet(r) \union {n[i]} /\ ToSet(r) \subseteq ToSet(n) \union ToSet(list)
        /\ ToSet(list) \subseteq ToSet(r)
    BY <1>2, ReplacedIn
  <1>4. PICK O \in SUBSET Ops :
              /\ Actions \intersect ToSet(r) \subseteq O
              /\ WeightOf(r, O) <= c
              /\ \A Y : ClosedUnder(O, Y) /\ GivenFor(F, r) \subseteq Y => GoalsFor(r) \subseteq Y
    BY DEF HasRelaxedPlan, list
  <1>5. c \in Nat /\ rc.cost[o] \in Nat /\ rc.cost[o] + c \in Nat
    <2>1. c \in Nat /\ rc.cost[o] \in Nat
      BY <1>1, <1>2, OpsFacts DEF HasRelaxedPlan
    <2>2. QED BY <2>1
  <1> DEFINE P == O \union {o}
  <1>6. P \in SUBSET Ops /\ Actions \intersect ToSet(n) \subseteq P
    BY <1>2, <1>3, <1>4
  <1>7. WeightOf(n, P) <= rc.cost[o] + c
    <2>1. WeightOf(n, P) <= rc.cost[o] + WeightOf(r, O)
      BY <1>1, <1>2, <1>4, WeightReplaced
    <2>2. WeightOf(n, P) \in Nat /\ WeightOf(r, O) \in Nat
      BY <1>1, <1>3, <1>6, WeightFacts
    <2>3. QED BY <1>4, <1>5, <2>1, <2>2
  <1>8. ASSUME NEW Y, ClosedUnder(P, Y), GivenFor(F, n) \subseteq Y
        PROVE  GoalsFor(n) \subseteq Y
    <2>1. ClosedUnder(O, Y) /\ (rc.prec[o] \subseteq Y => rc.add[o] \subseteq Y)
      BY <1>8 DEF ClosedUnder
    <2>2. NetActions(r) \subseteq NetActions(n)
      <3>1. reachable[n[i]] \subseteq NetActions(n)
        BY <1>2, NetActionsFacts
      <3>2. ASSUME NEW u \in ToSet(list)
            PROVE  reachable[u] \subseteq NetActions(n)
        BY <1>1, <1>2, <3>1, <3>2, ReachableBelow DEF PlanningOK, list
      <3>3. \A u \in ToSet(n) : reachable[u] \subseteq NetActions(n)
        BY NetActionsFacts
      <3>4. QED BY <1>3, <3>2, <3>3, NetActionsFacts
    <2>3. GivenFor(F, r) \subseteq Y
      BY <1>8, <2>2 DEF GivenFor
    <2>4. GoalsFor(r) \subseteq Y
      BY <1>4, <2>1, <2>3
    <2>5. t2bur(n[i]) \in Y
      BY <1>2, <1>3, <2>1, <2>4 DEF GoalsFor
    <2>6. QED BY <1>3, <2>4, <2>5 DEF GoalsFor
  <1> HIDE DEF P, r
  <1>9. QED BY <1>5, <1>6, <1>7, <1>8 DEF HasRelaxedPlan, o

\* Nothing is left to do: no operator is needed.
LEMMA EmptyPlan ==
  ASSUME PlanningOK, NEW F, htn.gList \subseteq F
  PROVE  HasRelaxedPlan(F, <<>>, 0)
  <1>1. IsModel
    BY RCModelIsModel DEF PlanningOK
  <1>2. ToSet(<<>>) = {} /\ <<>> \in Seq(Tasks)
    BY EmptySeq DEF ToSet
  <1>3. WeightOf(<<>>, {}) = 0
    <2> DEFINE w == [o \in Ops |-> IF o \in {} THEN rc.cost[o] * Times(<<>>, o) ELSE 0]
    <2>1. numOps \in Nat /\ Ops = 0 .. numOps - 1
      BY <1>1, OpsFacts
    <2>2. \A o \in Ops : w[o] = 0
      OBVIOUS
    <2>3. WeightOf(<<>>, {}) = Total(numOps, w)
      BY DEF WeightOf
    <2> HIDE DEF w
    <2>4. \A i \in 0 .. numOps - 1 : w[i] \in Nat /\ w[i] <= 0
      BY <2>1, <2>2
    <2>5. Total(numOps, w) \in Nat /\ Total(numOps, w) <= 0 * numOps
      BY <2>1, <2>4, TotalBounded
    <2>6. 0 * numOps = 0
      BY <2>1
    <2>7. QED BY <2>3, <2>5, <2>6
  <1>4. ASSUME NEW Y, GivenFor(F, <<>>) \subseteq Y
        PROVE  GoalsFor(<<>>) \subseteq Y
    BY <1>2, <1>4 DEF GivenFor, GoalsFor, StateFacts
  <1>5. QED
    <2>1. {} \in SUBSET Ops /\ Actions \intersect ToSet(<<>>) \subseteq {} /\ WeightOf(<<>>, {}) <= 0 /\ 0 \in Nat
      BY <1>2, <1>3
    <2>2. QED BY <1>4, <2>1 DEF HasRelaxedPlan
\* What plans of so many steps cost, from every state and network, where each has a relaxed plan.
PlanTables ==
  {T \in [SUBSET htn.facts -> [Seq(Tasks) -> SUBSET Nat]] :
     \A F \in SUBSET htn.facts : \A n \in Seq(Tasks) : \A c \in T[F][n] : HasRelaxedPlan(F, n, c)}

FinishedPlans(F) == IF htn.gList \subseteq F THEN {0} ELSE {}

\* The plans that apply an action or decompose a task first, and then are one of T.
PlansThrough(T, F, n) ==
  (UNION {Plus(rc.cost[n[i]], T[Applied(n[i], F)][Replaced(n, i, <<>>)]) :
            i \in {j \in FirstSteps(n) : Applicable(n[j], F)}})
  \union (UNION {Plus(rc.cost[MethodAction(p[2])], T[F][Replaced(n, p[1], subTasks(p[2]))]) :
                   p \in {q \in FirstSteps(n) \X Methods : q[2] \in taskToMethods(n[q[1]])}})

\* The next table.
LEMMA PlansThroughWork ==
  ASSUME PlanningOK, NEW T \in PlanTables, NEW F \in SUBSET htn.facts, NEW n \in Seq(Tasks),
         NEW c \in PlansThrough(T, F, n)
  PROVE  c \in Nat /\ HasRelaxedPlan(F, n, c)
  <1>1. \A G \in SUBSET htn.facts : \A r \in Seq(Tasks) : \A d \in T[G][r] : HasRelaxedPlan(G, r, d)
    BY DEF PlanTables
  <1>2. htn \in Problems
    BY DEF PlanningOK
  <1>3. FirstSteps(n) \subseteq DOMAIN n
    BY DEF FirstSteps
  <1>4. CASE \E i \in {j \in FirstSteps(n) : Applicable(n[j], F)} :
               c \in Plus(rc.cost[n[i]], T[Applied(n[i], F)][Replaced(n, i, <<>>)])
    <2>1. PICK i \in DOMAIN n : Applicable(n[i], F) /\ c \in Plus(rc.cost[n[i]], T[Applied(n[i], F)][Replaced(n, i, <<>>)])
      BY <1>3, <1>4
    <2>2. PICK d \in T[Applied(n[i], F)][Replaced(n, i, <<>>)] : c = rc.cost[n[i]] + d
      BY <2>1 DEF Plus
    <2>3. Applied(n[i], F) \in SUBSET htn.facts
      BY <1>2, <2>1, PlanningFacts DEF Applied, Applicable
    <2>4. Replaced(n, i, <<>>) \in Seq(Tasks)
      <3>1. <<>> \in Seq(Tasks)
        BY EmptySeq
      <3>2. QED BY <3>1, ReplacedIn
    <2>5. HasRelaxedPlan(Applied(n[i], F), Replaced(n, i, <<>>), d)
      BY <1>1, <2>2, <2>3, <2>4
    <2>6. HasRelaxedPlan(F, n, c)
      BY <2>1, <2>2, <2>5, AppliedPlan
    <2>7. QED BY <2>6 DEF HasRelaxedPlan
  <1>5. CASE \E p \in {q \in FirstSteps(n) \X Methods : q[2] \in taskToMethods(n[q[1]])} :
               c \in Plus(rc.cost[MethodAction(p[2])], T[F][Replaced(n, p[1], subTasks(p[2]))])
    <2>1. PICK p \in FirstSteps(n) \X Methods :
                 /\ p[2] \in taskToMethods(n[p[1]])
                 /\ c \in Plus(rc.cost[MethodAction(p[2])], T[F][Replaced(n, p[1], subTasks(p[2]))])
      BY <1>5
    <2> DEFINE i == p[1]
               m == p[2]
    <2>2. i \in DOMAIN n /\ m \in taskToMethods(n[i]) /\ m \in Methods
      BY <1>3, <2>1
    <2>3. PICK d \in T[F][Replaced(n, i, subTasks(m))] : c = rc.cost[MethodAction(m)] + d
      BY <2>1 DEF Plus
    <2> HIDE DEF i, m
    <2>4. Replaced(n, i, subTasks(m)) \in Seq(Tasks)
      <3>1. subTasks(m) \in Seq(Tasks)
        BY <1>2, <2>2, PlanningFacts
      <3>2. QED BY <2>2, <3>1, ReplacedIn
    <2>5. HasRelaxedPlan(F, Replaced(n, i, subTasks(m)), d)
      BY <1>1, <2>3, <2>4
    <2>6. HasRelaxedPlan(F, n, c)
      BY <2>2, <2>3, <2>5, DecomposedPlan
    <2>7. QED BY <2>6 DEF HasRelaxedPlan
  <1> DEFINE A == {Plus(rc.cost[n[i]], T[Applied(n[i], F)][Replaced(n, i, <<>>)]) :
                     i \in {j \in FirstSteps(n) : Applicable(n[j], F)}}
             D == {Plus(rc.cost[MethodAction(p[2])], T[F][Replaced(n, p[1], subTasks(p[2]))]) :
                     p \in {q \in FirstSteps(n) \X Methods : q[2] \in taskToMethods(n[q[1]])}}
  <1>6. PlansThrough(T, F, n) = (UNION A) \union (UNION D)
    BY DEF PlansThrough
  <1>7. ASSUME c \in UNION A
        PROVE  c \in Nat /\ HasRelaxedPlan(F, n, c)
    BY <1>4, <1>7, Zenon
  <1>8. ASSUME c \in UNION D
        PROVE  c \in Nat /\ HasRelaxedPlan(F, n, c)
    BY <1>5, <1>8, Zenon
  <1> HIDE DEF A, D
  <1>9. c \in UNION A \/ c \in UNION D
    BY <1>6
  <1>10. QED BY <1>7, <1>8, <1>9

\* What a plan from the node costs is enough for a relaxed plan.
LEMMA PlansAreRelaxed ==
  ASSUME PlanningOK, state \subseteq htn.facts, net \in Seq(Tasks), NEW cost \in PlanCosts
  PROVE  HasRelaxedPlan(state, net, cost)
  <1> DEFINE Table(k, T) ==
               [F \in SUBSET htn.facts |-> [n \in Seq(Tasks) |->
                 IF n = <<>> THEN IF htn.gList \subseteq F THEN {0} ELSE {}
                 ELSE IF k = 0 THEN {}
                 ELSE (UNION {Plus(rc.cost[n[i]], T[Applied(n[i], F)][Replaced(n, i, <<>>)]) :
                                i \in {j \in FirstSteps(n) : Applicable(n[j], F)}})
                      \union (UNION {Plus(rc.cost[MethodAction(p[2])], T[F][Replaced(n, p[1], subTasks(p[2]))]) :
                                       p \in {q \in FirstSteps(n) \X Methods : q[2] \in taskToMethods(n[q[1]])}})]]
             W == CHOOSE w : w = [k \in 0 .. MaxPlan |-> Table(k, w[k - 1])]
  <1>1. PlanCosts = W[MaxPlan][state][net]
    BY Zenon DEF PlanCosts
  <1>2. \A k, T : Table(k, T) = [F \in SUBSET htn.facts |-> [n \in Seq(Tasks) |->
                                  IF n = <<>> THEN FinishedPlans(F) ELSE IF k = 0 THEN {} ELSE PlansThrough(T, F, n)]]
    BY Zenon DEF FinishedPlans, PlansThrough
  <1> HIDE DEF Table
  <1>3. ASSUME NEW k, NEW T, k = 0 \/ T \in PlanTables
        PROVE  Table(k, T) \in PlanTables
    <2> DEFINE N == Table(k, T)
    <2>1. ASSUME NEW F \in SUBSET htn.facts, NEW n \in Seq(Tasks)
          PROVE  /\ N[F][n] \in SUBSET Nat
                 /\ \A c \in N[F][n] : HasRelaxedPlan(F, n, c)
      <3>1. N[F][n] = IF n = <<>> THEN FinishedPlans(F) ELSE IF k = 0 THEN {} ELSE PlansThrough(T, F, n)
        BY <1>2
      <3> HIDE DEF N
      <3>2. CASE n = <<>>
        BY <3>1, <3>2, EmptyPlan DEF FinishedPlans
      <3>3. CASE n # <<>>
        BY <1>3, <3>1, <3>3, PlansThroughWork
      <3>4. QED BY <3>2, <3>3
    <2>2. N \in [SUBSET htn.facts -> [Seq(Tasks) -> SUBSET Nat]]
      <3>1. \A F \in SUBSET htn.facts : N[F] = [n \in Seq(Tasks) |-> N[F][n]]
        BY <1>2
      <3>2. N = [F \in SUBSET htn.facts |-> N[F]]
        BY <1>2
      <3> HIDE DEF N
      <3>3. \A F \in SUBSET htn.facts : N[F] \in [Seq(Tasks) -> SUBSET Nat]
        BY <2>1, <3>1
      <3>4. QED BY <3>2, <3>3
    <2> HIDE DEF N
    <2>3. N \in PlanTables
      BY <2>1, <2>2 DEF PlanTables
    <2>4. QED BY <2>3 DEF N
  <1>4. W = [k \in 0 .. MaxPlan |-> Table(k, W[k - 1])]
    <2> DEFINE A == PlanTables
               base == Table(0, 0)
               step == [k \in 1 .. MaxPlan |-> [T \in A |-> Table(k, T)]]
    <2>1. base \in A
      BY <1>3
    <2>2. step \in [1 .. MaxPlan -> [A -> A]]
      BY <1>3
    <2>3. \A T : Table(0, T) = base
      BY <1>2
    <2>4. PICK g \in [0 .. MaxPlan -> A] : Iterates(g, MaxPlan, base, step)
      <3> HIDE DEF A, base, step
      <3>1. QED BY <2>1, <2>2, MaxPlanAssumption, IterationExists
    <2>5. \A k \in 0 .. MaxPlan : g[k] = Table(k, g[k - 1])
      <3>1. SUFFICES ASSUME NEW k \in 0 .. MaxPlan
                     PROVE  g[k] = Table(k, g[k - 1])
        OBVIOUS
      <3>2. g[k] = IF k = 0 THEN base ELSE step[k][g[k - 1]]
        BY <2>4 DEF Iterates
      <3>3. CASE k = 0
        <4> HIDE DEF base
        <4>1. QED BY <2>3, <3>2, <3>3
      <3>4. CASE k # 0
        <4>1. k \in 1 .. MaxPlan /\ k - 1 \in 0 .. MaxPlan
          BY <3>4, MaxPlanAssumption
        <4>2. g[k - 1] \in A
          BY <4>1
        <4> HIDE DEF A, base
        <4>3. step[k][g[k - 1]] = Table(k, g[k - 1])
          BY <4>1, <4>2
        <4>4. QED BY <3>2, <3>4, <4>3
      <3>5. QED BY <3>3, <3>4
    <2>6. g = [k \in 0 .. MaxPlan |-> Table(k, g[k - 1])]
      BY <2>5
    <2>7. QED BY <2>6, Zenon
  <1> HIDE DEF W
  <1>5. \A k \in 0 .. MaxPlan : W[k] = Table(k, W[k - 1])
    BY <1>4
  <1> DEFINE Q == {k \in 0 .. MaxPlan : W[k] \in PlanTables}
  <1>6. 0 \in Q
    BY <1>3, <1>5, MaxPlanAssumption
  <1>7. \A k \in 1 .. MaxPlan : k - 1 \in Q => k \in Q
    <2>1. SUFFICES ASSUME NEW k \in 1 .. MaxPlan, W[k - 1] \in PlanTables
                   PROVE  W[k] \in PlanTables
      BY MaxPlanAssumption
    <2>2. QED BY <1>3, <1>5, <2>1, MaxPlanAssumption
  <1>8. MaxPlan \in Q
    <2> HIDE DEF Q
    <2>1. 0 .. MaxPlan \subseteq Q
      BY <1>6, <1>7, MaxPlanAssumption, LoopKeeps
    <2>2. QED BY <2>1, MaxPlanAssumption
  <1>9. QED BY <1>1, <1>8 DEF PlanTables
-----------------------------------------------------------------------------
(* What the correction adds.                                               *)

\* Sums of multiples, and of nothing.
LEMMA TotalScaled ==
  ASSUME NEW n \in Nat, NEW w, NEW v, NEW m \in Nat,
         \A i \in 0 .. n - 1 : w[i] \in Nat /\ v[i] \in Nat /\ w[i] <= m * v[i]
  PROVE  /\ Total(n, w) \in Nat /\ Total(n, v) \in Nat /\ Total(n, w) <= m * Total(n, v)
         /\ m = 1 => Total(n, w) <= Total(n, v)
  <1>1. PICK f \in [0 .. n -> Nat] : /\ f[0] = 0 /\ f[n] = Total(n, w)
                                     /\ \A i \in 1 .. n : f[i] = f[i - 1] + w[i - 1]
    BY TotalFacts
  <1>2. PICK g \in [0 .. n -> Nat] : /\ g[0] = 0 /\ g[n] = Total(n, v)
                                     /\ \A i \in 1 .. n : g[i] = g[i - 1] + v[i - 1]
    BY TotalFacts
  <1> DEFINE T == {i \in 0 .. n : f[i] <= m * g[i]}
  <1>3. 0 \in T
    <2>1. m * 0 = 0
      OBVIOUS
    <2>2. QED BY <1>1, <1>2, <2>1
  <1>4. ASSUME NEW i \in 1 .. n, i - 1 \in T
        PROVE  i \in T
    <2> DEFINE a == f[i - 1]
               b == g[i - 1]
               x == w[i - 1]
               y == v[i - 1]
    <2>1. f[i] = a + x /\ g[i] = b + y /\ a <= m * b
      BY <1>1, <1>2, <1>4
    <2>2. a \in Nat /\ b \in Nat /\ x \in Nat /\ y \in Nat /\ x <= m * y
      <3>1. i - 1 \in 0 .. n /\ i - 1 \in 0 .. n - 1
        OBVIOUS
      <3>2. QED BY <3>1
    <2> HIDE DEF a, b, x, y
    <2>3. m * (b + y) = m * b + m * y /\ m * b \in Nat /\ m * y \in Nat
      BY <2>2
    <2>4. f[i] <= m * g[i]
      BY <2>1, <2>2, <2>3
    <2>5. QED BY <2>4
  <1> HIDE DEF T
  <1>5. n \in T
    <2>1. 0 .. n \subseteq T
      BY <1>3, <1>4, LoopKeeps
    <2>2. QED BY <2>1
  <1>6. f[n] \in Nat /\ g[n] \in Nat
    OBVIOUS
  <1>7. f[n] <= m * g[n]
    BY <1>5 DEF T
  <1>8. m = 1 => f[n] <= g[n]
    BY <1>6, <1>7
  <1>9. QED BY <1>1, <1>2, <1>6, <1>7, <1>8

\* How many places up to k have the task t.
CountTo(n, k, t) == Cardinality({j \in 1 .. k : n[j] = t})

\* They are counted place by place.
LEMMA CountToFacts ==
  ASSUME NEW X, NEW n \in Seq(X), NEW t
  PROVE  /\ CountTo(n, 0, t) = 0
         /\ \A k \in 1 .. Len(n) : /\ CountTo(n, k - 1, t) \in Nat
                                   /\ CountTo(n, k, t) = CountTo(n, k - 1, t) + (IF n[k] = t THEN 1 ELSE 0)
         /\ CountIn(n, t) = CountTo(n, Len(n), t)
  <1>1. DOMAIN n = 1 .. Len(n) /\ Len(n) \in Nat
    BY SeqParts
  <1>2. CountTo(n, 0, t) = 0
    <2>1. {j \in 1 .. 0 : n[j] = t} = {}
      OBVIOUS
    <2>2. QED BY <2>1, FS_EmptySet DEF CountTo
  <1>3. ASSUME NEW k \in 1 .. Len(n)
        PROVE  /\ CountTo(n, k - 1, t) \in Nat
               /\ CountTo(n, k, t) = CountTo(n, k - 1, t) + (IF n[k] = t THEN 1 ELSE 0)
    <2> DEFINE P == {j \in 1 .. k - 1 : n[j] = t}
               Q == {j \in 1 .. k : n[j] = t}
    <2>1. k \in Nat /\ k >= 1 /\ k - 1 \in Nat
      BY <1>1
    <2>2. Q = (IF n[k] = t THEN P \union {k} ELSE P) /\ k \notin P
      BY <2>1
    <2>3. IsFiniteSet(P)
      <3>1. IsFiniteSet(1 .. k - 1) /\ P \subseteq 1 .. k - 1
        BY <2>1, FS_Interval
      <3> HIDE DEF P
      <3>2. QED BY <3>1, FS_Subset
    <2>4. CountTo(n, k, t) = Cardinality(Q) /\ CountTo(n, k - 1, t) = Cardinality(P)
      BY DEF CountTo
    <2> HIDE DEF P, Q
    <2>5. Cardinality(P) \in Nat /\ Cardinality(P \union {k}) = Cardinality(P) + 1
      BY <2>2, <2>3, FS_AddElement, FS_CardinalityType
    <2>6. QED BY <2>2, <2>4, <2>5
  <1>4. CountIn(n, t) = CountTo(n, Len(n), t)
    BY <1>1 DEF CountIn, CountTo
  <1>5. QED BY <1>2, <1>3, <1>4

\* All but one of the steps can be repetitions of actions.
LEMMA RepeatsFit ==
  ASSUME IsModel, NEW n \in Seq(Tasks)
  PROVE  LET repeats == Total(numOps, [o \in Ops |-> Times(n, o) - 1])
         IN  repeats \in Nat /\ (n = <<>> => repeats = 0) /\ (n # <<>> => repeats <= Len(n) - 1)
  <1> DEFINE More(k, o) == IF CountTo(n, k, o) >= 1 THEN CountTo(n, k, o) - 1 ELSE 0
             R(k) == [o \in Ops |-> IF o \in Actions THEN More(k, o) ELSE 0]
             l == Len(n)
             N == numOps
             T == {k \in 0 .. l : Total(N, R(k)) <= IF k = 0 THEN 0 ELSE k - 1}
  <1>1. N \in Nat /\ Ops = 0 .. N - 1
    BY OpsFacts
  <1>2. l \in Nat
    BY SeqParts
  <1>3. \A o : /\ CountTo(n, 0, o) = 0
               /\ \A k \in 1 .. l : /\ CountTo(n, k - 1, o) \in Nat
                                    /\ CountTo(n, k, o) = CountTo(n, k - 1, o) + (IF n[k] = o THEN 1 ELSE 0)
               /\ CountIn(n, o) = CountTo(n, l, o)
    BY CountToFacts
  <1>4. \A k \in 0 .. l : \A o : CountTo(n, k, o) \in Nat
    <2>1. SUFFICES ASSUME NEW k \in 0 .. l, NEW o
                   PROVE  CountTo(n, k, o) \in Nat
      OBVIOUS
    <2>2. CASE k = 0
      BY <1>3, <2>2
    <2>3. CASE k # 0
      <3>1. k \in 1 .. l
        BY <2>3
      <3>2. CountTo(n, k - 1, o) \in Nat
            /\ CountTo(n, k, o) = CountTo(n, k - 1, o) + (IF n[k] = o THEN 1 ELSE 0)
        BY <1>3, <3>1
      <3>3. QED BY <3>2
    <2>4. QED BY <2>2, <2>3
  <1>5. \A k \in 0 .. l : \A o \in Ops : R(k)[o] \in Nat /\ R(k)[o] = IF o \in Actions THEN More(k, o) ELSE 0
    BY <1>4
  <1> HIDE DEF R, l
  <1>6. \A k \in 0 .. l : \A i \in 0 .. N - 1 : R(k)[i] \in Nat
    BY <1>1, <1>5
  <1>7. 0 \in T
    <2>1. \A o \in Ops : R(0)[o] = 0
      BY <1>2, <1>3, <1>5
    <2>2. \A i \in 0 .. N - 1 : R(0)[i] \in Nat /\ R(0)[i] <= 0
      BY <1>1, <2>1
    <2>3. Total(N, R(0)) \in Nat /\ Total(N, R(0)) <= 0 * N
      BY <1>1, <2>2, TotalBounded
    <2>4. 0 * N = 0
      BY <1>1
    <2>5. QED BY <1>2, <2>3, <2>4
  <1>8. ASSUME NEW k \in 1 .. l, k - 1 \in T
        PROVE  k \in T
    <2>1. k - 1 \in 0 .. l /\ k \in 0 .. l /\ k \in Nat /\ k >= 1
      BY <1>2
    <2>2. \A o \in Ops : \/ R(k)[o] = R(k - 1)[o]
                         \/ o = n[k] /\ R(k)[o] = R(k - 1)[o] + 1 /\ k - 1 # 0
      <3>1. SUFFICES ASSUME NEW o \in Ops
                     PROVE  \/ R(k)[o] = R(k - 1)[o]
                            \/ o = n[k] /\ R(k)[o] = R(k - 1)[o] + 1 /\ k - 1 # 0
        OBVIOUS
      <3> DEFINE a == CountTo(n, k - 1, o)
                 b == CountTo(n, k, o)
      <3>2. a \in Nat /\ b = a + (IF n[k] = o THEN 1 ELSE 0) /\ (k - 1 = 0 => a = 0)
        BY <1>3
      <3>3. /\ R(k - 1)[o] = IF o \in Actions THEN IF a >= 1 THEN a - 1 ELSE 0 ELSE 0
            /\ R(k)[o] = IF o \in Actions THEN IF b >= 1 THEN b - 1 ELSE 0 ELSE 0
        BY <1>5, <2>1
      <3> HIDE DEF a, b
      <3>4. QED BY <3>2, <3>3
    <2>3. \A i \in 0 .. N - 1 : R(k)[i] \in Nat /\ R(k - 1)[i] \in Nat
      BY <1>6, <2>1
    <2>4. CASE \A o \in Ops : R(k)[o] = R(k - 1)[o]
      <3>1. \A i \in 0 .. N - 1 : R(k)[i] <= 1 * R(k - 1)[i]
        BY <1>1, <2>3, <2>4
      <3>2. Total(N, R(k)) <= Total(N, R(k - 1)) /\ Total(N, R(k)) \in Nat /\ Total(N, R(k - 1)) \in Nat
        BY <1>1, <2>3, <3>1, TotalScaled
      <3>3. Total(N, R(k - 1)) <= IF k - 1 = 0 THEN 0 ELSE (k - 1) - 1
        BY <1>8
      <3>4. QED BY <2>1, <3>2, <3>3
    <2>5. CASE \E o \in Ops : R(k)[o] # R(k - 1)[o]
      <3>1. PICK j \in Ops : R(k)[j] # R(k - 1)[j]
        BY <2>5
      <3>2. j = n[k] /\ R(k)[j] = R(k - 1)[j] + 1 /\ k - 1 # 0
        BY <2>2, <3>1
      <3>3. \A i \in 0 .. N - 1 : i # j => R(k)[i] <= R(k - 1)[i]
        BY <1>1, <2>2, <2>3, <3>2
      <3>4. j \in 0 .. N - 1 /\ 1 \in Nat /\ R(k)[j] <= R(k - 1)[j] + 1
        BY <1>1, <2>3, <3>2
      <3>5. Total(N, R(k)) <= Total(N, R(k - 1)) + 1 /\ Total(N, R(k)) \in Nat /\ Total(N, R(k - 1)) \in Nat
        BY <1>1, <2>3, <3>3, <3>4, TotalsDiffer
      <3>6. Total(N, R(k - 1)) <= (k - 1) - 1
        BY <1>8, <3>2
      <3>7. QED BY <2>1, <3>2, <3>5, <3>6
    <2>6. QED BY <2>4, <2>5
  <1> HIDE DEF T
  <1>9. l \in T
    <2>1. 0 .. l \subseteq T
      BY <1>2, <1>7, <1>8, LoopKeeps
    <2>2. QED BY <1>2, <2>1
  <1>10. [o \in Ops |-> Times(n, o) - 1] = R(l)
    <2>1. ASSUME NEW o \in Ops
          PROVE  Times(n, o) - 1 = IF o \in Actions THEN More(l, o) ELSE 0
      <3>1. /\ CountIn(n, o) \in Nat /\ (o \in ToSet(n) => CountIn(n, o) >= 1)
            /\ (o \notin ToSet(n) => CountIn(n, o) = 0) /\ CountIn(n, o) = CountTo(n, l, o)
        BY <1>3, CountFacts
      <3>2. QED BY <3>1 DEF Times
    <2>2. QED BY <2>1 DEF R
  <1>11. Total(N, R(l)) \in Nat
    <2>1. \A i \in 0 .. N - 1 : R(l)[i] \in Nat /\ R(l)[i] <= 1 * R(l)[i]
      BY <1>2, <1>6
    <2>2. QED BY <1>1, <2>1, TotalScaled
  <1>12. n = <<>> <=> l = 0
    BY EmptySeq DEF l
  <1>13. Total(N, R(l)) <= IF l = 0 THEN 0 ELSE l - 1
    BY <1>9 DEF T
  <1> HIDE DEF N, More
  <1>14. QED BY <1>2, <1>10, <1>11, <1>12, <1>13 DEF l, N
\* The costs of the occurrences after the first ones.
ExtraOf(n) == Total(numOps, [o \in Ops |-> rc.cost[o] * (Times(n, o) - 1)])

\* They are what a plan for the network costs more than its operators, and not too much.
LEMMA ExtraFacts ==
  ASSUME IsModel, NEW n \in Seq(Tasks)
  PROVE  /\ ExtraOf(n) \in Nat
         /\ \A O \in SUBSET Ops : Actions \intersect ToSet(n) \subseteq O =>
              WeightOf(n, O) = CostsOf(rc.cost, O) + ExtraOf(n)
         /\ \A m, l \in Nat : (\A o \in Ops : rc.cost[o] <= m) /\ Len(n) <= l + 1 => ExtraOf(n) <= m * l
  <1> DEFINE c(o) == rc.cost[o]
             k(o) == Times(n, o)
             e == [o \in Ops |-> c(o) * (k(o) - 1)]
             r == [o \in Ops |-> k(o) - 1]
  <1>1. numOps \in Nat /\ Ops = 0 .. numOps - 1
    BY OpsFacts
  <1>2. \A o \in Ops : c(o) \in Nat /\ k(o) \in Nat /\ k(o) >= 1 /\ k(o) - 1 \in Nat /\ (k(o) - 1) + 1 = k(o)
    BY OpsFacts, WeightFacts
  <1>3. \A o \in Ops : o \notin Actions \intersect ToSet(n) => k(o) = 1
    BY DEF Times
  <1>4. ExtraOf(n) = Total(numOps, e)
    BY DEF ExtraOf
  <1>5. \A o \in Ops : e[o] = c(o) * (k(o) - 1) /\ r[o] = k(o) - 1
    OBVIOUS
  <1> HIDE DEF c, k, e, r
  <1>6. ASSUME NEW o \in Ops
        PROVE  e[o] \in Nat /\ r[o] \in Nat /\ c(o) * k(o) = c(o) + e[o] /\ (k(o) = 1 => e[o] = 0)
    <2> DEFINE d == k(o) - 1
    <2>1. d \in Nat /\ d + 1 = k(o) /\ c(o) \in Nat /\ e[o] = c(o) * d /\ r[o] = d
      BY <1>2, <1>5
    <2>2. k(o) = 1 => d = 0
      BY <1>2
    <2> HIDE DEF d
    <2>3. c(o) * d \in Nat /\ c(o) * (d + 1) = c(o) * d + c(o)
      BY <2>1, TimesMore
    <2>4. d = 0 => c(o) * d = 0
      BY <2>1
    <2>5. QED BY <2>1, <2>2, <2>3, <2>4
  <1>7. \A i \in 0 .. numOps - 1 : e[i] \in Nat /\ r[i] \in Nat
    BY <1>1, <1>6
  <1>8. Total(numOps, e) \in Nat
    <2>1. \A i \in 0 .. numOps - 1 : e[i] \in Nat /\ e[i] <= 1 * e[i]
      BY <1>1, <1>7
    <2>2. QED BY <1>1, <2>1, TotalScaled
  <1>9. ASSUME NEW O \in SUBSET Ops, Actions \intersect ToSet(n) \subseteq O
        PROVE  WeightOf(n, O) = CostsOf(rc.cost, O) + Total(numOps, e)
    <2> DEFINE u == [o \in Ops |-> IF o \in O THEN rc.cost[o] * Times(n, o) ELSE 0]
               v == [o \in Ops |-> IF o \in O THEN rc.cost[o] ELSE 0]
    <2>1. WeightOf(n, O) = Total(numOps, u) /\ CostsOf(rc.cost, O) = Total(numOps, v)
      BY DEF WeightOf, CostsOf
    <2>2. \A o \in Ops : u[o] = (IF o \in O THEN c(o) * k(o) ELSE 0) /\ v[o] = IF o \in O THEN c(o) ELSE 0
      BY DEF c, k
    <2> HIDE DEF u, v
    <2>3. ASSUME NEW o \in Ops
          PROVE  u[o] = v[o] + e[o] /\ v[o] \in Nat /\ u[o] \in Nat
      <3>1. c(o) \in Nat /\ e[o] \in Nat /\ c(o) * k(o) = c(o) + e[o] /\ (o \notin O => e[o] = 0)
        BY <1>2, <1>3, <1>6, <1>9
      <3>2. CASE o \in O
        <4>1. u[o] = c(o) + e[o] /\ v[o] = c(o)
          BY <2>2, <3>1, <3>2
        <4>2. QED BY <3>1, <4>1
      <3>3. CASE o \notin O
        <4>1. u[o] = 0 /\ v[o] = 0 /\ e[o] = 0
          BY <2>2, <3>1, <3>3
        <4>2. QED BY <4>1
      <3>4. QED BY <3>2, <3>3
    <2>4. \A i \in 0 .. numOps - 1 : v[i] \in Nat /\ e[i] \in Nat /\ u[i] \in Nat /\ u[i] <= v[i] + e[i]
      BY <1>1, <1>7, <2>3
    <2>5. \A i \in 0 .. numOps - 1 : u[i] = v[i] + e[i]
      BY <1>1, <2>3
    <2>6. Total(numOps, u) = Total(numOps, v) + Total(numOps, e)
      BY <1>1, <2>4, <2>5, TotalsAdd
    <2>7. QED BY <2>1, <2>6
  <1>10. ASSUME NEW m \in Nat, NEW l \in Nat, \A o \in Ops : rc.cost[o] <= m, Len(n) <= l + 1
         PROVE  Total(numOps, e) <= m * l
    <2>1. Total(numOps, r) \in Nat /\ Total(numOps, r) <= l
      <3>1. r = [o \in Ops |-> Times(n, o) - 1]
        BY DEF r, k
      <3>2. Len(n) \in Nat
        BY SeqParts
      <3> HIDE DEF r
      <3>3. Total(numOps, r) \in Nat /\ (n = <<>> => Total(numOps, r) = 0) /\ (n # <<>> => Total(numOps, r) <= Len(n) - 1)
        BY <3>1, RepeatsFit
      <3>4. QED BY <1>10, <3>2, <3>3
    <2>2. ASSUME NEW o \in Ops
          PROVE  e[o] <= m * r[o]
      <3>1. e[o] = c(o) * r[o] /\ c(o) \in Nat /\ c(o) <= m /\ r[o] \in Nat
        BY <1>2, <1>5, <1>6, <1>10 DEF c
      <3> DEFINE x == r[o]
                 y == c(o)
      <3>2. y \in Nat /\ x \in Nat /\ y <= m /\ e[o] = y * x
        BY <3>1
      <3> HIDE DEF x, y
      <3>3. x * y <= x * m
        BY <3>2, TimesMore
      <3>4. x * y = y * x /\ x * m = m * x
        BY <3>2
      <3>5. e[o] <= m * x
        BY <3>2, <3>3, <3>4
      <3>6. QED BY <3>5 DEF x
    <2>3. \A i \in 0 .. numOps - 1 : e[i] \in Nat /\ r[i] \in Nat /\ e[i] <= m * r[i]
      BY <1>1, <1>7, <2>2
    <2>4. Total(numOps, e) <= m * Total(numOps, r)
      BY <1>1, <2>3, TotalScaled
    <2>5. m * Total(numOps, r) <= m * l /\ m * Total(numOps, r) \in Nat /\ m * l \in Nat
      BY <2>1, TimesMore
    <2>6. QED BY <1>8, <2>4, <2>5
  <1>11. QED BY <1>4, <1>8, <1>9, <1>10

\* They are what Correct adds.
LEMMA CorrectedIs ==
  ASSUME htn \in Problems, rc = RCModel, net \in Seq(Tasks), hval \in Nat, useAdmissibleCostEstimate
  PROVE  Corrected = hval + ExtraOf(net)
  <1> DEFINE u == [t \in Tasks |-> IF t \in ToSet(net) THEN Correction(t) * Additional(t) ELSE 0]
             e == [o \in Ops |-> rc.cost[o] * (Times(net, o) - 1)]
             k == htn.numActions
  <1>1. /\ IsModel /\ Ops = 0 .. k + Len(htn.methods) - 1 /\ Len(htn.methods) \in Nat
        /\ numOps \in Nat /\ Ops = 0 .. numOps - 1 /\ htn.numTasks \in Nat /\ k \in 0 .. htn.numTasks
    BY RCModelIsModel, OpsFacts, PlanningFacts, ProblemsAssumption
  <1>2. k \in 0 .. numOps
    <2> DEFINE N == k + Len(htn.methods)
    <2>1. k \in Nat /\ N \in Nat /\ k <= N /\ Ops = 0 .. N - 1
      BY <1>1
    <2> HIDE DEF N
    <2>2. numOps = N
      BY <2>1, FS_Interval DEF numOps
    <2>3. QED BY <2>1, <2>2
  <1>3. Actions = 0 .. k - 1 /\ Tasks = 0 .. htn.numTasks - 1 /\ Actions \subseteq Ops /\ Actions \subseteq Tasks
    <2>1. Actions = 0 .. k - 1 /\ Tasks = 0 .. htn.numTasks - 1
      BY DEF Actions, Tasks
    <2>2. 0 .. k - 1 \subseteq Ops
      BY <1>1
    <2>3. 0 .. k - 1 \subseteq 0 .. htn.numTasks - 1
      BY <1>1
    <2>4. QED BY <2>1, <2>2, <2>3
  <1>4. Corrected = hval + Total(htn.numTasks, u) /\ ExtraOf(net) = Total(numOps, e)
    BY DEF Corrected, ExtraOf
  <1>5. ASSUME NEW a \in Actions
        PROVE  rc.cost[a] = htn.actionCosts[a]
    <2>1. a \in 0 .. htn.numActions + Len(htn.methods) - 1 /\ options.estimate # "estDISTANCE"
      BY <1>1, <1>3 DEF useAdmissibleCostEstimate
    <2>2. QED BY <1>5, <2>1 DEF RCModel
  <1>6. ASSUME NEW t \in Tasks
        PROVE  u[t] \in Nat /\ IF t \in Actions THEN u[t] = e[t] ELSE u[t] = 0
    <2>1. CountIn(net, t) = Count(t) /\ CountIn(net, t) \in Nat /\ (t \in ToSet(net) => CountIn(net, t) >= 1)
      BY CountFacts DEF CountIn, Count
    <2>2. CASE t \in Actions /\ t \in ToSet(net)
      <3>1. u[t] = htn.actionCosts[t] * (CountIn(net, t) - 1)
        BY <2>1, <2>2 DEF Correction, Additional
      <3>2. e[t] = htn.actionCosts[t] * (CountIn(net, t) - 1)
        BY <1>3, <1>5, <2>2 DEF Times
      <3>3. htn.actionCosts[t] \in Nat /\ CountIn(net, t) - 1 \in Nat
        BY <2>1, <2>2, PlanningFacts
      <3>4. htn.actionCosts[t] * (CountIn(net, t) - 1) \in Nat
        BY <3>3, TimesMore
      <3>5. QED BY <2>2, <3>1, <3>2, <3>4
    <2>3. CASE t \in Actions /\ t \notin ToSet(net)
      <3>1. Times(net, t) - 1 = 0
        BY <2>3 DEF Times
      <3>2. e[t] = rc.cost[t] * 0 /\ rc.cost[t] \in Nat
        BY <1>1, <1>3, <2>3, <3>1, OpsFacts
      <3>3. QED BY <2>3, <3>2
    <2>4. CASE t \notin Actions
      <3>1. u[t] = IF t \in ToSet(net) THEN 0 * (CountIn(net, t) - 1) ELSE 0
        BY <2>1, <2>4 DEF Correction, Additional
      <3>2. 0 * (CountIn(net, t) - 1) = 0
        BY <2>1
      <3>3. QED BY <2>4, <3>1, <3>2
    <2>5. QED BY <2>2, <2>3, <2>4
  <1>7. ASSUME NEW o \in Ops
        PROVE  e[o] \in Nat /\ (o \notin Actions => e[o] = 0)
    <2>1. rc.cost[o] \in Nat /\ Times(net, o) - 1 \in Nat /\ (o \notin Actions => Times(net, o) - 1 = 0)
      <3>1. Times(net, o) \in Nat /\ Times(net, o) >= 1
        BY <1>1, WeightFacts
      <3>2. QED BY <1>1, <3>1, OpsFacts DEF Times
    <2>2. rc.cost[o] * (Times(net, o) - 1) \in Nat
      BY <2>1, TimesMore
    <2>3. QED BY <2>1, <2>2
  <1> HIDE DEF u, e, k
  <1>8. Total(htn.numTasks, u) = Total(k, e)
    <2>1. \A i \in 0 .. htn.numTasks - 1 : u[i] \in Nat
      BY <1>3, <1>6
    <2>2. \A i \in 0 .. k - 1 : e[i] = u[i]
      BY <1>3, <1>6
    <2>3. \A i \in k .. htn.numTasks - 1 : u[i] = 0
      BY <1>1, <1>3, <1>6
    <2> DEFINE N == htn.numTasks
    <2>4. /\ N \in Nat /\ k \in 0 .. N
          /\ (\A i \in 0 .. N - 1 : u[i] \in Nat)
          /\ \A i \in k .. N - 1 : u[i] = 0
      BY <1>1, <2>1, <2>3
    <2> HIDE DEF N
    <2>5. Total(N, u) = Total(k, e)
      BY <2>2, <2>4, TotalShort
    <2>6. QED BY <2>5 DEF N
  <1>9. Total(numOps, e) = Total(k, e)
    <2>1. \A i \in 0 .. numOps - 1 : e[i] \in Nat
      BY <1>1, <1>7
    <2>2. \A i \in k .. numOps - 1 : e[i] = 0
      BY <1>1, <1>2, <1>3, <1>7
    <2>3. numOps \in Nat /\ k \in 0 .. numOps /\ \A i \in 0 .. k - 1 : e[i] = e[i]
      BY <1>1, <1>2
    <2>4. QED BY <2>1, <2>2, <2>3, TotalShort
  <1>10. QED BY <1>4, <1>8, <1>9
\* What is corrected by distances may become any number.
addsDistances == options.correctTaskCount /\ options.estimate = "estDISTANCE"

\* Where methods are counted and costs added, nothing is corrected.
LEMMA CorrectedIsNothing ==
  ASSUME htn \in Problems, net \in Seq(Tasks), hval \in Nat, ~useAdmissibleCostEstimate,
         options.estimate # "estDISTANCE"
  PROVE  Corrected = hval
  <1> DEFINE u == [t \in Tasks |-> IF t \in ToSet(net) THEN Correction(t) * Additional(t) ELSE 0]
             N == htn.numTasks
  <1>1. Corrected = hval + Total(N, u) /\ N \in Nat /\ Tasks = 0 .. N - 1
    BY ProblemsAssumption DEF Corrected, Tasks
  <1>2. ASSUME NEW t \in Tasks
        PROVE  u[t] = 0
    <2>1. CountIn(net, t) = Count(t) /\ CountIn(net, t) \in Nat
      BY CountFacts DEF CountIn, Count
    <2>2. u[t] = IF t \in ToSet(net) THEN 0 * (CountIn(net, t) - 1) ELSE 0
      BY <2>1 DEF Correction, Additional
    <2>3. 0 * (CountIn(net, t) - 1) = 0
      BY <2>1
    <2>4. QED BY <2>2, <2>3
  <1> HIDE DEF u, N
  <1>3. (\A i \in 0 .. N - 1 : u[i] \in Nat) /\ (\A i \in 0 .. 0 - 1 : u[i] = u[i]) /\ \A i \in 0 .. N - 1 : u[i] = 0
    BY <1>1, <1>2
  <1>4. Total(N, u) = Total(0, u)
    <2>1. 0 \in 0 .. N
      BY <1>1
    <2>2. QED BY <1>1, <1>3, <2>1, TotalShort
  <1>5. Total(0, u) = 0
    <2>1. 0 \in Nat /\ \A i \in 0 .. 0 - 1 : u[i] \in Nat
      OBVIOUS
    <2>2. PICK f \in [0 .. 0 -> Nat] : f[0] = 0 /\ f[0] = Total(0, u)
      BY <2>1, TotalFacts
    <2>3. QED BY <2>2
  <1>6. QED BY <1>1, <1>4, <1>5

\* What a heuristic has found is left as it is or corrected.
LEMMA CorrectionIs ==
  ASSUME GraphInv, NodeOK, Correct, ~addsDistances
  PROVE  /\ hval = UNREACHABLE => hval' = hval
         /\ hval \in Nat => \E extra \in {0, ExtraOf(net)} : hval' = hval + extra
  <1>1. phase = "search" /\ htn \in Problems /\ rc = RCModel /\ net \in Seq(Tasks)
    BY NodeFacts DEF NodeOK, Correct
  <1>2. hval' = IF options.correctTaskCount /\ hval # UNREACHABLE THEN Corrected ELSE hval
    BY DEF Correct
  <1>3. ASSUME hval \in Nat
        PROVE  \E extra \in {0, ExtraOf(net)} : hval' = hval + extra
    <2>0. hval = hval + 0
      BY <1>3
    <2>1. CASE hval' = hval
      BY <2>0, <2>1
    <2>2. CASE useAdmissibleCostEstimate /\ hval' = Corrected
      <3>1. Corrected = hval + ExtraOf(net)
        BY <1>1, <1>3, <2>2, CorrectedIs
      <3>2. QED BY <2>2, <3>1
    <2>3. CASE options.correctTaskCount /\ ~useAdmissibleCostEstimate /\ hval' = Corrected
      <3>1. Corrected = hval
        BY <1>1, <1>3, <2>3, CorrectedIsNothing DEF addsDistances
      <3>2. QED BY <2>0, <2>3, <3>1
    <2>4. QED BY <1>2, <2>1, <2>2, <2>3
  <1>4. QED BY <1>2, <1>3
-----------------------------------------------------------------------------
(* The estimate of LM-Cut.                                                 *)

\* What is estimated is no more than any relaxed plan costs, and impossible only if there is none.
EstimateOK ==
  IF hval = UNREACHABLE THEN ~GoalsReachable
  ELSE hval \in Nat /\ \A O \in SUBSET Ops : gset \subseteq Closure(s0set, O) => hval <= CostsOf(rc.cost, O)

\* With the correction, no more than any in which the tasks of the network that are actions occur
\* as often as there.
CorrectedOK ==
  IF hval = UNREACHABLE THEN ~GoalsReachable
  ELSE /\ hval \in Nat
       /\ \A O \in SUBSET Ops : gset \subseteq Closure(s0set, O) /\ Actions \intersect ToSet(net) \subseteq O =>
            hval <= WeightOf(net, O)

LmCutEstimateOK ==
  /\ calc = "none" => hval = 0
  /\ calc \in {"hMax", "goalZone", "cut"} => heuristic = "lmCut" /\ CostsOK
  /\ calc = "addFF" => heuristic # "lmCut"
  /\ heuristic = "lmCut" /\ calc = "done" => EstimateOK
  /\ heuristic = "lmCut" /\ calc = "valued" /\ ~addsDistances => CorrectedOK

\* All that is estimated depends on the problem without deletes, and the last also on the node.
LEMMA EstimateRests ==
  ASSUME callVars' = callVars
  PROVE  /\ hLmCut' = hLmCut /\ costs' = costs => (CostsOK => CostsOK')
         /\ hval' = hval => (EstimateOK => EstimateOK')
         /\ hval' = hval /\ htn' = htn /\ net' = net => (CorrectedOK => CorrectedOK')
  <1>1. /\ rc' = rc /\ s0set' = s0set /\ gset' = gset /\ Ops' = Ops /\ numOps' = numOps
        /\ \A F, O : Closure(F, O)' = Closure(F, O)
        /\ \A c, O : CostsOf(c, O)' = CostsOf(c, O)
    BY DEF callVars, Ops, numOps, Closure, CostsOf
  <1>2. GoalsReachable' <=> GoalsReachable
    BY <1>1 DEF GoalsReachable, Closure
  <1>3. ASSUME hLmCut' = hLmCut, costs' = costs, CostsOK
        PROVE  CostsOK'
    BY <1>1, <1>3 DEF CostsOK
  <1>4. ASSUME hval' = hval, EstimateOK
        PROVE  EstimateOK'
    BY <1>1, <1>2, <1>4 DEF EstimateOK
  <1>5. ASSUME hval' = hval, htn' = htn, net' = net, CorrectedOK
        PROVE  CorrectedOK'
    <2>1. /\ Actions' = Actions
          /\ \A n, o : Times(n, o)' = Times(n, o)
      BY <1>5 DEF Actions, Times, CountIn
    <2>2. \A n, O : WeightOf(n, O)' = WeightOf(n, O)
      BY <1>1, <2>1 DEF WeightOf
    <2>3. QED BY <1>1, <1>2, <1>5, <2>1, <2>2 DEF CorrectedOK
  <1>6. QED BY <1>3, <1>4, <1>5

\* Operators are too cheap for their costs to be taken for the mark of what is impossible.
LEMMA CostsAreSmall ==
  ASSUME IsModel, NEW O \in SUBSET Ops
  PROVE  CostsOf(rc.cost, O) \in Nat /\ CostsOf(rc.cost, O) < UNREACHABLE
  <1>1. PICK m \in Nat : (\A o \in Ops : rc.cost[o] <= m) /\ m * numOps < UNREACHABLE
    BY DEF IsModel
  <1>2. rc.cost \in [Ops -> Nat]
    BY DEF IsModel
  <1>3. CostsOf(rc.cost, O) \in Nat /\ CostsOf(rc.cost, O) <= m * numOps
    BY <1>1, <1>2, CostsFacts
  <1>4. m * numOps \in Nat /\ UNREACHABLE \in Nat
    <2>1. numOps \in Nat
      BY OpsFacts
    <2>2. QED BY <2>1, TimesMore, UnreachableIsLarge
  <1>5. QED BY <1>1, <1>3, <1>4

\* The loop over cuts ends.
LEMMA EstimateFound ==
  ASSUME IsModel, LmCutOK, LmCutEstimateOK, gset \subseteq rc.facts, Unreachable \/ CutsDone
  PROVE  EstimateOK'
  <1>1. /\ calc = "hMax" /\ heap = {} /\ callVars' = callVars /\ rc' = rc /\ s0set' = s0set /\ gset' = gset
        /\ HMaxOK /\ ValuesOK /\ gset # {} /\ CostsOK
    BY DEF Unreachable, CutsDone, hMaxDone, LmCutOK, LmCutEstimateOK, callVars
  <1>2. s0set \in SUBSET rc.facts /\ Ops \in SUBSET Ops
    BY <1>1 DEF HMaxOK
  <1>3. CASE Unreachable
    <2>1. hval' = UNREACHABLE /\ hMax = UNREACHABLE
      BY <1>3 DEF Unreachable
    <2>2. PICK f \in gset : hMaxVal[f] = UNREACHABLE
      BY <1>1, <2>1, HMaxIs
    <2>3. f \in rc.facts /\ f \notin Reached
      <3>1. f \in rc.facts
        OBVIOUS
      <3>2. QED BY <1>1, <2>2, <3>1, HMaxEnds
    <2>4. s0set \subseteq Reached /\ \A o \in Ops : rc.prec[o] \subseteq Reached => rc.add[o] \subseteq Reached
      BY <1>1, HMaxEnds
    <2> DEFINE R == Reached
    <2>5. s0set \subseteq R /\ (\A o \in Ops : rc.prec[o] \subseteq R => rc.add[o] \subseteq R) /\ f \notin R
      BY <2>3, <2>4
    <2> HIDE DEF R
    <2>6. Closure(s0set, Ops) \subseteq R
      BY <1>2, <2>5, ClosureFacts
    <2>7. ~GoalsReachable
      BY <2>5, <2>6 DEF GoalsReachable
    <2>8. ~GoalsReachable'
      <3>1. Ops' = Ops /\ (\A F, O : Closure(F, O)' = Closure(F, O)) /\ (GoalsReachable' <=> GoalsReachable)
        BY <1>1 DEF Ops, Closure, GoalsReachable
      <3>2. QED BY <2>7, <3>1
    <2>9. QED BY <2>1, <2>8 DEF EstimateOK
  <1>4. CASE CutsDone
    <2>1. hval' = hLmCut
      BY <1>4 DEF CutsDone
    <2>2. hLmCut \in Nat
      BY <1>1 DEF CostsOK
    <2>3. ASSUME NEW O \in SUBSET Ops, gset \subseteq Closure(s0set, O)
          PROVE  hLmCut <= CostsOf(rc.cost, O)
      <3>1. hLmCut + CostsOf(costs, O) <= CostsOf(rc.cost, O)
        BY <1>1, <2>3 DEF CostsOK
      <3>2. costs \in [Ops -> Nat]
        BY <1>1 DEF HMaxOK
      <3>3. CostsOf(costs, O) \in Nat /\ CostsOf(rc.cost, O) \in Nat
        BY <3>2, CostsFacts, CostsAreSmall
      <3>4. QED BY <2>2, <3>1, <3>3
    <2>4. GoalsReachable => hLmCut < UNREACHABLE
      <3>1. GoalsReachable => hLmCut <= CostsOf(rc.cost, Ops)
        BY <1>2, <2>3 DEF GoalsReachable
      <3>2. CostsOf(rc.cost, Ops) \in Nat /\ CostsOf(rc.cost, Ops) < UNREACHABLE
        BY <1>2, CostsAreSmall
      <3>3. QED BY <2>2, <3>1, <3>2, UnreachableIsLarge
    <2>5. IF hLmCut = UNREACHABLE THEN ~GoalsReachable
          ELSE hLmCut \in Nat /\ \A O \in SUBSET Ops : gset \subseteq Closure(s0set, O) => hLmCut <= CostsOf(rc.cost, O)
      BY <2>2, <2>3, <2>4, UnreachableIsLarge
    <2>6. /\ Ops' = Ops /\ (\A F, O : Closure(F, O)' = Closure(F, O)) /\ (\A c, O : CostsOf(c, O)' = CostsOf(c, O))
          /\ (GoalsReachable' <=> GoalsReachable)
      BY <1>1 DEF Ops, Closure, CostsOf, numOps, GoalsReachable
    <2>7. QED BY <1>1, <2>1, <2>5, <2>6 DEF EstimateOK
  <1>5. QED BY <1>3, <1>4

\* The correction is what the plans cost more.
LEMMA CorrectKeeps ==
  ASSUME GraphInv, NodeOK, LmCutEstimateOK, Correct, heuristic = "lmCut", ~addsDistances
  PROVE  CorrectedOK'
  <1>1. /\ calc = "done" /\ callVars' = callVars /\ htn' = htn /\ net' = net /\ rc' = rc
        /\ s0set' = s0set /\ gset' = gset
    BY DEF Correct, callVars, nodeVars
  <1>2. EstimateOK
    BY <1>1 DEF LmCutEstimateOK
  <1>3. /\ phase = "search" /\ htn \in Problems /\ rc = RCModel /\ net \in Seq(Tasks)
        /\ Len(net) <= htn.maxSteps + 1
    BY <1>1, NodeFacts DEF NodeOK
  <1>4. IsModel
    BY <1>3, RCModelIsModel
  <1>5. ExtraOf(net) \in Nat /\ \A O \in SUBSET Ops : Actions \intersect ToSet(net) \subseteq O =>
                                  WeightOf(net, O) = CostsOf(rc.cost, O) + ExtraOf(net)
    BY <1>3, <1>4, ExtraFacts
  <1>6. /\ hval = UNREACHABLE => hval' = hval
        /\ hval \in Nat => \E extra \in {0, ExtraOf(net)} : hval' = hval + extra
    BY CorrectionIs
  <1>7. \A O \in SUBSET Ops : CostsOf(rc.cost, O) \in Nat
    BY <1>4, CostsAreSmall
  <1>8. CASE hval = UNREACHABLE
    <2>1. CorrectedOK
      BY <1>2, <1>8 DEF EstimateOK, CorrectedOK
    <2>2. hval' = hval
      BY <1>6, <1>8
    <2>3. QED BY <1>1, <2>1, <2>2, EstimateRests
  <1>9. CASE hval # UNREACHABLE
    <2>1. hval \in Nat /\ \A O \in SUBSET Ops : gset \subseteq Closure(s0set, O) => hval <= CostsOf(rc.cost, O)
      BY <1>2, <1>9 DEF EstimateOK
    <2>2. PICK extra \in {0, ExtraOf(net)} : hval' = hval + extra
      BY <1>6, <2>1
    <2>3. extra \in Nat /\ extra <= ExtraOf(net)
      BY <1>5
    <2>4. ASSUME NEW O \in SUBSET Ops, gset \subseteq Closure(s0set, O), Actions \intersect ToSet(net) \subseteq O
          PROVE  hval + extra <= WeightOf(net, O)
      <3>1. hval <= CostsOf(rc.cost, O) /\ WeightOf(net, O) = CostsOf(rc.cost, O) + ExtraOf(net)
        BY <1>5, <2>1, <2>4
      <3>2. QED BY <1>5, <1>7, <2>1, <2>3, <3>1
    <2>5. GoalsReachable => hval + extra < UNREACHABLE
      <3>1. SUFFICES ASSUME GoalsReachable
                     PROVE  hval + extra < UNREACHABLE
        OBVIOUS
      <3>2. PICK m \in Nat : (\A o \in Ops : rc.cost[o] <= m) /\ m * (numOps + htn.maxSteps) < UNREACHABLE
        BY <1>3, RCModelIsModel
      <3>3. numOps \in Nat /\ htn.maxSteps \in Nat
        BY <1>3, <1>4, OpsFacts, PlanningAssumption
      <3>4. hval <= CostsOf(rc.cost, Ops) /\ CostsOf(rc.cost, Ops) <= m * numOps
        <4>1. Ops \in SUBSET Ops /\ rc.cost \in [Ops -> Nat]
          BY <1>4 DEF IsModel
        <4>2. CostsOf(rc.cost, Ops) <= m * numOps
          BY <1>4, <3>2, <4>1, CostsFacts
        <4>3. QED BY <2>1, <3>1, <4>1, <4>2 DEF GoalsReachable
      <3>5. ExtraOf(net) <= m * htn.maxSteps
        BY <1>3, <1>4, <3>2, <3>3, ExtraFacts
      <3>6. m * (numOps + htn.maxSteps) = m * numOps + m * htn.maxSteps
        BY <3>2, <3>3
      <3>7. m * numOps \in Nat /\ m * htn.maxSteps \in Nat /\ CostsOf(rc.cost, Ops) \in Nat
        BY <1>7, <3>2, <3>3, TimesMore
      <3>8. hval + extra <= m * numOps + m * htn.maxSteps
        BY <1>5, <2>1, <2>3, <3>4, <3>5, <3>7
      <3>9. QED BY <2>1, <2>3, <3>2, <3>6, <3>7, <3>8, UnreachableIsLarge
    <2>6. IF hval' = UNREACHABLE THEN ~GoalsReachable
          ELSE /\ hval' \in Nat
               /\ \A O \in SUBSET Ops : gset \subseteq Closure(s0set, O) /\ Actions \intersect ToSet(net) \subseteq O =>
                    hval' <= WeightOf(net, O)
      BY <2>1, <2>2, <2>3, <2>4, <2>5, UnreachableIsLarge
    <2>7. /\ Ops' = Ops /\ Actions' = Actions /\ (GoalsReachable' <=> GoalsReachable)
          /\ (\A F, O : Closure(F, O)' = Closure(F, O)) /\ (\A n, o : Times(n, o)' = Times(n, o)) /\ numOps' = numOps
      BY <1>1 DEF Ops, Actions, Closure, GoalsReachable, Times, CountIn, numOps
    <2>8. \A n, O : WeightOf(n, O)' = WeightOf(n, O)
      BY <1>1, <2>7 DEF WeightOf
    <2>9. QED BY <1>1, <2>6, <2>7, <2>8 DEF CorrectedOK
  <1>10. QED BY <1>8, <1>9

\* Costs are found from what the operators cost.
LEMMA EvaluateEstimate ==
  ASSUME GraphInv, NodeOK, LmCutEstimateOK, Evaluate
  PROVE  LmCutEstimateOK'
  <1> DEFINE s == StateFacts(state) \union {t2tdr(a) : a \in ReachableActions}
             g == StateFacts(htn.gList) \union {t2bur(t) : t \in ToSet(net)}
  <1>1. s0set' = s /\ gset' = g /\ rc' = rc /\ phase = "search" /\ heuristic' = heuristic /\ hval' = hval /\ hval = 0
    BY DEF Evaluate, LmCutEstimateOK
  <1>2. \/ g = {} /\ calc' = "done"
        \/ calc' = "addFF" /\ heuristic # "lmCut"
        \/ calc' = "hMax" /\ heuristic = "lmCut" /\ costs' = rc.cost /\ hLmCut' = 0
    <2>1. CASE g = {}
      BY <1>1, <2>1 DEF Evaluate
    <2>2. CASE g # {} /\ heuristic # "lmCut"
      BY <1>1, <2>2 DEF Evaluate, StartAddFF
    <2>3. CASE g # {} /\ heuristic = "lmCut"
      <3>1. StartLmCut(s)
        BY <1>1, <2>3 DEF Evaluate
      <3>2. QED BY <2>3, <3>1 DEF StartLmCut, StartHMax
    <2>4. QED BY <2>1, <2>2, <2>3
  <1>3. IsModel
    BY <1>1, NodeFacts
  <1> HIDE DEF s, g
  <1>4. Ops' = Ops /\ numOps' = numOps /\ \A c, O : CostsOf(c, O)' = CostsOf(c, O)
    BY <1>1 DEF Ops, numOps, CostsOf
  <1>5. \A O \in SUBSET Ops : CostsOf(rc.cost, O) \in Nat
    BY <1>3, CostsAreSmall
  <1>6. ASSUME g = {}, calc' = "done"
        PROVE  EstimateOK'
    <2>1. hval' = 0 /\ 0 # UNREACHABLE
      BY <1>1, UnreachableIsLarge
    <2>2. \A O \in SUBSET Ops : 0 <= CostsOf(rc.cost, O)
      BY <1>5
    <2>3. QED BY <1>1, <1>4, <2>1, <2>2 DEF EstimateOK
  <1>7. ASSUME costs' = rc.cost, hLmCut' = 0
        PROVE  CostsOK'
    <2>1. \A O \in SUBSET Ops : 0 + CostsOf(rc.cost, O) <= CostsOf(rc.cost, O)
      BY <1>5
    <2>2. QED BY <1>1, <1>4, <1>7, <2>1 DEF CostsOK
  <1>8. QED BY <1>1, <1>2, <1>6, <1>7 DEF LmCutEstimateOK

\* A step of LM-Cut.
LEMMA LmCutNextEstimate ==
  ASSUME IsModel, LmCutOK, LmCutEstimateOK, gset \subseteq rc.facts, LmCutNext, heuristic' = heuristic
  PROVE  LmCutEstimateOK'
  <1>1. calc \in {"hMax", "goalZone", "cut"} /\ heuristic = "lmCut" /\ CostsOK
    <2>1. calc \in {"hMax", "goalZone", "cut"}
      BY Zenon DEF LmCutNext, SkipStale, Propagate, Unreachable, CutsDone, StartCut, CalcGoalZone,
         CheckForwardReachability, TakeCosts, hMaxDone
    <2>2. QED BY <2>1 DEF LmCutEstimateOK
  <1>2. CASE SkipStale \/ Propagate \/ StartCut \/ CalcGoalZone \/ CheckForwardReachability
    <2>1. callVars' = callVars /\ hLmCut' = hLmCut /\ costs' = costs /\ calc' \in {"hMax", "goalZone", "cut"}
      <3>1. CASE SkipStale
        BY <3>1, Zenon DEF SkipStale
      <3>2. CASE Propagate
        BY <3>2, Zenon DEF Propagate
      <3>3. CASE StartCut
        BY <3>3, Zenon DEF StartCut
      <3>4. CASE CalcGoalZone
        BY <3>4, Zenon DEF CalcGoalZone
      <3>5. CASE CheckForwardReachability
        BY <3>5, Zenon DEF CheckForwardReachability
      <3>6. QED BY <1>2, <3>1, <3>2, <3>3, <3>4, <3>5
    <2>2. CostsOK'
      BY <1>1, <2>1, EstimateRests
    <2>3. QED BY <1>1, <2>1, <2>2 DEF LmCutEstimateOK
  <1>3. CASE Unreachable \/ CutsDone
    <2>1. calc' = "done"
      BY <1>3 DEF Unreachable, CutsDone
    <2>2. EstimateOK'
      BY <1>3, EstimateFound
    <2>3. QED BY <2>1, <2>2 DEF LmCutEstimateOK
  <1>4. CASE TakeCosts
    <2>1. calc = "cut" /\ calc' = "hMax"
      BY <1>4 DEF TakeCosts, StartHMax
    <2>2. CostsOK'
      BY <1>1, <1>4, <2>1, TakeCostsFromPlans DEF LmCutOK
    <2>3. QED BY <1>1, <2>1, <2>2 DEF LmCutEstimateOK
  <1>5. QED BY <1>2, <1>3, <1>4 DEF LmCutNext

\* The invariant about the estimate.
LEMMA NextEstimate ==
  ASSUME GraphInv, NodeOK, LmCutOK, LmCutEstimateOK, [Next]_vars
  PROVE  LmCutEstimateOK'
  <1>1. CASE Prepare
    <2>1. phase # "search" /\ calc' = calc /\ hval' = hval
      BY <1>1, Zenon DEF Prepare, GraphNext, Descend, SeeChild, CloseComponent, LeaveInside,
         FindCyclic, AnalyseCyclicity, StartReachability, Process, GraphKnown, inTarjan,
         DistanceNext, StartDistances, LookAtMethod, LookAtTask, DistancesKnown, heuristicVars
    <2>2. QED BY <2>1 DEF NodeOK, LmCutEstimateOK
  <1>2. CASE Construct
    <2>1. calc = "none" /\ calc' = calc /\ hval' = hval
      BY <1>2 DEF Construct, NodeOK
    <2>2. QED BY <2>1 DEF LmCutEstimateOK
  <1>3. CASE Decompose \/ Apply
    <2>1. calc' = "none" /\ hval' = 0
      BY <1>3 DEF Decompose, Apply, NewNode
    <2>2. QED BY <2>1 DEF LmCutEstimateOK
  <1>4. CASE Evaluate
    BY <1>4, EvaluateEstimate
  <1>5. CASE LmCutNext /\ heuristic' = heuristic
    <2>1. calc # "none"
      BY <1>5, Zenon DEF LmCutNext, SkipStale, Propagate, Unreachable, CutsDone, StartCut, CalcGoalZone,
         CheckForwardReachability, TakeCosts, hMaxDone
    <2>2. IsModel /\ gset \subseteq rc.facts
      BY <2>1, NodeFacts DEF NodeOK
    <2>3. QED BY <1>5, <2>2, LmCutNextEstimate
  <1>6. CASE AddFFNext
    <2>1. calc = "addFF" /\ calc' \in {"addFF", "done"} /\ heuristic' = heuristic
      BY <1>6, Zenon DEF AddFFNext, PopStale, PopFact, PopLastGoal, QueueEmpty
    <2>2. QED BY <2>1 DEF LmCutEstimateOK
  <1>7. CASE Correct
    <2>1. calc' = "valued" /\ heuristic' = heuristic /\ (addsDistances' <=> addsDistances)
      BY <1>7 DEF Correct, addsDistances
    <2>2. heuristic = "lmCut" /\ ~addsDistances => CorrectedOK'
      BY <1>7, CorrectKeeps
    <2>3. QED BY <2>1, <2>2 DEF LmCutEstimateOK
  <1>8. CASE UNCHANGED vars
    <2>1. /\ callVars' = callVars /\ calc' = calc /\ hval' = hval /\ heuristic' = heuristic /\ options' = options
          /\ htn' = htn /\ net' = net /\ hLmCut' = hLmCut /\ costs' = costs
      BY <1>8 DEF vars, nodeVars, lmCutVars
    <2>2. addsDistances' <=> addsDistances
      BY <2>1 DEF addsDistances
    <2>3. QED BY <2>1, <2>2, EstimateRests DEF LmCutEstimateOK
  <1>9. QED BY <1>1, <1>2, <1>3, <1>4, <1>5, <1>6, <1>7, <1>8 DEF Next, Estimating

\* Where something is estimated, plans are looked for in the problem that was read.
LEMMA NodePlanning ==
  ASSUME GraphInv, NodeOK, calc # "none"
  PROVE  /\ PlanningOK /\ state \subseteq htn.facts /\ net \in Seq(Tasks)
         /\ s0set = GivenFor(state, net) /\ gset = GoalsFor(net)
         /\ IsModel /\ s0set \subseteq rc.facts
  <1>1. phase = "search" /\ rc = RCModel /\ state \subseteq htn.facts /\ net \in Seq(Tasks)
    BY DEF NodeOK
  <1>2. htn \in Problems /\ reachable = [t \in Tasks |-> ActionsBelow(t)]
    BY <1>1 DEF GraphInv
  <1>3. ReachableActions = NetActions(net)
    BY DEF ReachableActions, NetActions
  <1>4. s0set = GivenFor(state, net) /\ gset = GoalsFor(net)
    BY <1>3 DEF NodeOK, GivenFor, GoalsFor
  <1>5. IsModel /\ s0set \subseteq rc.facts
    BY <1>1, NodeFacts DEF NodeOK
  <1>6. QED BY <1>1, <1>2, <1>4, <1>5 DEF PlanningOK

\* A plan from the node reaches the goals without deletes.
LEMMA PlanCostsBound ==
  ASSUME GraphInv, NodeOK, calc # "none", NEW cost \in PlanCosts
  PROVE  /\ cost \in Nat /\ GoalsReachable
         /\ \E O \in SUBSET Ops : /\ gset \subseteq Closure(s0set, O)
                                  /\ Actions \intersect ToSet(net) \subseteq O
                                  /\ WeightOf(net, O) <= cost
  <1>1. /\ PlanningOK /\ state \subseteq htn.facts /\ net \in Seq(Tasks)
        /\ s0set = GivenFor(state, net) /\ gset = GoalsFor(net)
        /\ IsModel /\ s0set \in SUBSET rc.facts
    BY NodePlanning
  <1>2. HasRelaxedPlan(state, net, cost)
    BY <1>1, PlansAreRelaxed
  <1>3. PICK O \in SUBSET Ops :
              /\ Actions \intersect ToSet(net) \subseteq O
              /\ WeightOf(net, O) <= cost
              /\ \A Y : ClosedUnder(O, Y) /\ GivenFor(state, net) \subseteq Y => GoalsFor(net) \subseteq Y
    BY <1>2 DEF HasRelaxedPlan
  <1>4. gset \subseteq Closure(s0set, O)
    <2> DEFINE Y == Closure(s0set, O)
    <2>1. Y \subseteq rc.facts /\ s0set \subseteq Y /\ \A o \in O : rc.prec[o] \subseteq Y => rc.add[o] \subseteq Y
      BY <1>1, ClosureFacts
    <2> HIDE DEF Y
    <2>2. ClosedUnder(O, Y)
      BY <2>1 DEF ClosedUnder
    <2>3. gset \subseteq Y
      BY <1>1, <1>3, <2>1, <2>2
    <2>4. QED BY <2>3 DEF Y
  <1>5. GoalsReachable
    <2> DEFINE Y == Closure(s0set, Ops)
    <2>1. s0set \subseteq Y /\ \A o \in O : rc.prec[o] \subseteq Y => rc.add[o] \subseteq Y
      <3>1. Ops \in SUBSET Ops
        OBVIOUS
      <3>2. QED BY <1>1, <3>1, ClosureFacts
    <2> HIDE DEF Y
    <2>2. Closure(s0set, O) \subseteq Y
      BY <1>1, <2>1, ClosureFacts
    <2>3. QED BY <1>4, <2>2 DEF GoalsReachable, Y
  <1>6. cost \in Nat
    BY <1>2 DEF HasRelaxedPlan
  <1>7. QED BY <1>3, <1>4, <1>5, <1>6
-----------------------------------------------------------------------------
(* FF: what facts cost.                                                    *)

\* Operators wait for the preconditions outside a set R; one fact g more comes into it.
CountsDown(R, g, counts, T, counts2) ==
  /\ g \notin R /\ counts = [o \in Ops |-> Cardinality(rc.prec[o] \ R)]
  /\ T = {o \in Ops : g \in rc.prec[o]}
  /\ counts2 = [o \in Ops |-> IF o \in T THEN counts[o] - 1 ELSE counts[o]]

\* The operators that stop waiting are those that waited for this fact only.
LEMMA CountdownStep ==
  ASSUME IsModel, NEW R, NEW g, NEW counts, NEW T, NEW counts2, CountsDown(R, g, counts, T, counts2)
  PROVE  /\ counts2 = [o \in Ops |-> Cardinality(rc.prec[o] \ (R \union {g}))]
         /\ \A o \in Ops : /\ counts[o] = 0 <=> rc.prec[o] \subseteq R
                           /\ counts2[o] = 0 <=> rc.prec[o] \subseteq R \union {g}
         /\ {o \in Ops : counts2[o] = 0} = {o \in Ops : counts[o] = 0} \union {o \in T : counts[o] = 1}
         /\ {o \in Ops : counts[o] = 0} \intersect T = {}
  <1> USE DEF CountsDown
  <1>1. ASSUME NEW o \in Ops, NEW Q
        PROVE  /\ IsFiniteSet(rc.prec[o] \ Q) /\ Cardinality(rc.prec[o] \ Q) \in Nat
               /\ Cardinality(rc.prec[o] \ Q) = 0 <=> rc.prec[o] \subseteq Q
    <2> DEFINE W == rc.prec[o] \ Q
    <2>1. IsFiniteSet(W)
      BY OpsFacts, FS_Difference
    <2>2. Cardinality(W) \in Nat /\ (Cardinality(W) = 0 <=> W = {})
      BY <2>1, FS_EmptySet, FS_CardinalityType
    <2>3. W = {} <=> rc.prec[o] \subseteq Q
      OBVIOUS
    <2>4. QED BY <2>1, <2>2, <2>3
  <1>2. ASSUME NEW o \in Ops
        PROVE  /\ counts2[o] = Cardinality(rc.prec[o] \ (R \union {g}))
               /\ counts2[o] = 0 <=> counts[o] = 0 \/ (o \in T /\ counts[o] = 1)
               /\ ~(counts[o] = 0 /\ o \in T)
    <2> DEFINE A == rc.prec[o] \ R
               B == rc.prec[o] \ (R \union {g})
    <2>1. counts[o] = Cardinality(A) /\ counts[o] \in Nat /\ IsFiniteSet(A)
      BY <1>1
    <2>2. CASE o \in T
      <3>1. g \in A /\ B = A \ {g}
        BY <2>2
      <3> HIDE DEF A, B
      <3>2. Cardinality(B) = Cardinality(A) - 1
        BY <2>1, <3>1, FS_RemoveElement
      <3>3. Cardinality(A) # 0
        BY <2>1, <3>1, FS_EmptySet
      <3>4. counts2[o] = counts[o] - 1
        BY <2>2
      <3>5. QED BY <2>1, <2>2, <3>2, <3>3, <3>4 DEF B
    <2>3. CASE o \notin T
      <3>1. B = A
        BY <2>3
      <3>2. counts2[o] = counts[o]
        BY <2>3
      <3>3. QED BY <2>1, <2>3, <3>1, <3>2
    <2>4. QED BY <2>2, <2>3
  <1>3. counts2 = [o \in Ops |-> Cardinality(rc.prec[o] \ (R \union {g}))]
    <2>1. counts2 = [o \in Ops |-> counts2[o]]
      OBVIOUS
    <2>2. QED BY <1>2, <2>1
  <1>4. \A o \in Ops : /\ counts[o] = 0 <=> rc.prec[o] \subseteq R
                       /\ counts2[o] = 0 <=> rc.prec[o] \subseteq R \union {g}
    <2>1. SUFFICES ASSUME NEW o \in Ops
                   PROVE  /\ counts[o] = 0 <=> rc.prec[o] \subseteq R
                          /\ counts2[o] = 0 <=> rc.prec[o] \subseteq R \union {g}
      OBVIOUS
    <2>2. counts[o] = Cardinality(rc.prec[o] \ R) /\ counts2[o] = Cardinality(rc.prec[o] \ (R \union {g}))
      BY <1>2
    <2>3. QED BY <1>1, <2>2
  <1>5. T \subseteq Ops
    OBVIOUS
  <1>6. QED BY <1>2, <1>3, <1>4, <1>5

\* The greater of two numbers, and the greatest of some operators.
LEMMA GreaterFacts ==
  /\ \A a, b \in Nat : Max({a, b}) \in {a, b} /\ a <= Max({a, b}) /\ b <= Max({a, b})
  /\ \A n \in Nat : \A C \in SUBSET (0 .. n - 1) : C # {} => Max(C) \in C
  <1>1. ASSUME NEW C \in SUBSET Nat, C # {}, NEW n \in Nat, \A x \in C : x <= n
        PROVE  Max(C) \in C /\ \A y \in C : y <= Max(C)
    <2>1. \E x \in C : \A y \in C : y <= x
      BY <1>1, GreatestNumber
    <2>2. QED BY <2>1 DEF Max
  <1>2. ASSUME NEW a \in Nat, NEW b \in Nat
        PROVE  Max({a, b}) \in {a, b} /\ a <= Max({a, b}) /\ b <= Max({a, b})
    <2> DEFINE C == {a, b}
    <2>1. C \in SUBSET Nat /\ C # {} /\ a + b \in Nat /\ \A x \in C : x <= a + b
      OBVIOUS
    <2>2. a \in C /\ b \in C
      OBVIOUS
    <2> HIDE DEF C
    <2>3. Max(C) \in C /\ \A y \in C : y <= Max(C)
      BY <1>1, <2>1
    <2>4. Max(C) \in C /\ a <= Max(C) /\ b <= Max(C)
      BY <2>2, <2>3
    <2>5. QED BY <2>4 DEF C
  <1>3. ASSUME NEW n \in Nat, NEW C \in SUBSET (0 .. n - 1), C # {}
        PROVE  Max(C) \in C
    <2>1. C \in SUBSET Nat /\ \A x \in C : x <= n
      BY <1>3
    <2>2. QED BY <1>1, <1>3, <2>1
  <1>4. QED BY <1>2, <1>3

\* The facts whose cost is final, and the operators that have all their preconditions there.
Paid == Settled(hValProp, queue)
ReadyOps == {o \in Ops : numSatPrecs[o] = 0}

\* What a fact was reached by had all its preconditions before: among any facts whose cost is final, there is one
\* that was reached without the others.
ReachedOK ==
  /\ reachedBy \in [rc.facts -> Ops \union {NOACTION}]
  /\ \A f \in rc.facts : hValProp[f] < UNREACHABLE =>
       IF reachedBy[f] = NOACTION THEN f \in s0set
       ELSE reachedBy[f] \in ReadyOps /\ f \in rc.add[reachedBy[f]]
  /\ \A F \in SUBSET Paid : F # {} =>
       \E f \in F : reachedBy[f] = NOACTION \/ rc.prec[reachedBy[f]] \intersect F = {}

\* What operators add is no dearer than they are, and as each is ready once, nothing gets too dear.
PricesOK ==
  /\ hValOp \in [Ops -> Nat]
  /\ \A o \in ReadyOps : \A f \in rc.add[o] : hValProp[f] <= hValOp[o]
  /\ \A m \in Nat : (\A o \in Ops : rc.cost[o] <= m) =>
       /\ \A f \in rc.facts : hValProp[f] < UNREACHABLE => hValProp[f] <= m * Cardinality(ReadyOps)
       /\ \A o \in Ops : hValOp[o] <= m * Cardinality(ReadyOps) + m
       /\ \A o \in ReadyOps : hValOp[o] <= m * Cardinality(ReadyOps)

\* Operators count the preconditions they wait for, and the call the goals.
FFOK ==
  /\ QueueOK(rc.facts, hValProp, queue)
  /\ s0set \subseteq rc.facts /\ \A f \in s0set : hValProp[f] = 0
  /\ numSatPrecs = [o \in Ops |-> Cardinality(rc.prec[o] \ Paid)]
  /\ gset \subseteq rc.facts /\ numGoals = Cardinality(gset \ Paid) /\ numGoals # 0
  /\ PricesOK
  /\ ReachedOK

\* What is settled are facts, and an operator is ready when its preconditions are.
LEMMA ReadyIs ==
  ASSUME IsModel, FFOK
  PROVE  /\ Paid \subseteq rc.facts /\ ReadyOps \subseteq Ops /\ IsFiniteSet(ReadyOps)
         /\ Cardinality(ReadyOps) \in Nat /\ Cardinality(ReadyOps) <= numOps
         /\ \A o \in Ops : o \in ReadyOps <=> rc.prec[o] \subseteq Paid
         /\ \A f \in rc.facts : hValProp[f] \in Nat /\ hValProp[f] <= UNREACHABLE
         /\ \A f \in Paid : hValProp[f] < UNREACHABLE
         /\ IsFiniteSet(gset)
  <1>1. hValProp \in [rc.facts -> 0 .. UNREACHABLE]
    BY DEF FFOK, QueueOK
  <1>2. Paid \subseteq rc.facts /\ \A f \in Paid : hValProp[f] < UNREACHABLE
    BY <1>1 DEF Paid, Settled
  <1>3. ReadyOps \subseteq Ops /\ IsFiniteSet(ReadyOps)
    BY OpsFacts, FS_Subset DEF ReadyOps
  <1>4. Cardinality(ReadyOps) \in Nat /\ Cardinality(ReadyOps) <= numOps
    BY <1>3, OpsFacts, FS_Subset, FS_CardinalityType DEF numOps
  <1>5. ASSUME NEW o \in Ops
        PROVE  o \in ReadyOps <=> rc.prec[o] \subseteq Paid
    <2> DEFINE W == rc.prec[o] \ Paid
    <2>1. numSatPrecs[o] = Cardinality(W)
      BY DEF FFOK
    <2>2. IsFiniteSet(W)
      BY OpsFacts, FS_Difference
    <2>3. Cardinality(W) = 0 <=> W = {}
      BY <2>2, FS_EmptySet
    <2>4. QED BY <2>1, <2>3 DEF ReadyOps
  <1>6. \A f \in rc.facts : hValProp[f] \in Nat /\ hValProp[f] <= UNREACHABLE
    BY <1>1, UnreachableIsLarge
  <1>7. IsFiniteSet(gset)
    BY FS_Subset DEF IsModel, FFOK
  <1>8. QED BY <1>2, <1>3, <1>4, <1>5, <1>6, <1>7

\* Before the first fact has been popped.
LEMMA StartFFKeeps ==
  ASSUME IsModel, rc' = rc, NEW s \in SUBSET rc.facts, NEW g \in SUBSET rc.facts, g # {},
         s0set' = s, gset' = g, StartAddFF(s, g)
  PROVE  FFOK'
  <1>1. /\ numSatPrecs' = [o \in Ops |-> Cardinality(rc.prec[o])]
        /\ hValOp' = rc.cost /\ numGoals' = Cardinality(g)
        /\ hValProp' = [f \in rc.facts |-> IF f \in s THEN 0 ELSE UNREACHABLE]
        /\ reachedBy' = [f \in rc.facts |-> NOACTION]
        /\ queue' = {<<0, f>> : f \in s}
        /\ Ops' = Ops
    BY DEF StartAddFF, Ops
  <1>2. UNREACHABLE \in Nat /\ UNREACHABLE > 0
    BY UnreachableIsLarge
  <1>3. hValProp' \in [rc.facts -> 0 .. UNREACHABLE] /\ queue' \subseteq (0 .. UNREACHABLE - 1) \X rc.facts
    BY <1>1, <1>2
  <1>4. \A f \in rc.facts : hValProp'[f] < UNREACHABLE => f \in s /\ hValProp'[f] = 0
    BY <1>1, <1>2
  <1>5. Settled(hValProp', queue') = {}
    <2>1. SUFFICES ASSUME NEW f \in Settled(hValProp', queue')
                   PROVE  FALSE
      OBVIOUS
    <2>2. f \in rc.facts /\ hValProp'[f] < UNREACHABLE /\ <<hValProp'[f], f>> \notin queue'
      BY <1>1 DEF Settled
    <2>3. f \in s /\ hValProp'[f] = 0
      BY <1>4, <2>2
    <2>4. <<0, f>> \in queue'
      BY <1>1, <2>3
    <2>5. QED BY <2>2, <2>3, <2>4
  <1>6. QueueOK(rc.facts, hValProp', queue')
    <2>1. \A e \in queue' : hValProp'[e[2]] <= e[1]
      BY <1>1
    <2>2. QED BY <1>3, <1>5, <2>1 DEF QueueOK
  <1>7. Paid' = {}
    BY <1>5 DEF Paid
  <1>8. ReadyOps' = {}
    <2>1. SUFFICES ASSUME NEW o \in Ops, numSatPrecs'[o] = 0
                   PROVE  FALSE
      BY <1>1 DEF ReadyOps
    <2>2. IsFiniteSet(rc.prec[o]) /\ rc.prec[o] # {} /\ Cardinality(rc.prec[o]) = 0
      BY <1>1, <2>1, OpsFacts
    <2>3. QED BY <2>2, FS_EmptySet
  <1>9. Cardinality(ReadyOps') = 0
    BY <1>8, FS_EmptySet
  <1>10. numSatPrecs' = [o \in Ops |-> Cardinality(rc.prec[o] \ Paid')]
    <2>1. \A o \in Ops : rc.prec[o] \ Paid' = rc.prec[o]
      BY <1>7
    <2>2. QED BY <1>1, <2>1
  <1>11. numGoals' = Cardinality(gset' \ Paid') /\ numGoals' # 0
    <2>1. gset' \ Paid' = g
      BY <1>7
    <2>2. IsFiniteSet(g)
      BY FS_Subset DEF IsModel
    <2>3. Cardinality(g) # 0
      BY <2>2, FS_EmptySet
    <2>4. QED BY <1>1, <2>1, <2>3
  <1>12. \A f \in s : hValProp'[f] = 0
    BY <1>1
  <1>13. PricesOK'
    <2>1. rc.cost \in [Ops -> Nat]
      BY DEF IsModel
    <2>2. \A m \in Nat : m * 0 = 0
      OBVIOUS
    <2>3. ASSUME NEW m \in Nat, \A o \in Ops : rc.cost[o] <= m
          PROVE  /\ \A f \in rc.facts : hValProp'[f] < UNREACHABLE => hValProp'[f] <= m * Cardinality(ReadyOps')
                 /\ \A o \in Ops : hValOp'[o] <= m * Cardinality(ReadyOps') + m
                 /\ \A o \in ReadyOps' : hValOp'[o] <= m * Cardinality(ReadyOps')
      <3>1. m * Cardinality(ReadyOps') = 0 /\ 0 + m = m
        BY <1>9, <2>2
      <3>2. \A f \in rc.facts : hValProp'[f] < UNREACHABLE => hValProp'[f] <= 0
        BY <1>4
      <3>3. QED BY <1>1, <1>8, <2>3, <3>1, <3>2
    <2>4. \A m \in Nat : (\A o \in Ops : rc.cost[o] <= m) =>
            /\ \A f \in rc.facts : hValProp'[f] < UNREACHABLE => hValProp'[f] <= m * Cardinality(ReadyOps')
            /\ \A o \in Ops : hValOp'[o] <= m * Cardinality(ReadyOps') + m
            /\ \A o \in ReadyOps' : hValOp'[o] <= m * Cardinality(ReadyOps')
      BY <2>3
    <2>5. QED BY <1>1, <1>8, <2>1, <2>4 DEF PricesOK
  <1>14. ReachedOK'
    BY <1>1, <1>4, <1>7 DEF ReachedOK
  <1>15. QED BY <1>1, <1>6, <1>10, <1>11, <1>12, <1>13, <1>14 DEF FFOK

\* A stale entry is popped.
LEMMA PopStaleKeeps ==
  ASSUME FFOK, PopStale
  PROVE  FFOK'
  <1>1. PICK p \in queue : hValProp[p[2]] < p[1] /\ queue' = queue \ {p}
    BY DEF PopStale
  <1>2. /\ rc' = rc /\ s0set' = s0set /\ gset' = gset /\ Ops' = Ops
        /\ numSatPrecs' = numSatPrecs /\ hValOp' = hValOp /\ hValProp' = hValProp /\ reachedBy' = reachedBy
        /\ numGoals' = numGoals
    BY DEF PopStale, callVars, Ops
  <1>3. QueueOK(rc.facts, hValProp, queue') /\ Settled(hValProp, queue') = Settled(hValProp, queue)
    BY <1>1, QueueSkip DEF FFOK
  <1>4. Paid' = Paid /\ ReadyOps' = ReadyOps
    BY <1>2, <1>3 DEF Paid, ReadyOps
  <1>5. PricesOK' /\ ReachedOK'
    BY <1>2, <1>4 DEF FFOK, PricesOK, ReachedOK
  <1>6. QED BY <1>2, <1>3, <1>4, <1>5 DEF FFOK

\* The operators that an entry p of the queue brings on, those that are ready then, and what they cost.
Touched(p) == {o \in Ops : p[2] \in rc.prec[o]}
NowReady(p) == {o \in Touched(p) : numSatPrecs[o] = 1}
NewPrices(p) == [o \in Ops |-> IF o \in Touched(p) THEN Raised(o, p[1]) ELSE hValOp[o]]
Gained(p) == [o \in NowReady(p) |-> NewPrices(p)[o]]
Takers(p, f) == Entering(rc.add, NowReady(p), Gained(p), hValProp, f)

\* An operator costs the dearest of what it cost and its own costs on top of the fact's.
LEMMA PricesRise ==
  ASSUME IsModel, FFOK, heuristic = "sasFF", NEW p \in queue
  PROVE  /\ p[2] \in rc.facts /\ p[1] \in 0 .. UNREACHABLE - 1 /\ p = <<p[1], p[2]>>
         /\ NewPrices(p) \in [Ops -> Nat]
         /\ \A o \in Ops : /\ hValOp[o] <= NewPrices(p)[o]
                           /\ NewPrices(p)[o] \in {hValOp[o], rc.cost[o] + p[1]}
                           /\ o \in Touched(p) => p[1] <= NewPrices(p)[o]
                           /\ o \notin Touched(p) => NewPrices(p)[o] = hValOp[o]
  <1>1. p[2] \in rc.facts /\ p[1] \in 0 .. UNREACHABLE - 1 /\ p = <<p[1], p[2]>>
    BY DEF FFOK, QueueOK
  <1>2. p[1] \in Nat
    BY <1>1, UnreachableIsLarge
  <1>3. ASSUME NEW o \in Ops
        PROVE  /\ NewPrices(p)[o] \in Nat
               /\ hValOp[o] <= NewPrices(p)[o]
               /\ NewPrices(p)[o] \in {hValOp[o], rc.cost[o] + p[1]}
               /\ o \in Touched(p) => p[1] <= NewPrices(p)[o]
               /\ o \notin Touched(p) => NewPrices(p)[o] = hValOp[o]
    <2> DEFINE a == hValOp[o]
               b == rc.cost[o] + p[1]
    <2>1. a \in Nat /\ b \in Nat /\ p[1] <= b
      <3>1. hValOp[o] \in Nat /\ rc.cost[o] \in Nat
        BY OpsFacts DEF FFOK, PricesOK
      <3>2. QED BY <1>2, <3>1
    <2>2. CASE o \in Touched(p)
      <3>1. NewPrices(p)[o] = Max({a, b})
        BY <2>2 DEF NewPrices, Raised
      <3> HIDE DEF a, b
      <3>2. Max({a, b}) \in {a, b} /\ a <= Max({a, b}) /\ b <= Max({a, b})
        BY <2>1, GreaterFacts
      <3>3. NewPrices(p)[o] \in Nat /\ a <= NewPrices(p)[o] /\ p[1] <= NewPrices(p)[o] /\ NewPrices(p)[o] \in {a, b}
        BY <1>2, <2>1, <3>1, <3>2
      <3>4. QED BY <2>2, <3>3 DEF a, b
    <2>3. CASE o \notin Touched(p)
      <3>1. NewPrices(p)[o] = a
        BY <2>3 DEF NewPrices
      <3>2. a <= a
        BY <2>1
      <3>3. QED BY <2>1, <2>3, <3>1, <3>2
    <2>4. QED BY <2>2, <2>3
  <1>4. NewPrices(p) \in [Ops -> Nat]
    <2>1. NewPrices(p) = [o \in Ops |-> NewPrices(p)[o]]
      BY DEF NewPrices
    <2>2. QED BY <1>3, <2>1
  <1>5. QED BY <1>1, <1>3, <1>4

\* The step, in these terms.
LEMMA PopFactParts ==
  ASSUME IsModel, FFOK, PopFact, heuristic = "sasFF"
  PROVE  \E p \in queue :
           /\ hValProp[p[2]] = p[1] /\ ~IsLastGoal(p[2])
           /\ hValOp' = NewPrices(p)
           /\ numSatPrecs' = [o \in Ops |-> IF o \in Touched(p) THEN numSatPrecs[o] - 1 ELSE numSatPrecs[o]]
           /\ Pops(rc.facts, hValProp, queue, p, NowReady(p), Gained(p), rc.add, hValProp', queue')
           /\ reachedBy' = [f \in rc.facts |-> IF Takers(p, f) = {} THEN reachedBy[f] ELSE Max(Takers(p, f))]
           /\ numGoals' = IF p[2] \in gset THEN numGoals - 1 ELSE numGoals
  <1> DEFINE X == rc.facts
             touched(p) == {o \in Ops : p[2] \in rc.prec[o]}
             done(p) == {o \in touched(p) : numSatPrecs[o] = 1}
             value(p) == [o \in Ops |-> IF o \in touched(p) THEN Raised(o, p[1]) ELSE hValOp[o]]
             cheaper(p, f) == {o \in done(p) : f \in rc.add[o] /\ value(p)[o] < hValProp[f]}
             taking(p, f) == {o \in cheaper(p, f) : \A e \in cheaper(p, f) : e < o => value(p)[o] < value(p)[e]}
  <1>1. PICK p \in queue :
          /\ IsTop(p) /\ hValProp[p[2]] = p[1] /\ ~IsLastGoal(p[2])
          /\ hValOp' = value(p)
          /\ numSatPrecs' = [o \in Ops |-> IF o \in touched(p) THEN numSatPrecs[o] - 1 ELSE numSatPrecs[o]]
          /\ hValProp' = [f \in rc.facts |-> Min({hValProp[f]} \union {value(p)[o] : o \in cheaper(p, f)})]
          /\ reachedBy' = [f \in rc.facts |-> IF taking(p, f) = {} THEN reachedBy[f] ELSE Max(taking(p, f))]
          /\ queue' = (queue \ {p}) \union UNION {{<<value(p)[o], f>> : o \in taking(p, f)} : f \in rc.facts}
          /\ numGoals' = IF p[2] \in gset THEN numGoals - 1 ELSE numGoals
    BY Zenon DEF PopFact
  <1>2. touched(p) = Touched(p) /\ done(p) = NowReady(p) /\ value(p) = NewPrices(p)
    BY DEF Touched, NowReady, NewPrices
  <1> DEFINE T == Touched(p)
             N == NowReady(p)
             v == NewPrices(p)
             val == Gained(p)
  <1>3. N \subseteq T /\ T \subseteq Ops /\ val = [o \in N |-> v[o]] /\ v \in [Ops -> Nat]
    BY PricesRise DEF Touched, NowReady, Gained
  <1>4. /\ \A f \in X : cheaper(p, f) = {o \in N : f \in rc.add[o] /\ v[o] < hValProp[f]}
        /\ \A f \in X : taking(p, f) = {o \in cheaper(p, f) : \A e \in cheaper(p, f) : e < o => v[o] < v[e]}
    BY <1>2
  <1> HIDE DEF touched, done, value, T, N, v, val
  <1>5. \A f \in X : cheaper(p, f) = CheaperBy(rc.add, N, val, hValProp, f) /\ cheaper(p, f) \subseteq N
    <2>1. \A o \in N : val[o] = v[o]
      BY <1>3
    <2> HIDE DEF cheaper, taking
    <2>2. QED BY <1>4, <2>1 DEF CheaperBy
  <1>6. \A f \in X : taking(p, f) = Entering(rc.add, N, val, hValProp, f) /\ taking(p, f) \subseteq N
    <2>1. \A o \in N : val[o] = v[o]
      BY <1>3
    <2> HIDE DEF cheaper, taking
    <2>2. ASSUME NEW f \in X
          PROVE  taking(p, f) = Entering(rc.add, N, val, hValProp, f) /\ taking(p, f) \subseteq N
      <3> DEFINE C == CheaperBy(rc.add, N, val, hValProp, f)
      <3>1. C \subseteq N /\ taking(p, f) = {o \in C : \A e \in C : e < o => v[o] < v[e]}
        BY <1>4, <1>5
      <3> HIDE DEF C
      <3>2. taking(p, f) = {o \in C : \A e \in C : e < o => val[o] < val[e]}
        BY <2>1, <3>1
      <3>3. QED BY <3>1, <3>2 DEF C, Entering
    <2>3. QED BY <2>2
  <1>7. \A f \in X : hValProp'[f] = Best(rc.add, N, val, hValProp, f)
    <2>1. \A f \in X : hValProp'[f] = Min({hValProp[f]} \union {v[o] : o \in cheaper(p, f)})
      BY <1>1, <1>2 DEF v
    <2> HIDE DEF cheaper, taking
    <2>2. \A f \in X : {v[o] : o \in cheaper(p, f)} = {val[o] : o \in CheaperBy(rc.add, N, val, hValProp, f)}
      BY <1>3, <1>5
    <2>3. QED BY <2>1, <2>2 DEF Best
  <1>8. \A e : e \in queue' <=> \/ e \in queue /\ e # p
                                \/ \E f \in X : \E o \in Entering(rc.add, N, val, hValProp, f) : e = <<val[o], f>>
    <2>1. queue' = (queue \ {p}) \union UNION {{<<v[o], f>> : o \in taking(p, f)} : f \in X}
      BY <1>1, <1>2 DEF v
    <2> HIDE DEF cheaper, taking
    <2>2. \A f \in X : \A o \in taking(p, f) : v[o] = val[o]
      BY <1>3, <1>6
    <2>3. QED BY <1>6, <2>1, <2>2
  <1>9. /\ hValProp' \in [X -> Int]
        /\ reachedBy' = [f \in X |-> IF Takers(p, f) = {} THEN reachedBy[f] ELSE Max(Takers(p, f))]
    <2> HIDE DEF cheaper, taking
    <2>1. ASSUME NEW f \in X
          PROVE  hValProp'[f] \in Int
      <3> DEFINE C == CheaperBy(rc.add, N, val, hValProp, f)
                 V == {hValProp[f]} \union {val[o] : o \in C}
      <3>1. hValProp[f] \in Nat
        BY ReadyIs
      <3>2. C \subseteq N
        BY Zenon DEF CheaperBy
      <3> HIDE DEF C
      <3>3. V \in SUBSET Nat /\ V # {}
        BY <1>3, <3>1, <3>2
      <3> HIDE DEF V
      <3>4. Min(V) \in Nat
        BY <3>3, MinOfNumbers
      <3>5. QED BY <1>7, <3>4 DEF V, C, Best
    <2>2. hValProp' = [f \in X |-> hValProp'[f]]
      BY <1>1
    <2>3. \A f \in X : taking(p, f) = Takers(p, f)
      BY <1>6 DEF N, val, Takers
    <2>4. QED BY <1>1, <2>1, <2>2, <2>3
  <1>10. /\ N \in SUBSET Nat /\ val \in [N -> Nat] /\ (\A o \in N : p[1] <= val[o])
         /\ \A o \in N : rc.add[o] \in SUBSET X
    <2>1. N \subseteq Ops
      BY <1>3
    <2>2. \A o \in N : p[1] <= v[o]
      BY <1>3, PricesRise DEF T, v
    <2>3. QED BY <1>3, <2>1, <2>2, OpsFacts
  <1>11. \A e \in queue : p[1] <= e[1]
    BY <1>1 DEF IsTop
  <1>12. Pops(X, hValProp, queue, p, N, val, rc.add, hValProp', queue')
    BY <1>1, <1>7, <1>8, <1>9, <1>10, <1>11 DEF Pops, FFOK
  <1>13. /\ hValOp' = NewPrices(p)
         /\ numSatPrecs' = [o \in Ops |-> IF o \in Touched(p) THEN numSatPrecs[o] - 1 ELSE numSatPrecs[o]]
    BY <1>1, <1>2
  <1>14. QED BY <1>1, <1>9, <1>12, <1>13 DEF N, val

\* A fact is popped that is not the last goal.
LEMMA PopFactKeeps ==
  ASSUME IsModel, FFOK, PopFact, heuristic = "sasFF"
  PROVE  FFOK'
  <1> DEFINE X == rc.facts
  <1>1. PICK p \in queue :
           /\ hValProp[p[2]] = p[1] /\ ~IsLastGoal(p[2])
           /\ hValOp' = NewPrices(p)
           /\ numSatPrecs' = [o \in Ops |-> IF o \in Touched(p) THEN numSatPrecs[o] - 1 ELSE numSatPrecs[o]]
           /\ Pops(X, hValProp, queue, p, NowReady(p), Gained(p), rc.add, hValProp', queue')
           /\ reachedBy' = [f \in X |-> IF Takers(p, f) = {} THEN reachedBy[f] ELSE Max(Takers(p, f))]
           /\ numGoals' = IF p[2] \in gset THEN numGoals - 1 ELSE numGoals
    BY PopFactParts
  <1>2. rc' = rc /\ s0set' = s0set /\ gset' = gset /\ Ops' = Ops
    BY DEF PopFact, callVars, Ops
  <1> DEFINE T == Touched(p)
             N == NowReady(p)
             v == NewPrices(p)
             val == Gained(p)
  <1>3. /\ T = {o \in Ops : p[2] \in rc.prec[o]} /\ N = {o \in T : numSatPrecs[o] = 1}
        /\ val = [o \in N |-> v[o]]
    BY DEF Touched, NowReady, Gained
  <1>4. /\ p[2] \in X /\ p[1] \in 0 .. UNREACHABLE - 1 /\ v \in [Ops -> Nat]
        /\ \A o \in Ops : hValOp[o] <= v[o] /\ v[o] \in {hValOp[o], rc.cost[o] + p[1]}
    BY PricesRise
  <1>5. /\ hValOp' = v
        /\ numSatPrecs' = [o \in Ops |-> IF o \in T THEN numSatPrecs[o] - 1 ELSE numSatPrecs[o]]
        /\ Pops(X, hValProp, queue, p, N, val, rc.add, hValProp', queue')
        /\ reachedBy' = [f \in X |-> IF Takers(p, f) = {} THEN reachedBy[f] ELSE Max(Takers(p, f))]
        /\ \A f \in X : Takers(p, f) = Entering(rc.add, N, val, hValProp, f)
    BY <1>1 DEF Takers
  <1> HIDE DEF T, N, v, val
  <1>6. /\ QueueOK(X, hValProp', queue')
        /\ p[2] \notin Settled(hValProp, queue)
        /\ Settled(hValProp', queue') = Settled(hValProp, queue) \union {p[2]}
        /\ \A f \in Settled(hValProp', queue') : hValProp'[f] = hValProp[f]
        /\ \A f \in X : hValProp'[f] <= hValProp[f]
        /\ \A f \in X : hValProp'[f] # hValProp[f] =>
             \E o \in CheaperBy(rc.add, N, val, hValProp, f) : hValProp'[f] = val[o]
        /\ \A o \in N : \A f \in rc.add[o] : hValProp'[f] <= val[o]
        /\ \A f \in X : hValProp'[f] # hValProp[f] <=> Entering(rc.add, N, val, hValProp, f) # {}
    BY <1>5, QueueStep
  <1>7. p[2] \notin Paid /\ Paid' = Paid \union {p[2]}
    BY <1>6 DEF Paid
  <1>8. /\ numSatPrecs' = [o \in Ops |-> Cardinality(rc.prec[o] \ Paid')]
        /\ ReadyOps' = ReadyOps \union N /\ ReadyOps \intersect T = {}
        /\ \A o \in Ops : o \in ReadyOps <=> rc.prec[o] \subseteq Paid
    <2> DEFINE R == Paid
               g == p[2]
               counts == numSatPrecs
               counts2 == numSatPrecs'
    <2>1. CountsDown(R, g, counts, T, counts2)
      BY <1>3, <1>5, <1>7 DEF FFOK, CountsDown
    <2>2. ReadyOps = {o \in Ops : counts[o] = 0} /\ ReadyOps' = {o \in Ops : counts2[o] = 0}
          /\ N = {o \in T : counts[o] = 1}
      BY <1>2, <1>3 DEF ReadyOps
    <2> HIDE DEF R, g, counts, counts2
    <2>3. /\ counts2 = [o \in Ops |-> Cardinality(rc.prec[o] \ (R \union {g}))]
          /\ {o \in Ops : counts2[o] = 0} = {o \in Ops : counts[o] = 0} \union {o \in T : counts[o] = 1}
          /\ {o \in Ops : counts[o] = 0} \intersect T = {}
      BY <2>1, CountdownStep
    <2>4. ReadyOps' = ReadyOps \union N /\ ReadyOps \intersect T = {}
      BY <2>2, <2>3
    <2>5. counts2 = [o \in Ops |-> Cardinality(rc.prec[o] \ Paid')]
      BY <1>7, <2>3 DEF R, g
    <2>6. QED BY <2>4, <2>5, ReadyIs DEF counts2
  <1>9. numGoals' = Cardinality(gset' \ Paid') /\ numGoals' # 0
    <2> DEFINE A == gset \ Paid
               B == gset \ Paid'
    <2>1. IsFiniteSet(A) /\ numGoals = Cardinality(A) /\ numGoals # 0 /\ numGoals \in Nat
      BY ReadyIs, FS_Difference, FS_CardinalityType DEF FFOK
    <2>2. CASE p[2] \in gset
      <3>1. numGoals # 1 /\ numGoals' = numGoals - 1
        BY <1>1, <2>2 DEF IsLastGoal
      <3>2. p[2] \in A /\ B = A \ {p[2]}
        BY <1>7, <2>2
      <3> HIDE DEF A, B
      <3>3. Cardinality(B) = Cardinality(A) - 1
        BY <2>1, <3>2, FS_RemoveElement
      <3>4. QED BY <1>2, <2>1, <3>1, <3>3 DEF B
    <2>3. CASE p[2] \notin gset
      <3>1. B = A /\ numGoals' = numGoals
        BY <1>1, <1>7, <2>3
      <3>2. QED BY <1>2, <2>1, <3>1
    <2>4. QED BY <2>2, <2>3
  <1>10. \A f \in s0set : hValProp'[f] = 0
    <2>1. SUFFICES ASSUME NEW f \in s0set
                   PROVE  hValProp'[f] = 0
      OBVIOUS
    <2>2. f \in X /\ hValProp[f] = 0
      BY DEF FFOK
    <2>3. hValProp'[f] <= 0 /\ hValProp'[f] \in 0 .. UNREACHABLE
      BY <1>6, <2>2 DEF QueueOK
    <2>4. QED BY <2>3
  <1>11. \A f \in X : hValProp'[f] \in Nat /\ hValProp[f] \in Nat
    BY <1>6, ReadyIs, UnreachableIsLarge DEF QueueOK
  <1>12. /\ N \subseteq T /\ T \subseteq Ops /\ \A o \in N : val[o] = v[o] /\ val[o] \in Nat
         /\ \A o \in ReadyOps : v[o] = hValOp[o]
    <2>1. \A o \in Ops : o \notin T => v[o] = hValOp[o]
      BY PricesRise DEF T, v
    <2>2. QED BY <1>3, <1>4, <1>8, <2>1, ReadyIs
  <1>13. PricesOK'
    <2>1. hValOp' \in [Ops -> Nat]
      BY <1>4, <1>5
    <2>2. \A o \in ReadyOps' : \A f \in rc.add[o] : hValProp'[f] <= hValOp'[o]
      <3>1. SUFFICES ASSUME NEW o \in ReadyOps', NEW f \in rc.add[o]
                     PROVE  hValProp'[f] <= hValOp'[o]
        OBVIOUS
      <3>2. CASE o \in N
        BY <1>5, <1>6, <1>12, <3>2
      <3>3. CASE o \in ReadyOps
        <4>1. hValProp[f] <= hValOp[o] /\ o \in Ops /\ hValOp[o] \in Nat
          BY <3>3, ReadyIs DEF FFOK, PricesOK
        <4>2. f \in X
          BY <4>1, OpsFacts
        <4>3. hValProp'[f] <= hValProp[f] /\ hValProp'[f] \in Nat /\ hValProp[f] \in Nat
          BY <1>6, <1>11, <4>2
        <4>4. hValOp'[o] = hValOp[o]
          BY <1>5, <1>12, <3>3
        <4>5. QED BY <4>1, <4>3, <4>4
      <3>4. QED BY <1>8, <3>1, <3>2, <3>3
    <2>3. ASSUME NEW m \in Nat, \A o \in Ops : rc.cost[o] <= m
          PROVE  /\ \A f \in X : hValProp'[f] < UNREACHABLE => hValProp'[f] <= m * Cardinality(ReadyOps')
                 /\ \A o \in Ops : hValOp'[o] <= m * Cardinality(ReadyOps') + m
                 /\ \A o \in ReadyOps' : hValOp'[o] <= m * Cardinality(ReadyOps')
      <3> DEFINE k == Cardinality(ReadyOps)
                 k2 == Cardinality(ReadyOps')
                 a == m * k
                 b == m * k2
      <3>1. /\ \A f \in X : hValProp[f] < UNREACHABLE => hValProp[f] <= a
            /\ \A o \in Ops : hValOp[o] <= a + m
            /\ \A o \in ReadyOps : hValOp[o] <= a
        BY <2>3 DEF FFOK, PricesOK
      <3>2. IsFiniteSet(ReadyOps) /\ ReadyOps \subseteq ReadyOps' /\ IsFiniteSet(ReadyOps')
        <4>1. ReadyOps' \subseteq Ops
          BY <1>8, <1>12, ReadyIs
        <4>2. QED BY <1>8, <4>1, ReadyIs, OpsFacts, FS_Subset
      <3>3. k \in Nat /\ k2 \in Nat /\ k <= k2
        BY <3>2, FS_CardinalityType, FS_Subset
      <3>4. N # {} => k + 1 <= k2
        <4>1. SUFFICES ASSUME NEW o \in N
                       PROVE  k + 1 <= k2
          OBVIOUS
        <4>2. o \notin ReadyOps /\ ReadyOps \union {o} \subseteq ReadyOps'
          BY <1>8, <1>12
        <4>3. Cardinality(ReadyOps \union {o}) = k + 1
          BY <3>2, <4>2, FS_AddElement
        <4>4. Cardinality(ReadyOps \union {o}) <= k2
          BY <3>2, <4>2, FS_Subset
        <4>5. QED BY <4>3, <4>4
      <3>5. a \in Nat /\ b \in Nat /\ a <= b /\ (N # {} => a + m <= b)
        <4> HIDE DEF k, k2
        <4>1. a \in Nat /\ b \in Nat /\ a <= b
          BY <3>3, TimesMore
        <4>2. ASSUME N # {}
              PROVE  a + m <= b
          <5>1. k + 1 \in Nat /\ k + 1 <= k2
            BY <3>3, <3>4, <4>2
          <5>2. m * (k + 1) <= m * k2
            BY <3>3, <5>1, TimesMore
          <5>3. m * (k + 1) = m * k + m
            BY <3>3, TimesMore
          <5>4. QED BY <5>2, <5>3
        <4>3. QED BY <4>1, <4>2
      <3> HIDE DEF k, k2, a, b
      <3>6. p[1] <= a /\ p[1] \in Nat
        <4>1. hValProp[p[2]] < UNREACHABLE /\ p[1] \in Nat
          BY <1>1, <1>4, UnreachableIsLarge
        <4>2. QED BY <1>1, <1>4, <3>1, <4>1
      <3>7. \A o \in Ops : v[o] <= a + m
        <4>1. SUFFICES ASSUME NEW o \in Ops
                       PROVE  v[o] <= a + m
          OBVIOUS
        <4>2. rc.cost[o] \in Nat /\ rc.cost[o] <= m /\ hValOp[o] <= a + m
          BY <2>3, <3>1, OpsFacts
        <4>3. rc.cost[o] + p[1] <= a + m
          BY <3>5, <3>6, <4>2
        <4>4. v[o] = hValOp[o] \/ v[o] = rc.cost[o] + p[1]
          BY <1>4
        <4>5. QED BY <4>2, <4>3, <4>4
      <3>8. \A o \in N : val[o] <= b
        <4>1. SUFFICES ASSUME NEW o \in N
                       PROVE  val[o] <= b
          OBVIOUS
        <4>2. val[o] <= a + m /\ val[o] \in Nat
          BY <1>12, <3>7
        <4>3. a + m <= b
          BY <3>5
        <4>4. QED BY <3>5, <4>2, <4>3
      <3>9. ASSUME NEW f \in X, hValProp'[f] < UNREACHABLE
            PROVE  hValProp'[f] <= b
        <4>1. CASE hValProp'[f] = hValProp[f]
          <5>1. hValProp[f] <= a /\ hValProp[f] \in Nat
            BY <1>11, <3>1, <3>9, <4>1
          <5>2. QED BY <3>5, <4>1, <5>1
        <4>2. CASE hValProp'[f] # hValProp[f]
          <5>1. PICK o \in CheaperBy(rc.add, N, val, hValProp, f) : hValProp'[f] = val[o]
            BY <1>6, <4>2
          <5>2. o \in N
            BY DEF CheaperBy
          <5>3. QED BY <3>8, <5>1, <5>2
        <4>3. QED BY <4>1, <4>2
      <3>10. ASSUME NEW o \in Ops
             PROVE  /\ hValOp'[o] <= b + m
                    /\ o \in ReadyOps' => hValOp'[o] <= b
        <4>1. v[o] \in Nat /\ hValOp'[o] = v[o] /\ v[o] <= a + m
          BY <1>4, <1>5, <3>7
        <4>2. o \in N => v[o] <= b
          BY <1>12, <3>8
        <4>3. o \in ReadyOps => v[o] <= a
          BY <1>12, <3>1
        <4>4. QED BY <1>8, <3>5, <4>1, <4>2, <4>3
      <3>11. ReadyOps' \subseteq Ops
        BY <1>8, <1>12, ReadyIs
      <3>12. QED BY <3>9, <3>10, <3>11 DEF b, k2
    <2>4. \A m \in Nat : (\A o \in Ops : rc.cost[o] <= m) =>
             /\ \A f \in X : hValProp'[f] < UNREACHABLE => hValProp'[f] <= m * Cardinality(ReadyOps')
             /\ \A o \in Ops : hValOp'[o] <= m * Cardinality(ReadyOps') + m
             /\ \A o \in ReadyOps' : hValOp'[o] <= m * Cardinality(ReadyOps')
      BY <2>3
    <2>5. QED BY <1>2, <2>1, <2>2, <2>4 DEF PricesOK
  <1>14. ReachedOK'
    <2>1. ASSUME NEW f \in X
          PROVE  /\ hValProp'[f] = hValProp[f] => reachedBy'[f] = reachedBy[f]
                 /\ hValProp'[f] # hValProp[f] => reachedBy'[f] \in N /\ f \in rc.add[reachedBy'[f]]
                 /\ reachedBy[f] \in Ops \union {NOACTION}
      <3> DEFINE E == Entering(rc.add, N, val, hValProp, f)
      <3>1. reachedBy'[f] = (IF E = {} THEN reachedBy[f] ELSE Max(E)) /\ (hValProp'[f] # hValProp[f] <=> E # {})
        BY <1>5, <1>6
      <3>2. E \subseteq N /\ \A o \in E : f \in rc.add[o]
        BY Zenon DEF Entering, CheaperBy
      <3> HIDE DEF E
      <3>3. E # {} => Max(E) \in E
        <4>1. E \in SUBSET (0 .. numOps - 1) /\ numOps \in Nat
          BY <1>12, <3>2, OpsFacts
        <4>2. QED BY <4>1, GreaterFacts
      <3>4. reachedBy[f] \in Ops \union {NOACTION}
        BY DEF FFOK, ReachedOK
      <3>5. QED BY <3>1, <3>2, <3>3, <3>4
    <2>2. reachedBy' \in [X -> Ops \union {NOACTION}]
      <3>1. \A f \in X : reachedBy'[f] \in Ops \union {NOACTION}
        BY <1>12, <2>1
      <3>2. reachedBy' = [f \in X |-> reachedBy'[f]]
        BY <1>5
      <3>3. QED BY <3>1, <3>2
    <2>3. ASSUME NEW f \in X, hValProp'[f] < UNREACHABLE
          PROVE  IF reachedBy'[f] = NOACTION THEN f \in s0set
                 ELSE reachedBy'[f] \in ReadyOps' /\ f \in rc.add[reachedBy'[f]]
      <3>1. CASE hValProp'[f] = hValProp[f]
        BY <1>8, <2>1, <2>3, <3>1 DEF FFOK, ReachedOK
      <3>2. CASE hValProp'[f] # hValProp[f]
        <4>1. reachedBy'[f] \in N /\ f \in rc.add[reachedBy'[f]]
          BY <2>1, <3>2
        <4>2. reachedBy'[f] # NOACTION
          <5>1. reachedBy'[f] \in Nat
            BY <1>12, <4>1, OpsFacts
          <5>2. QED BY <5>1 DEF NOACTION
        <4>3. QED BY <1>8, <4>1, <4>2
      <3>3. QED BY <3>1, <3>2
    <2>4. \A f \in Paid' : f \in X /\ reachedBy'[f] = reachedBy[f] /\ hValProp[f] < UNREACHABLE
      <3>1. SUFFICES ASSUME NEW f \in Paid'
                     PROVE  f \in X /\ reachedBy'[f] = reachedBy[f] /\ hValProp[f] < UNREACHABLE
        OBVIOUS
      <3>2. f \in X /\ hValProp[f] < UNREACHABLE
        <4>1. CASE f = p[2]
          <5>1. p[1] < UNREACHABLE
            BY <1>4, UnreachableIsLarge
          <5>2. QED BY <1>1, <1>4, <4>1, <5>1
        <4>2. CASE f \in Paid
          BY <4>2, ReadyIs
        <4>3. QED BY <1>7, <4>1, <4>2
      <3>3. hValProp'[f] = hValProp[f]
        BY <1>6 DEF Paid
      <3>4. QED BY <2>1, <3>2, <3>3
    <2>5. ASSUME NEW F \in SUBSET Paid', F # {}
          PROVE  \E f \in F : reachedBy'[f] = NOACTION \/ rc.prec[reachedBy'[f]] \intersect F = {}
      <3>1. PICK f \in F : reachedBy[f] = NOACTION \/ rc.prec[reachedBy[f]] \intersect (F \ {p[2]}) = {}
        <4>1. CASE F \ {p[2]} = {}
          BY <2>5, <4>1
        <4>2. CASE F \ {p[2]} # {}
          <5>1. F \ {p[2]} \in SUBSET Paid
            BY <1>7
          <5>2. PICK f \in F \ {p[2]} : reachedBy[f] = NOACTION \/ rc.prec[reachedBy[f]] \intersect (F \ {p[2]}) = {}
            BY <4>2, <5>1 DEF FFOK, ReachedOK
          <5>3. QED BY <5>2
        <4>3. QED BY <4>1, <4>2
      <3>2. f \in X /\ reachedBy'[f] = reachedBy[f] /\ hValProp[f] < UNREACHABLE
        BY <2>4
      <3>3. CASE reachedBy[f] = NOACTION
        BY <3>2, <3>3
      <3>4. CASE reachedBy[f] # NOACTION
        <4>1. reachedBy[f] \in ReadyOps
          BY <3>2, <3>4 DEF FFOK, ReachedOK
        <4>2. rc.prec[reachedBy[f]] \subseteq Paid
          BY <4>1, ReadyIs
        <4>3. rc.prec[reachedBy[f]] \intersect F = {}
          BY <1>7, <3>1, <3>4, <4>2
        <4>4. QED BY <3>2, <4>3
      <3>5. QED BY <3>3, <3>4
    <2>6. \A F \in SUBSET Paid' : F # {} =>
            \E f \in F : reachedBy'[f] = NOACTION \/ rc.prec[reachedBy'[f]] \intersect F = {}
      BY <2>5
    <2>7. QED BY <1>2, <2>2, <2>3, <2>6 DEF ReachedOK
  <1>15. gset' \subseteq rc.facts /\ s0set' \subseteq rc.facts
    BY <1>2 DEF FFOK
  <1>16. QED BY <1>2, <1>6, <1>8, <1>9, <1>10, <1>13, <1>14, <1>15 DEF FFOK
\* The facts that the relaxed plan needs are the goals and what the operators need that reached such facts.
NeededFor(F) == F \union UNION {rc.prec[reachedBy[f]] : f \in {x \in F : reachedBy[x] # NOACTION}}

\* getFF collects the operators that reached them.
LEMMA MarkIs ==
  ASSUME IsModel, reachedBy \in [rc.facts -> Ops \union {NOACTION}], gset \subseteq rc.facts
  PROVE  \E M \in SUBSET rc.facts :
           /\ gset \subseteq M /\ NeededFor(M) \subseteq M
           /\ \A C \in SUBSET rc.facts : gset \subseteq C /\ NeededFor(C) \subseteq C => M \subseteq C
           /\ Mark = {reachedBy[f] : f \in M} \ {NOACTION}
  <1> DEFINE X == rc.facts
             needed(F) == F \union UNION {rc.prec[reachedBy[f]] : f \in {x \in F : reachedBy[x] # NOACTION}}
             step == [A \in SUBSET X |-> needed(A)]
             W == CHOOSE w : w = [A \in SUBSET X |-> IF needed(A) = A THEN A ELSE w[needed(A)]]
  <1>1. Inflating(X, step)
    <2>1. ASSUME NEW A \in SUBSET X
          PROVE  needed(A) \in SUBSET X
      <3>1. ASSUME NEW f \in A, reachedBy[f] # NOACTION
            PROVE  rc.prec[reachedBy[f]] \subseteq X
        <4>1. reachedBy[f] \in Ops
          BY <3>1
        <4>2. QED BY <4>1, OpsFacts
      <3>2. QED BY <3>1
    <2>2. step \in [SUBSET X -> SUBSET X]
      BY <2>1
    <2>3. ASSUME NEW A \in SUBSET X, NEW B \in SUBSET X, A \subseteq B
          PROVE  needed(A) \subseteq needed(B)
      BY <2>3
    <2>4. \A A, B \in SUBSET X : A \subseteq B => step[A] \subseteq step[B]
      BY <2>3
    <2>5. \A A \in SUBSET X : A \subseteq step[A]
      OBVIOUS
    <2>6. QED BY <2>2, <2>4, <2>5 DEF Inflating, Monotone
  <1>2. \A w : GrowsBy(X, step, w) <=> w = [A \in SUBSET X |-> IF needed(A) = A THEN A ELSE w[needed(A)]]
    <2>1. ASSUME NEW w
          PROVE  [A \in SUBSET X |-> IF step[A] = A THEN A ELSE w[step[A]]]
                 = [A \in SUBSET X |-> IF needed(A) = A THEN A ELSE w[needed(A)]]
      OBVIOUS
    <2>2. QED BY <2>1 DEF GrowsBy
  <1>3. GrowsBy(X, step, W)
    <2>1. \E w : w = [A \in SUBSET X |-> IF needed(A) = A THEN A ELSE w[needed(A)]]
      BY <1>1, <1>2, GrowthExists
    <2>2. W = [A \in SUBSET X |-> IF needed(A) = A THEN A ELSE W[needed(A)]]
      BY <2>1
    <2>3. QED BY <2>2, <1>2
  <1>4. Mark = {reachedBy[f] : f \in W[gset]} \ {NOACTION}
    BY DEF Mark
  <1>5. /\ \A A \in SUBSET X : step[A] = needed(A)
        /\ \A A : needed(A) = NeededFor(A)
    BY DEF NeededFor
  <1> HIDE DEF W, step, needed
  <1>6. /\ W[gset] \in SUBSET X /\ gset \subseteq W[gset] /\ step[W[gset]] \subseteq W[gset]
        /\ \A C \in SUBSET X : gset \subseteq C /\ step[C] \subseteq C => W[gset] \subseteq C
    <2>1. IsFiniteSet(X) /\ gset \in SUBSET X
      BY DEF IsModel
    <2> HIDE DEF X
    <2>2. QED BY <1>1, <1>3, <2>1, GrowthEnds
  <1>7. QED BY <1>4, <1>5, <1>6

\* The last goal is popped: the operators are those of a relaxed plan.
LEMMA MarkFacts ==
  ASSUME IsModel, FFOK, PopLastGoal
  PROVE  /\ Mark \in SUBSET Ops
         /\ gset \subseteq Closure(s0set, Mark)
         /\ \A o \in Mark : rc.prec[o] \subseteq Closure(s0set, Mark)
  <1>1. PICK p \in queue : hValProp[p[2]] = p[1] /\ p[2] \in gset /\ numGoals = 1
    BY DEF PopLastGoal, IsLastGoal
  <1>2. p[2] \in rc.facts /\ p[1] < UNREACHABLE /\ p = <<p[1], p[2]>>
    <2>1. p[2] \in rc.facts /\ p[1] \in 0 .. UNREACHABLE - 1 /\ p = <<p[1], p[2]>>
      BY DEF FFOK, QueueOK
    <2>2. QED BY <2>1, UnreachableIsLarge
  <1>3. p[2] \notin Paid
    BY <1>1, <1>2 DEF Paid, Settled
  <1> DEFINE R == Paid \union {p[2]}
  <1>4. gset \subseteq R
    <2> DEFINE A == gset \ Paid
    <2>1. p[2] \in A /\ IsFiniteSet(A) /\ Cardinality(A) = 1
      BY <1>1, <1>3, ReadyIs, FS_Difference DEF FFOK
    <2> HIDE DEF A
    <2>2. PICK x : A = {x}
      BY <2>1, FS_Singleton
    <2>3. A = {p[2]}
      BY <2>1, <2>2
    <2>4. QED BY <2>3 DEF A
  <1>5. ASSUME NEW f \in R
        PROVE  /\ f \in rc.facts
               /\ IF reachedBy[f] = NOACTION THEN f \in s0set
                  ELSE /\ reachedBy[f] \in Ops /\ f \in rc.add[reachedBy[f]]
                       /\ rc.prec[reachedBy[f]] \subseteq Paid
    <2>1. f \in rc.facts /\ hValProp[f] < UNREACHABLE
      BY <1>1, <1>2, ReadyIs
    <2>2. IF reachedBy[f] = NOACTION THEN f \in s0set
          ELSE reachedBy[f] \in ReadyOps /\ f \in rc.add[reachedBy[f]]
      BY <2>1 DEF FFOK, ReachedOK
    <2>3. QED BY <2>1, <2>2, ReadyIs
  <1> HIDE DEF R
  <1>6. Paid \subseteq R /\ R = Paid \union {p[2]} /\ R \in SUBSET rc.facts
    BY <1>5 DEF R
  <1>7. reachedBy \in [rc.facts -> Ops \union {NOACTION}] /\ gset \subseteq rc.facts /\ s0set \in SUBSET rc.facts
    BY DEF FFOK, ReachedOK
  <1>8. PICK M \in SUBSET rc.facts :
          /\ gset \subseteq M /\ NeededFor(M) \subseteq M
          /\ \A C \in SUBSET rc.facts : gset \subseteq C /\ NeededFor(C) \subseteq C => M \subseteq C
          /\ Mark = {reachedBy[f] : f \in M} \ {NOACTION}
    BY <1>7, MarkIs
  <1>9. M \subseteq R
    <2>1. ASSUME NEW f \in R, reachedBy[f] # NOACTION
          PROVE  rc.prec[reachedBy[f]] \subseteq R
      BY <1>5, <1>6, <2>1
    <2>2. NeededFor(R) \subseteq R
      BY <2>1 DEF NeededFor
    <2>3. QED BY <1>4, <1>6, <1>8, <2>2
  <1>10. ASSUME NEW f \in M, reachedBy[f] # NOACTION
         PROVE  reachedBy[f] \in Mark /\ rc.prec[reachedBy[f]] \subseteq M
    <2>1. rc.prec[reachedBy[f]] \subseteq NeededFor(M)
      BY <1>10 DEF NeededFor
    <2>2. QED BY <1>8, <1>10, <2>1
  <1>11. Mark \in SUBSET Ops
    <2>1. SUFFICES ASSUME NEW o \in Mark
                   PROVE  o \in Ops
      OBVIOUS
    <2>2. PICK f \in M : o = reachedBy[f] /\ o # NOACTION
      BY <1>8
    <2>3. QED BY <1>5, <1>9, <2>2
  <1> DEFINE C == Closure(s0set, Mark)
  <1>12. s0set \subseteq C /\ \A o \in Mark : rc.prec[o] \subseteq C => rc.add[o] \subseteq C
    BY <1>7, <1>11, ClosureFacts
  <1> HIDE DEF C
  <1>13. M \subseteq C
    <2> DEFINE F == M \ C
    <2>1. SUFFICES ASSUME F # {}
                   PROVE  FALSE
      OBVIOUS
    <2>2. PICK f \in F : reachedBy[f] = NOACTION \/ rc.prec[reachedBy[f]] \intersect F = {}
      <3>1. CASE F \ {p[2]} = {}
        <4>1. PICK f \in F : f = p[2]
          BY <2>1, <3>1
        <4>2. F = {p[2]}
          BY <3>1, <4>1
        <4>3. reachedBy[f] # NOACTION => rc.prec[reachedBy[f]] \subseteq Paid
          BY <1>5, <1>9
        <4>4. QED BY <1>3, <4>2, <4>3
      <3>2. CASE F \ {p[2]} # {}
        <4>1. F \ {p[2]} \in SUBSET Paid
          BY <1>6, <1>9
        <4>2. PICK f \in F \ {p[2]} : reachedBy[f] = NOACTION \/ rc.prec[reachedBy[f]] \intersect (F \ {p[2]}) = {}
          BY <3>2, <4>1 DEF FFOK, ReachedOK
        <4>3. reachedBy[f] # NOACTION => rc.prec[reachedBy[f]] \subseteq Paid
          BY <1>5, <1>9, <4>2
        <4>4. reachedBy[f] = NOACTION \/ rc.prec[reachedBy[f]] \intersect F = {}
          BY <1>3, <4>2, <4>3
        <4>5. QED BY <4>2, <4>4
      <3>3. QED BY <3>1, <3>2
    <2>3. CASE reachedBy[f] = NOACTION
      BY <1>5, <1>9, <1>12, <2>2, <2>3
    <2>4. CASE reachedBy[f] # NOACTION
      <3>1. reachedBy[f] \in Mark /\ rc.prec[reachedBy[f]] \subseteq M /\ f \in rc.add[reachedBy[f]]
        BY <1>5, <1>9, <1>10, <2>4
      <3>2. rc.prec[reachedBy[f]] \subseteq C
        BY <2>2, <2>4, <3>1
      <3>3. QED BY <1>12, <3>1, <3>2
    <2>5. QED BY <2>3, <2>4
  <1>14. \A o \in Mark : rc.prec[o] \subseteq C
    <2>1. SUFFICES ASSUME NEW o \in Mark
                   PROVE  rc.prec[o] \subseteq C
      OBVIOUS
    <2>2. PICK f \in M : o = reachedBy[f] /\ o # NOACTION
      BY <1>8
    <2>3. QED BY <1>10, <1>13, <2>2
  <1>15. QED BY <1>8, <1>11, <1>13, <1>14 DEF C

\* When the queue is empty, what has a cost is all that can be reached, and a goal is not among it.
LEMMA QueueEmptyIsDead ==
  ASSUME IsModel, FFOK, queue = {}
  PROVE  ~GoalsReachable
  <1>1. \A f \in rc.facts : f \in Paid <=> hValProp[f] < UNREACHABLE
    <2>1. DOMAIN hValProp = rc.facts
      BY DEF FFOK, QueueOK
    <2>2. QED BY <2>1 DEF Paid, Settled
  <1>2. s0set \subseteq Paid /\ s0set \in SUBSET rc.facts
    BY <1>1, UnreachableIsLarge DEF FFOK
  <1>3. ASSUME NEW o \in Ops, rc.prec[o] \subseteq Paid, NEW f \in rc.add[o]
        PROVE  f \in Paid
    <2>1. PICK m \in Nat : (\A x \in Ops : rc.cost[x] <= m) /\ m * numOps < UNREACHABLE
      BY DEF IsModel
    <2>2. o \in ReadyOps /\ f \in rc.facts
      BY <1>3, ReadyIs, OpsFacts
    <2>3. hValProp[f] <= hValOp[o] /\ hValOp[o] <= m * Cardinality(ReadyOps) /\ hValOp[o] \in Nat
      BY <2>1, <2>2 DEF FFOK, PricesOK
    <2>4. Cardinality(ReadyOps) \in Nat /\ Cardinality(ReadyOps) <= numOps /\ numOps \in Nat
      BY ReadyIs, OpsFacts
    <2>5. m * Cardinality(ReadyOps) <= m * numOps /\ m * Cardinality(ReadyOps) \in Nat /\ m * numOps \in Nat
      BY <2>4, TimesMore
    <2>6. hValProp[f] \in Nat
      BY <2>2, ReadyIs
    <2>7. hValProp[f] < UNREACHABLE
      BY <2>1, <2>3, <2>5, <2>6, UnreachableIsLarge
    <2>8. QED BY <1>1, <2>2, <2>7
  <1>4. Closure(s0set, Ops) \subseteq Paid
    <2> DEFINE R == Paid
    <2>1. s0set \subseteq R /\ \A o \in Ops : rc.prec[o] \subseteq R => rc.add[o] \subseteq R
      BY <1>2, <1>3
    <2>2. Ops \in SUBSET Ops
      OBVIOUS
    <2> HIDE DEF R
    <2>3. Closure(s0set, Ops) \subseteq R
      BY <1>2, <2>1, <2>2, ClosureFacts
    <2>4. QED BY <2>3 DEF R
  <1>5. gset \ Paid # {}
    <2>1. SUFFICES ASSUME gset \ Paid = {}
                   PROVE  FALSE
      OBVIOUS
    <2>2. QED BY <2>1, FS_EmptySet DEF FFOK
  <1>6. QED BY <1>4, <1>5 DEF GoalsReachable

\* What FF has found is the costs of some operators.
FFEstimateOK ==
  IF hval = UNREACHABLE THEN ~GoalsReachable
  ELSE hval \in Nat /\ \A m \in Nat : (\A o \in Ops : rc.cost[o] <= m) => hval <= m * numOps

\* A call of FF.
FFCallOK ==
  /\ calc = "addFF" /\ heuristic = "sasFF" => FFOK
  /\ calc \notin {"done", "valued"} \/ heuristic # "sasFF" => markedOps = {}
  /\ RelaxedPlanWorks
  /\ heuristic = "sasFF" /\ calc = "done" => FFEstimateOK
  /\ heuristic = "sasFF" /\ calc = "valued" /\ ~addsDistances => (hval = UNREACHABLE => ~GoalsReachable)

\* All of that depends on the problem without deletes and on what is computed only.
LEMMA FFRests ==
  ASSUME callVars' = callVars
  PROVE  /\ addFFVars' = addFFVars => (FFOK => FFOK')
         /\ hval' = hval => (FFEstimateOK => FFEstimateOK')
         /\ GoalsReachable' <=> GoalsReachable
         /\ Ops' = Ops /\ numOps' = numOps /\ \A F, O : Closure(F, O)' = Closure(F, O)
  <1>1. /\ rc' = rc /\ s0set' = s0set /\ gset' = gset /\ Ops' = Ops /\ numOps' = numOps
        /\ \A F, O : Closure(F, O)' = Closure(F, O)
    BY DEF callVars, Ops, numOps, Closure
  <1>2. GoalsReachable' <=> GoalsReachable
    BY <1>1 DEF GoalsReachable, Closure
  <1>3. ASSUME addFFVars' = addFFVars, FFOK
        PROVE  FFOK'
    <2>1. /\ queue' = queue /\ numSatPrecs' = numSatPrecs /\ hValOp' = hValOp /\ hValProp' = hValProp
          /\ reachedBy' = reachedBy /\ numGoals' = numGoals
      BY <1>3 DEF addFFVars
    <2>2. Paid' = Paid /\ ReadyOps' = ReadyOps
      BY <1>1, <2>1 DEF Paid, ReadyOps
    <2>3. PricesOK' /\ ReachedOK'
      BY <1>1, <1>3, <2>1, <2>2 DEF FFOK, PricesOK, ReachedOK
    <2>4. QED BY <1>1, <1>3, <2>1, <2>2, <2>3 DEF FFOK
  <1>4. ASSUME hval' = hval, FFEstimateOK
        PROVE  FFEstimateOK'
    BY <1>1, <1>2, <1>4 DEF FFEstimateOK
  <1>5. QED BY <1>1, <1>2, <1>3, <1>4

\* A step of FF.
LEMMA AddFFNextKeeps ==
  ASSUME IsModel, FFCallOK, AddFFNext
  PROVE  FFCallOK'
  <1>1. calc = "addFF" /\ callVars' = callVars /\ rc' = rc /\ s0set' = s0set /\ gset' = gset
        /\ heuristic' = heuristic /\ markedOps = {}
    <2>1. calc = "addFF" /\ callVars' = callVars /\ heuristic' = heuristic
      BY Zenon DEF AddFFNext, PopStale, PopFact, PopLastGoal, QueueEmpty
    <2>2. QED BY <2>1 DEF callVars, FFCallOK
  <1>2. CASE PopStale
    <2>1. calc' = "addFF" /\ markedOps' = {}
      BY <1>1, <1>2 DEF PopStale
    <2>2. heuristic = "sasFF" => FFOK'
      BY <1>1, <1>2, PopStaleKeeps DEF FFCallOK
    <2>3. QED BY <1>1, <2>1, <2>2 DEF FFCallOK, RelaxedPlanWorks
  <1>3. CASE PopFact
    <2>1. calc' = "addFF" /\ markedOps' = {}
      BY <1>1, <1>3, Zenon DEF PopFact
    <2>2. heuristic = "sasFF" => FFOK'
      BY <1>1, <1>3, PopFactKeeps DEF FFCallOK
    <2>3. QED BY <1>1, <2>1, <2>2 DEF FFCallOK, RelaxedPlanWorks
  <1>4. CASE PopLastGoal
    <2>1. /\ calc' = "done"
          /\ markedOps' = IF heuristic = "sasFF" THEN Mark ELSE {}
          /\ heuristic = "sasFF" => hval' = CostsOf(rc.cost, Mark)
      BY <1>4, Zenon DEF PopLastGoal
    <2>2. CASE heuristic # "sasFF"
      BY <1>1, <2>1, <2>2 DEF FFCallOK, RelaxedPlanWorks
    <2>3. CASE heuristic = "sasFF"
      <3>1. FFOK
        BY <1>1, <2>3 DEF FFCallOK
      <3>2. /\ Mark \in SUBSET Ops
            /\ gset \subseteq Closure(s0set, Mark)
            /\ \A o \in Mark : rc.prec[o] \subseteq Closure(s0set, Mark)
        BY <1>4, <3>1, MarkFacts
      <3> DEFINE M == Mark
      <3>3. markedOps' = M /\ hval' = CostsOf(rc.cost, M) /\ M \in SUBSET Ops
            /\ gset \subseteq Closure(s0set, M) /\ \A o \in M : rc.prec[o] \subseteq Closure(s0set, M)
        BY <2>1, <2>3, <3>2
      <3> HIDE DEF M
      <3>4. Ops' = Ops /\ numOps' = numOps /\ \A F, O : Closure(F, O)' = Closure(F, O)
        BY <1>1, FFRests
      <3>5. RelaxedPlanWorks'
        BY <1>1, <3>3, <3>4 DEF RelaxedPlanWorks
      <3>6. /\ CostsOf(rc.cost, M) \in Nat /\ CostsOf(rc.cost, M) < UNREACHABLE
            /\ \A m \in Nat : (\A o \in Ops : rc.cost[o] <= m) => CostsOf(rc.cost, M) <= m * numOps
        <4>1. rc.cost \in [Ops -> Nat]
          BY DEF IsModel
        <4>2. QED BY <3>3, <4>1, CostsAreSmall, CostsFacts
      <3>7. hval' # UNREACHABLE
        BY <3>3, <3>6, UnreachableIsLarge
      <3>8. FFEstimateOK'
        BY <1>1, <3>3, <3>4, <3>6, <3>7 DEF FFEstimateOK
      <3>9. QED BY <1>1, <2>1, <2>3, <3>5, <3>8 DEF FFCallOK
    <2>4. QED BY <2>2, <2>3
  <1>5. CASE QueueEmpty
    <2>1. calc' = "done" /\ hval' = UNREACHABLE /\ markedOps' = {} /\ queue = {}
      BY <1>1, <1>5 DEF QueueEmpty, addFFVars
    <2>2. heuristic = "sasFF" => ~GoalsReachable'
      BY <1>1, <2>1, QueueEmptyIsDead, FFRests DEF FFCallOK
    <2>3. heuristic = "sasFF" => FFEstimateOK'
      BY <2>1, <2>2 DEF FFEstimateOK
    <2>4. QED BY <1>1, <2>1, <2>3 DEF FFCallOK, RelaxedPlanWorks
  <1>6. QED BY <1>2, <1>3, <1>4, <1>5 DEF AddFFNext

\* FF is called.
LEMMA EvaluateFF ==
  ASSUME GraphInv, NodeOK, LmCutEstimateOK, FFCallOK, Evaluate
  PROVE  FFCallOK'
  <1> DEFINE s == StateFacts(state) \union {t2tdr(a) : a \in ReachableActions}
             g == StateFacts(htn.gList) \union {t2bur(t) : t \in ToSet(net)}
  <1>1. /\ s0set' = s /\ gset' = g /\ rc' = rc /\ phase = "search" /\ heuristic' = heuristic
        /\ hval' = 0 /\ markedOps = {}
    BY DEF Evaluate, LmCutEstimateOK, FFCallOK
  <1>2. \/ calc' = "done" /\ markedOps' = markedOps
        \/ g # {} /\ StartAddFF(s, g)
        \/ calc' = "hMax" /\ markedOps' = markedOps
    <2>1. CASE g = {}
      BY <1>1, <2>1 DEF Evaluate, addFFVars
    <2>2. CASE g # {} /\ heuristic # "lmCut"
      BY <1>1, <2>2 DEF Evaluate
    <2>3. CASE g # {} /\ heuristic = "lmCut"
      BY <1>1, <2>3 DEF Evaluate, StartLmCut, StartHMax, addFFVars
    <2>4. QED BY <2>1, <2>2, <2>3
  <1>3. IsModel /\ s \in SUBSET rc.facts /\ g \in SUBSET rc.facts
    BY <1>1, NodeFacts
  <1> HIDE DEF s, g
  <1>4. CASE calc' = "done" /\ markedOps' = markedOps
    <2>1. Ops' = Ops /\ numOps' = numOps
      BY <1>1 DEF Ops, numOps
    <2>2. \A m \in Nat : 0 <= m * numOps
      <3>1. numOps \in Nat
        BY <1>3, OpsFacts
      <3>2. QED BY <3>1, TimesMore
    <2>3. hval' # UNREACHABLE /\ hval' \in Nat
      BY <1>1, UnreachableIsLarge
    <2>4. FFEstimateOK'
      BY <1>1, <2>1, <2>2, <2>3 DEF FFEstimateOK
    <2>5. QED BY <1>1, <1>4, <2>4 DEF FFCallOK, RelaxedPlanWorks
  <1>5. CASE g # {} /\ StartAddFF(s, g)
    <2>1. calc' = "addFF" /\ markedOps' = {}
      BY <1>5 DEF StartAddFF
    <2>2. FFOK'
      BY <1>1, <1>3, <1>5, StartFFKeeps
    <2>3. QED BY <2>1, <2>2 DEF FFCallOK, RelaxedPlanWorks
  <1>6. CASE calc' = "hMax" /\ markedOps' = markedOps
    BY <1>1, <1>6 DEF FFCallOK, RelaxedPlanWorks
  <1>7. QED BY <1>2, <1>4, <1>5, <1>6

\* The correction makes nothing impossible.
LEMMA CorrectFF ==
  ASSUME GraphInv, NodeOK, FFEstimateOK, Correct, ~addsDistances
  PROVE  hval' = UNREACHABLE => ~GoalsReachable'
  <1>1. phase = "search" /\ htn \in Problems /\ rc = RCModel /\ net \in Seq(Tasks) /\ Len(net) <= htn.maxSteps + 1
    BY NodeFacts DEF NodeOK, Correct
  <1>2. GoalsReachable' <=> GoalsReachable
    BY FFRests DEF Correct
  <1>3. CASE hval = UNREACHABLE
    BY <1>2, <1>3 DEF FFEstimateOK
  <1>4. CASE hval # UNREACHABLE
    <2>1. IsModel
      BY <1>1, RCModelIsModel
    <2>2. PICK m \in Nat : (\A o \in Ops : rc.cost[o] <= m) /\ m * (numOps + htn.maxSteps) < UNREACHABLE
      BY <1>1, RCModelIsModel
    <2>3. hval \in Nat /\ hval <= m * numOps
      BY <1>4, <2>2 DEF FFEstimateOK
    <2>4. PICK extra \in {0, ExtraOf(net)} : hval' = hval + extra
      BY <2>3, CorrectionIs
    <2>5. numOps \in Nat /\ htn.maxSteps \in Nat
      BY <1>1, <2>1, OpsFacts, PlanningAssumption
    <2>6. ExtraOf(net) \in Nat /\ ExtraOf(net) <= m * htn.maxSteps
      BY <1>1, <2>1, <2>2, <2>5, ExtraFacts
    <2>7. m * (numOps + htn.maxSteps) = m * numOps + m * htn.maxSteps
      BY <2>2, <2>5
    <2>8. m * numOps \in Nat /\ m * htn.maxSteps \in Nat
      BY <2>2, <2>5, TimesMore
    <2>9. extra \in Nat /\ extra <= m * htn.maxSteps
      BY <2>6, <2>8
    <2>10. hval + extra < UNREACHABLE
      BY <2>2, <2>3, <2>7, <2>8, <2>9, UnreachableIsLarge
    <2>11. QED BY <2>3, <2>4, <2>9, <2>10, UnreachableIsLarge
  <1>5. QED BY <1>3, <1>4

\* Every step leaves a call of FF with what it counts on.
LEMMA NextFF ==
  ASSUME GraphInv, NodeOK, LmCutEstimateOK, FFCallOK, [Next]_vars
  PROVE  FFCallOK'
  <1>1. CASE Prepare
    <2>1. phase # "search" /\ calc' = calc /\ markedOps' = markedOps
      BY <1>1, Zenon DEF Prepare, GraphNext, Descend, SeeChild, CloseComponent, LeaveInside,
         FindCyclic, AnalyseCyclicity, StartReachability, Process, GraphKnown, inTarjan,
         DistanceNext, StartDistances, LookAtMethod, LookAtTask, DistancesKnown, heuristicVars, addFFVars
    <2>2. calc' = "none" /\ markedOps' = {}
      BY <2>1 DEF NodeOK, FFCallOK
    <2>3. QED BY <2>2 DEF FFCallOK, RelaxedPlanWorks
  <1>2. CASE Construct
    <2>1. calc = "none" /\ calc' = calc /\ markedOps' = markedOps
      BY <1>2 DEF Construct, NodeOK, addFFVars
    <2>2. calc' = "none" /\ markedOps' = {}
      BY <2>1 DEF FFCallOK
    <2>3. QED BY <2>2 DEF FFCallOK, RelaxedPlanWorks
  <1>3. CASE Decompose \/ Apply
    <2>1. calc' = "none" /\ markedOps' = {}
      BY <1>3 DEF Decompose, Apply, NewNode, AddFFRelease
    <2>2. QED BY <2>1 DEF FFCallOK, RelaxedPlanWorks
  <1>4. CASE Evaluate
    BY <1>4, EvaluateFF
  <1>5. CASE AddFFNext
    <2>1. calc # "none"
      BY <1>5, Zenon DEF AddFFNext, PopStale, PopFact, PopLastGoal, QueueEmpty
    <2>2. IsModel
      BY <2>1, NodeFacts DEF NodeOK
    <2>3. QED BY <1>5, <2>2, AddFFNextKeeps
  <1>6. CASE LmCutNext /\ heuristic' = heuristic /\ markedOps' = markedOps
    <2>1. calc \in {"hMax", "goalZone", "cut"}
      BY <1>6, Zenon DEF LmCutNext, SkipStale, Propagate, Unreachable, CutsDone, StartCut, CalcGoalZone,
         CheckForwardReachability, TakeCosts, hMaxDone
    <2>2. heuristic' = "lmCut" /\ markedOps' = {}
      BY <1>6, <2>1 DEF LmCutEstimateOK, FFCallOK
    <2>3. QED BY <2>2 DEF FFCallOK, RelaxedPlanWorks
  <1>7. CASE Correct
    <2>1. /\ calc = "done" /\ calc' = "valued" /\ heuristic' = heuristic /\ markedOps' = markedOps
          /\ (addsDistances' <=> addsDistances)
      BY <1>7 DEF Correct, addsDistances, addFFVars
    <2>2. heuristic = "sasFF" /\ ~addsDistances => (hval' = UNREACHABLE => ~GoalsReachable')
      BY <1>7, <2>1, CorrectFF DEF FFCallOK
    <2>3. heuristic # "sasFF" => markedOps = {}
      BY DEF FFCallOK
    <2>4. QED BY <2>1, <2>2, <2>3 DEF FFCallOK, RelaxedPlanWorks
  <1>8. CASE UNCHANGED vars
    <2>1. /\ callVars' = callVars /\ calc' = calc /\ hval' = hval /\ heuristic' = heuristic /\ options' = options
          /\ addFFVars' = addFFVars /\ markedOps' = markedOps
          /\ rc' = rc /\ s0set' = s0set /\ gset' = gset
      BY <1>8 DEF vars, addFFVars, callVars
    <2>2. /\ addsDistances' <=> addsDistances
          /\ (FFOK => FFOK') /\ (FFEstimateOK => FFEstimateOK') /\ (GoalsReachable' <=> GoalsReachable)
          /\ \A F, O : Closure(F, O)' = Closure(F, O)
      BY <2>1, FFRests DEF addsDistances
    <2>3. RelaxedPlanWorks => RelaxedPlanWorks'
      BY <2>1, <2>2 DEF RelaxedPlanWorks
    <2>4. QED BY <2>1, <2>2, <2>3 DEF FFCallOK
  <1>9. QED BY <1>1, <1>2, <1>3, <1>4, <1>5, <1>6, <1>7, <1>8 DEF Next, Estimating, addFFVars
-----------------------------------------------------------------------------
(* Implied costs and distances.                                            *)

\* What is added up along a list, entry by entry.
LEMMA SumFacts ==
  ASSUME NEW v \in [Tasks -> Nat], NEW list \in Seq(Tasks)
  PROVE  \E f \in [0 .. Len(list) -> Nat] :
           /\ f[0] = 0 /\ f[Len(list)] = SumOver(v, list)
           /\ \A i \in 1 .. Len(list) : f[i] = f[i - 1] + v[list[i]]
  <1> DEFINE n == Len(list)
             step == [i \in 1 .. n |-> [s \in Nat |-> s + v[list[i]]]]
             g == CHOOSE g : g = [i \in 0 .. n |-> IF i = 0 THEN 0 ELSE g[i - 1] + v[list[i]]]
  <1>1. n \in Nat /\ \A i \in 1 .. n : list[i] \in Tasks /\ i - 1 \in 0 .. n
    OBVIOUS
  <1>2. step \in [1 .. n -> [Nat -> Nat]] /\ \A i \in 1 .. n : \A s \in Nat : step[i][s] = s + v[list[i]]
    <2> HIDE DEF n
    <2>1. QED BY <1>1
  <1>3. SumOver(v, list) = g[n]
    BY Zenon DEF SumOver
  <1> HIDE DEF n, step
  <1>4. PICK f \in [0 .. n -> Nat] : Iterates(f, n, 0, step)
    BY <1>1, <1>2, IterationExists
  <1>5. \A i \in 0 .. n : f[i] = IF i = 0 THEN 0 ELSE f[i - 1] + v[list[i]]
    <2>1. SUFFICES ASSUME NEW i \in 0 .. n
                   PROVE  f[i] = IF i = 0 THEN 0 ELSE f[i - 1] + v[list[i]]
      OBVIOUS
    <2>2. f[i] = IF i = 0 THEN 0 ELSE step[i][f[i - 1]]
      BY <1>4 DEF Iterates
    <2>3. i # 0 => i \in 1 .. n /\ f[i - 1] \in Nat
      BY <1>1
    <2>4. QED BY <1>2, <2>2, <2>3
  <1>6. f = [i \in 0 .. n |-> IF i = 0 THEN 0 ELSE f[i - 1] + v[list[i]]]
    BY <1>5
  <1>7. g = [i \in 0 .. n |-> IF i = 0 THEN 0 ELSE g[i - 1] + v[list[i]]]
    BY <1>6, Zenon
  <1> HIDE DEF g
  <1>8. /\ f[0] = 0 /\ g[0] = 0
        /\ \A i \in 1 .. n : f[i] = f[i - 1] + v[list[i]] /\ g[i] = g[i - 1] + v[list[i]]
    <2>1. \A i \in 0 .. n : g[i] = IF i = 0 THEN 0 ELSE g[i - 1] + v[list[i]]
      BY <1>7
    <2>2. 0 \in 0 .. n /\ \A i \in 1 .. n : i \in 0 .. n /\ i # 0
      BY <1>1
    <2>3. QED BY <1>5, <2>1, <2>2
  <1>9. f[n] = g[n]
    <2> DEFINE T == {i \in 0 .. n : f[i] = g[i]}
    <2>1. 0 \in T /\ \A i \in 1 .. n : i - 1 \in T => i \in T
      BY <1>1, <1>8
    <2> HIDE DEF T
    <2>2. 0 .. n \subseteq T
      BY <1>1, <2>1, LoopKeeps
    <2>3. n \in T
      BY <1>1, <2>2
    <2>4. QED BY <2>3 DEF T
  <1>10. QED BY <1>3, <1>8, <1>9 DEF n

\* Sums of natural values are natural.
LEMMA SumTyped ==
  ASSUME NEW v \in [Tasks -> Nat], NEW list \in Seq(Tasks)
  PROVE  SumOver(v, list) \in Nat
  <1>1. PICK f \in [0 .. Len(list) -> Nat] : f[Len(list)] = SumOver(v, list)
    BY SumFacts
  <1>2. Len(list) \in 0 .. Len(list)
    BY LenProperties
  <1>3. QED BY <1>1, <1>2

\* Sums depend on the values of the entries only.
LEMMA SumStays ==
  ASSUME NEW v \in [Tasks -> Nat], NEW w \in [Tasks -> Nat], NEW list \in Seq(Tasks),
         \A u \in ToSet(list) : v[u] = w[u]
  PROVE  SumOver(v, list) = SumOver(w, list)
  <1> DEFINE n == Len(list)
  <1>1. PICK f \in [0 .. n -> Nat] : /\ f[0] = 0 /\ f[n] = SumOver(v, list)
                                     /\ \A i \in 1 .. n : f[i] = f[i - 1] + v[list[i]]
    BY SumFacts
  <1>2. PICK g \in [0 .. n -> Nat] : /\ g[0] = 0 /\ g[n] = SumOver(w, list)
                                     /\ \A i \in 1 .. n : g[i] = g[i - 1] + w[list[i]]
    BY SumFacts
  <1>3. n \in Nat /\ \A i \in 1 .. n : v[list[i]] = w[list[i]]
    BY SeqParts
  <1> HIDE DEF n
  <1> DEFINE T == {i \in 0 .. n : f[i] = g[i]}
  <1>4. 0 \in T
    BY <1>1, <1>2, <1>3
  <1>5. ASSUME NEW i \in 1 .. n, i - 1 \in T
        PROVE  i \in T
    <2>1. f[i - 1] = g[i - 1] /\ f[i] = f[i - 1] + v[list[i]] /\ g[i] = g[i - 1] + w[list[i]]
      BY <1>1, <1>2, <1>5
    <2>2. i \in 0 .. n /\ f[i] = g[i]
      BY <1>3, <2>1
    <2>3. QED BY <2>2
  <1> HIDE DEF T
  <1>6. 0 .. n \subseteq T
    BY <1>3, <1>4, <1>5, LoopKeeps
  <1>7. n \in T
    BY <1>3, <1>6
  <1>8. QED BY <1>1, <1>2, <1>7 DEF T

\* What a member of F and one of D come to.
Added(F, D) == UNION {Plus(s, D) : s \in F}

\* The members of Added are the sums of one member of each set.
LEMMA AddedFacts ==
  ASSUME NEW F \in SUBSET Nat, NEW D \in SUBSET Nat
  PROVE  /\ Added(F, D) \in SUBSET Nat
         /\ \A r \in Added(F, D) : \E s \in F : \E c \in D : r = s + c
         /\ \A s \in F : \A c \in D : s + c \in Added(F, D)
  <1>1. ASSUME NEW r \in Added(F, D)
        PROVE  r \in Nat /\ \E s \in F : \E c \in D : r = s + c
    <2>1. PICK s \in F : r \in Plus(s, D)
      BY <1>1 DEF Added
    <2>2. PICK c \in D : r = s + c
      BY <2>1 DEF Plus
    <2>3. r \in Nat
      BY <2>2
    <2>4. QED BY <2>2, <2>3
  <1>2. ASSUME NEW s \in F, NEW c \in D
        PROVE  s + c \in Added(F, D)
    <2>1. s + c \in Plus(s, D)
      BY DEF Plus
    <2>2. QED BY <2>1 DEF Added
  <1>3. QED BY <1>1, <1>2

\* Of single values there is one sum.
LEMMA AddedSingles ==
  ASSUME NEW a \in Nat, NEW b \in Nat
  PROVE  Added({a}, {b}) = {a + b}
  <1>1. {a} \in SUBSET Nat /\ {b} \in SUBSET Nat
    OBVIOUS
  <1>2. \A r \in Added({a}, {b}) : r = a + b
    BY <1>1, AddedFacts
  <1>3. a + b \in Added({a}, {b})
    BY <1>1, AddedFacts
  <1>4. QED BY <1>2, <1>3

\* The sums that take one member for each entry.
LEMMA SumsFacts ==
  ASSUME NEW C \in [Tasks -> SUBSET Nat], NEW list \in Seq(Tasks), NEW d \in Nat
  PROVE  \E f \in [0 .. Len(list) -> SUBSET Nat] :
           /\ f[0] = {d} /\ f[Len(list)] = Sums(C, list, d)
           /\ \A i \in 1 .. Len(list) : f[i] = Added(f[i - 1], C[list[i]])
  <1> DEFINE n == Len(list)
             step == [i \in 1 .. n |-> [F \in SUBSET Nat |-> UNION {Plus(s, C[list[i]]) : s \in F}]]
             g == CHOOSE g : g = [i \in 0 .. n |-> IF i = 0 THEN {d}
                                                   ELSE UNION {Plus(s, C[list[i]]) : s \in g[i - 1]}]
  <1>1. n \in Nat /\ \A i \in 1 .. n : list[i] \in Tasks /\ i - 1 \in 0 .. n
    OBVIOUS
  <1>2. /\ step \in [1 .. n -> [SUBSET Nat -> SUBSET Nat]]
        /\ \A i \in 1 .. n : \A F \in SUBSET Nat : step[i][F] = UNION {Plus(s, C[list[i]]) : s \in F}
    <2> HIDE DEF n
    <2>1. ASSUME NEW i \in 1 .. n, NEW F \in SUBSET Nat
          PROVE  UNION {Plus(s, C[list[i]]) : s \in F} \in SUBSET Nat
      <3>1. C[list[i]] \in SUBSET Nat
        BY <1>1
      <3>2. QED BY <3>1 DEF Plus
    <2>2. QED BY <2>1
  <1>3. Sums(C, list, d) = g[n]
    BY Zenon DEF Sums
  <1> HIDE DEF n, step
  <1>4. PICK f \in [0 .. n -> SUBSET Nat] : Iterates(f, n, {d}, step)
    <2>1. {d} \in SUBSET Nat /\ n \in Nat /\ step \in [1 .. n -> [SUBSET Nat -> SUBSET Nat]]
      BY <1>1, <1>2
    <2>2. QED BY Zenon, <2>1, IterationExists
  <1>5. \A i \in 0 .. n : f[i] = IF i = 0 THEN {d} ELSE UNION {Plus(s, C[list[i]]) : s \in f[i - 1]}
    <2>1. SUFFICES ASSUME NEW i \in 0 .. n
                   PROVE  f[i] = IF i = 0 THEN {d} ELSE UNION {Plus(s, C[list[i]]) : s \in f[i - 1]}
      OBVIOUS
    <2>2. f[i] = IF i = 0 THEN {d} ELSE step[i][f[i - 1]]
      BY <1>4 DEF Iterates
    <2>3. i # 0 => i \in 1 .. n /\ f[i - 1] \in SUBSET Nat
      BY <1>1
    <2>4. i # 0 => step[i][f[i - 1]] = UNION {Plus(s, C[list[i]]) : s \in f[i - 1]}
      BY <1>2, <2>3
    <2>5. QED BY <2>2, <2>4
  <1>6. f = [i \in 0 .. n |-> IF i = 0 THEN {d} ELSE UNION {Plus(s, C[list[i]]) : s \in f[i - 1]}]
    BY <1>5
  <1>7. g = [i \in 0 .. n |-> IF i = 0 THEN {d} ELSE UNION {Plus(s, C[list[i]]) : s \in g[i - 1]}]
    BY <1>6, Zenon
  <1> HIDE DEF g
  <1>8. /\ f[0] = {d} /\ g[0] = {d}
        /\ \A i \in 1 .. n : /\ f[i] = UNION {Plus(s, C[list[i]]) : s \in f[i - 1]}
                             /\ g[i] = UNION {Plus(s, C[list[i]]) : s \in g[i - 1]}
    <2>1. \A i \in 0 .. n : g[i] = IF i = 0 THEN {d} ELSE UNION {Plus(s, C[list[i]]) : s \in g[i - 1]}
      BY <1>7
    <2>2. 0 \in 0 .. n /\ \A i \in 1 .. n : i \in 0 .. n /\ i # 0
      BY <1>1
    <2>3. QED BY <1>5, <2>1, <2>2
  <1>9. f[n] = g[n]
    <2> DEFINE T == {i \in 0 .. n : f[i] = g[i]}
    <2>1. 0 \in T
      <3>1. 0 \in 0 .. n /\ f[0] = g[0]
        BY <1>1, <1>8
      <3>2. QED BY <3>1
    <2>2. ASSUME NEW i \in 1 .. n, i - 1 \in T
          PROVE  i \in T
      <3>1. f[i - 1] = g[i - 1]
        BY <2>2
      <3>2. f[i] = g[i]
        BY <1>8, <3>1
      <3>3. i \in 0 .. n
        BY <1>1
      <3>4. QED BY <3>2, <3>3
    <2> HIDE DEF T
    <2>3. 0 .. n \subseteq T
      BY <1>1, <2>1, <2>2, LoopKeeps
    <2>4. n \in T
      BY <1>1, <2>3
    <2>5. QED BY <2>4 DEF T
  <1>10. \A i \in 1 .. n : f[i] = Added(f[i - 1], C[list[i]])
    BY Zenon, <1>8 DEF Added
  <1>11. QED BY <1>3, <1>8, <1>9, <1>10 DEF n

\* Sums of what is no less than v are no less than the sum of v.
LEMMA SumsAreAbove ==
  ASSUME NEW C \in [Tasks -> SUBSET Nat], NEW list \in Seq(Tasks), NEW d \in Nat, NEW v \in [Tasks -> Nat],
         \A u \in ToSet(list) : \A c \in C[u] : v[u] <= c
  PROVE  /\ Sums(C, list, d) \in SUBSET Nat /\ SumOver(v, list) \in Nat
         /\ \A s \in Sums(C, list, d) : d + SumOver(v, list) <= s
  <1> DEFINE n == Len(list)
  <1>1. PICK f \in [0 .. n -> SUBSET Nat] :
               /\ f[0] = {d} /\ f[n] = Sums(C, list, d)
               /\ \A i \in 1 .. n : f[i] = Added(f[i - 1], C[list[i]])
    BY SumsFacts
  <1>2. PICK g \in [0 .. n -> Nat] : /\ g[0] = 0 /\ g[n] = SumOver(v, list)
                                     /\ \A i \in 1 .. n : g[i] = g[i - 1] + v[list[i]]
    BY SumFacts
  <1>3. n \in Nat /\ \A i \in 1 .. n : list[i] \in Tasks /\ \A c \in C[list[i]] : v[list[i]] <= c
    BY SeqParts
  <1> HIDE DEF n
  <1> DEFINE T == {i \in 0 .. n : \A s \in f[i] : d + g[i] <= s}
  <1>4. 0 \in T
    BY <1>1, <1>2, <1>3
  <1>5. ASSUME NEW i \in 1 .. n, i - 1 \in T
        PROVE  i \in T
    <2>1. /\ i \in 0 .. n /\ i - 1 \in 0 .. n
          /\ f[i - 1] \in SUBSET Nat /\ g[i - 1] \in Nat /\ C[list[i]] \in SUBSET Nat /\ v[list[i]] \in Nat
      BY <1>3
    <2>2. ASSUME NEW r \in f[i]
          PROVE  d + g[i] <= r
      <3>1. PICK s \in f[i - 1] : \E c \in C[list[i]] : r = s + c
        <4>1. \A x \in Added(f[i - 1], C[list[i]]) : \E s \in f[i - 1] : \E c \in C[list[i]] : x = s + c
          BY Zenon, <2>1, AddedFacts
        <4>2. r \in Added(f[i - 1], C[list[i]])
          BY <1>1
        <4>3. QED BY Zenon, <4>1, <4>2
      <3>5. PICK c \in C[list[i]] : r = s + c
        BY <3>1
      <3>2. d + g[i - 1] <= s /\ v[list[i]] <= c /\ s \in Nat /\ c \in Nat
        BY <1>3, <1>5, <2>1
      <3>3. g[i] = g[i - 1] + v[list[i]]
        BY <1>2
      <3>4. QED BY <2>1, <3>5, <3>2, <3>3
    <2>3. QED BY <2>1, <2>2
  <1> HIDE DEF T
  <1>6. 0 .. n \subseteq T
    BY <1>3, <1>4, <1>5, LoopKeeps
  <1>7. n \in T /\ n \in 0 .. n
    BY <1>3, <1>6
  <1>8. QED BY <1>1, <1>2, <1>7 DEF T

\* If there is one value for each entry, there is one sum.
LEMMA SumsOfSingles ==
  ASSUME NEW C \in [Tasks -> SUBSET Nat], NEW list \in Seq(Tasks), NEW d \in Nat, NEW v \in [Tasks -> Nat]
  PROVE  (\A u \in ToSet(list) : C[u] = {v[u]}) => Sums(C, list, d) = {d + SumOver(v, list)}
  <1> DEFINE n == Len(list)
  <1>1. PICK f \in [0 .. n -> SUBSET Nat] :
               /\ f[0] = {d} /\ f[n] = Sums(C, list, d)
               /\ \A i \in 1 .. n : f[i] = Added(f[i - 1], C[list[i]])
    BY SumsFacts
  <1>2. PICK g \in [0 .. n -> Nat] : /\ g[0] = 0 /\ g[n] = SumOver(v, list)
                                     /\ \A i \in 1 .. n : g[i] = g[i - 1] + v[list[i]]
    BY SumFacts
  <1> HAVE \A u \in ToSet(list) : C[u] = {v[u]}
  <1>3. n \in Nat /\ \A i \in 1 .. n : list[i] \in Tasks /\ C[list[i]] = {v[list[i]]}
    BY SeqParts
  <1> HIDE DEF n
  <1> DEFINE T == {i \in 0 .. n : f[i] = {d + g[i]}}
  <1>4. 0 \in T
    BY <1>1, <1>2, <1>3
  <1>5. ASSUME NEW i \in 1 .. n, i - 1 \in T
        PROVE  i \in T
    <2>1. i \in 0 .. n /\ i - 1 \in 0 .. n /\ g[i - 1] \in Nat /\ v[list[i]] \in Nat
      BY <1>3
    <2>2. f[i - 1] = {d + g[i - 1]}
      BY <1>5
    <2>3. f[i] = Added({d + g[i - 1]}, {v[list[i]]})
      BY <1>1, <1>3, <2>2
    <2>4. f[i] = {(d + g[i - 1]) + v[list[i]]}
      <3>1. d + g[i - 1] \in Nat /\ v[list[i]] \in Nat
        BY <2>1
      <3>2. \A a, b \in Nat : Added({a}, {b}) = {a + b}
        BY Zenon, AddedSingles
      <3>3. QED BY <2>3, <3>1, <3>2
    <2>5. (d + g[i - 1]) + v[list[i]] = d + g[i]
      BY <1>2, <2>1
    <2>6. QED BY <2>1, <2>4, <2>5
  <1> HIDE DEF T
  <1>6. 0 .. n \subseteq T
    BY <1>3, <1>4, <1>5, LoopKeeps
  <1>7. n \in T
    BY <1>3, <1>6
  <1>8. QED BY <1>1, <1>2, <1>7 DEF T

\* Tasks are done by methods, with subtasks; the costs of actions are given.
LEMMA MethodParts ==
  ASSUME htn \in Problems
  PROVE  /\ Methods \subseteq Nat /\ IsFiniteSet(Methods)
         /\ \A m \in Methods : /\ subTasks(m) \in Seq(Tasks) /\ subTasks(m) # <<>>
                               /\ htn.methods[m].task \in Tasks /\ ~(htn.methods[m].task < htn.numActions)
         /\ \A t \in Tasks : ~(t < htn.numActions) => taskToMethods(t) # {}
         /\ \A t \in Tasks : \A m \in taskToMethods(t) : m \in Methods /\ ToSet(subTasks(m)) \subseteq Subtasks[t]
         /\ htn.actionCosts \in [0 .. htn.numActions - 1 -> Nat]
  <1>1. /\ htn.numTasks \in Nat /\ htn.numActions \in 0 .. htn.numTasks
        /\ htn.methods \in Seq([task : htn.numActions .. htn.numTasks - 1,
                                subTasks : Seq(0 .. htn.numTasks - 1) \ {<<>>}])
    BY ProblemsAssumption
  <1>2. Methods = 1 .. Len(htn.methods) /\ Len(htn.methods) \in Nat
    BY <1>1, LenProperties DEF Methods
  <1>3. IsFiniteSet(Methods)
    BY <1>2, FS_Interval
  <1>4. \A m \in Methods : htn.methods[m] \in [task : htn.numActions .. htn.numTasks - 1,
                                               subTasks : Seq(0 .. htn.numTasks - 1) \ {<<>>}]
    BY <1>1, <1>2, ElementOfSeq
  <1>5. \A m \in Methods : /\ subTasks(m) \in Seq(Tasks) /\ subTasks(m) # <<>>
                           /\ htn.methods[m].task \in Tasks /\ ~(htn.methods[m].task < htn.numActions)
    <2>1. SUFFICES ASSUME NEW m \in Methods
                   PROVE  /\ subTasks(m) \in Seq(Tasks) /\ subTasks(m) # <<>>
                          /\ htn.methods[m].task \in Tasks /\ ~(htn.methods[m].task < htn.numActions)
      OBVIOUS
    <2>2. /\ htn.methods[m].subTasks \in Seq(0 .. htn.numTasks - 1) /\ htn.methods[m].subTasks # <<>>
          /\ htn.methods[m].task \in htn.numActions .. htn.numTasks - 1
      BY <1>4
    <2>3. htn.methods[m].task \in 0 .. htn.numTasks - 1 /\ ~(htn.methods[m].task < htn.numActions)
      <3>1. \A a, n : a \in 0 .. n /\ n \in Nat => \A t \in a .. n - 1 : t \in 0 .. n - 1 /\ ~(t < a)
        OBVIOUS
      <3>2. QED BY Zenon, <1>1, <2>2, <3>1
    <2>4. QED BY <2>2, <2>3 DEF subTasks, Tasks
  <1>6. /\ htn.actionCosts \in [0 .. htn.numActions - 1 -> Nat]
        /\ \A t \in htn.numActions .. htn.numTasks - 1 : \E m \in DOMAIN htn.methods : htn.methods[m].task = t
    BY CostsAssumption
  <1>7. ASSUME NEW t \in Tasks, ~(t < htn.numActions)
        PROVE  taskToMethods(t) # {}
    <2>1. t \in htn.numActions .. htn.numTasks - 1
      BY <1>1, <1>7 DEF Tasks
    <2>2. QED BY <1>6, <2>1 DEF taskToMethods, Methods
  <1>8. ASSUME NEW t \in Tasks, NEW m \in taskToMethods(t)
        PROVE  m \in Methods /\ ToSet(subTasks(m)) \subseteq Subtasks[t]
    <2>1. m \in Methods /\ htn.methods[m].task = t
      BY DEF taskToMethods
    <2>2. QED BY <2>1, ChildrenOfTask, SubtasksAreGraph DEF subTasks, Methods
  <1>9. QED BY <1>2, <1>3, <1>5, <1>6, <1>7, <1>8

\* The least of some numbers, if there are any.
LEMMA SmallestFacts ==
  ASSUME NEW C \in SUBSET Nat
  PROVE  /\ Smallest(C) \in SUBSET Nat /\ \A x \in Smallest(C) : x \in C
         /\ C # {} => Smallest(C) = {Min(C)} /\ Min(C) \in C /\ \A y \in C : Min(C) <= y
  <1>1. CASE C = {}
    BY <1>1 DEF Smallest
  <1>2. CASE C # {}
    BY <1>2, MinOfNumbers DEF Smallest
  <1>3. QED BY <1>1, <1>2

\* What the methods of a task take by their subtasks.
Offers(C, t, d) == UNION {Sums(C, subTasks(m), d) : m \in taskToMethods(t)}

\* Offers, and the smallest of them, are natural numbers.
LEMMA OffersTyped ==
  ASSUME htn \in Problems, NEW C \in [Tasks -> SUBSET Nat], NEW d \in Nat, NEW t \in Tasks
  PROVE  Offers(C, t, d) \in SUBSET Nat /\ Smallest(Offers(C, t, d)) \in SUBSET Nat
  <1> DEFINE zero == [u \in Tasks |-> 0]
  <1>1. zero \in [Tasks -> Nat]
    OBVIOUS
  <1>2. ASSUME NEW m \in taskToMethods(t)
        PROVE  Sums(C, subTasks(m), d) \in SUBSET Nat
    <2>1. subTasks(m) \in Seq(Tasks)
      BY MethodParts
    <2>2. \A u \in ToSet(subTasks(m)) : \A c \in C[u] : zero[u] <= c
      BY <2>1, SeqParts
    <2> HIDE DEF zero
    <2>3. QED BY <1>1, <2>1, <2>2, SumsAreAbove
  <1>3. Offers(C, t, d) \in SUBSET Nat
    BY <1>2 DEF Offers
  <1>4. QED BY <1>3, SmallestFacts

\* Levels of decompositions: what actions are given, and above them what some method takes.
Levels(f, given, d) ==
  /\ f \in [0 .. htn.numTasks -> [Tasks -> SUBSET Nat]]
  /\ \A n \in 0 .. htn.numTasks : \A t \in Tasks : t < htn.numActions => f[n][t] = {given[t]}
  /\ \A t \in Tasks : ~(t < htn.numActions) => f[0][t] = {}
  /\ \A n \in 1 .. htn.numTasks : \A t \in Tasks : ~(t < htn.numActions) => f[n][t] = Smallest(Offers(f[n - 1], t, d))
\* Actions are the first tasks.
LEMMA GivenForActions ==
  ASSUME htn \in Problems, NEW given \in [0 .. htn.numActions - 1 -> Nat]
  PROVE  \A t \in Tasks : t < htn.numActions => t \in 0 .. htn.numActions - 1 /\ given[t] \in Nat
  <1>1. htn.numTasks \in Nat /\ htn.numActions \in 0 .. htn.numTasks /\ Tasks = 0 .. htn.numTasks - 1
    BY ProblemFacts DEF Tasks
  <1>2. \A a, n : a \in 0 .. n /\ n \in Nat => \A t \in 0 .. n - 1 : t < a => t \in 0 .. a - 1
    OBVIOUS
  <1>3. \A t \in Tasks : t < htn.numActions => t \in 0 .. htn.numActions - 1
    BY Zenon, <1>1, <1>2
  <1>4. QED BY <1>3

\* What the cheapest decompositions take is the last level.
LEMMA CheapestFacts ==
  ASSUME htn \in Problems, NEW given \in [0 .. htn.numActions - 1 -> Nat], NEW d \in Nat
  PROVE  \E f : Levels(f, given, d) /\ f[htn.numTasks] = Cheapest(given, d)
  <1> DEFINE N == htn.numTasks
             A == [Tasks -> SUBSET Nat]
             base == [t \in Tasks |-> IF t < htn.numActions THEN {given[t]} ELSE {}]
             More(F) == [t \in Tasks |-> IF t < htn.numActions THEN {given[t]} ELSE Smallest(Offers(F, t, d))]
             step == [n \in 1 .. N |-> [F \in A |-> More(F)]]
             Level(n, F) == [t \in Tasks |->
                               IF t < htn.numActions THEN {given[t]}
                               ELSE IF n = 0 THEN {}
                               ELSE Smallest(UNION {Sums(F, subTasks(m), d) : m \in taskToMethods(t)})]
             g == CHOOSE g : g = [n \in 0 .. N |->
                    [t \in Tasks |->
                       IF t < htn.numActions THEN {given[t]}
                       ELSE IF n = 0 THEN {}
                       ELSE Smallest(UNION {Sums(g[n - 1], subTasks(m), d) : m \in taskToMethods(t)})]]
  <1>1. N \in Nat /\ \A t \in Tasks : t < htn.numActions => given[t] \in Nat
    BY ProblemFacts, GivenForActions
  <1>2. base \in A
    BY <1>1
  <1>3. \A F \in A : More(F) \in A
    BY <1>1, OffersTyped
  <1>4. Cheapest(given, d) = g[N]
    BY Zenon DEF Cheapest
  <1>5. /\ \A F : Level(0, F) = base
        /\ \A n \in 1 .. N : \A F : Level(n, F) = More(F)
    BY <1>1 DEF Offers
  <1>6. g = CHOOSE e : e = [n \in 0 .. N |-> Level(n, e[n - 1])]
    BY Zenon
  <1> HIDE DEF N, A, base, More, Level, g
  <1>7. step \in [1 .. N -> [A -> A]] /\ \A n \in 1 .. N : \A F \in A : step[n][F] = More(F)
    BY <1>3
  <1> HIDE DEF step
  <1>8. PICK f \in [0 .. N -> A] : Iterates(f, N, base, step)
    BY Zenon, <1>1, <1>2, <1>7, IterationExists
  <1>9. \A n \in 0 .. N : f[n] = Level(n, f[n - 1])
    <2>1. SUFFICES ASSUME NEW n \in 0 .. N
                   PROVE  f[n] = Level(n, f[n - 1])
      OBVIOUS
    <2>2. f[n] = IF n = 0 THEN base ELSE step[n][f[n - 1]]
      BY <1>8 DEF Iterates
    <2>3. n # 0 => n \in 1 .. N /\ f[n - 1] \in A
      BY <1>1
    <2>4. CASE n = 0
      BY <1>5, <2>2, <2>4
    <2>5. CASE n # 0
      BY <1>5, <1>7, <2>2, <2>3, <2>5
    <2>6. QED BY <2>4, <2>5
  <1>10. f = [n \in 0 .. N |-> Level(n, f[n - 1])]
    BY <1>9
  <1>11. g = [n \in 0 .. N |-> Level(n, g[n - 1])]
    BY <1>6, <1>10, Zenon
  <1>12. \A n \in 0 .. N : g[n] = Level(n, g[n - 1])
    BY <1>11
  <1>13. f[N] = g[N]
    <2> DEFINE T == {n \in 0 .. N : f[n] = g[n]}
    <2>1. 0 \in T
      <3>1. 0 \in 0 .. N /\ f[0] = base /\ g[0] = base
        BY <1>1, <1>5, <1>9, <1>12
      <3>2. QED BY <3>1
    <2>2. ASSUME NEW n \in 1 .. N, n - 1 \in T
          PROVE  n \in T
      <3>1. f[n - 1] = g[n - 1] /\ n \in 0 .. N
        BY <1>1, <2>2
      <3>2. f[n] = g[n]
        BY <1>9, <1>12, <3>1
      <3>3. QED BY <3>1, <3>2
    <2> HIDE DEF T
    <2>3. 0 .. N \subseteq T
      BY <1>1, <2>1, <2>2, LoopKeeps
    <2>4. N \in T
      BY <1>1, <2>3
    <2>5. QED BY <2>4 DEF T
  <1>14. Levels(f, given, d)
    <2>1. f[0] = base /\ \A n \in 1 .. N : f[n] = More(f[n - 1])
      BY <1>1, <1>5, <1>9
    <2>2. /\ \A t \in Tasks : /\ t < htn.numActions => base[t] = {given[t]}
                              /\ ~(t < htn.numActions) => base[t] = {}
          /\ \A F : \A t \in Tasks : /\ t < htn.numActions => More(F)[t] = {given[t]}
                                     /\ ~(t < htn.numActions) => More(F)[t] = Smallest(Offers(F, t, d))
      BY DEF base, More
    <2>3. f \in [0 .. htn.numTasks -> [Tasks -> SUBSET Nat]]
      BY DEF N, A
    <2>4. ASSUME NEW n \in 0 .. N, NEW t \in Tasks, t < htn.numActions
          PROVE  f[n][t] = {given[t]}
      <3>1. CASE n = 0
        BY <2>1, <2>2, <2>4, <3>1
      <3>2. CASE n # 0
        <4>1. n \in 1 .. N
          BY <1>1, <3>2
        <4>2. QED BY <2>1, <2>2, <2>4, <4>1
      <3>3. QED BY <3>1, <3>2
    <2>5. \A t \in Tasks : ~(t < htn.numActions) => f[0][t] = {}
      BY <2>1, <2>2
    <2>6. \A n \in 1 .. N : \A t \in Tasks : ~(t < htn.numActions) => f[n][t] = Smallest(Offers(f[n - 1], t, d))
      BY <2>1, <2>2
    <2>7. QED BY <2>3, <2>4, <2>5, <2>6 DEF Levels, N
  <1>15. QED BY <1>4, <1>13, <1>14 DEF N
\* Sums are numbers.
LEMMA SumsTyped ==
  ASSUME NEW C \in [Tasks -> SUBSET Nat], NEW list \in Seq(Tasks), NEW d \in Nat
  PROVE  Sums(C, list, d) \in SUBSET Nat
  <1> DEFINE zero == [u \in Tasks |-> 0]
  <1>1. zero \in [Tasks -> Nat] /\ \A u \in Tasks : zero[u] = 0
    OBVIOUS
  <1> HIDE DEF zero
  <1>2. \A u \in ToSet(list) : \A c \in C[u] : zero[u] <= c
    <2>1. ASSUME NEW u \in ToSet(list), NEW c \in C[u]
          PROVE  zero[u] <= c
      <3>1. u \in Tasks
        BY SeqParts
      <3>2. c \in Nat /\ zero[u] = 0
        BY <1>1, <3>1
      <3>3. QED BY <3>2
    <2>2. QED BY <2>1
  <1>3. QED BY <1>1, <1>2, SumsAreAbove

\* No decomposition takes less than what is implied.
AreBounds(v, x, given, d) ==
  /\ v \in [Tasks -> Nat] /\ x \in [Methods -> Nat]
  /\ \A a \in Tasks : a < htn.numActions => v[a] = given[a]
  /\ \A f : Levels(f, given, d) =>
       \A n \in 0 .. htn.numTasks :
         /\ \A t \in Tasks : \A c \in f[n][t] : v[t] <= c
         /\ \A m \in Methods : \A s \in Sums(f[n], subTasks(m), d) : x[m] <= s

\* At first only actions imply something.
LEMMA BoundsAtStart ==
  ASSUME htn \in Problems, NEW given \in [0 .. htn.numActions - 1 -> Nat], NEW d \in Nat,
         NEW v, v = [t \in Tasks |-> IF t < htn.numActions THEN given[t] ELSE 0],
         NEW x, x = [m \in Methods |-> 0]
  PROVE  AreBounds(v, x, given, d)
  <1>1. \A t \in Tasks : t < htn.numActions => given[t] \in Nat
    BY GivenForActions
  <1>2. v \in [Tasks -> Nat] /\ x \in [Methods -> Nat]
    BY <1>1
  <1>3. /\ \A t \in Tasks : t < htn.numActions => v[t] = given[t]
        /\ \A t \in Tasks : ~(t < htn.numActions) => v[t] = 0
        /\ \A m \in Methods : x[m] = 0
    OBVIOUS
  <1>4. ASSUME NEW f, Levels(f, given, d), NEW n \in 0 .. htn.numTasks
        PROVE  /\ \A t \in Tasks : \A c \in f[n][t] : v[t] <= c
               /\ \A m \in Methods : \A s \in Sums(f[n], subTasks(m), d) : x[m] <= s
    <2>1. f[n] \in [Tasks -> SUBSET Nat] /\ \A t \in Tasks : t < htn.numActions => f[n][t] = {given[t]}
      BY <1>4 DEF Levels
    <2>2. ASSUME NEW t \in Tasks, NEW c \in f[n][t]
          PROVE  v[t] <= c
      <3>1. c \in Nat
        BY <2>1
      <3>2. CASE t < htn.numActions
        <4>1. c = v[t]
          BY <1>3, <2>1, <3>2
        <4>2. QED BY <3>1, <4>1
      <3>3. CASE ~(t < htn.numActions)
        <4>1. v[t] = 0
          BY <1>3, <3>3
        <4>2. QED BY <3>1, <4>1
      <3>4. QED BY <3>2, <3>3
    <2>3. ASSUME NEW m \in Methods, NEW s \in Sums(f[n], subTasks(m), d)
          PROVE  x[m] <= s
      <3>1. s \in Nat
        BY <2>1, SumsTyped, MethodParts
      <3>2. x[m] = 0
        BY <1>3
      <3>3. QED BY <3>1, <3>2
    <2>4. QED BY <2>2, <2>3
  <1>5. QED BY <1>2, <1>3, <1>4 DEF AreBounds

\* A method takes no less than its subtasks imply.
LEMMA BoundsOfMethod ==
  ASSUME htn \in Problems, NEW given, NEW d \in Nat, NEW v, NEW x, AreBounds(v, x, given, d), NEW m \in Methods
  PROVE  AreBounds(v, [x EXCEPT ![m] = d + SumOver(v, subTasks(m))], given, d)
  <1> DEFINE sum == d + SumOver(v, subTasks(m))
             x2 == [x EXCEPT ![m] = sum]
  <1>1. v \in [Tasks -> Nat] /\ x \in [Methods -> Nat] /\ subTasks(m) \in Seq(Tasks)
    BY MethodParts DEF AreBounds
  <1>2. SumOver(v, subTasks(m)) \in Nat
    BY <1>1, SumTyped
  <1>3. sum \in Nat
    BY <1>2
  <1> HIDE DEF sum
  <1>4. x2 \in [Methods -> Nat] /\ x2[m] = sum /\ \A k \in Methods \ {m} : x2[k] = x[k]
    BY <1>1, <1>3
  <1> HIDE DEF x2
  <1>5. ASSUME NEW f, Levels(f, given, d), NEW n \in 0 .. htn.numTasks
        PROVE  /\ \A t \in Tasks : \A c \in f[n][t] : v[t] <= c
               /\ \A k \in Methods : \A s \in Sums(f[n], subTasks(k), d) : x2[k] <= s
    <2>1. /\ \A t \in Tasks : \A c \in f[n][t] : v[t] <= c
          /\ \A k \in Methods : \A s \in Sums(f[n], subTasks(k), d) : x[k] <= s
      BY <1>5 DEF AreBounds
    <2>2. f[n] \in [Tasks -> SUBSET Nat]
      BY <1>5 DEF Levels
    <2>3. \A u \in ToSet(subTasks(m)) : \A c \in f[n][u] : v[u] <= c
      BY <1>1, <2>1, SeqParts
    <2>4. \A s \in Sums(f[n], subTasks(m), d) : d + SumOver(v, subTasks(m)) <= s
      BY <1>1, <2>2, <2>3, SumsAreAbove
    <2>5. \A s \in Sums(f[n], subTasks(m), d) : x2[m] <= s
      BY <1>4, <2>4 DEF sum
    <2>6. \A k \in Methods : \A s \in Sums(f[n], subTasks(k), d) : x2[k] <= s
      BY <1>4, <2>1, <2>5
    <2>7. QED BY <2>1, <2>6
  <1>6. \A a \in Tasks : a < htn.numActions => v[a] = given[a]
    BY DEF AreBounds
  <1>7. AreBounds(v, x2, given, d)
    BY <1>1, <1>4, <1>5, <1>6 DEF AreBounds
  <1>8. QED BY <1>7 DEF x2, sum

\* What is least for the methods of a task is among what they have.
LEMMA LeastOfFacts ==
  ASSUME NEW x \in [Methods -> Nat], NEW M \in SUBSET Methods, M # {}
  PROVE  /\ LeastOf(x, M) \in Nat /\ \E m \in M : LeastOf(x, M) = x[m]
         /\ \A m \in M : LeastOf(x, M) <= x[m]
  <1> DEFINE T == {x[m] : m \in M}
  <1>1. T \in SUBSET Nat /\ T # {}
    OBVIOUS
  <1>2. LeastOf(x, M) = Min(T)
    BY DEF LeastOf
  <1>3. Min(T) \in T /\ \A y \in T : Min(T) <= y
    <2> HIDE DEF T
    <2>1. QED BY <1>1, MinOfNumbers
  <1>4. QED BY <1>1, <1>2, <1>3

\* A task takes no less than its cheapest method.
LEMMA BoundsOfTask ==
  ASSUME htn \in Problems, NEW given, NEW d \in Nat, NEW v, NEW x, AreBounds(v, x, given, d),
         NEW t \in Tasks, ~(t < htn.numActions)
  PROVE  AreBounds([v EXCEPT ![t] = LeastOf(x, taskToMethods(t))], x, given, d)
  <1> DEFINE least == LeastOf(x, taskToMethods(t))
             v2 == [v EXCEPT ![t] = least]
  <1>1. v \in [Tasks -> Nat] /\ x \in [Methods -> Nat]
    BY DEF AreBounds
  <1>2. taskToMethods(t) # {} /\ taskToMethods(t) \in SUBSET Methods
    BY MethodParts
  <1>3. least \in Nat /\ \A m \in taskToMethods(t) : least <= x[m]
    BY <1>1, <1>2, LeastOfFacts
  <1> HIDE DEF least
  <1>4. v2 \in [Tasks -> Nat] /\ v2[t] = least /\ \A u \in Tasks \ {t} : v2[u] = v[u]
    BY <1>1, <1>3
  <1> HIDE DEF v2
  <1>5. ASSUME NEW f, Levels(f, given, d), NEW n \in 0 .. htn.numTasks
        PROVE  /\ \A u \in Tasks : \A c \in f[n][u] : v2[u] <= c
               /\ \A m \in Methods : \A s \in Sums(f[n], subTasks(m), d) : x[m] <= s
    <2>1. \A k \in 0 .. htn.numTasks :
            /\ \A u \in Tasks : \A c \in f[k][u] : v[u] <= c
            /\ \A m \in Methods : \A s \in Sums(f[k], subTasks(m), d) : x[m] <= s
      BY <1>5 DEF AreBounds
    <2>2. ASSUME NEW c \in f[n][t]
          PROVE  least <= c
      <3>1. n # 0
        BY <1>5 DEF Levels
      <3>2. n \in 1 .. htn.numTasks /\ n - 1 \in 0 .. htn.numTasks
        <4>1. htn.numTasks \in Nat
          BY ProblemFacts
        <4>2. QED BY <3>1, <4>1
      <3>3. f[n - 1] \in [Tasks -> SUBSET Nat] /\ f[n][t] = Smallest(Offers(f[n - 1], t, d))
        BY <1>5, <3>2 DEF Levels
      <3>4. c \in Offers(f[n - 1], t, d)
        BY <3>3, OffersTyped, SmallestFacts
      <3>5. PICK m \in taskToMethods(t) : c \in Sums(f[n - 1], subTasks(m), d)
        BY <3>4 DEF Offers
      <3>6. x[m] <= c /\ least <= x[m]
        BY <1>2, <1>3, <2>1, <3>2, <3>5
      <3>7. x[m] \in Nat /\ c \in Nat
        <4>1. Offers(f[n - 1], t, d) \in SUBSET Nat
          BY <3>3, OffersTyped
        <4>2. QED BY <1>1, <1>2, <3>4, <4>1
      <3>8. QED BY <1>3, <3>6, <3>7
    <2>3. \A u \in Tasks : \A c \in f[n][u] : v2[u] <= c
      BY <1>4, <2>1, <2>2
    <2>4. QED BY <2>1, <2>3
  <1>6. \A a \in Tasks : a < htn.numActions => v2[a] = given[a]
    BY <1>4 DEF AreBounds
  <1>7. AreBounds(v2, x, given, d)
    BY <1>1, <1>4, <1>5, <1>6 DEF AreBounds
  <1>8. QED BY <1>7 DEF v2, least
\* The rest of a list, and what comes after it.
LEMMA RestOfList ==
  ASSUME NEW X, NEW list \in Seq(X), list # <<>>, NEW more \in Seq(X)
  PROVE  /\ Head(list) \in X /\ Tail(list) \o more \in Seq(X)
         /\ \A e \in ToSet(list) : e # Head(list) => e \in ToSet(Tail(list) \o more)
         /\ \A e \in ToSet(more) : e \in ToSet(Tail(list) \o more)
  <1>1. /\ Head(list) \in X /\ Tail(list) \in Seq(X) /\ Len(Tail(list)) = Len(list) - 1 /\ Len(list) \in Nat
        /\ \A i \in 1 .. Len(Tail(list)) : Tail(list)[i] = list[i + 1]
        /\ Head(list) = list[1]
    BY HeadTailProperties, LenProperties
  <1>2. DOMAIN list = 1 .. Len(list) /\ DOMAIN Tail(list) = 1 .. Len(Tail(list))
    BY <1>1, LenProperties
  <1>3. ASSUME NEW e \in ToSet(list), e # Head(list)
        PROVE  e \in ToSet(Tail(list))
    <2>1. PICK i \in 1 .. Len(list) : list[i] = e
      BY <1>2 DEF ToSet
    <2>2. i # 1
      BY <1>1, <1>3, <2>1
    <2>3. i - 1 \in 1 .. Len(Tail(list)) /\ (i - 1) + 1 = i
      BY <1>1, <2>2
    <2>4. Tail(list)[i - 1] = e
      BY <1>1, <2>1, <2>3
    <2>5. QED BY <1>2, <2>3, <2>4 DEF ToSet
  <1>4. Tail(list) \o more \in Seq(X) /\ ToSet(Tail(list) \o more) = ToSet(Tail(list)) \union ToSet(more)
    BY <1>1, ConcatSet
  <1>5. QED BY <1>1, <1>3, <1>4

\* What may be on the list.
AbstractTasks == {t \in Tasks : ~(t < htn.numActions)}
ListNodes == {MethodNode(m) : m \in Methods} \union {TaskNode(t) : t \in AbstractTasks}

\* The values of a method are those of its subtasks, or nothing has come up to it yet.
MethodDone(m, v, w, x, y) == x[m] = SumOver(v, subTasks(m)) /\ y[m] = 1 + SumOver(w, subTasks(m))
MethodUntouched(m, w, x, y) == x[m] = 0 /\ y[m] = 0 /\ \A u \in ToSet(subTasks(m)) : w[u] = 0
TaskDone(t, v, w, x, y) == v[t] = LeastOf(x, taskToMethods(t)) /\ w[t] = LeastOf(y, taskToMethods(t))

\* Whatever is out of date is on the list.
ListOK(list, v, w, x, y) ==
  /\ list \in Seq(ListNodes)
  /\ \A m \in Methods : MethodNode(m) \in ToSet(list) \/ MethodDone(m, v, w, x, y) \/ MethodUntouched(m, w, x, y)
  /\ \A t \in AbstractTasks : TaskNode(t) \in ToSet(list) \/ TaskDone(t, v, w, x, y)

\* The methods that have a task among their subtasks.
LEMMA MethodsWithSubtask ==
  ASSUME htn \in Problems, NEW t
  PROVE  /\ MethodNodes(stToMethod(t)) \in Seq(ListNodes)
         /\ \A m \in Methods : t \in ToSet(subTasks(m)) => MethodNode(m) \in ToSet(MethodNodes(stToMethod(t)))
  <1> DEFINE C == {m \in Methods : t \in ToSet(subTasks(m))}
             list == stToMethod(t)
  <1>1. C \subseteq Methods /\ C \in SUBSET Nat /\ IsFiniteSet(C)
    BY MethodParts, FS_Subset
  <1>2. list = Ascending(C)
    BY DEF stToMethod
  <1> HIDE DEF C, list
  <1>3. list \in Seq(C) /\ ToSet(list) = C
    BY <1>1, <1>2, AscendingList
  <1>4. /\ Len(list) \in Nat /\ DOMAIN list = 1 .. Len(list) /\ \A i \in DOMAIN list : list[i] \in C
    BY <1>3, SeqParts
  <1>5. MethodNodes(list) = [i \in 1 .. Len(list) |-> MethodNode(list[i])]
    BY <1>4 DEF MethodNodes
  <1>6. \A i \in 1 .. Len(list) : MethodNode(list[i]) \in ListNodes
    BY <1>1, <1>4 DEF ListNodes
  <1>7. MethodNodes(list) \in Seq(ListNodes)
    <2>1. [i \in 1 .. Len(list) |-> MethodNode(list[i])] \in [1 .. Len(list) -> ListNodes]
      BY <1>6
    <2>2. QED BY <1>4, <1>5, <2>1, SeqDef
  <1>8. ASSUME NEW m \in C
        PROVE  MethodNode(m) \in ToSet(MethodNodes(list))
    <2>1. PICK i \in 1 .. Len(list) : list[i] = m
      BY <1>3, <1>4 DEF ToSet
    <2>2. i \in DOMAIN MethodNodes(list) /\ MethodNodes(list)[i] = MethodNode(m)
      BY <1>5, <2>1
    <2>3. QED BY <2>2 DEF ToSet
  <1>9. QED BY <1>7, <1>8 DEF C, list
\* Nodes of the list are told apart.
LEMMA ListNodeFacts ==
  /\ \A e \in ListNodes : /\ e.isMethod => e.id \in Methods /\ e = MethodNode(e.id)
                          /\ ~e.isMethod => e.id \in AbstractTasks /\ e = TaskNode(e.id)
  /\ \A m, k : MethodNode(m) = MethodNode(k) => m = k
  /\ \A t, u : TaskNode(t) = TaskNode(u) => t = u
  /\ \A m, t : MethodNode(m) # TaskNode(t)
  <1>1. ASSUME NEW e \in ListNodes
        PROVE  /\ e.isMethod => e.id \in Methods /\ e = MethodNode(e.id)
               /\ ~e.isMethod => e.id \in AbstractTasks /\ e = TaskNode(e.id)
    <2>1. CASE \E m \in Methods : e = MethodNode(m)
      BY <2>1 DEF MethodNode
    <2>2. CASE \E t \in AbstractTasks : e = TaskNode(t)
      BY <2>2 DEF TaskNode
    <2>3. QED BY <2>1, <2>2 DEF ListNodes
  <1>2. \A m : MethodNode(m).isMethod /\ MethodNode(m).id = m
    BY DEF MethodNode
  <1>3. \A t : ~TaskNode(t).isMethod /\ TaskNode(t).id = t
    BY DEF TaskNode
  <1>4. QED BY <1>1, <1>2, <1>3

\* A method that was looked at is up to date, and its task is looked at if that has changed it.
LEMMA ListAfterMethod ==
  ASSUME htn \in Problems, NEW list, NEW v, NEW w \in [Tasks -> Nat],
         NEW x \in [Methods -> Nat], NEW y \in [Methods -> Nat], ListOK(list, v, w, x, y),
         NEW m \in Methods, list # <<>>, Head(list) = MethodNode(m),
         NEW cost, cost = SumOver(v, subTasks(m)), NEW distance, distance = 1 + SumOver(w, subTasks(m)),
         NEW more, more = IF x[m] # cost \/ y[m] # distance THEN <<TaskNode(htn.methods[m].task)>> ELSE <<>>
  PROVE  ListOK(Tail(list) \o more, v, w, [x EXCEPT ![m] = cost], [y EXCEPT ![m] = distance])
  <1> DEFINE x2 == [x EXCEPT ![m] = cost]
             y2 == [y EXCEPT ![m] = distance]
             t0 == htn.methods[m].task
             list2 == Tail(list) \o more
  <1>1. t0 \in AbstractTasks /\ TaskNode(t0) \in ListNodes
    BY MethodParts DEF AbstractTasks, ListNodes
  <1>2. /\ DOMAIN x2 = Methods /\ DOMAIN y2 = Methods /\ x2[m] = cost /\ y2[m] = distance
        /\ \A k \in Methods \ {m} : x2[k] = x[k] /\ y2[k] = y[k]
    OBVIOUS
  <1>3. /\ more \in Seq(ListNodes)
        /\ x[m] # cost \/ y[m] # distance => TaskNode(t0) \in ToSet(more)
    <2>1. CASE x[m] # cost \/ y[m] # distance
      <3>1. more = <<TaskNode(t0)>>
        BY <2>1
      <3>2. \A e : 1 \in DOMAIN <<e>> /\ <<e>>[1] = e /\ (e \in ListNodes => <<e>> \in Seq(ListNodes))
        OBVIOUS
      <3>3. 1 \in DOMAIN more /\ more[1] = TaskNode(t0) /\ more \in Seq(ListNodes)
        BY Zenon, <1>1, <3>1, <3>2
      <3>4. QED BY <3>3 DEF ToSet
    <2>2. CASE ~(x[m] # cost \/ y[m] # distance)
      BY <2>2
    <2>3. QED BY <2>1, <2>2
  <1>4. /\ list2 \in Seq(ListNodes)
        /\ \A e \in ToSet(list) : e # MethodNode(m) => e \in ToSet(list2)
        /\ \A e \in ToSet(more) : e \in ToSet(list2)
    BY <1>3, RestOfList DEF ListOK
  <1> HIDE DEF x2, y2, t0, list2
  <1>5. ASSUME NEW k \in Methods
        PROVE  MethodNode(k) \in ToSet(list2) \/ MethodDone(k, v, w, x2, y2) \/ MethodUntouched(k, w, x2, y2)
    <2>1. CASE k = m
      BY <1>2, <2>1 DEF MethodDone
    <2>2. CASE k # m
      <3>1. x2[k] = x[k] /\ y2[k] = y[k]
        BY <1>2, <2>2
      <3>2. MethodNode(k) \in ToSet(list) \/ MethodDone(k, v, w, x, y) \/ MethodUntouched(k, w, x, y)
        BY DEF ListOK
      <3>3. MethodNode(k) \in ToSet(list) => MethodNode(k) \in ToSet(list2)
        BY <1>4, <2>2, ListNodeFacts
      <3>4. QED BY <3>1, <3>2, <3>3 DEF MethodDone, MethodUntouched
    <2>3. QED BY <2>1, <2>2
  <1>6. ASSUME NEW t \in AbstractTasks
        PROVE  TaskNode(t) \in ToSet(list2) \/ TaskDone(t, v, w, x2, y2)
    <2>1. TaskNode(t) \in ToSet(list) => TaskNode(t) \in ToSet(list2)
      BY <1>4, ListNodeFacts
    <2>2. CASE t = t0 /\ (x[m] # cost \/ y[m] # distance)
      BY <1>3, <1>4, <2>2
    <2>3. CASE ~(t = t0 /\ (x[m] # cost \/ y[m] # distance))
      <3>1. \A k \in taskToMethods(t) : k \in Methods /\ htn.methods[k].task = t
        BY DEF taskToMethods
      <3>2. \A k \in taskToMethods(t) : x2[k] = x[k] /\ y2[k] = y[k]
        BY <1>2, <2>3, <3>1 DEF t0
      <3>3. /\ {x2[k] : k \in taskToMethods(t)} = {x[k] : k \in taskToMethods(t)}
            /\ {y2[k] : k \in taskToMethods(t)} = {y[k] : k \in taskToMethods(t)}
        BY <3>2
      <3>4. /\ LeastOf(x2, taskToMethods(t)) = LeastOf(x, taskToMethods(t))
            /\ LeastOf(y2, taskToMethods(t)) = LeastOf(y, taskToMethods(t))
        BY <3>3 DEF LeastOf
      <3>5. TaskNode(t) \in ToSet(list) \/ TaskDone(t, v, w, x, y)
        BY DEF ListOK
      <3>6. QED BY <2>1, <3>4, <3>5 DEF TaskDone
    <2>4. QED BY <2>2, <2>3
  <1>7. ListOK(list2, v, w, x2, y2)
    BY <1>4, <1>5, <1>6 DEF ListOK
  <1>8. QED BY <1>7 DEF list2, x2, y2

\* A task that was looked at is up to date, and the methods that it is a subtask of are looked at if that has changed it.
LEMMA ListAfterTask ==
  ASSUME htn \in Problems, NEW list, NEW v \in [Tasks -> Nat], NEW w \in [Tasks -> Nat],
         NEW x, NEW y, ListOK(list, v, w, x, y),
         NEW t \in AbstractTasks, list # <<>>, Head(list) = TaskNode(t),
         NEW cost \in Nat, cost = LeastOf(x, taskToMethods(t)),
         NEW distance \in Nat, distance = LeastOf(y, taskToMethods(t)),
         NEW more, more = IF v[t] # cost \/ w[t] # distance THEN MethodNodes(stToMethod(t)) ELSE <<>>
  PROVE  ListOK(Tail(list) \o more, [v EXCEPT ![t] = cost], [w EXCEPT ![t] = distance], x, y)
  <1> DEFINE v2 == [v EXCEPT ![t] = cost]
             w2 == [w EXCEPT ![t] = distance]
             list2 == Tail(list) \o more
  <1>1. t \in Tasks
    BY DEF AbstractTasks
  <1>2. /\ v2 \in [Tasks -> Nat] /\ w2 \in [Tasks -> Nat] /\ v2[t] = cost /\ w2[t] = distance
        /\ \A u \in Tasks \ {t} : v2[u] = v[u] /\ w2[u] = w[u]
    BY <1>1
  <1>3. /\ more \in Seq(ListNodes)
        /\ v[t] # cost \/ w[t] # distance =>
             \A m \in Methods : t \in ToSet(subTasks(m)) => MethodNode(m) \in ToSet(more)
    <2>1. CASE v[t] # cost \/ w[t] # distance
      BY <2>1, MethodsWithSubtask
    <2>2. CASE ~(v[t] # cost \/ w[t] # distance)
      BY <2>2
    <2>3. QED BY <2>1, <2>2
  <1>4. /\ list2 \in Seq(ListNodes)
        /\ \A e \in ToSet(list) : e # TaskNode(t) => e \in ToSet(list2)
        /\ \A e \in ToSet(more) : e \in ToSet(list2)
    BY <1>3, RestOfList DEF ListOK
  <1> HIDE DEF v2, w2, list2
  <1>5. ASSUME NEW m \in Methods
        PROVE  MethodNode(m) \in ToSet(list2) \/ MethodDone(m, v2, w2, x, y) \/ MethodUntouched(m, w2, x, y)
    <2>1. CASE t \in ToSet(subTasks(m)) /\ (v[t] # cost \/ w[t] # distance)
      BY <1>3, <1>4, <2>1
    <2>2. CASE ~(t \in ToSet(subTasks(m)) /\ (v[t] # cost \/ w[t] # distance))
      <3>1. subTasks(m) \in Seq(Tasks) /\ ToSet(subTasks(m)) \subseteq Tasks
        BY MethodParts, SeqParts
      <3>2. \A u \in ToSet(subTasks(m)) : v2[u] = v[u] /\ w2[u] = w[u]
        BY <1>2, <2>2, <3>1
      <3>3. /\ SumOver(v2, subTasks(m)) = SumOver(v, subTasks(m))
            /\ SumOver(w2, subTasks(m)) = SumOver(w, subTasks(m))
        BY <1>2, <3>1, <3>2, SumStays
      <3>4. MethodNode(m) \in ToSet(list) \/ MethodDone(m, v, w, x, y) \/ MethodUntouched(m, w, x, y)
        BY DEF ListOK
      <3>5. MethodNode(m) \in ToSet(list) => MethodNode(m) \in ToSet(list2)
        BY <1>4, ListNodeFacts
      <3>6. QED BY <3>2, <3>3, <3>4, <3>5 DEF MethodDone, MethodUntouched
    <2>3. QED BY <2>1, <2>2
  <1>6. ASSUME NEW u \in AbstractTasks
        PROVE  TaskNode(u) \in ToSet(list2) \/ TaskDone(u, v2, w2, x, y)
    <2>1. CASE u = t
      BY <1>2, <2>1 DEF TaskDone
    <2>2. CASE u # t
      <3>1. v2[u] = v[u] /\ w2[u] = w[u]
        BY <1>2, <2>2 DEF AbstractTasks
      <3>2. TaskNode(u) \in ToSet(list) \/ TaskDone(u, v, w, x, y)
        BY DEF ListOK
      <3>3. TaskNode(u) \in ToSet(list) => TaskNode(u) \in ToSet(list2)
        BY <1>4, <2>2, ListNodeFacts
      <3>4. QED BY <3>1, <3>2, <3>3 DEF TaskDone
    <2>3. QED BY <2>1, <2>2
  <1>7. ListOK(list2, v2, w2, x, y)
    BY <1>4, <1>5, <1>6 DEF ListOK
  <1>8. QED BY <1>7 DEF list2, v2, w2
\* The list starts with the methods that have actions as subtasks.
LEMMA StartOfList ==
  ASSUME htn \in Problems
  PROVE  /\ MethodsOfActions \in Seq(ListNodes)
         /\ \A a \in 0 .. htn.numActions - 1 : \A e \in ToSet(MethodNodes(stToMethod(a))) : e \in ToSet(MethodsOfActions)
  <1> DEFINE n == htn.numActions
             X == Seq(ListNodes)
             part(a) == MethodNodes(stToMethod(a))
             step == [i \in 1 .. n |-> [list \in X |-> list \o part(i - 1)]]
             g == CHOOSE g : g = [i \in 0 .. n |-> IF i = 0 THEN <<>> ELSE g[i - 1] \o MethodNodes(stToMethod(i - 1))]
  <1>1. n \in Nat
    BY ProblemFacts
  <1>2. MethodsOfActions = g[n]
    BY Zenon DEF MethodsOfActions
  <1>3. g = CHOOSE e : e = [i \in 0 .. n |-> IF i = 0 THEN <<>> ELSE e[i - 1] \o part(i - 1)]
    BY Zenon
  <1>4. \A a : part(a) \in X
    BY MethodsWithSubtask
  <1>5. \A list \in X : \A a : list \o part(a) \in X /\ ToSet(list \o part(a)) = ToSet(list) \union ToSet(part(a))
    BY <1>4, ConcatSet
  <1>6. <<>> \in X
    OBVIOUS
  <1> HIDE DEF n, X, part, g
  <1>7. step \in [1 .. n -> [X -> X]] /\ \A i \in 1 .. n : \A list \in X : step[i][list] = list \o part(i - 1)
    BY <1>5
  <1> HIDE DEF step
  <1>8. PICK f \in [0 .. n -> X] : Iterates(f, n, <<>>, step)
    BY Zenon, <1>1, <1>6, <1>7, IterationExists
  <1>9. \A i \in 0 .. n : f[i] = IF i = 0 THEN <<>> ELSE f[i - 1] \o part(i - 1)
    <2>1. SUFFICES ASSUME NEW i \in 0 .. n
                   PROVE  f[i] = IF i = 0 THEN <<>> ELSE f[i - 1] \o part(i - 1)
      OBVIOUS
    <2>2. f[i] = IF i = 0 THEN <<>> ELSE step[i][f[i - 1]]
      BY <1>8 DEF Iterates
    <2>3. i # 0 => i \in 1 .. n /\ f[i - 1] \in X
      BY <1>1
    <2>4. i # 0 => step[i][f[i - 1]] = f[i - 1] \o part(i - 1)
      BY <1>7, <2>3
    <2>5. QED BY <2>2, <2>4
  <1>10. f = [i \in 0 .. n |-> IF i = 0 THEN <<>> ELSE f[i - 1] \o part(i - 1)]
    BY <1>9
  <1>11. g = [i \in 0 .. n |-> IF i = 0 THEN <<>> ELSE g[i - 1] \o part(i - 1)]
    BY <1>3, <1>10, Zenon
  <1>12. \A i \in 0 .. n : g[i] = IF i = 0 THEN <<>> ELSE g[i - 1] \o part(i - 1)
    BY <1>11
  <1> DEFINE T == {i \in 0 .. n : /\ g[i] \in X
                                  /\ \A a \in 0 .. i - 1 : \A e \in ToSet(part(a)) : e \in ToSet(g[i])}
  <1>13. 0 \in T
    <2>1. 0 \in 0 .. n /\ g[0] = <<>> /\ 0 .. 0 - 1 = {}
      BY <1>1, <1>12
    <2>2. QED BY <1>6, <2>1
  <1>14. ASSUME NEW i \in 1 .. n, i - 1 \in T
         PROVE  i \in T
    <2>1. i \in 0 .. n /\ i # 0 /\ i \in Nat
      BY <1>1
    <2>2. g[i] = g[i - 1] \o part(i - 1) /\ g[i - 1] \in X
      BY <1>12, <1>14, <2>1
    <2>3. g[i] \in X /\ ToSet(g[i]) = ToSet(g[i - 1]) \union ToSet(part(i - 1))
      BY <1>5, <2>2
    <2>4. ASSUME NEW a \in 0 .. i - 1, NEW e \in ToSet(part(a))
          PROVE  e \in ToSet(g[i])
      <3>1. CASE a = i - 1
        BY <2>3, <2>4, <3>1
      <3>2. CASE a # i - 1
        <4>1. a \in 0 .. (i - 1) - 1
          BY <2>1, <3>2
        <4>2. e \in ToSet(g[i - 1])
          BY <1>14, <2>4, <4>1
        <4>3. QED BY <2>3, <4>2
      <3>3. QED BY <3>1, <3>2
    <2>5. QED BY <2>1, <2>3, <2>4
  <1> HIDE DEF T
  <1>15. 0 .. n \subseteq T
    BY <1>1, <1>13, <1>14, LoopKeeps
  <1>16. n \in T
    BY <1>1, <1>15
  <1>17. QED BY <1>2, <1>16 DEF T, n, X, part

\* Nothing is out of date at the start but what is on the list.
LEMMA ListAtStart ==
  ASSUME htn \in Problems, NEW v, NEW w, NEW x, NEW y,
         \A t \in AbstractTasks : v[t] = 0 /\ w[t] = 0,
         x = [m \in Methods |-> 0], y = [m \in Methods |-> 0]
  PROVE  ListOK(MethodsOfActions, v, w, x, y)
  <1>1. ASSUME NEW m \in Methods, MethodNode(m) \notin ToSet(MethodsOfActions)
        PROVE  MethodUntouched(m, w, x, y)
    <2>1. subTasks(m) \in Seq(Tasks)
      BY MethodParts
    <2>2. ASSUME NEW u \in ToSet(subTasks(m))
          PROVE  w[u] = 0
      <3>1. u \in Tasks
        BY <2>1, SeqParts
      <3>2. MethodNode(m) \in ToSet(MethodNodes(stToMethod(u)))
        BY MethodsWithSubtask
      <3>3. u \notin 0 .. htn.numActions - 1
        BY <1>1, <3>2, StartOfList
      <3>4. ~(u < htn.numActions)
        <4>1. u \in Nat /\ htn.numActions \in Nat
          BY <3>1, ProblemFacts
        <4>2. QED BY <3>3, <4>1
      <3>5. QED BY <3>1, <3>4 DEF AbstractTasks
    <2>3. x[m] = 0 /\ y[m] = 0
      OBVIOUS
    <2>4. QED BY <2>2, <2>3 DEF MethodUntouched
  <1>2. ASSUME NEW t \in AbstractTasks
        PROVE  TaskDone(t, v, w, x, y)
    <2>1. taskToMethods(t) # {} /\ taskToMethods(t) \in SUBSET Methods
      BY MethodParts DEF AbstractTasks
    <2>2. x \in [Methods -> Nat] /\ y \in [Methods -> Nat] /\ \A m \in Methods : x[m] = 0 /\ y[m] = 0
      OBVIOUS
    <2>3. LeastOf(x, taskToMethods(t)) = 0
      BY <2>1, <2>2, LeastOfFacts
    <2>4. LeastOf(y, taskToMethods(t)) = 0
      BY <2>1, <2>2, LeastOfFacts
    <2>5. QED BY <2>3, <2>4 DEF TaskDone
  <1>3. QED BY <1>1, <1>2, StartOfList DEF ListOK
\* What an acyclic task is decomposed into is acyclic, and in components with smaller numbers.
LEMMA BelowAcyclic ==
  ASSUME htn \in Problems, ComponentsKnown, NEW t \in Tasks, AcyclicInOrder[taskToSCC[t]], NEW u \in Subtasks[t]
  PROVE  u \in Tasks /\ AcyclicInOrder[taskToSCC[u]] /\ taskToSCC[u] < taskToSCC[t]
  <1>1. u \in Tasks /\ LeadsTo(t, u)
    BY SubtasksAreGraph, LeadsToFacts
  <1>2. taskToSCC[t] \in SCCs /\ taskToSCC[u] \in SCCs
    BY <1>1, ComponentsFacts
  <1>3. \A c \in SCCs : AcyclicInOrder[c] <=> ~RecursBelow(c)
    BY AcyclicPass
  <1>4. taskToSCC[t] \notin sccsCyclic /\ \A d \in sccG(taskToSCC[t]) : ~RecursBelow(d)
    BY <1>2, <1>3, AcyclicStep
  <1>5. taskToSCC[u] # taskToSCC[t]
    <2>1. SUFFICES ASSUME taskToSCC[u] = taskToSCC[t]
                   PROVE  FALSE
      OBVIOUS
    <2>2. LeadsTo(u, t)
      BY <1>1, <2>1, ComponentsFacts
    <2>3. Recurs(t)
      BY <2>2, FirstStep DEF Recurs
    <2>4. QED BY <1>4, <2>3 DEF ComponentsKnown, CyclicOK
  <1>6. taskToSCC[u] \in sccG(taskToSCC[t])
    BY <1>5, SccGraph
  <1>7. taskToSCC[u] < taskToSCC[t]
    BY <1>2, <1>6, SccGraph
  <1>8. QED BY <1>1, <1>2, <1>3, <1>4, <1>6, <1>7

\* There are no more components than tasks.
LEMMA ComponentsAreFew ==
  ASSUME htn \in Problems, ComponentsKnown
  PROVE  numSCCs \in 0 .. htn.numTasks
  <1> DEFINE T == {taskToSCC[t] : t \in DOMAIN taskToSCC}
             f == [t \in Tasks |-> taskToSCC[t]]
  <1>1. DOMAIN taskToSCC = Tasks
    BY DEF ComponentsKnown, Components
  <1>2. f \in Surjection(Tasks, T)
    BY <1>1 DEF Surjection
  <1>3. numSCCs = Cardinality(T)
    BY DEF numSCCs
  <1>4. IsFiniteSet(Tasks) /\ htn.numTasks \in Nat
    BY ProblemFacts
  <1>5. Cardinality(Tasks) = htn.numTasks
    <2>1. \A n \in Nat : Cardinality(0 .. n - 1) = n
      <3>1. SUFFICES ASSUME NEW n \in Nat
                     PROVE  Cardinality(0 .. n - 1) = n
        OBVIOUS
      <3>2. Cardinality(0 .. n - 1) = IF 0 > n - 1 THEN 0 ELSE (n - 1) - 0 + 1
        BY FS_Interval
      <3>3. QED BY <3>2
    <2>2. QED BY <1>4, <2>1 DEF Tasks
  <1> HIDE DEF f, T
  <1>6. Cardinality(T) <= Cardinality(Tasks)
    BY <1>2, <1>4, FS_Surjection
  <1>7. numSCCs \in Nat
    BY ComponentsFacts
  <1>8. QED BY <1>3, <1>4, <1>5, <1>6, <1>7

\* When the list is empty, the values of acyclic tasks and their methods are up to date: decompositions count, so that
\* none of these methods was left out.
LEMMA AcyclicDone ==
  ASSUME htn \in Problems, ComponentsKnown,
         NEW v, NEW w \in [Tasks -> Nat], NEW x, NEW y \in [Methods -> Nat], ListOK(<<>>, v, w, x, y),
         \A a \in Tasks : a < htn.numActions => w[a] = 1
  PROVE  \A t \in AbstractTasks : AcyclicInOrder[taskToSCC[t]] =>
           /\ TaskDone(t, v, w, x, y)
           /\ \A m \in taskToMethods(t) : MethodDone(m, v, w, x, y)
  <1>1. /\ \A m \in Methods : MethodDone(m, v, w, x, y) \/ MethodUntouched(m, w, x, y)
        /\ \A t \in AbstractTasks : TaskDone(t, v, w, x, y)
    BY DEF ListOK, ToSet
  <1>2. ASSUME NEW m \in Methods, \A u \in ToSet(subTasks(m)) : w[u] # 0
        PROVE  MethodDone(m, v, w, x, y)
    <2>1. subTasks(m) \in Seq(Tasks) /\ subTasks(m) # <<>>
      BY MethodParts
    <2>2. 1 \in DOMAIN subTasks(m)
      BY <2>1, LenProperties, EmptySeq
    <2>3. subTasks(m)[1] \in ToSet(subTasks(m))
      BY <2>1, <2>2, SeqParts
    <2>4. ~MethodUntouched(m, w, x, y)
      BY <1>2, <2>3 DEF MethodUntouched
    <2>5. QED BY <1>1, <2>4
  <1> DEFINE Bad == {c \in SCCs : \E t \in Tasks : taskToSCC[t] = c /\ AcyclicInOrder[c] /\ w[t] = 0}
  <1>3. Bad = {}
    <2>1. SUFFICES ASSUME Bad # {}
                   PROVE  FALSE
      OBVIOUS
    <2>2. Bad \in SUBSET Nat
      BY ComponentsFacts
    <2>3. PICK c \in Bad : \A e \in Bad : c <= e
      <3> HIDE DEF Bad
      <3>1. QED BY <2>1, <2>2, LeastNumber
    <2>4. PICK t \in Tasks : taskToSCC[t] = c /\ AcyclicInOrder[taskToSCC[t]] /\ w[t] = 0
      BY <2>3
    <2>5. t \in AbstractTasks
      BY <2>4 DEF AbstractTasks
    <2>6. ASSUME NEW u \in Subtasks[t]
          PROVE  w[u] # 0
      <3>1. u \in Tasks /\ AcyclicInOrder[taskToSCC[u]] /\ taskToSCC[u] < c
        BY <2>4, BelowAcyclic
      <3>2. taskToSCC[u] \in SCCs /\ taskToSCC[u] \in Nat /\ c \in Nat
        BY <3>1, ComponentsFacts
      <3>3. taskToSCC[u] \notin Bad
        <4> HIDE DEF Bad
        <4>1. QED BY <2>3, <3>1, <3>2
      <3>4. QED BY <3>1, <3>2, <3>3
    <2> HIDE DEF Bad
    <2>7. ASSUME NEW m \in taskToMethods(t)
          PROVE  y[m] # 0
      <3>1. m \in Methods /\ ToSet(subTasks(m)) \subseteq Subtasks[t] /\ subTasks(m) \in Seq(Tasks)
        BY MethodParts
      <3>2. MethodDone(m, v, w, x, y)
        BY <1>2, <2>6, <3>1
      <3>3. SumOver(w, subTasks(m)) \in Nat
        BY <3>1, SumTyped
      <3>4. y[m] = 1 + SumOver(w, subTasks(m))
        BY <3>2 DEF MethodDone
      <3>5. QED BY <3>3, <3>4
    <2>8. taskToMethods(t) # {} /\ taskToMethods(t) \in SUBSET Methods
      BY <2>5, MethodParts DEF AbstractTasks
    <2>9. \E m \in taskToMethods(t) : LeastOf(y, taskToMethods(t)) = y[m]
      BY <2>8, LeastOfFacts
    <2>10. w[t] = LeastOf(y, taskToMethods(t))
      BY <1>1, <2>5 DEF TaskDone
    <2>11. QED BY <2>4, <2>7, <2>9, <2>10
  <1>4. ASSUME NEW t \in Tasks, AcyclicInOrder[taskToSCC[t]]
        PROVE  w[t] # 0
    BY <1>3, <1>4, ComponentsFacts
  <1> HIDE DEF Bad
  <1>5. ASSUME NEW t \in AbstractTasks, AcyclicInOrder[taskToSCC[t]], NEW m \in taskToMethods(t)
        PROVE  MethodDone(m, v, w, x, y)
    <2>1. t \in Tasks
      BY DEF AbstractTasks
    <2>2. m \in Methods /\ ToSet(subTasks(m)) \subseteq Subtasks[t]
      BY <2>1, MethodParts
    <2>3. \A u \in ToSet(subTasks(m)) : w[u] # 0
      BY <1>4, <1>5, <2>1, <2>2, BelowAcyclic
    <2>4. QED BY <1>2, <2>2, <2>3
  <1>6. QED BY <1>1, <1>5
\* The values of acyclic tasks are those of their methods, and these are those of the subtasks.
UpToDate(v, x, d) ==
  \A t \in AbstractTasks : AcyclicInOrder[taskToSCC[t]] =>
    /\ v[t] = LeastOf(x, taskToMethods(t))
    /\ \A m \in taskToMethods(t) : x[m] = d + SumOver(v, subTasks(m))

\* Where nothing recurs there is one value on every level that is high enough, the one implied.
LEMMA AcyclicValues ==
  ASSUME htn \in Problems, ComponentsKnown, NEW given, NEW d \in Nat, NEW v, NEW x, AreBounds(v, x, given, d),
         NEW f, Levels(f, given, d), UpToDate(v, x, d)
  PROVE  \A t \in Tasks : AcyclicInOrder[taskToSCC[t]] => f[htn.numTasks][t] = {v[t]}
  <1> DEFINE N == htn.numTasks
             Below(k) == {t \in Tasks : AcyclicInOrder[taskToSCC[t]] /\ taskToSCC[t] < k}
             T == {k \in 0 .. numSCCs : \A n \in k .. N : \A t \in Below(k) : f[n][t] = {v[t]}}
  <1>10. /\ v \in [Tasks -> Nat] /\ x \in [Methods -> Nat]
         /\ \A a \in Tasks : a < htn.numActions => v[a] = given[a]
    BY DEF AreBounds
  <1>1. N \in Nat /\ numSCCs \in 0 .. N /\ \A t \in Tasks : taskToSCC[t] \in 0 .. numSCCs - 1
    BY ProblemFacts, ComponentsFacts, ComponentsAreFew
  <1>2. \A n \in 0 .. N : /\ f[n] \in [Tasks -> SUBSET Nat]
                          /\ \A t \in Tasks : t < htn.numActions => f[n][t] = {given[t]}
    BY DEF Levels
  <1>3. \A n \in 1 .. N : \A t \in AbstractTasks : f[n][t] = Smallest(Offers(f[n - 1], t, d))
    BY DEF Levels, AbstractTasks
  <1> HIDE DEF N
  <1>4. 0 \in T
    <2>1. \A t \in Tasks : ~(taskToSCC[t] < 0)
      BY <1>1
    <2>2. 0 \in 0 .. numSCCs
      BY <1>1
    <2>3. QED BY <2>1, <2>2
  <1>5. ASSUME NEW k \in 1 .. numSCCs, k - 1 \in T
        PROVE  k \in T
    <2>1. k \in 0 .. numSCCs
      BY <1>1
    <2>2. ASSUME NEW n \in k .. N, NEW t \in Below(k)
          PROVE  f[n][t] = {v[t]}
      <3>1. /\ n \in 0 .. N /\ n \in 1 .. N /\ n - 1 \in 0 .. N /\ n \in k - 1 .. N /\ n - 1 \in k - 1 .. N
        BY <1>1
      <3>2. t \in Tasks /\ AcyclicInOrder[taskToSCC[t]] /\ taskToSCC[t] < k
        OBVIOUS
      <3>3. \A u \in Below(k - 1) : f[n][u] = {v[u]} /\ f[n - 1][u] = {v[u]}
        BY <1>5, <3>1
      <3>4. CASE t < htn.numActions
        BY <1>2, <1>10, <3>1, <3>2, <3>4
      <3>5. CASE ~(t < htn.numActions)
        <4>1. t \in AbstractTasks
          BY <3>2, <3>5 DEF AbstractTasks
        <4>2. /\ v[t] = LeastOf(x, taskToMethods(t))
              /\ \A m \in taskToMethods(t) : x[m] = d + SumOver(v, subTasks(m))
          BY <3>2, <4>1 DEF UpToDate
        <4>3. ASSUME NEW m \in taskToMethods(t)
              PROVE  Sums(f[n - 1], subTasks(m), d) = {x[m]}
          <5>1. subTasks(m) \in Seq(Tasks) /\ ToSet(subTasks(m)) \subseteq Subtasks[t]
            BY <3>2, MethodParts
          <5>2. ASSUME NEW u \in ToSet(subTasks(m))
                PROVE  f[n - 1][u] = {v[u]}
            <6>1. u \in Tasks /\ AcyclicInOrder[taskToSCC[u]] /\ taskToSCC[u] < taskToSCC[t]
              BY <3>2, <5>1, BelowAcyclic
            <6>2. taskToSCC[u] \in Int /\ taskToSCC[t] \in Int
              BY <1>1, <3>2, <6>1
            <6>3. taskToSCC[u] < k - 1
              BY <3>2, <6>1, <6>2
            <6>4. QED BY <3>3, <6>1, <6>3
          <5>3. f[n - 1] \in [Tasks -> SUBSET Nat]
            BY <1>2, <3>1
          <5>4. Sums(f[n - 1], subTasks(m), d) = {d + SumOver(v, subTasks(m))}
            <6>1. \A u \in ToSet(subTasks(m)) : f[n - 1][u] = {v[u]}
              BY <5>2
            <6>2. \A C \in [Tasks -> SUBSET Nat] : \A list \in Seq(Tasks) :
                    (\A u \in ToSet(list) : C[u] = {v[u]}) => Sums(C, list, d) = {d + SumOver(v, list)}
              BY <1>10, SumsOfSingles
            <6>3. QED BY Zenon, <5>1, <5>3, <6>1, <6>2
          <5>5. QED BY <4>2, <5>4
        <4>4. taskToMethods(t) # {} /\ taskToMethods(t) \in SUBSET Methods
          BY <3>2, <3>5, MethodParts
        <4>5. Offers(f[n - 1], t, d) = {x[m] : m \in taskToMethods(t)}
          BY <4>3 DEF Offers
        <4>6. Smallest({x[m] : m \in taskToMethods(t)}) = {Min({x[m] : m \in taskToMethods(t)})}
          <5> DEFINE C == {x[m] : m \in taskToMethods(t)}
          <5>1. C # {}
            BY <4>4
          <5> HIDE DEF C
          <5>2. Smallest(C) = {Min(C)}
            BY <5>1 DEF Smallest
          <5>3. QED BY <5>2 DEF C
        <4>7. f[n][t] = Smallest(Offers(f[n - 1], t, d))
          BY <1>3, <3>1, <4>1
        <4>8. QED BY <4>2, <4>5, <4>6, <4>7 DEF LeastOf
      <3>6. QED BY <3>4, <3>5
    <2>3. QED BY <2>1, <2>2
  <1> HIDE DEF T
  <1>6. 0 .. numSCCs \subseteq T
    BY <1>1, <1>4, <1>5, LoopKeeps
  <1>7. numSCCs \in T
    BY <1>1, <1>6
  <1>8. ASSUME NEW t \in Tasks, AcyclicInOrder[taskToSCC[t]]
        PROVE  f[N][t] = {v[t]}
    <2>1. t \in Below(numSCCs)
      BY <1>1, <1>8
    <2>2. N \in numSCCs .. N
      BY <1>1
    <2>3. QED BY <1>7, <2>1, <2>2 DEF T
  <1>9. QED BY <1>8 DEF N

\* What is implied in the end.
BoundsHold ==
  \A t \in Tasks :
    /\ \A c \in CheapestCosts[t] : minEstimatedCosts[t] <= c
    /\ \A d \in ShortestDistances[t] : minImpliedDistance[t] <= d
    /\ AcyclicInOrder[taskToSCC[t]] => /\ CheapestCosts[t] = {minEstimatedCosts[t]}
                                       /\ ShortestDistances[t] = {minImpliedDistance[t]}

Ones == [a \in 0 .. htn.numActions - 1 |-> 1]

\* Costs and distances are bounds, and what is out of date is on the list.
DistancesFit(list, v, w, x, y) ==
  /\ ListOK(list, v, w, x, y)
  /\ AreBounds(v, x, htn.actionCosts, 0)
  /\ AreBounds(w, y, Ones, 1)

\* Once the list is empty the values are what was promised: none is out of date, and so bounds and, where nothing recurs, exact.
LEMMA DistancesAtEnd ==
  ASSUME htn \in Problems, ComponentsKnown,
         DistancesFit(<<>>, minEstimatedCosts, minImpliedDistance, minEstimatedCostsM, minImpliedDistanceM)
  PROVE  BoundsHold
  <1>1. PICK v, w, x, y : /\ v = minEstimatedCosts /\ w = minImpliedDistance
                          /\ x = minEstimatedCostsM /\ y = minImpliedDistanceM
    OBVIOUS
  <1>2. ListOK(<<>>, v, w, x, y) /\ AreBounds(v, x, htn.actionCosts, 0) /\ AreBounds(w, y, Ones, 1)
    BY <1>1 DEF DistancesFit
  <1>3. /\ v \in [Tasks -> Nat] /\ w \in [Tasks -> Nat] /\ x \in [Methods -> Nat] /\ y \in [Methods -> Nat]
        /\ \A a \in Tasks : a < htn.numActions => v[a] = htn.actionCosts[a] /\ w[a] = Ones[a]
    BY <1>2 DEF AreBounds
  <1>4. htn.actionCosts \in [0 .. htn.numActions - 1 -> Nat] /\ Ones \in [0 .. htn.numActions - 1 -> Nat]
    BY MethodParts DEF Ones
  <1>5. \A a \in Tasks : a < htn.numActions => w[a] = 1
    BY <1>3, <1>4, GivenForActions DEF Ones
  <1>6. PICK f : Levels(f, htn.actionCosts, 0) /\ f[htn.numTasks] = CheapestCosts
    BY <1>4, CheapestFacts DEF CheapestCosts
  <1>7. PICK g : Levels(g, Ones, 1) /\ g[htn.numTasks] = ShortestDistances
    BY <1>4, CheapestFacts DEF ShortestDistances, Ones
  <1>8. htn.numTasks \in 0 .. htn.numTasks
    BY ProblemFacts
  <1>9. \A t \in Tasks : /\ \A c \in CheapestCosts[t] : v[t] <= c
                         /\ \A c \in ShortestDistances[t] : w[t] <= c
    BY <1>2, <1>6, <1>7, <1>8 DEF AreBounds
  <1>10. \A t \in AbstractTasks : AcyclicInOrder[taskToSCC[t]] =>
           /\ TaskDone(t, v, w, x, y)
           /\ \A m \in taskToMethods(t) : MethodDone(m, v, w, x, y)
    BY <1>2, <1>3, <1>5, AcyclicDone
  <1>11. UpToDate(v, x, 0)
    <2>1. SUFFICES ASSUME NEW t \in AbstractTasks, AcyclicInOrder[taskToSCC[t]], NEW m \in taskToMethods(t)
                   PROVE  x[m] = 0 + SumOver(v, subTasks(m))
      BY <1>10 DEF TaskDone, UpToDate
    <2>2. m \in Methods /\ subTasks(m) \in Seq(Tasks)
      BY MethodParts DEF AbstractTasks
    <2>3. SumOver(v, subTasks(m)) \in Nat
      BY <1>3, <2>2, SumTyped
    <2>4. x[m] = SumOver(v, subTasks(m))
      BY <1>10, <2>1 DEF MethodDone
    <2>5. QED BY <2>3, <2>4
  <1>12. UpToDate(w, y, 1)
    BY <1>10 DEF TaskDone, MethodDone, UpToDate
  <1>13. \A t \in Tasks : AcyclicInOrder[taskToSCC[t]] => CheapestCosts[t] = {v[t]}
    <2>1. \A t \in Tasks : AcyclicInOrder[taskToSCC[t]] => f[htn.numTasks][t] = {v[t]}
      <3>1. \A d \in Nat : AreBounds(v, x, htn.actionCosts, d) /\ Levels(f, htn.actionCosts, d) /\ UpToDate(v, x, d) =>
              \A t \in Tasks : AcyclicInOrder[taskToSCC[t]] => f[htn.numTasks][t] = {v[t]}
        BY AcyclicValues
      <3>2. 0 \in Nat
        OBVIOUS
      <3>3. QED BY Zenon, <1>2, <1>6, <1>11, <3>1, <3>2
    <2>2. QED BY <1>6, <2>1
  <1>14. \A t \in Tasks : AcyclicInOrder[taskToSCC[t]] => ShortestDistances[t] = {w[t]}
    <2>1. \A t \in Tasks : AcyclicInOrder[taskToSCC[t]] => g[htn.numTasks][t] = {w[t]}
      <3>1. \A d \in Nat : AreBounds(w, y, Ones, d) /\ Levels(g, Ones, d) /\ UpToDate(w, y, d) =>
              \A t \in Tasks : AcyclicInOrder[taskToSCC[t]] => g[htn.numTasks][t] = {w[t]}
        BY AcyclicValues
      <3>2. 1 \in Nat
        OBVIOUS
      <3>3. QED BY Zenon, <1>2, <1>7, <1>12, <3>1, <3>2
    <2>2. QED BY <1>7, <2>1
  <1>15. QED BY <1>1, <1>9, <1>13, <1>14 DEF BoundsHold
\* What holds of values, for a problem, goes on to hold.
LEMMA FitsRests ==
  ASSUME htn' = htn
  PROVE  \A list, v, w, x, y : DistancesFit(list, v, w, x, y) => DistancesFit(list, v, w, x, y)'
  <1>1. Methods' = Methods /\ Tasks' = Tasks /\ AbstractTasks' = AbstractTasks /\ ListNodes' = ListNodes /\ Ones' = Ones
    BY DEF Methods, Tasks, AbstractTasks, ListNodes, MethodNode, TaskNode, Ones
  <1>2. \A m, C, d : Sums(C, subTasks(m), d)' = Sums(C, subTasks(m), d)
    BY DEF Sums, subTasks, Plus
  <1>3. \A m, v : SumOver(v, subTasks(m))' = SumOver(v, subTasks(m))
    BY DEF SumOver, subTasks
  <1>4. \A t, x : LeastOf(x, taskToMethods(t))' = LeastOf(x, taskToMethods(t))
    BY <1>1 DEF LeastOf, taskToMethods, Min, Methods
  <1>5. \A C, t, d : Smallest(Offers(C, t, d))' = Smallest(Offers(C, t, d))
    BY DEF Smallest, Offers, taskToMethods, Methods, Sums, subTasks, Plus, Min
  <1>6. \A f, given, d : Levels(f, given, d)' <=> Levels(f, given, d)
    BY <1>1, <1>5 DEF Levels
  <1>7. \A v, x, given, d : AreBounds(v, x, given, d) => AreBounds(v, x, given, d)'
    BY <1>1, <1>2, <1>6 DEF AreBounds
  <1>8. \A m, w, x, y : MethodUntouched(m, w, x, y)' <=> MethodUntouched(m, w, x, y)
    BY DEF MethodUntouched, subTasks, ToSet
  <1>9. \A list, v, w, x, y : ListOK(list, v, w, x, y) => ListOK(list, v, w, x, y)'
    BY <1>1, <1>3, <1>4, <1>8 DEF ListOK, MethodDone, TaskDone
  <1>10. QED BY <1>1, <1>7, <1>9 DEF DistancesFit
\* What is implied stays so when nothing changes that it depends on.
LEMMA BoundsRest ==
  ASSUME htn' = htn, taskToSCC' = taskToSCC, sccsCyclic' = sccsCyclic,
         minEstimatedCosts' = minEstimatedCosts, minImpliedDistance' = minImpliedDistance, BoundsHold
  PROVE  BoundsHold'
  <1>1. Tasks' = Tasks
    BY DEF Tasks
  <1>2. CheapestCosts' = CheapestCosts
    BY DEF CheapestCosts, Cheapest, Tasks, Smallest, taskToMethods, Methods, Sums, subTasks, Plus, Min
  <1>3. ShortestDistances' = ShortestDistances
    BY DEF ShortestDistances, Cheapest, Tasks, Smallest, taskToMethods, Methods, Sums, subTasks, Plus, Min
  <1>4. AcyclicInOrder' = AcyclicInOrder
    <2>1. SCCs' = SCCs /\ \A c : sccG(c)' = sccG(c)
      BY ComponentsStay
    <2>2. QED BY <2>1 DEF AcyclicInOrder
  <1>5. QED BY <1>1, <1>2, <1>3, <1>4 DEF BoundsHold
\* The state of the list, as values.
ValuesAre(list, v, w, x, y) ==
  /\ h = list /\ minEstimatedCosts = v /\ minImpliedDistance = w
  /\ minEstimatedCostsM = x /\ minImpliedDistanceM = y

ValuesFit == \E list, v, w, x, y : ValuesAre(list, v, w, x, y) /\ DistancesFit(list, v, w, x, y)

\* Costs and distances are implied while the list is worked off, and in the end they are bounds.
DistInv == (phase = "distances" => ValuesFit) /\ (phase = "ready" => BoundsHold)

\* The pass starts with what actions take.
LEMMA StartDistancesFits ==
  ASSUME htn \in Problems, StartDistances
  PROVE  ValuesFit'
  <1>1. PICK list, v, w, x, y : ValuesAre(list, v, w, x, y)'
    BY DEF ValuesAre
  <1>2. /\ htn' = htn /\ list = MethodsOfActions
        /\ v = [t \in Tasks |-> IF t < htn.numActions THEN htn.actionCosts[t] ELSE 0]
        /\ w = [t \in Tasks |-> IF t < htn.numActions THEN 1 ELSE 0]
        /\ x = [m \in Methods |-> 0] /\ y = [m \in Methods |-> 0]
    BY <1>1, Zenon DEF StartDistances, ValuesAre
  <1>3. htn.actionCosts \in [0 .. htn.numActions - 1 -> Nat] /\ Ones \in [0 .. htn.numActions - 1 -> Nat]
    BY MethodParts DEF Ones
  <1>4. w = [t \in Tasks |-> IF t < htn.numActions THEN Ones[t] ELSE 0]
    <2>1. \A t \in Tasks : t < htn.numActions => Ones[t] = 1
      BY <1>3, GivenForActions DEF Ones
    <2>2. QED BY <1>2, <2>1
  <1>5. AreBounds(v, x, htn.actionCosts, 0) /\ AreBounds(w, y, Ones, 1)
    <2>1. \A d \in Nat : AreBounds(v, x, htn.actionCosts, d) /\ AreBounds(w, y, Ones, d)
      BY <1>2, <1>3, <1>4, BoundsAtStart
    <2>2. 0 \in Nat /\ 1 \in Nat
      OBVIOUS
    <2>3. QED BY Zenon, <2>1, <2>2
  <1>6. \A t \in AbstractTasks : v[t] = 0 /\ w[t] = 0
    BY <1>2 DEF AbstractTasks
  <1>7. ListOK(list, v, w, x, y)
    BY <1>2, <1>6, ListAtStart
  <1>8. DistancesFit(list, v, w, x, y)'
    BY <1>2, <1>5, <1>7, FitsRests DEF DistancesFit
  <1>9. QED BY <1>1, <1>8 DEF ValuesFit

\* Looking at a method.
LEMMA LookAtMethodFits ==
  ASSUME htn \in Problems, ValuesFit, LookAtMethod
  PROVE  ValuesFit'
  <1>1. PICK list, v, w, x, y : ValuesAre(list, v, w, x, y) /\ DistancesFit(list, v, w, x, y)
    BY DEF ValuesFit
  <1>2. PICK m : m = Head(list).id
    OBVIOUS
  <1>3. list # <<>> /\ m \in Methods /\ Head(list) = MethodNode(m)
    <2>1. list # <<>> /\ Head(list).isMethod
      BY <1>1, Zenon DEF LookAtMethod, ValuesAre
    <2>2. list \in Seq(ListNodes)
      BY <1>1 DEF DistancesFit, ListOK
    <2>3. Head(list) \in ListNodes
      BY <2>1, <2>2, HeadTailProperties
    <2>4. QED BY <1>2, <2>1, <2>3, ListNodeFacts
  <1>4. PICK cost, distance : cost = SumOver(v, subTasks(m)) /\ distance = 1 + SumOver(w, subTasks(m))
    OBVIOUS
  <1>5. CostOf(m) = cost /\ DistanceOf(m) = distance
    BY <1>1, <1>4, Zenon DEF CostOf, DistanceOf, ValuesAre
  <1>6. PICK more : more = IF x[m] # cost \/ y[m] # distance THEN <<TaskNode(htn.methods[m].task)>> ELSE <<>>
    OBVIOUS
  <1>7. /\ htn' = htn
        /\ ValuesAre(Tail(list) \o more, v, w, [x EXCEPT ![m] = cost], [y EXCEPT ![m] = distance])'
    BY <1>1, <1>2, <1>5, <1>6, Zenon DEF LookAtMethod, ValuesAre
  <1>8. /\ v \in [Tasks -> Nat] /\ w \in [Tasks -> Nat] /\ x \in [Methods -> Nat] /\ y \in [Methods -> Nat]
        /\ ListOK(list, v, w, x, y) /\ AreBounds(v, x, htn.actionCosts, 0) /\ AreBounds(w, y, Ones, 1)
    BY <1>1 DEF DistancesFit, AreBounds
  <1>9. ListOK(Tail(list) \o more, v, w, [x EXCEPT ![m] = cost], [y EXCEPT ![m] = distance])
    BY <1>3, <1>4, <1>6, <1>8, ListAfterMethod
  <1>10. subTasks(m) \in Seq(Tasks)
    BY <1>3, MethodParts
  <1>11. AreBounds(v, [x EXCEPT ![m] = cost], htn.actionCosts, 0)
    <2>1. \A d \in Nat : AreBounds(v, x, htn.actionCosts, d) =>
            AreBounds(v, [x EXCEPT ![m] = d + SumOver(v, subTasks(m))], htn.actionCosts, d)
      BY <1>3, BoundsOfMethod
    <2>2. 0 \in Nat
      OBVIOUS
    <2>3. AreBounds(v, [x EXCEPT ![m] = 0 + SumOver(v, subTasks(m))], htn.actionCosts, 0)
      BY Zenon, <1>8, <2>1, <2>2
    <2>4. SumOver(v, subTasks(m)) \in Nat
      BY <1>8, <1>10, SumTyped
    <2>5. 0 + SumOver(v, subTasks(m)) = cost
      BY <1>4, <2>4
    <2>6. QED BY <2>3, <2>5, Zenon
  <1>12. AreBounds(w, [y EXCEPT ![m] = distance], Ones, 1)
    <2>1. \A d \in Nat : AreBounds(w, y, Ones, d) => AreBounds(w, [y EXCEPT ![m] = d + SumOver(w, subTasks(m))], Ones, d)
      BY <1>3, BoundsOfMethod
    <2>2. 1 \in Nat
      OBVIOUS
    <2>3. AreBounds(w, [y EXCEPT ![m] = 1 + SumOver(w, subTasks(m))], Ones, 1)
      BY Zenon, <1>8, <2>1, <2>2
    <2>4. QED BY <1>4, <2>3, Zenon
  <1>13. PICK list2, x2, y2 : /\ list2 = Tail(list) \o more
                              /\ x2 = [x EXCEPT ![m] = cost] /\ y2 = [y EXCEPT ![m] = distance]
    OBVIOUS
  <1>14. DistancesFit(list2, v, w, x2, y2)
    BY <1>9, <1>11, <1>12, <1>13, Zenon DEF DistancesFit
  <1>15. DistancesFit(list2, v, w, x2, y2)'
    BY <1>7, <1>14, FitsRests
  <1>16. ValuesAre(list2, v, w, x2, y2)'
    BY <1>7, <1>13 DEF ValuesAre
  <1>17. QED BY <1>15, <1>16 DEF ValuesFit
\* Looking at a task.
LEMMA LookAtTaskFits ==
  ASSUME htn \in Problems, ValuesFit, LookAtTask
  PROVE  ValuesFit'
  <1>1. PICK list, v, w, x, y : ValuesAre(list, v, w, x, y) /\ DistancesFit(list, v, w, x, y)
    BY DEF ValuesFit
  <1>2. PICK t : t = Head(list).id
    OBVIOUS
  <1>3. list # <<>> /\ t \in AbstractTasks /\ Head(list) = TaskNode(t)
    <2>1. list # <<>> /\ ~Head(list).isMethod
      BY <1>1, Zenon DEF LookAtTask, ValuesAre
    <2>2. list \in Seq(ListNodes)
      BY <1>1 DEF DistancesFit, ListOK
    <2>3. Head(list) \in ListNodes
      BY <2>1, <2>2, HeadTailProperties
    <2>4. QED BY <1>2, <2>1, <2>3, ListNodeFacts
  <1>4. PICK cost, distance : cost = LeastOf(x, taskToMethods(t)) /\ distance = LeastOf(y, taskToMethods(t))
    OBVIOUS
  <1>5. PICK more : more = IF v[t] # cost \/ w[t] # distance THEN MethodNodes(stToMethod(t)) ELSE <<>>
    OBVIOUS
  <1>6. /\ htn' = htn
        /\ ValuesAre(Tail(list) \o more, [v EXCEPT ![t] = cost], [w EXCEPT ![t] = distance], x, y)'
    BY <1>1, <1>2, <1>4, <1>5, Zenon DEF LookAtTask, TaskChanged, ValuesAre
  <1>7. /\ v \in [Tasks -> Nat] /\ w \in [Tasks -> Nat] /\ x \in [Methods -> Nat] /\ y \in [Methods -> Nat]
        /\ ListOK(list, v, w, x, y) /\ AreBounds(v, x, htn.actionCosts, 0) /\ AreBounds(w, y, Ones, 1)
    BY <1>1 DEF DistancesFit, AreBounds
  <1>8. t \in Tasks /\ ~(t < htn.numActions) /\ taskToMethods(t) # {} /\ taskToMethods(t) \in SUBSET Methods
    BY <1>3, MethodParts DEF AbstractTasks
  <1>9. cost \in Nat /\ distance \in Nat
    BY <1>4, <1>7, <1>8, LeastOfFacts
  <1>10. ListOK(Tail(list) \o more, [v EXCEPT ![t] = cost], [w EXCEPT ![t] = distance], x, y)
    BY <1>3, <1>4, <1>5, <1>7, <1>9, ListAfterTask
  <1>11. AreBounds([v EXCEPT ![t] = cost], x, htn.actionCosts, 0)
    <2>1. \A d \in Nat : AreBounds(v, x, htn.actionCosts, d) =>
            AreBounds([v EXCEPT ![t] = LeastOf(x, taskToMethods(t))], x, htn.actionCosts, d)
      BY <1>8, BoundsOfTask
    <2>2. 0 \in Nat
      OBVIOUS
    <2>3. QED BY Zenon, <1>4, <1>7, <2>1, <2>2
  <1>12. AreBounds([w EXCEPT ![t] = distance], y, Ones, 1)
    <2>1. \A d \in Nat : AreBounds(w, y, Ones, d) =>
            AreBounds([w EXCEPT ![t] = LeastOf(y, taskToMethods(t))], y, Ones, d)
      BY <1>8, BoundsOfTask
    <2>2. 1 \in Nat
      OBVIOUS
    <2>3. QED BY Zenon, <1>4, <1>7, <2>1, <2>2
  <1>13. PICK list2, v2, w2 : /\ list2 = Tail(list) \o more
                              /\ v2 = [v EXCEPT ![t] = cost] /\ w2 = [w EXCEPT ![t] = distance]
    OBVIOUS
  <1>14. DistancesFit(list2, v2, w2, x, y)
    BY <1>10, <1>11, <1>12, <1>13, Zenon DEF DistancesFit
  <1>15. DistancesFit(list2, v2, w2, x, y)'
    BY <1>6, <1>14, FitsRests
  <1>16. ValuesAre(list2, v2, w2, x, y)'
    BY <1>6, <1>13 DEF ValuesAre
  <1>17. QED BY <1>15, <1>16 DEF ValuesFit

\* When the list is empty, bounds are known.
LEMMA DistancesKnownFits ==
  ASSUME htn \in Problems, ComponentsKnown, ValuesFit, DistancesKnown
  PROVE  BoundsHold'
  <1>1. PICK list, v, w, x, y : ValuesAre(list, v, w, x, y) /\ DistancesFit(list, v, w, x, y)
    BY DEF ValuesFit
  <1>2. /\ list = <<>> /\ htn' = htn /\ taskToSCC' = taskToSCC /\ sccsCyclic' = sccsCyclic
        /\ minEstimatedCosts' = minEstimatedCosts /\ minImpliedDistance' = minImpliedDistance
    BY <1>1, Zenon DEF DistancesKnown, ValuesAre, graphVars
  <1>3. DistancesFit(<<>>, minEstimatedCosts, minImpliedDistance, minEstimatedCostsM, minImpliedDistanceM)
    BY <1>1, <1>2, Zenon DEF ValuesAre
  <1>4. BoundsHold
    BY <1>3, DistancesAtEnd
  <1>5. QED BY <1>2, <1>4, BoundsRest

\* Every step keeps what is known of implied costs and distances.
LEMMA NextDistances ==
  ASSUME GraphInv, DistInv, [Next]_vars
  PROVE  DistInv'
  <1>1. htn \in Problems /\ (phase # "tarjan" => ComponentsKnown)
    BY DEF GraphInv
  <1>2. CASE GraphNext
    <2>1. phase' \notin {"distances", "ready"}
      BY <1>2, Zenon DEF GraphNext, Descend, SeeChild, CloseComponent, LeaveInside, FindCyclic, AnalyseCyclicity,
         StartReachability, Process, GraphKnown, inTarjan
    <2>2. QED BY <2>1 DEF DistInv
  <1>3. CASE StartDistances
    <2>1. phase' = "distances"
      BY <1>3 DEF StartDistances
    <2>2. QED BY <1>1, <1>3, <2>1, StartDistancesFits DEF DistInv
  <1>4. CASE LookAtMethod
    <2>1. phase = "distances" /\ phase' = "distances"
      BY <1>4, Zenon DEF LookAtMethod
    <2>2. QED BY <1>1, <1>4, <2>1, LookAtMethodFits DEF DistInv
  <1>5. CASE LookAtTask
    <2>1. phase = "distances" /\ phase' = "distances"
      BY <1>5, Zenon DEF LookAtTask
    <2>2. QED BY <1>1, <1>5, <2>1, LookAtTaskFits DEF DistInv
  <1>6. CASE DistancesKnown
    <2>1. phase = "distances" /\ phase' = "ready"
      BY <1>6 DEF DistancesKnown
    <2>2. QED BY <1>1, <1>6, <2>1, DistancesKnownFits DEF DistInv
  <1>7. CASE Construct
    <2>1. phase' = "search"
      BY <1>7 DEF Construct
    <2>2. QED BY <2>1 DEF DistInv
  <1>8. CASE Decompose \/ Apply \/ Evaluate \/ Estimating \/ UNCHANGED vars
    <2>1. htn' = htn /\ phase' = phase /\ graphVars' = graphVars /\ distanceVars' = distanceVars
      BY <1>8 DEF Decompose, Apply, NewNode, Evaluate, Estimating, Correct, vars
    <2>2. /\ taskToSCC' = taskToSCC /\ sccsCyclic' = sccsCyclic
          /\ minEstimatedCosts' = minEstimatedCosts /\ minImpliedDistance' = minImpliedDistance
      BY <2>1 DEF graphVars, distanceVars
    <2>3. \A list, v, w, x, y : ValuesAre(list, v, w, x, y) => ValuesAre(list, v, w, x, y)'
      BY <2>1 DEF ValuesAre, distanceVars
    <2>4. ValuesFit => ValuesFit'
      BY <2>1, <2>3, FitsRests DEF ValuesFit
    <2>5. BoundsHold => BoundsHold'
      BY <2>1, <2>2, BoundsRest
    <2>6. QED BY <2>1, <2>4, <2>5 DEF DistInv
  <1>9. QED BY <1>2, <1>3, <1>4, <1>5, <1>6, <1>7, <1>8 DEF Next, Prepare, DistanceNext
-----------------------------------------------------------------------------
(* The analysis of the decomposition graph.                                *)

\* The other parts of the preprocessing, and the evaluations, leave what it has found.
LEMMA NextGraph == GraphInv /\ [Next]_vars => GraphInv'
<1> SUFFICES ASSUME GraphInv, [Next]_vars PROVE GraphInv'
  OBVIOUS
<1>1. CASE GraphNext
  BY <1>1, GraphNextKeeps
<1>2. CASE DistanceNext
  <2>1. /\ htn' = htn /\ graphVars' = graphVars
        /\ phase' = phase \/ (phase \in {"prepared", "distances"} /\ phase' \in {"distances", "ready"})
    <3>1. CASE StartDistances
      BY <3>1, Zenon DEF StartDistances
    <3>2. CASE LookAtMethod
      BY <3>2, Zenon DEF LookAtMethod
    <3>3. CASE LookAtTask
      BY <3>3, Zenon DEF LookAtTask
    <3>4. CASE DistancesKnown
      BY <3>4, Zenon DEF DistancesKnown
    <3>5. QED BY <1>2, <3>1, <3>2, <3>3, <3>4 DEF DistanceNext
  <2>2. QED BY <2>1, GraphRests
<1>3. CASE Construct
  BY <1>3, GraphRests DEF Construct
<1>4. CASE Decompose \/ Apply \/ Evaluate \/ Estimating \/ UNCHANGED vars
  <2>1. htn' = htn /\ phase' = phase /\ graphVars' = graphVars
    BY <1>4 DEF Decompose, Apply, NewNode, Evaluate, Estimating, Correct, vars
  <2>2. QED BY <2>1, GraphRests
<1>5. QED BY <1>1, <1>2, <1>3, <1>4 DEF Next, Prepare

\* The components that tarjan finds are those of the graph, one pass over them finds what cannot
\* recur, and every task knows the actions that it can be decomposed into.
THEOREM AnalysisIsExact == Spec => []AnalysisExact
<1>1. Init => GraphInv
  BY GraphInitInv DEF Init
<1>2. GraphInv /\ [Next]_vars => GraphInv'
  BY NextGraph
<1>3. GraphInv => AnalysisExact
  BY GraphInvExact
<1>4. QED BY <1>1, <1>2, <1>3, PTL DEF Spec

\* However often tasks that recur bring back methods, and whatever was not looked at: no decomposition
\* takes less than is implied, and where nothing recurs the cheapest takes just that.
THEOREM ImpliedValuesAreBounds == Spec => []ImpliedAreBounds
<1>1. Init => GraphInv /\ DistInv
  BY GraphInitInv DEF Init, GraphInit, DistInv
<1>2. GraphInv /\ DistInv /\ [Next]_vars => (GraphInv /\ DistInv)'
  BY NextGraph, NextDistances
<1>3. DistInv => ImpliedAreBounds
  BY Zenon DEF DistInv, BoundsHold, ImpliedAreBounds
<1>4. QED BY <1>1, <1>2, <1>3, PTL DEF Spec
-----------------------------------------------------------------------------
(* The estimates.                                                          *)

\* The graph is analysed, the node is one that a search reaches, and a call of LM-Cut or of FF has what it
\* counts on.
CallInv == GraphInv /\ NodeOK /\ LmCutOK /\ LmCutEstimateOK /\ FFCallOK

\* The invariant holds in every state: maximal costs, zone and cut are as far as the calculation has come, what
\* has been taken for the cuts is in every relaxed plan, and the queue of FF settles costs.
LEMMA CallInvariant == Spec => []CallInv
<1>1. Init => CallInv
  <2> SUFFICES ASSUME Init PROVE CallInv
    OBVIOUS
  <2>1. GraphInv
    BY GraphInitInv DEF Init
  <2>2. calc = "none" /\ phase # "search" /\ hval = 0
    BY DEF Init, GraphInit
  <2>3. NodeOK /\ LmCutOK /\ LmCutEstimateOK
    BY <2>1, <2>2 DEF NodeOK, LmCutOK, LmCutEstimateOK
  <2>4. markedOps = {}
    BY DEF Init, AddFFIdle
  <2>5. FFCallOK
    BY <2>2, <2>4 DEF FFCallOK, RelaxedPlanWorks
  <2>6. QED BY <2>1, <2>3, <2>5 DEF CallInv
<1>2. CallInv /\ [Next]_vars => CallInv'
  <2> SUFFICES ASSUME CallInv, [Next]_vars PROVE CallInv'
    OBVIOUS
  <2>1. GraphInv /\ NodeOK /\ LmCutOK /\ LmCutEstimateOK /\ FFCallOK
    BY DEF CallInv
  <2>2. GraphInv' /\ NodeOK'
    BY <2>1, NextGraph, NextNode
  <2>3. LmCutOK' /\ LmCutEstimateOK'
    BY <2>1, NextLmCut, NextEstimate
  <2>4. FFCallOK'
    BY <2>1, NextFF
  <2>5. QED BY <2>2, <2>3, <2>4 DEF CallInv
<1>3. QED BY <1>1, <1>2, PTL DEF Spec

\* Every relaxed plan uses an operator of each cut, and all of them still have costs to take.
THEOREM CutsAreLandmarks == Spec => []CutIsLandmark
<1>1. CallInv => CutIsLandmark
  BY DEF CallInv, LmCutOK, CutOK, CutIsLandmark
<1>2. QED BY <1>1, CallInvariant, PTL

\* LM-Cut never estimates more than a plan costs, also with the correction for tasks that occur more
\* than once.
THEOREM LmCutIsAdmissible == Spec => []Admissible
<1>1. CallInv => Admissible
  <2> SUFFICES ASSUME CallInv, calc = "valued", hval # UNREACHABLE, heuristic = "lmCut", ~needsDistances,
                      NEW cost \in PlanCosts
               PROVE  hval <= cost
    BY DEF Admissible
  <2>1. GraphInv /\ NodeOK /\ CorrectedOK
    BY DEF CallInv, LmCutEstimateOK, addsDistances, needsDistances, useAdmissibleCostEstimate
  <2>2. PICK O \in SUBSET Ops : /\ gset \subseteq Closure(s0set, O)
                                /\ Actions \intersect ToSet(net) \subseteq O
                                /\ WeightOf(net, O) <= cost
    BY <2>1, PlanCostsBound
  <2>3. hval \in Nat /\ hval <= WeightOf(net, O)
    BY <2>1, <2>2 DEF CorrectedOK
  <2>4. cost \in Nat /\ WeightOf(net, O) \in Nat
    <3>1. IsModel /\ net \in Seq(Tasks)
      BY <2>1, NodePlanning
    <3>2. QED BY <2>1, <3>1, PlanCostsBound, WeightFacts
  <2>5. QED BY <2>2, <2>3, <2>4
<1>2. QED BY <1>1, CallInvariant, PTL

\* What FF marks can be applied in some order and reaches the goals: the queue settles costs, so every fact
\* is reached by an operator whose preconditions were reached before.
THEOREM RelaxedPlansWork == Spec => []RelaxedPlanWorks
<1>1. CallInv => RelaxedPlanWorks
  BY DEF CallInv, FFCallOK
<1>2. QED BY <1>1, CallInvariant, PTL

\* A node that FF or LM-Cut gives up has no plan, unless implied distances were added to its estimate.
THEOREM DeadEndsStayDead ==
  Spec => [](heuristic \in {"sasFF", "lmCut"} /\ ~addsDistances => DeadEndsAreDead)
<1>1. CallInv => (heuristic \in {"sasFF", "lmCut"} /\ ~addsDistances => DeadEndsAreDead)
  <2> SUFFICES ASSUME CallInv, heuristic \in {"sasFF", "lmCut"}, ~addsDistances, calc = "valued",
                      hval = UNREACHABLE, NEW cost \in PlanCosts
               PROVE  FALSE
    BY DEF DeadEndsAreDead
  <2>1. GraphInv /\ NodeOK
    BY DEF CallInv
  <2>2. GoalsReachable
    BY <2>1, PlanCostsBound
  <2>3. CASE heuristic = "sasFF"
    BY <2>2, <2>3 DEF CallInv, FFCallOK
  <2>4. CASE heuristic = "lmCut"
    BY <2>2, <2>4 DEF CallInv, LmCutEstimateOK, CorrectedOK
  <2>5. QED BY <2>3, <2>4
<1>2. QED BY <1>1, CallInvariant, PTL
=============================================================================
