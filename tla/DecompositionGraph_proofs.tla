----------------------- MODULE DecompositionGraph_proofs -----------------------
(***************************************************************************)
(* Proofs about the analysis of the decomposition graph, of any size:      *)
(* Tarjan's algorithm finds the components and numbers them so that none   *)
(* leads to one with a greater number, the pass over the components finds  *)
(* the tasks below which something recurs, and the propagation from        *)
(* component to component finds the actions below every task.              *)
(***************************************************************************)
EXTENDS DecompositionGraph, PointerGraph_proofs, SequenceTheorems

(* Numbers.                                                                *)

\* Every non-empty set of natural numbers has a least one.
LEMMA LeastNumber ==
  ASSUME NEW T \in SUBSET Nat, T # {}
  PROVE  \E x \in T : \A y \in T : x <= y
  <1> DEFINE Less == {p \in Nat \X Nat : p[1] < p[2]}
  <1>1. IsWellFoundedOn(Less, Nat)
    BY NatLessThanWellFounded, Zenon DEF OpToRel
  <1> HIDE DEF Less
  <1>2. PICK x \in T : \A y \in T : <<y, x>> \notin Less
    BY <1>1, WFMin
  <1>3. ASSUME NEW y \in T, y < x
        PROVE  FALSE
    <2>1. <<y, x>> \in Less
      BY <1>3 DEF Less
    <2>2. QED BY <1>2, <2>1
  <1>4. \A y \in T : x <= y
    BY <1>3
  <1>5. QED BY <1>4

\* A set of numbers up to some number has a greatest one.
LEMMA GreatestNumber ==
  ASSUME NEW T \in SUBSET Nat, T # {}, NEW n \in Nat, \A x \in T : x <= n
  PROVE  \E x \in T : \A y \in T : y <= x
  <1> DEFINE D == {n - x : x \in T}
  <1>1. D \in SUBSET Nat /\ D # {}
    <2>1. \A x \in T : n - x \in Nat
      OBVIOUS
    <2>2. PICK x \in T : TRUE
      OBVIOUS
    <2>3. n - x \in D
      OBVIOUS
    <2>4. QED BY <2>1, <2>3
  <1>2. PICK d \in D : \A e \in D : d <= e
    <2> HIDE DEF D
    <2>1. QED BY <1>1, LeastNumber
  <1>3. PICK x \in T : d = n - x
    OBVIOUS
  <1>4. \A y \in T : n - y \in D
    OBVIOUS
  <1>5. \A y \in T : y <= x
    BY <1>2, <1>3, <1>4
  <1>6. QED BY <1>5

(* Recursive functions that go through a list.                             *)

\* A value that is changed once for each element of a list, by a function for each.
Iterates(f, n, base, step) == f = [i \in 0 .. n |-> IF i = 0 THEN base ELSE step[i][f[i - 1]]]

\* There is such a function, and it stays among the values that the steps stay among.
LEMMA IterationExists ==
  ASSUME NEW A, NEW base \in A, NEW n \in Nat, NEW step \in [1 .. n -> [A -> A]]
  PROVE  \E f \in [0 .. n -> A] : Iterates(f, n, base, step)
  <1> DEFINE OK(k) == \E f \in [0 .. k -> A] : \A i \in 0 .. k : f[i] = IF i = 0 THEN base ELSE step[i][f[i - 1]]
             Bad == {k \in 0 .. n : ~OK(k)}
  <1>1. Bad = {}
    <2>1. SUFFICES ASSUME Bad # {}
                   PROVE  FALSE
      OBVIOUS
    <2>2. PICK k \in Bad : \A l \in Bad : k <= l
      <3>1. Bad \in SUBSET Nat
        OBVIOUS
      <3> HIDE DEF Bad
      <3>2. QED BY <2>1, <3>1, LeastNumber
    <2>3. k # 0
      <3> DEFINE f == [i \in 0 .. 0 |-> base]
      <3>1. f \in [0 .. 0 -> A] /\ \A i \in 0 .. 0 : f[i] = IF i = 0 THEN base ELSE step[i][f[i - 1]]
        OBVIOUS
      <3>2. OK(0)
        BY <3>1
      <3>3. QED BY <3>2
    <2>4. PICK f \in [0 .. k - 1 -> A] : \A i \in 0 .. k - 1 : f[i] = IF i = 0 THEN base ELSE step[i][f[i - 1]]
      <3>1. k - 1 \in 0 .. n /\ ~(k <= k - 1)
        BY <2>3
      <3>2. k - 1 \notin Bad
        BY <2>2, <3>1
      <3>3. QED BY <3>1, <3>2
    <2> DEFINE g == [i \in 0 .. k |-> IF i = k THEN step[k][f[k - 1]] ELSE f[i]]
    <2>5. step[k][f[k - 1]] \in A
      BY <2>3
    <2>6. g \in [0 .. k -> A]
      BY <2>5
    <2>7. \A i \in 0 .. k : g[i] = IF i = 0 THEN base ELSE step[i][g[i - 1]]
      BY <2>3, <2>4
    <2>8. QED BY <2>6, <2>7
  <1>2. PICK f \in [0 .. n -> A] : \A i \in 0 .. n : f[i] = IF i = 0 THEN base ELSE step[i][f[i - 1]]
    BY <1>1
  <1>3. f = [i \in 0 .. n |-> IF i = 0 THEN base ELSE step[i][f[i - 1]]]
    BY <1>2
  <1>4. QED BY <1>3 DEF Iterates
-----------------------------------------------------------------------------
(* Lists and what is in them.                                              *)

\* What is in a list.
LEMMA SeqParts ==
  ASSUME NEW X, NEW s \in Seq(X)
  PROVE  /\ Len(s) \in Nat /\ DOMAIN s = 1 .. Len(s)
         /\ \A i \in DOMAIN s : s[i] \in X /\ s[i] \in ToSet(s)
         /\ ToSet(s) \subseteq X
  <1>1. Len(s) \in Nat /\ DOMAIN s = 1 .. Len(s)
    BY LenProperties
  <1>2. \A i \in DOMAIN s : s[i] \in X
    BY <1>1, ElementOfSeq
  <1>3. QED BY <1>1, <1>2 DEF ToSet

\* What is in two lists, one after the other.
LEMMA ConcatSet ==
  ASSUME NEW X, NEW s \in Seq(X), NEW t \in Seq(X)
  PROVE  s \o t \in Seq(X) /\ ToSet(s \o t) = ToSet(s) \union ToSet(t)
  <1>1. /\ s \o t \in Seq(X) /\ Len(s \o t) = Len(s) + Len(t)
        /\ \A i \in 1 .. Len(s) + Len(t) : (s \o t)[i] = IF i <= Len(s) THEN s[i] ELSE t[i - Len(s)]
    BY ConcatProperties
  <1>2. /\ Len(s) \in Nat /\ DOMAIN s = 1 .. Len(s) /\ Len(t) \in Nat /\ DOMAIN t = 1 .. Len(t)
        /\ DOMAIN (s \o t) = 1 .. Len(s) + Len(t)
    BY <1>1, LenProperties
  <1> DEFINE u == s \o t
  <1> HIDE DEF u
  <1>3. ASSUME NEW i \in DOMAIN u
        PROVE  u[i] \in ToSet(s) \union ToSet(t)
    <2>1. CASE i <= Len(s)
      <3>1. i \in DOMAIN s /\ u[i] = s[i]
        BY <1>1, <1>2, <1>3, <2>1 DEF u
      <3>2. QED BY <3>1 DEF ToSet
    <2>2. CASE ~(i <= Len(s))
      <3>1. i - Len(s) \in DOMAIN t /\ u[i] = t[i - Len(s)]
        BY <1>1, <1>2, <1>3, <2>2 DEF u
      <3>2. QED BY <3>1 DEF ToSet
    <2>3. QED BY <2>1, <2>2
  <1>4. ASSUME NEW i \in DOMAIN s
        PROVE  s[i] \in ToSet(u)
    <2>1. i \in DOMAIN u /\ u[i] = s[i]
      BY <1>1, <1>2, <1>4 DEF u
    <2>2. QED BY <2>1 DEF ToSet
  <1>5. ASSUME NEW i \in DOMAIN t
        PROVE  t[i] \in ToSet(u)
    <2>1. i + Len(s) \in DOMAIN u /\ u[i + Len(s)] = t[i]
      BY <1>1, <1>2, <1>5 DEF u
    <2>2. QED BY <2>1 DEF ToSet
  <1>6. ToSet(u) = ToSet(s) \union ToSet(t)
    BY <1>3, <1>4, <1>5 DEF ToSet
  <1>7. QED BY <1>1, <1>6 DEF u
-----------------------------------------------------------------------------
(* The graph of tasks.                                                     *)

\* Problems as far as the graph is concerned: tasks are numbers, and methods name tasks.
LEMMA ProblemFacts ==
  ASSUME htn \in Problems
  PROVE  /\ htn.numTasks \in Nat /\ htn.numActions \in 0 .. htn.numTasks
         /\ htn.initialTask \in Tasks
         /\ htn.methods \in Seq([task : Tasks, subTasks : Seq(Tasks)])
         /\ Tasks \subseteq Nat /\ IsFiniteSet(Tasks)
  <1>1. /\ htn.numTasks \in Nat /\ htn.numActions \in 0 .. htn.numTasks
        /\ htn.initialTask \in htn.numActions .. htn.numTasks - 1
        /\ htn.methods \in Seq([task : htn.numActions .. htn.numTasks - 1,
                                subTasks : Seq(0 .. htn.numTasks - 1) \ {<<>>}])
    BY ProblemsAssumption
  <1>2. htn.initialTask \in Tasks /\ Tasks \subseteq Nat /\ IsFiniteSet(Tasks)
    <2>1. IsFiniteSet(0 .. htn.numTasks - 1)
      BY <1>1, FS_Interval
    <2>2. QED BY <1>1, <2>1 DEF Tasks
  <1> DEFINE M1 == [task : htn.numActions .. htn.numTasks - 1, subTasks : Seq(0 .. htn.numTasks - 1) \ {<<>>}]
             M2 == [task : Tasks, subTasks : Seq(Tasks)]
  <1>3. M1 \subseteq M2
    BY <1>1 DEF Tasks
  <1>4. htn.methods \in Seq(M2)
    <2> HIDE DEF M1, M2
    <2>1. htn.methods \in Seq(M1)
      BY <1>1 DEF M1
    <2>2. QED BY <1>3, <2>1, SeqMonotonic
  <1>5. QED BY <1>1, <1>2, <1>4

\* A task's list of subtasks holds those of its methods.
LEMMA ChildrenOfTask ==
  ASSUME htn \in Problems, NEW t
  PROVE  /\ Children(t) \in Seq(Tasks)
         /\ ToSet(Children(t)) =
              UNION {ToSet(htn.methods[i].subTasks) : i \in {j \in DOMAIN htn.methods : htn.methods[j].task = t}}
  <1> DEFINE n == Len(htn.methods)
             add(i) == IF htn.methods[i].task = t THEN htn.methods[i].subTasks ELSE <<>>
             step == [i \in 1 .. n |-> [list \in Seq(Tasks) |-> list \o add(i)]]
             f == CHOOSE f : f = [i \in 0 .. n |-> IF i = 0 THEN <<>> ELSE f[i - 1] \o add(i)]
             Of(i) == UNION {ToSet(htn.methods[k].subTasks) : k \in {j \in 1 .. i : htn.methods[j].task = t}}
  <1>1. n \in Nat /\ DOMAIN htn.methods = 1 .. n /\ \A i \in 1 .. n : htn.methods[i].subTasks \in Seq(Tasks)
    <2> DEFINE M == [task : Tasks, subTasks : Seq(Tasks)]
    <2>1. htn.methods \in Seq(M)
      BY ProblemFacts
    <2> HIDE DEF M
    <2>2. n \in Nat /\ DOMAIN htn.methods = 1 .. n /\ \A i \in 1 .. n : htn.methods[i] \in M
      BY <2>1, SeqParts
    <2>3. QED BY <2>2 DEF M
  <1>2. \A i \in 1 .. n : add(i) \in Seq(Tasks)
    BY <1>1
  <1>3. PICK g \in [0 .. n -> Seq(Tasks)] : Iterates(g, n, <<>>, step)
    <2>1. step \in [1 .. n -> [Seq(Tasks) -> Seq(Tasks)]]
      BY <1>2
    <2>2. <<>> \in Seq(Tasks)
      OBVIOUS
    <2> HIDE DEF step, n
    <2>3. QED BY <1>1, <2>1, <2>2, IterationExists
  <1>4. g = [i \in 0 .. n |-> IF i = 0 THEN <<>> ELSE g[i - 1] \o add(i)]
    <2>1. \A i \in 0 .. n : g[i] = IF i = 0 THEN <<>> ELSE step[i][g[i - 1]]
      BY <1>3 DEF Iterates
    <2>2. ASSUME NEW i \in 1 .. n
          PROVE  step[i][g[i - 1]] = g[i - 1] \o add(i)
      <3>1. i - 1 \in 0 .. n
        BY <1>1
      <3>2. g[i - 1] \in Seq(Tasks)
        BY <3>1
      <3>3. QED BY <3>2
    <2>3. ASSUME NEW i \in 0 .. n
          PROVE  g[i] = IF i = 0 THEN <<>> ELSE g[i - 1] \o add(i)
      <3>1. CASE i = 0
        BY <2>1, <3>1
      <3>2. CASE i # 0
        <4>1. i \in 1 .. n
          BY <1>1, <3>2
        <4> HIDE DEF step, add
        <4>2. QED BY <2>1, <2>2, <3>2, <4>1
      <3>3. QED BY <3>1, <3>2
    <2>4. QED BY <2>3
  <1>5. f = [i \in 0 .. n |-> IF i = 0 THEN <<>> ELSE f[i - 1] \o add(i)]
    BY <1>4
  <1>6. Children(t) = f[n]
    BY DEF Children
  <1> HIDE DEF f, n
  <1>7. \A i \in 0 .. n : f[i] \in Seq(Tasks) /\ ToSet(f[i]) = Of(i)
    <2> DEFINE Bad == {i \in 0 .. n : ~(f[i] \in Seq(Tasks) /\ ToSet(f[i]) = Of(i))}
    <2>1. SUFFICES ASSUME Bad # {}
                   PROVE  FALSE
      OBVIOUS
    <2>2. PICK i \in Bad : \A j \in Bad : i <= j
      <3>1. Bad \in SUBSET Nat
        BY <1>1
      <3> HIDE DEF Bad
      <3>2. QED BY <2>1, <3>1, LeastNumber
    <2>3. CASE i = 0
      <3>1. f[0] = <<>>
        BY <1>1, <1>5
      <3>2. ToSet(<<>>) = {} /\ <<>> \in Seq(Tasks)
        BY DEF ToSet
      <3>3. Of(0) = {}
        OBVIOUS
      <3> HIDE DEF Of
      <3>4. QED BY <2>2, <2>3, <3>1, <3>2, <3>3
    <2>4. CASE i # 0
      <3>1. i \in 1 .. n /\ i - 1 \in 0 .. n /\ ~(i <= i - 1)
        BY <1>1, <2>4
      <3>2. f[i - 1] \in Seq(Tasks) /\ ToSet(f[i - 1]) = Of(i - 1)
        BY <2>2, <3>1
      <3>3. f[i] = f[i - 1] \o add(i)
        <4> HIDE DEF add
        <4>1. \A k \in 0 .. n : f[k] = IF k = 0 THEN <<>> ELSE f[k - 1] \o add(k)
          BY <1>5
        <4>2. QED BY <2>4, <3>1, <4>1
      <3>4. f[i] \in Seq(Tasks) /\ ToSet(f[i]) = ToSet(f[i - 1]) \union ToSet(add(i))
        <4>1. add(i) \in Seq(Tasks)
          BY <1>2, <3>1
        <4> HIDE DEF add
        <4>2. QED BY <3>2, <3>3, <4>1, ConcatSet
      <3>5. Of(i) = Of(i - 1) \union ToSet(add(i))
        <4>1. {j \in 1 .. i : htn.methods[j].task = t} =
                {j \in 1 .. i - 1 : htn.methods[j].task = t} \union (IF htn.methods[i].task = t THEN {i} ELSE {})
          BY <3>1
        <4>2. ToSet(<<>>) = {}
          BY DEF ToSet
        <4>3. CASE htn.methods[i].task = t
          BY <4>1, <4>3
        <4>4. CASE htn.methods[i].task # t
          BY <4>1, <4>2, <4>4
        <4>5. QED BY <4>3, <4>4
      <3>6. QED BY <3>2, <3>4, <3>5
    <2>5. QED BY <2>3, <2>4
  <1>8. f[n] \in Seq(Tasks) /\ ToSet(f[n]) = Of(n)
    <2> HIDE DEF Of
    <2>1. QED BY <1>1, <1>7
  <1>9. QED BY <1>1, <1>6, <1>8 DEF n

\* Tasks and their subtasks are a finite graph.
LEMMA SubtasksAreGraph ==
  ASSUME htn \in Problems
  PROVE  /\ IsGraph(Subtasks) /\ DOMAIN Subtasks = Tasks
         /\ \A t \in Tasks : Subtasks[t] = ToSet(Children(t)) /\ Subtasks[t] \subseteq Tasks
  <1>1. DOMAIN Subtasks = Tasks /\ \A t \in Tasks : Subtasks[t] = ToSet(Children(t))
    BY DEF Subtasks
  <1>2. \A t \in Tasks : Subtasks[t] \subseteq Tasks
    <2>1. SUFFICES ASSUME NEW t \in Tasks
                   PROVE  ToSet(Children(t)) \subseteq Tasks
      BY <1>1
    <2>2. QED BY ChildrenOfTask, SeqParts
  <1>3. QED BY <1>1, <1>2, ProblemFacts DEF IsGraph

\* Tasks lead to themselves, to their subtasks, and to what these lead to.
LEMMA LeadsToFacts ==
  ASSUME htn \in Problems
  PROVE  /\ \A t \in Tasks : LeadsTo(t, t)
         /\ \A t \in Tasks : \A u : LeadsTo(t, u) => u \in Tasks
         /\ \A t \in Tasks : \A u \in Subtasks[t] : LeadsTo(t, u)
         /\ \A t, u, v \in Tasks : LeadsTo(t, u) /\ LeadsTo(u, v) => LeadsTo(t, v)
  <1> DEFINE G == Subtasks
  <1>1. IsGraph(G) /\ DOMAIN G = Tasks
    BY SubtasksAreGraph
  <1> HIDE DEF G
  <1>2. \A t \in Tasks : /\ ReachedFrom(G, {t}) \subseteq Tasks
                         /\ G[t] \subseteq ReachedFrom(G, {t})
    <2>1. SUFFICES ASSUME NEW t \in Tasks
                   PROVE  ReachedFrom(G, {t}) \subseteq Tasks /\ G[t] \subseteq ReachedFrom(G, {t})
      OBVIOUS
    <2>2. t \in {t} \intersect DOMAIN G
      BY <1>1
    <2>3. QED BY <1>1, <2>2, ReachedIsLeast
  <1>3. ASSUME NEW t \in Tasks, NEW u \in Tasks, NEW v, u \in ReachedFrom(G, {t}), v \in ReachedFrom(G, {u})
        PROVE  v \in ReachedFrom(G, {t})
    <2>1. ReachedFrom(G, {u}) \subseteq ReachedFrom(G, {t})
      BY <1>1, <1>3, ReachedMonotone
    <2>2. QED BY <1>3, <2>1
  <1>4. QED BY <1>2, <1>3 DEF LeadsTo, G

\* What is closed under subtasks is not left.
LEMMA LeadsNowhereElse ==
  ASSUME htn \in Problems, NEW C, \A x \in C \intersect Tasks : Subtasks[x] \subseteq C,
         NEW t \in C \intersect Tasks, NEW u, LeadsTo(t, u)
  PROVE  u \in C
  <1>1. IsGraph(Subtasks) /\ DOMAIN Subtasks = Tasks
    BY SubtasksAreGraph
  <1>2. \A x \in {t} \intersect Tasks : Subtasks[x] \subseteq C
    OBVIOUS
  <1>3. ReachedFrom(Subtasks, {t}) \subseteq C
    BY <1>1, <1>2, ReachedIsLeast
  <1>4. QED BY <1>3 DEF LeadsTo

\* The way to another task leads over a subtask.
LEMMA FirstStep ==
  ASSUME htn \in Problems, NEW t \in Tasks, NEW v
  PROVE  v \in ReachedFrom(Subtasks, {t}) <=> \E u \in Subtasks[t] : LeadsTo(u, v)
  <1> DEFINE C == {x \in Tasks : \E u \in Subtasks[t] : LeadsTo(u, x)}
  <1>1. IsGraph(Subtasks) /\ DOMAIN Subtasks = Tasks /\ \A x \in Tasks : Subtasks[x] \subseteq Tasks
    BY SubtasksAreGraph
  <1>2. \A x \in {t} \intersect Tasks : Subtasks[x] \subseteq C
    BY <1>1, LeadsToFacts
  <1>3. \A x \in C \intersect Tasks : Subtasks[x] \subseteq C
    BY <1>1, LeadsToFacts
  <1>4. ReachedFrom(Subtasks, {t}) \subseteq C
    <2> HIDE DEF C
    <2>1. QED BY <1>1, <1>2, <1>3, ReachedIsLeast
  <1>5. ASSUME NEW u \in Subtasks[t], LeadsTo(u, v)
        PROVE  v \in ReachedFrom(Subtasks, {t})
    <2>1. u \in ReachedFrom(Subtasks, {t})
      <3>1. t \in {t} \intersect DOMAIN Subtasks
        BY <1>1
      <3>2. QED BY <1>1, <3>1, ReachedIsLeast
    <2>2. u \in {u} \intersect DOMAIN Subtasks
      BY <1>1
    <2>3. ReachedFrom(Subtasks, {u}) \subseteq ReachedFrom(Subtasks, {t})
      BY <1>1, <2>1, ReachedMonotone
    <2>4. QED BY <1>5, <2>1, <2>3 DEF LeadsTo
  <1>6. QED BY <1>4, <1>5

\* The graph only depends on the problem.
LEMMA GraphStays ==
  ASSUME htn' = htn
  PROVE  /\ Tasks' = Tasks /\ Subtasks' = Subtasks
         /\ \A t : Children(t)' = Children(t) /\ (Recurs(t)' <=> Recurs(t))
         /\ \A t, u : LeadsTo(t, u)' <=> LeadsTo(t, u)
  <1>1. Tasks' = Tasks
    BY DEF Tasks
  <1>2. \A t : Children(t)' = Children(t)
    BY DEF Children
  <1>3. Subtasks' = Subtasks
    BY <1>1, <1>2 DEF Subtasks
  <1>4. QED BY <1>1, <1>2, <1>3 DEF LeadsTo, Recurs
-----------------------------------------------------------------------------
(* The list of some components in the order of their numbers.              *)

\* Ascending lists each number once.
LEMMA AscendingList ==
  ASSUME NEW C \in SUBSET Nat, IsFiniteSet(C)
  PROVE  /\ Ascending(C) \in Seq(C)
         /\ \A i, j \in DOMAIN Ascending(C) : Ascending(C)[i] = Ascending(C)[j] => i = j
         /\ ToSet(Ascending(C)) = C
  <1> DEFINE n == Cardinality(C)
             Below(c) == {d \in C : d < c}
             rank == [c \in C |-> Cardinality(Below(c)) + 1]
  <1>1. n \in Nat
    BY FS_CardinalityType
  <1>2. \A c \in C : IsFiniteSet(Below(c)) /\ Cardinality(Below(c)) \in 0 .. n - 1
    <2>1. SUFFICES ASSUME NEW c \in C
                   PROVE  IsFiniteSet(Below(c)) /\ Cardinality(Below(c)) \in 0 .. n - 1
      OBVIOUS
    <2>2. IsFiniteSet(C \ {c}) /\ Cardinality(C \ {c}) = n - 1
      BY FS_RemoveElement
    <2>3. Below(c) \subseteq C \ {c}
      OBVIOUS
    <2>4. IsFiniteSet(Below(c)) /\ Cardinality(Below(c)) <= n - 1
      BY <2>2, <2>3, FS_Subset
    <2>5. Cardinality(Below(c)) \in Nat
      BY <2>4, FS_CardinalityType
    <2>6. QED BY <1>1, <2>4, <2>5
  <1>3. ASSUME NEW c \in C, NEW d \in C, c < d
        PROVE  Cardinality(Below(c)) < Cardinality(Below(d))
    <2>1. Below(c) \subseteq Below(d) /\ c \in Below(d) /\ c \notin Below(c)
      <3>1. ASSUME NEW x \in C, x < c
            PROVE  x < d
        <4>1. x \in Nat /\ c \in Nat /\ d \in Nat
          OBVIOUS
        <4>2. QED BY <1>3, <3>1, <4>1
      <3>2. c \in Nat
        OBVIOUS
      <3>3. Below(c) \subseteq Below(d)
        BY <3>1
      <3>4. c \in Below(d)
        BY <1>3
      <3>5. c \notin Below(c)
        BY <3>2
      <3>6. QED BY <3>3, <3>4, <3>5
    <2> HIDE DEF Below
    <2>2. Below(c) # Below(d)
      BY <2>1
    <2>3. Cardinality(Below(c)) <= Cardinality(Below(d)) /\ Cardinality(Below(c)) # Cardinality(Below(d))
      BY <1>2, <2>1, <2>2, FS_Subset
    <2>4. QED BY <1>1, <1>2, <2>3
  <1>4. rank \in [C -> 1 .. n]
    <2> HIDE DEF Below
    <2>1. \A c \in C : Cardinality(Below(c)) + 1 \in 1 .. n
      BY <1>1, <1>2
    <2>2. QED BY <2>1
  <1>5. \A c, d \in C : rank[c] = rank[d] => c = d
    <2>1. SUFFICES ASSUME NEW c \in C, NEW d \in C, rank[c] = rank[d], c # d
                   PROVE  FALSE
      OBVIOUS
    <2> HIDE DEF Below
    <2>2. Cardinality(Below(c)) = Cardinality(Below(d))
      BY <1>2, <2>1
    <2>3. CASE c < d
      BY <1>2, <1>3, <2>2, <2>3
    <2>4. CASE d < c
      BY <1>2, <1>3, <2>2, <2>4
    <2>5. QED BY <2>1, <2>3, <2>4
  <1>6. \A i \in 1 .. n : \E c \in C : rank[c] = i
    <2> HIDE DEF rank
    <2>1. IsFiniteSet(1 .. n) /\ Cardinality(1 .. n) = n
      BY <1>1, FS_Interval
    <2>2. rank \in Injection(C, 1 .. n)
      BY <1>4, <1>5 DEF Injection, IsInjective
    <2>3. rank \in Surjection(C, 1 .. n)
      BY <2>1, <2>2, FS_Injection
    <2>4. QED BY <2>3 DEF Surjection
  <1> DEFINE f == Ascending(C)
  <1>7. f = [i \in 1 .. n |-> CHOOSE c \in C : Cardinality(Below(c)) = i - 1]
    BY DEF Ascending
  <1>8. ASSUME NEW i \in 1 .. n
        PROVE  f[i] \in C /\ rank[f[i]] = i
    <2> HIDE DEF Below
    <2>1. PICK c \in C : rank[c] = i
      BY <1>6
    <2>2. Cardinality(Below(c)) = i - 1
      BY <1>2, <2>1
    <2>3. f[i] = CHOOSE d \in C : Cardinality(Below(d)) = i - 1
      BY <1>7
    <2>4. f[i] \in C /\ Cardinality(Below(f[i])) = i - 1
      BY <2>2, <2>3
    <2>5. QED BY <2>4
  <1> HIDE DEF rank
  <1>9. DOMAIN f = 1 .. n
    BY <1>7
  <1> HIDE DEF f
  <1>10. f \in Seq(C)
    <2>1. f \in [1 .. n -> C]
      <3> DEFINE e(i) == CHOOSE c \in C : Cardinality(Below(c)) = i - 1
      <3>1. f = [i \in 1 .. n |-> e(i)]
        BY <1>7
      <3> HIDE DEF e
      <3>2. \A i \in 1 .. n : f[i] = e(i)
        BY <3>1
      <3>3. QED BY <1>8, <3>1, <3>2
    <2>2. QED BY <1>1, <2>1, SeqDef
  <1>11. \A c \in C : c \in ToSet(f)
    <2>1. SUFFICES ASSUME NEW c \in C
                   PROVE  c \in ToSet(f)
      OBVIOUS
    <2>2. rank[c] \in 1 .. n
      BY <1>4
    <2>3. f[rank[c]] = c
      BY <1>5, <1>8, <2>2
    <2>4. QED BY <1>9, <2>2, <2>3 DEF ToSet
  <1>12. ToSet(f) = C
    BY <1>10, <1>11, SeqParts
  <1>13. \A i, j \in DOMAIN f : f[i] = f[j] => i = j
    BY <1>8, <1>9
  <1>14. QED BY <1>10, <1>12, <1>13 DEF f
-----------------------------------------------------------------------------
(* The invariant.                                                          *)

\* The tasks that are in a component already.
Components == DOMAIN taskToSCC

\* The subtasks of a task that its call has looked at: all of them when it has returned.
Looked(v) == {u \in Subtasks[v] : \A i \in DOMAIN path :
                path[i].task = v => \E j \in 1 .. path[i].next - 1 : Children(v)[j] = u}

\* A task is numbered when it is visited; from then on it is on S or in a component.
NumbersOK ==
  /\ IsFiniteSet(DOMAIN dfsI) /\ DOMAIN dfsI \subseteq Tasks
  /\ dfsI \in [DOMAIN dfsI -> 0 .. maxdfs - 1]
  /\ \A t, u \in DOMAIN dfsI : dfsI[t] = dfsI[u] => t = u
  /\ lowlink \in [DOMAIN dfsI -> Nat]
  /\ S \in Seq(Tasks) /\ DOMAIN dfsI = containedS \union Components /\ containedS \intersect Components = {}
  /\ \A i, j \in DOMAIN S : i < j => dfsI[S[i]] < dfsI[S[j]]

\* The calls under way are a path in the graph: each looks at the task of the next one.
PathOK ==
  /\ path \in Seq([task : Tasks, next : Nat \ {0}])
  /\ \A i \in DOMAIN path :
       /\ path[i].task \in containedS
       /\ path[i].next <= Len(Children(path[i].task)) + 1
       /\ i < Len(path) => /\ path[i].next <= Len(Children(path[i].task))
                           /\ Children(path[i].task)[path[i].next] = path[i + 1].task
  /\ \A i, j \in DOMAIN path : i < j => dfsI[path[i].task] < dfsI[path[j].task]
  /\ path = <<>> => S = <<>>
  /\ path # <<>> => S[1] = path[1].task
  /\ htn.initialTask \in DOMAIN dfsI

\* What is between two calls, and above the last one, has been left below the first of them.
Under(w, i) == /\ w \in containedS /\ dfsI[path[i].task] <= dfsI[w]
               /\ i < Len(path) => dfsI[w] < dfsI[path[i + 1].task]

\* Whatever was looked at has been visited.  A call knows how far back the tasks that were visited
\* below it lead: to lowlink, and no further.
LowlinkOK ==
  /\ \A v \in containedS : Looked(v) \subseteq DOMAIN dfsI
  /\ \A i \in DOMAIN path :
       LET p == path[i].task
       IN  /\ \E u \in containedS : lowlink[p] = dfsI[u] /\ lowlink[p] <= dfsI[p] /\ LeadsTo(p, u)
           /\ \A w \in containedS : dfsI[p] <= dfsI[w] => LeadsTo(p, w)
           /\ \A w \in containedS : Under(w, i) =>
                /\ \A y \in Looked(w) \intersect containedS : lowlink[p] <= dfsI[y]
                /\ w # p => \E u \in containedS : /\ dfsI[u] < dfsI[w] /\ lowlink[p] <= dfsI[u]
                                                  /\ LeadsTo(w, u)

\* Components are closed, and right.
ClosedOK ==
  /\ taskToSCC \in [Components -> 0 .. numSCCs - 1]
  /\ \A c \in 0 .. numSCCs - 1 : \E t \in Components : taskToSCC[t] = c
  /\ \A t \in Components : \A u \in Subtasks[t] : u \in Components /\ taskToSCC[u] <= taskToSCC[t]
  /\ \A t, u \in Components : taskToSCC[t] = taskToSCC[u] <=> LeadsTo(t, u) /\ LeadsTo(u, t)

\* While calls are under way.
TarjanInv == NumbersOK /\ PathOK /\ LowlinkOK /\ ClosedOK

\* Cyclic are the components of the tasks that recur.
CyclicOK == sccsCyclic = {taskToSCC[t] : t \in {x \in Tasks : Recurs(x)}}

\* When there are none left.
ComponentsKnown == Components = Tasks /\ ClosedOK /\ CyclicOK

\* The components whose tasks know their actions.
Processed == {c \in SCCs : sccToTasks(c) \subseteq DOMAIN reachable}

\* The actions a task can be decomposed into.
ActionsBelow(t) == {a \in 0 .. htn.numActions - 1 : LeadsTo(t, a)}

\* A component is put on the stack when the last one it waits for has been processed.
ReachInv ==
  /\ reachable = [t \in {u \in Tasks : taskToSCC[u] \in Processed} |-> ActionsBelow(t)]
  /\ \A c \in Processed : sccG(c) \subseteq Processed
  /\ ready = [c \in SCCs |-> Cardinality(sccG(c) \ Processed)]
  /\ stack \in Seq(SCCs)
  /\ \A i, j \in DOMAIN stack : stack[i] = stack[j] => i = j
  /\ ToSet(stack) = {c \in SCCs \ Processed : sccG(c) \subseteq Processed}

\* What holds in which phase.
GraphInv ==
  /\ htn \in Problems
  /\ phase = "tarjan" => TarjanInv
  /\ phase # "tarjan" => ComponentsKnown
  /\ phase = "sat" => AcyclicExact
  /\ phase \in {"tarjan", "graph"} => reachable = NoFunction
  /\ phase = "reach" => ReachInv
  /\ phase \notin {"tarjan", "graph", "sat", "reach"} =>
       reachable = [t \in Tasks |-> ActionsBelow(t)]
-----------------------------------------------------------------------------
(* Tarjan's algorithm.                                                     *)

\* Only the call for the initial task is under way.
LEMMA TarjanInit ==
  ASSUME GraphInit
  PROVE  htn \in Problems /\ phase = "tarjan" /\ TarjanInv
  <1> DEFINE t0 == htn.initialTask
             first == [task |-> t0, next |-> 1]
  <1>1. htn \in Problems /\ phase = "tarjan" /\ path = <<first>> /\ S = <<t0>>
        /\ taskToSCC = NoFunction
    BY DEF GraphInit
  <1>2. DOMAIN dfsI = {t0} /\ dfsI[t0] = 0 /\ dfsI = [x \in {t0} |-> 0] /\ lowlink = [x \in {t0} |-> 0]
    BY DEF GraphInit
  <1>3. t0 \in Tasks /\ Tasks \subseteq Nat
    BY <1>1, ProblemFacts
  <1>4. path \in Seq([task : Tasks, next : Nat \ {0}]) /\ Len(path) = 1 /\ DOMAIN path = {1} /\ path[1] = first
    BY <1>1, <1>3
  <1>5. S \in Seq(Tasks) /\ Len(S) = 1 /\ DOMAIN S = {1} /\ S[1] = t0 /\ containedS = {t0}
    BY <1>1, <1>3 DEF containedS, ToSet
  <1>6. Components = {}
    BY <1>1 DEF Components, NoFunction
  <1>7. IsFiniteSet(DOMAIN dfsI) /\ maxdfs = 1
    BY <1>2, FS_Singleton DEF maxdfs
  <1>8. Children(t0) \in Seq(Tasks) /\ Len(Children(t0)) \in Nat
    BY <1>1, ChildrenOfTask, SeqParts
  <1>9. NumbersOK
    BY <1>2, <1>3, <1>5, <1>6, <1>7 DEF NumbersOK
  <1>10. PathOK
    BY <1>1, <1>2, <1>4, <1>5, <1>8 DEF PathOK
  <1>11. Looked(t0) = {}
    BY <1>4 DEF Looked
  <1>12. LeadsTo(t0, t0)
    BY <1>1, <1>3, LeadsToFacts
  <1>13. LowlinkOK
    BY <1>2, <1>4, <1>5, <1>11, <1>12 DEF LowlinkOK, Under
  <1>14. ClosedOK
    <2>1. {taskToSCC[t] : t \in DOMAIN taskToSCC} = {}
      BY <1>6 DEF Components
    <2>2. numSCCs = 0
      BY <2>1, FS_EmptySet DEF numSCCs
    <2>3. taskToSCC = [t \in Components |-> 0]
      BY <1>1, <1>6 DEF NoFunction
    <2>4. QED BY <1>6, <2>2, <2>3 DEF ClosedOK
  <1>15. QED BY <1>1, <1>9, <1>10, <1>13, <1>14 DEF TarjanInv

\* What a call has to do with its task and, if there is one, its next child.
LEMMA CallFacts ==
  ASSUME htn \in Problems, TarjanInv, inTarjan
  PROVE  /\ Len(path) \in Nat \ {0} /\ DOMAIN path = 1 .. Len(path)
         /\ Len(S) \in Nat /\ DOMAIN S = 1 .. Len(S)
         /\ \A i \in DOMAIN path : path[i] \in [task : Tasks, next : Nat \ {0}]
         /\ Call = path[Len(path)]
         /\ \A i \in DOMAIN path : path[i].task \in containedS
         /\ containedS \subseteq DOMAIN dfsI /\ containedS \subseteq Tasks
         /\ \A x \in DOMAIN dfsI : dfsI[x] \in Nat /\ lowlink[x] \in Nat
         /\ \A t \in Tasks : Children(t) \in Seq(Tasks) /\ Len(Children(t)) \in Nat
                             /\ DOMAIN Children(t) = 1 .. Len(Children(t))
         /\ HasChild => Child \in Subtasks[Call.task] /\ Child \in Tasks /\ LeadsTo(Call.task, Child)
         /\ ~HasChild => Call.next = Len(Children(Call.task)) + 1
  <1>1. path # <<>> /\ path \in Seq([task : Tasks, next : Nat \ {0}])
    BY DEF inTarjan, TarjanInv, PathOK
  <1>2. Len(path) \in Nat \ {0} /\ DOMAIN path = 1 .. Len(path)
        /\ \A i \in DOMAIN path : path[i] \in [task : Tasks, next : Nat \ {0}]
    BY <1>1, SeqParts, EmptySeq
  <1>3. S \in Seq(Tasks)
    BY DEF TarjanInv, NumbersOK
  <1>4. Len(S) \in Nat /\ DOMAIN S = 1 .. Len(S) /\ containedS \subseteq Tasks
    BY <1>3, SeqParts DEF containedS
  <1>5. Call = path[Len(path)]
    BY DEF Call, Last
  <1>6. \A i \in DOMAIN path : path[i].task \in containedS
    BY DEF TarjanInv, PathOK
  <1>7. containedS \subseteq DOMAIN dfsI
    BY DEF TarjanInv, NumbersOK
  <1>8. \A x \in DOMAIN dfsI : dfsI[x] \in Nat /\ lowlink[x] \in Nat
    BY DEF TarjanInv, NumbersOK
  <1>9. \A t \in Tasks : Children(t) \in Seq(Tasks) /\ Len(Children(t)) \in Nat
                         /\ DOMAIN Children(t) = 1 .. Len(Children(t))
                         /\ \A j \in DOMAIN Children(t) : Children(t)[j] \in Tasks
                                                          /\ Children(t)[j] \in ToSet(Children(t))
    <2>1. SUFFICES ASSUME NEW t \in Tasks
                   PROVE  Children(t) \in Seq(Tasks) /\ Len(Children(t)) \in Nat
                          /\ DOMAIN Children(t) = 1 .. Len(Children(t))
                          /\ \A j \in DOMAIN Children(t) : Children(t)[j] \in Tasks
                                                           /\ Children(t)[j] \in ToSet(Children(t))
      OBVIOUS
    <2>2. Children(t) \in Seq(Tasks)
      BY ChildrenOfTask
    <2>3. QED BY <2>2, SeqParts
  <1>10. Len(path) \in DOMAIN path
    BY <1>2
  <1>11. Call.task \in Tasks /\ Call.next \in Nat \ {0} /\ Call.next <= Len(Children(Call.task)) + 1
    BY <1>2, <1>5, <1>10 DEF TarjanInv, PathOK
  <1>12. ASSUME HasChild
         PROVE  Child \in Subtasks[Call.task] /\ Child \in Tasks /\ LeadsTo(Call.task, Child)
    <2>1. Call.next \in DOMAIN Children(Call.task)
      BY <1>9, <1>11, <1>12 DEF HasChild
    <2>2. Child \in Tasks /\ Child \in ToSet(Children(Call.task))
      BY <1>9, <1>11, <2>1 DEF Child
    <2>3. Child \in Subtasks[Call.task]
      BY <1>11, <2>2, SubtasksAreGraph
    <2>4. QED BY <1>11, <2>2, <2>3, LeadsToFacts
  <1>13. ~HasChild => Call.next = Len(Children(Call.task)) + 1
    BY <1>9, <1>11 DEF HasChild
  <1>14. QED BY <1>2, <1>4, <1>5, <1>6, <1>7, <1>8, <1>9, <1>12, <1>13

\* A new call: the child is numbered, and comes last on S and on the path.
LEMMA DescendKeeps ==
  ASSUME htn \in Problems, TarjanInv, Descend
  PROVE  TarjanInv'
  <1>0. PICK c : c = Child
    OBVIOUS
  <1> DEFINE v == Call.task
             n == Len(path)
             last == [task |-> c, next |-> 1]
  <1>1. inTarjan /\ HasChild /\ c \notin DOMAIN dfsI
    BY <1>0 DEF Descend, U
  <1>2. /\ htn' = htn /\ path' = Append(path, last) /\ S' = Append(S, c)
        /\ dfsI' = SetFor(dfsI, {c}, maxdfs) /\ lowlink' = SetFor(lowlink, {c}, maxdfs)
        /\ taskToSCC' = taskToSCC
    BY <1>0 DEF Descend
  <1>3. /\ n \in Nat \ {0} /\ DOMAIN path = 1 .. n /\ Len(S) \in Nat /\ DOMAIN S = 1 .. Len(S)
        /\ path[n] = Call /\ v \in containedS
        /\ \A i \in DOMAIN path : path[i].task \in containedS
        /\ containedS \subseteq DOMAIN dfsI /\ containedS \subseteq Tasks
        /\ \A x \in DOMAIN dfsI : dfsI[x] \in Nat /\ lowlink[x] \in Nat
        /\ c \in Subtasks[v] /\ c \in Tasks /\ LeadsTo(v, c)
    <2>1. n \in 1 .. n
      BY <1>1, CallFacts
    <2>2. QED BY <1>0, <1>1, <2>1, CallFacts
  <1>4. NumbersOK /\ PathOK /\ LowlinkOK /\ ClosedOK
    BY DEF TarjanInv
  <1>5. /\ Tasks' = Tasks /\ Subtasks' = Subtasks
        /\ \A t : Children(t)' = Children(t)
        /\ \A t, u : LeadsTo(t, u)' <=> LeadsTo(t, u)
    BY <1>2, GraphStays
  <1>6. maxdfs \in Nat /\ maxdfs' = maxdfs + 1 /\ IsFiniteSet(DOMAIN dfsI')
    <2>1. IsFiniteSet(DOMAIN dfsI)
      BY <1>4 DEF NumbersOK
    <2>2. DOMAIN dfsI' = DOMAIN dfsI \union {c}
      BY <1>2 DEF SetFor
    <2>3. QED BY <1>1, <2>1, <2>2, FS_AddElement, FS_CardinalityType DEF maxdfs
  <1>7. /\ DOMAIN dfsI' = DOMAIN dfsI \union {c} /\ dfsI'[c] = maxdfs
        /\ \A x \in DOMAIN dfsI : dfsI'[x] = dfsI[x] /\ dfsI[x] < maxdfs
    BY <1>1, <1>2, <1>4, <1>6 DEF SetFor, NumbersOK
  <1>8. /\ DOMAIN lowlink = DOMAIN dfsI /\ DOMAIN lowlink' = DOMAIN lowlink \union {c} /\ lowlink'[c] = maxdfs
        /\ \A x \in DOMAIN lowlink : lowlink'[x] = lowlink[x]
        /\ lowlink' = [x \in DOMAIN lowlink' |-> lowlink'[x]] /\ dfsI' = [x \in DOMAIN dfsI' |-> dfsI'[x]]
    BY <1>1, <1>2, <1>4 DEF SetFor, NumbersOK
  <1>9. /\ S' \in Seq(Tasks) /\ Len(S') = Len(S) + 1 /\ DOMAIN S' = 1 .. Len(S) + 1
        /\ \A i \in DOMAIN S : S'[i] = S[i]
        /\ S'[Len(S) + 1] = c
    <2>1. S \in Seq(Tasks)
      BY <1>4 DEF NumbersOK
    <2>2. QED BY <1>2, <1>3, <2>1, AppendProperties, LenProperties
  <1>10. /\ path' \in Seq([task : Tasks, next : Nat \ {0}]) /\ Len(path') = n + 1 /\ DOMAIN path' = 1 .. n + 1
         /\ \A i \in DOMAIN path : path'[i] = path[i]
         /\ path'[n + 1] = last /\ path' # <<>>
    <2>1. path \in Seq([task : Tasks, next : Nat \ {0}])
      BY <1>4 DEF PathOK
    <2>2. last \in [task : Tasks, next : Nat \ {0}]
      BY <1>3
    <2> DEFINE X == [task : Tasks, next : Nat \ {0}]
    <2> HIDE DEF X, last
    <2>3. /\ path' \in Seq(X) /\ Len(path') = n + 1
          /\ \A i \in 1 .. n : path'[i] = path[i]
          /\ path'[n + 1] = last /\ path' # <<>>
      BY <1>2, <2>1, <2>2, AppendProperties DEF X
    <2>4. DOMAIN path' = 1 .. n + 1
      BY <2>3, LenProperties
    <2>5. QED BY <1>3, <2>3, <2>4 DEF X
  <1>11. containedS' = containedS \union {c} /\ Components' = Components
    <2>1. containedS' = containedS \union {c}
      BY <1>3, <1>9 DEF containedS, ToSet
    <2>2. QED BY <1>2, <2>1 DEF Components
  <1> HIDE DEF v, n
  <1>12. NumbersOK'
    <2>1. dfsI' \in [DOMAIN dfsI' -> 0 .. maxdfs' - 1]
      <3>1. ASSUME NEW x \in DOMAIN dfsI'
            PROVE  dfsI'[x] \in 0 .. maxdfs' - 1
        BY <1>3, <1>6, <1>7
      <3>2. QED BY <1>8, <3>1
    <2>2. \A t, u \in DOMAIN dfsI' : dfsI'[t] = dfsI'[u] => t = u
      BY <1>3, <1>4, <1>6, <1>7 DEF NumbersOK
    <2>3. lowlink' \in [DOMAIN dfsI' -> Nat]
      <3>1. \A x \in DOMAIN dfsI' : lowlink'[x] \in Nat
        BY <1>3, <1>6, <1>7, <1>8
      <3>2. DOMAIN lowlink' = DOMAIN dfsI'
        BY <1>7, <1>8
      <3>3. QED BY <1>8, <3>1, <3>2
    <2>4. DOMAIN dfsI' = containedS' \union Components' /\ containedS' \intersect Components' = {}
      BY <1>1, <1>4, <1>7, <1>11 DEF NumbersOK
    <2>5. ASSUME NEW i \in DOMAIN S', NEW j \in DOMAIN S', i < j
          PROVE  dfsI'[S'[i]] < dfsI'[S'[j]]
      <3>1. i \in DOMAIN S /\ S[i] \in DOMAIN dfsI
        BY <1>3, <1>9, <2>5 DEF containedS, ToSet
      <3>2. CASE j \in DOMAIN S
        <4>1. S[j] \in DOMAIN dfsI
          BY <1>3, <3>2 DEF containedS, ToSet
        <4>2. dfsI[S[i]] < dfsI[S[j]]
          BY <1>4, <2>5, <3>1, <3>2 DEF NumbersOK
        <4>3. QED BY <1>7, <1>9, <3>1, <3>2, <4>1, <4>2
      <3>3. CASE j = Len(S) + 1
        BY <1>7, <1>9, <3>1, <3>3
      <3>4. QED BY <1>3, <1>9, <3>2, <3>3
    <2>6. DOMAIN dfsI' \subseteq Tasks'
      BY <1>3, <1>4, <1>5, <1>7 DEF NumbersOK
    <2>7. QED BY <1>5, <1>6, <1>9, <2>1, <2>2, <2>3, <2>4, <2>5, <2>6 DEF NumbersOK
  <1>13. PathOK'
    <2>1. ASSUME NEW i \in DOMAIN path'
          PROVE  /\ path'[i].task \in containedS'
                 /\ path'[i].next <= Len(Children(path'[i].task)) + 1
                 /\ i < Len(path') => /\ path'[i].next <= Len(Children(path'[i].task))
                                      /\ Children(path'[i].task)[path'[i].next] = path'[i + 1].task
      <3>1. CASE i = n + 1
        <4>1. path'[i].task = c /\ path'[i].next = 1
          BY <1>10, <3>1
        <4>2. Len(Children(c)) \in Nat
          BY <1>1, <1>3, CallFacts
        <4>3. QED BY <1>3, <1>10, <1>11, <3>1, <4>1, <4>2 DEF n
      <3>2. CASE i = n
        <4>1. path'[i] = Call
          BY <1>3, <1>10, <3>2 DEF n
        <4>2. Call.next <= Len(Children(Call.task)) /\ Children(Call.task)[Call.next] = c
          BY <1>0, <1>1 DEF HasChild, Child
        <4>3. Len(Children(Call.task)) \in Nat /\ Call.next \in Nat
          <5>1. n \in DOMAIN path
            BY <1>3 DEF n
          <5>2. QED BY <1>1, <1>3, <5>1, CallFacts DEF n, v
        <4>4. path'[i + 1].task = c
          BY <1>10, <3>2
        <4>5. path'[i].task \in containedS'
          BY <1>3, <1>11, <4>1 DEF v
        <4>6. QED BY <4>1, <4>2, <4>3, <4>4, <4>5
      <3>3. CASE i # n /\ i # n + 1
        <4>1. i \in DOMAIN path /\ i < n /\ i + 1 \in DOMAIN path
          BY <1>3, <1>10, <3>3 DEF n
        <4>2. path'[i] = path[i] /\ path'[i + 1] = path[i + 1]
          BY <1>10, <4>1
        <4>3. QED BY <1>4, <1>11, <4>1, <4>2 DEF PathOK, n
      <3>4. QED BY <3>1, <3>2, <3>3
    <2>2. ASSUME NEW i \in DOMAIN path', NEW j \in DOMAIN path', i < j
          PROVE  dfsI'[path'[i].task] < dfsI'[path'[j].task]
      <3>1. i \in DOMAIN path /\ path[i].task \in DOMAIN dfsI
        BY <1>3, <1>10, <2>2 DEF n
      <3>2. CASE j \in DOMAIN path
        <4>1. path[j].task \in DOMAIN dfsI
          BY <1>3, <3>2
        <4>2. dfsI[path[i].task] < dfsI[path[j].task]
          BY <1>4, <2>2, <3>1, <3>2 DEF PathOK
        <4>3. QED BY <1>7, <1>10, <3>1, <3>2, <4>1, <4>2
      <3>3. CASE j = n + 1
        BY <1>7, <1>10, <3>1, <3>3
      <3>4. QED BY <1>3, <1>10, <3>2, <3>3 DEF n
    <2>3. S'[1] = path'[1].task
      <3>1. 1 \in DOMAIN path /\ 1 \in DOMAIN S
        BY <1>3 DEF n, containedS, ToSet
      <3>2. path # <<>>
        BY <1>1 DEF inTarjan
      <3>3. QED BY <1>4, <1>9, <1>10, <3>1, <3>2 DEF PathOK
    <2>4. htn'.initialTask \in DOMAIN dfsI'
      BY <1>2, <1>4, <1>7 DEF PathOK
    <2>5. QED BY <1>5, <1>10, <2>1, <2>2, <2>3, <2>4 DEF PathOK
  <1>14. /\ \A x \in containedS : Looked(x)' = Looked(x)
         /\ Looked(c)' = {}
    <2>1. ASSUME NEW x \in containedS
          PROVE  Looked(x)' = Looked(x)
      <3>1. x # c
        BY <1>1, <1>3, <2>1
      <3>2. \A i \in DOMAIN path' : path'[i].task = x => i \in DOMAIN path /\ path'[i] = path[i]
        BY <1>3, <1>10, <3>1 DEF n
      <3>3. \A i \in DOMAIN path : i \in DOMAIN path' /\ path'[i] = path[i]
        BY <1>3, <1>10 DEF n
      <3>4. QED BY <1>5, <3>2, <3>3 DEF Looked
    <2>2. Looked(c)' = {}
      <3>1. n + 1 \in DOMAIN path' /\ path'[n + 1].task = c /\ path'[n + 1].next = 1
        BY <1>3, <1>10 DEF n
      <3>2. 1 .. path'[n + 1].next - 1 = {}
        BY <3>1
      <3>3. ASSUME NEW u \in Looked(c)'
            PROVE  FALSE
        <4>1. path'[n + 1].task = c => \E j \in 1 .. path'[n + 1].next - 1 : Children(c)'[j] = u
          BY <3>1, <3>3 DEF Looked
        <4>2. QED BY <3>1, <3>2, <4>1
      <3>4. QED BY <3>3
    <2>3. QED BY <2>1, <2>2
  <1>15. LowlinkOK'
    <2>1. ASSUME NEW x \in containedS'
          PROVE  Looked(x)' \subseteq DOMAIN dfsI'
      <3>1. CASE x = c
        BY <1>14, <3>1
      <3>2. CASE x # c
        <4>1. x \in containedS
          BY <1>11, <3>2
        <4>2. Looked(x) \subseteq DOMAIN dfsI /\ Looked(x)' = Looked(x)
          BY <1>4, <1>14, <4>1 DEF LowlinkOK
        <4>3. QED BY <1>7, <4>2
      <3>3. QED BY <3>1, <3>2
    <2>2. ASSUME NEW i \in DOMAIN path'
          PROVE  LET p == path'[i].task
                 IN  /\ \E u \in containedS' : lowlink'[p] = dfsI'[u] /\ lowlink'[p] <= dfsI'[p] /\ LeadsTo(p, u)
                     /\ \A w \in containedS' : dfsI'[p] <= dfsI'[w] => LeadsTo(p, w)
                     /\ \A w \in containedS' : Under(w, i)' =>
                          /\ \A y \in Looked(w)' \intersect containedS' : lowlink'[p] <= dfsI'[y]
                          /\ w # p => \E u \in containedS' : /\ dfsI'[u] < dfsI'[w] /\ lowlink'[p] <= dfsI'[u]
                                                             /\ LeadsTo(w, u)
      <3>1. CASE i = n + 1
        <4>1. path'[i].task = c
          BY <1>10, <3>1
        <4>2. \A w \in containedS' : dfsI'[c] <= dfsI'[w] => w = c
          BY <1>3, <1>6, <1>7, <1>11
        <4>3. LeadsTo(c, c)
          BY <1>3, LeadsToFacts
        <4>4. \A w \in containedS' : Under(w, i)' => w = c
          BY <4>1, <4>2 DEF Under
        <4>5. c \in containedS' /\ lowlink'[c] = dfsI'[c] /\ dfsI'[c] \in Nat
          <5>1. lowlink'[c] = maxdfs /\ dfsI'[c] = maxdfs
            BY <1>7, <1>8
          <5>2. QED BY <1>6, <1>11, <5>1
        <4>6. \E u \in containedS' : lowlink'[c] = dfsI'[u] /\ lowlink'[c] <= dfsI'[c] /\ LeadsTo(c, u)
          BY <4>3, <4>5
        <4>7. Looked(c)' = {}
          BY <1>14
        <4> HIDE DEF last
        <4>8. QED BY <4>1, <4>2, <4>3, <4>4, <4>6, <4>7
      <3>2. CASE i # n + 1
        <4> DEFINE p == path[i].task
        <4>1. i \in DOMAIN path /\ path'[i].task = p /\ p \in containedS /\ p \in DOMAIN dfsI /\ p \in Tasks
          BY <1>3, <1>10, <3>2 DEF n
        <4> HIDE DEF p
        <4>2. /\ \E u \in containedS : lowlink[p] = dfsI[u] /\ lowlink[p] <= dfsI[p] /\ LeadsTo(p, u)
              /\ \A w \in containedS : dfsI[p] <= dfsI[w] => LeadsTo(p, w)
              /\ \A w \in containedS : Under(w, i) =>
                   /\ \A y \in Looked(w) \intersect containedS : lowlink[p] <= dfsI[y]
                   /\ w # p => \E u \in containedS : /\ dfsI[u] < dfsI[w] /\ lowlink[p] <= dfsI[u]
                                                     /\ LeadsTo(w, u)
          BY <1>4, <4>1 DEF LowlinkOK, p
        <4>3. lowlink'[p] = lowlink[p] /\ dfsI'[p] = dfsI[p]
          BY <1>7, <1>8, <4>1
        <4>4. \A u \in containedS : u \in containedS' /\ dfsI'[u] = dfsI[u]
          BY <1>3, <1>7, <1>11
        <4>5. LeadsTo(p, c)
          <5>1. dfsI[p] <= dfsI[v]
            <6>1. n \in DOMAIN path /\ path[n].task = v /\ (i = n \/ i < n)
              BY <1>3, <4>1 DEF n, v
            <6>2. CASE i = n
              BY <1>3, <4>1, <6>1, <6>2 DEF p
            <6>3. CASE i < n
              <7>1. dfsI[p] < dfsI[v]
                BY <1>4, <4>1, <6>1, <6>3 DEF PathOK, p
              <7>2. QED BY <1>3, <4>1, <7>1
            <6>4. QED BY <6>1, <6>2, <6>3
          <5>2. LeadsTo(p, v)
            BY <1>3, <4>2, <5>1
          <5>3. QED BY <1>3, <4>1, <5>2, LeadsToFacts
        <4>6. ASSUME NEW w \in containedS', Under(w, i)'
              PROVE  w \in containedS /\ Under(w, i)
          <5>1. dfsI'[p] <= dfsI'[w] /\ dfsI'[w] < dfsI'[path'[i + 1].task]
            BY <1>3, <1>10, <4>1, <4>6 DEF Under, n
          <5>2. dfsI'[path'[i + 1].task] <= maxdfs
            <6>1. i + 1 \in DOMAIN path'
              BY <1>3, <1>10, <4>1 DEF n
            <6>2. path'[i + 1].task \in containedS'
              <7>1. i + 1 \in DOMAIN path \/ i + 1 = n + 1
                BY <1>3, <1>10, <6>1 DEF n
              <7>2. QED BY <1>3, <1>10, <1>11, <7>1
            <6>3. QED BY <1>3, <1>6, <1>7, <1>11, <6>2
          <5>3. w # c
            <6>1. path'[i + 1].task \in DOMAIN dfsI'
              <7>1. i + 1 \in DOMAIN path \/ i + 1 = n + 1
                BY <1>3, <1>10, <4>1 DEF n
              <7>2. QED BY <1>3, <1>7, <1>10, <7>1
            <6>2. dfsI'[path'[i + 1].task] \in Nat
              BY <1>3, <1>6, <1>7, <6>1
            <6>3. QED BY <1>6, <1>7, <5>1, <5>2, <6>2
          <5>4. w \in containedS /\ w \in DOMAIN dfsI /\ dfsI'[w] = dfsI[w]
            BY <1>3, <1>7, <1>11, <4>6, <5>3
          <5>5. ASSUME i < Len(path)
                PROVE  dfsI[w] < dfsI[path[i + 1].task]
            <6>1. i + 1 \in DOMAIN path
              BY <1>3, <4>1, <5>5 DEF n
            <6>2. path'[i + 1] = path[i + 1] /\ path[i + 1].task \in DOMAIN dfsI
              BY <1>3, <1>10, <6>1
            <6>3. QED BY <1>7, <5>1, <5>4, <6>2
          <5>6. QED BY <4>3, <5>1, <5>4, <5>5 DEF Under, p
        <4>7. ASSUME NEW w \in containedS', Under(w, i)'
              PROVE  /\ \A y \in Looked(w)' \intersect containedS' : lowlink'[p] <= dfsI'[y]
                     /\ w # p => \E u \in containedS' : /\ dfsI'[u] < dfsI'[w] /\ lowlink'[p] <= dfsI'[u]
                                                        /\ LeadsTo(w, u)
          <5>1. w \in containedS /\ Under(w, i)
            BY <4>6, <4>7
          <5>2. Looked(w)' = Looked(w) /\ Looked(w) \subseteq DOMAIN dfsI
            BY <1>4, <1>14, <5>1 DEF LowlinkOK
          <5>3. \A y \in Looked(w)' \intersect containedS' : y \in Looked(w) \intersect containedS
            BY <1>1, <1>11, <5>2
          <5>4. QED BY <4>2, <4>3, <4>4, <5>1, <5>3
        <4>8. \A w \in containedS' : dfsI'[p] <= dfsI'[w] => LeadsTo(p, w)
          BY <1>11, <4>2, <4>3, <4>4, <4>5
        <4>9. \E u \in containedS' : lowlink'[p] = dfsI'[u] /\ lowlink'[p] <= dfsI'[p] /\ LeadsTo(p, u)
          BY <4>2, <4>3, <4>4
        <4>10. QED BY <4>1, <4>7, <4>8, <4>9
      <3>3. QED BY <3>1, <3>2
    <2>3. QED BY <1>5, <2>1, <2>2 DEF LowlinkOK
  <1>16. ClosedOK'
    <2>1. numSCCs' = numSCCs
      BY <1>2 DEF numSCCs
    <2>2. QED BY <1>2, <1>4, <1>5, <1>11, <2>1 DEF ClosedOK
  <1>17. QED BY <1>12, <1>13, <1>15, <1>16 DEF TarjanInv

\* The smaller of two numbers.
LEMMA LowerFacts ==
  ASSUME NEW a \in Nat, NEW b \in Nat
  PROVE  Lower(a, b) = IF a <= b THEN a ELSE b
  <1>1. \E x \in {a, b} : \A y \in {a, b} : x <= y
    OBVIOUS
  <1>2. Lower(a, b) \in {a, b} /\ \A y \in {a, b} : Lower(a, b) <= y
    BY <1>1 DEF Lower, Min
  <1>3. QED BY <1>2

\* Later calls are for tasks that were visited later.
LEMMA PathOrder ==
  ASSUME htn \in Problems, TarjanInv, inTarjan,
         NEW i \in DOMAIN path, NEW j \in DOMAIN path, i <= j
  PROVE  /\ path[i].task \in DOMAIN dfsI /\ path[j].task \in DOMAIN dfsI
         /\ dfsI[path[i].task] \in Nat /\ dfsI[path[j].task] \in Nat
         /\ dfsI[path[i].task] <= dfsI[path[j].task]
         /\ i < j => dfsI[path[i].task] < dfsI[path[j].task]
         /\ path[i].task = path[j].task => i = j
  <1>1. /\ path[i].task \in DOMAIN dfsI /\ path[j].task \in DOMAIN dfsI
        /\ dfsI[path[i].task] \in Nat /\ dfsI[path[j].task] \in Nat
    BY CallFacts
  <1>2. i < j => dfsI[path[i].task] < dfsI[path[j].task]
    BY DEF TarjanInv, PathOK
  <1>3. i \in Nat /\ j \in Nat
    BY CallFacts
  <1>4. i = j \/ i < j
    BY <1>3
  <1>5. QED BY <1>1, <1>2, <1>4

\* A step that sees to the next child of a call, the last one that goes on.
LEMMA LooksAtOneMore ==
  ASSUME htn \in Problems, htn' = htn, TarjanInv, inTarjan,
         NEW m \in DOMAIN path, NEW c,
         /\ DOMAIN path' = 1 .. m
         /\ \A i \in 1 .. m - 1 : path'[i] = path[i]
         /\ path'[m].task = path[m].task /\ path'[m].next = path[m].next + 1
         /\ Children(path[m].task)[path[m].next] = c
         /\ m < Len(path) => /\ m = Len(path) - 1
                             /\ Subtasks[path[Len(path)].task] \subseteq Looked(path[Len(path)].task)
  PROVE  \A x \in containedS : \A u \in Looked(x)' : u \in Looked(x) \/ (x = path[m].task /\ u = c)
  <1>1. SUFFICES ASSUME NEW x \in containedS, NEW u \in Looked(x)', ~(x = path[m].task /\ u = c),
                        NEW i \in DOMAIN path, path[i].task = x
                 PROVE  u \in Subtasks[x] /\ \E j \in 1 .. path[i].next - 1 : Children(x)[j] = u
    <2>1. ASSUME NEW x \in containedS, NEW u \in Looked(x)'
          PROVE  u \in Subtasks[x]
      <3>1. u \in Subtasks'[x]
        BY <2>1 DEF Looked
      <3>2. QED BY <3>1, GraphStays
    <2>2. QED BY <2>1 DEF Looked
  <1>2. /\ u \in Subtasks[x]
        /\ \A k \in DOMAIN path' : path'[k].task = x => \E j \in 1 .. path'[k].next - 1 : Children(x)[j] = u
    <2>1. /\ u \in Subtasks'[x]
          /\ \A k \in DOMAIN path' : path'[k].task = x => \E j \in 1 .. path'[k].next - 1 : Children(x)'[j] = u
      BY <1>1 DEF Looked
    <2>2. Children(x)' = Children(x) /\ Subtasks' = Subtasks
      BY GraphStays
    <2>3. QED BY <2>1, <2>2
  <1>3. /\ DOMAIN path = 1 .. Len(path) /\ Len(path) \in Nat
        /\ path[i] \in [task : Tasks, next : Nat \ {0}]
    BY CallFacts
  <1>4. CASE i <= m - 1
    <2>1. i \in DOMAIN path' /\ path'[i] = path[i]
      BY <1>3, <1>4
    <2>2. QED BY <1>1, <1>2, <2>1
  <1>5. CASE i = m
    <2>1. i \in DOMAIN path' /\ path'[i].task = x
      BY <1>1, <1>3, <1>5
    <2>2. PICK j \in 1 .. path'[i].next - 1 : Children(x)[j] = u
      BY <1>2, <2>1
    <2>3. path'[i].next = path[i].next + 1 /\ path[i].next \in Nat
      BY <1>3, <1>5
    <2>4. j # path[i].next
      BY <1>1, <1>5, <2>2
    <2>5. j \in 1 .. path[i].next - 1
      BY <2>2, <2>3, <2>4
    <2>6. QED BY <1>2, <2>2, <2>5
  <1>6. CASE i > m
    <2>1. m = Len(path) - 1 /\ i = Len(path)
      BY <1>3, <1>6
    <2>2. u \in Looked(x)
      BY <1>1, <1>2, <1>3, <2>1
    <2>3. QED BY <1>1, <2>2 DEF Looked
  <1>7. QED BY <1>3, <1>4, <1>5, <1>6

\* A child that was visited before is looked at: one on S may lead further back.
LEMMA SeeChildKeeps ==
  ASSUME htn \in Problems, TarjanInv, SeeChild
  PROVE  TarjanInv'
  <1>0. PICK c : c = Child
    OBVIOUS
  <1>00. PICK v, n : v = Call.task /\ n = Len(path)
    OBVIOUS
  <1>1. /\ inTarjan /\ HasChild /\ c \in DOMAIN dfsI
        /\ htn' = htn /\ S' = S /\ dfsI' = dfsI /\ taskToSCC' = taskToSCC
        /\ path' = OnToNextChild(path)
        /\ lowlink' = IF c \in containedS THEN [lowlink EXCEPT ![v] = Lower(@, dfsI[c])] ELSE lowlink
    <2>1. SeeChild
      OBVIOUS
    <2>2. c \in Tasks
      BY <1>0, <2>1, CallFacts DEF SeeChild
    <2>3. QED BY <1>0, <1>00, <2>1, <2>2 DEF SeeChild, U, LeadsBack
  <1>2. NumbersOK /\ PathOK /\ LowlinkOK /\ ClosedOK
    BY DEF TarjanInv
  <1>3. /\ n \in Nat \ {0} /\ DOMAIN path = 1 .. n /\ n \in DOMAIN path
        /\ path[n] = Call /\ path[n].task = v /\ v \in containedS /\ v \in Tasks
        /\ \A i \in DOMAIN path : path[i] \in [task : Tasks, next : Nat \ {0}] /\ path[i].task \in containedS
        /\ containedS \subseteq DOMAIN dfsI /\ containedS \subseteq Tasks
        /\ \A x \in DOMAIN dfsI : dfsI[x] \in Nat /\ lowlink[x] \in Nat
        /\ c \in Subtasks[v] /\ c \in Tasks /\ LeadsTo(v, c)
    <2>1. n \in 1 .. n
      BY <1>00, <1>1, CallFacts
    <2>2. QED BY <1>0, <1>00, <1>1, <2>1, CallFacts
  <1>4. /\ Tasks' = Tasks /\ Subtasks' = Subtasks
        /\ \A t : Children(t)' = Children(t)
        /\ \A t, u : LeadsTo(t, u)' <=> LeadsTo(t, u)
    BY <1>1, GraphStays
  <1>5. /\ path' \in Seq([task : Tasks, next : Nat \ {0}]) /\ Len(path') = n /\ DOMAIN path' = 1 .. n
        /\ \A i \in 1 .. n - 1 : path'[i] = path[i]
        /\ path'[n].task = v /\ path'[n].next = path[n].next + 1
        /\ path' # <<>>
    <2> DEFINE X == [task : Tasks, next : Nat \ {0}]
               e == [path[n] EXCEPT !.next = @ + 1]
    <2>1. path \in Seq(X)
      BY <1>2 DEF PathOK
    <2>2. e \in X /\ e.task = v /\ e.next = path[n].next + 1
      BY <1>00, <1>3
    <2>3. path' = [path EXCEPT ![n] = e]
      BY <1>00, <1>1 DEF OnToNextChild
    <2> HIDE DEF X, e
    <2>4. path' \in Seq(X) /\ Len(path') = n
      BY <1>00, <1>3, <2>1, <2>2, <2>3, ExceptSeq
    <2>5. DOMAIN path' = DOMAIN path /\ path'[n] = e /\ \A i \in 1 .. n - 1 : path'[i] = path[i]
      BY <1>3, <2>3
    <2>6. path' # <<>>
      BY <1>3, <2>4
    <2>7. QED BY <1>3, <2>2, <2>4, <2>5, <2>6 DEF X
  <1>6. containedS' = containedS /\ Components' = Components
    BY <1>1 DEF containedS, Components
  <1>7. /\ DOMAIN lowlink = DOMAIN dfsI /\ lowlink' \in [DOMAIN dfsI -> Nat]
        /\ \A x \in DOMAIN dfsI : x # v => lowlink'[x] = lowlink[x]
        /\ lowlink'[v] <= lowlink[v] /\ lowlink'[v] \in Nat
        /\ c \in containedS => lowlink'[v] <= dfsI[c]
        /\ lowlink'[v] = lowlink[v] \/ (c \in containedS /\ lowlink'[v] = dfsI[c])
    <2>1. lowlink \in [DOMAIN dfsI -> Nat]
      BY <1>2 DEF NumbersOK
    <2>2. Lower(lowlink[v], dfsI[c]) = IF lowlink[v] <= dfsI[c] THEN lowlink[v] ELSE dfsI[c]
      BY <1>1, <1>3, LowerFacts
    <2>3. QED BY <1>1, <1>3, <2>1, <2>2
  <1>8. NumbersOK'
    <2>1. maxdfs' = maxdfs
      BY <1>1 DEF maxdfs
    <2>2. QED BY <1>1, <1>2, <1>4, <1>6, <1>7, <2>1 DEF NumbersOK
  <1>9. \A i \in DOMAIN path : path'[i].task = path[i].task
    BY <1>3, <1>5, <1>00
  <1>10. PathOK'
    <2>1. ASSUME NEW i \in DOMAIN path
          PROVE  /\ path'[i].task \in containedS
                 /\ path'[i].next <= Len(Children(path'[i].task)) + 1
                 /\ i < n => /\ path'[i].next <= Len(Children(path'[i].task))
                             /\ Children(path'[i].task)[path'[i].next] = path'[i + 1].task
      <3>1. CASE i < n
        <4>1. path'[i] = path[i] /\ i + 1 \in DOMAIN path
          BY <1>3, <1>5, <3>1
        <4>2. path'[i + 1].task = path[i + 1].task
          BY <1>9, <4>1
        <4>3. QED BY <1>00, <1>2, <3>1, <4>1, <4>2 DEF PathOK
      <3>2. CASE i = n
        <4>1. path[n].next <= Len(Children(v)) /\ Len(Children(v)) \in Nat /\ path[n].next \in Nat
          BY <1>00, <1>1, <1>3, CallFacts DEF HasChild
        <4>2. QED BY <1>3, <1>5, <3>2, <4>1
      <3>3. QED BY <1>3, <3>1, <3>2
    <2>2. \A i, j \in DOMAIN path : i < j => dfsI[path'[i].task] < dfsI[path'[j].task]
      BY <1>2, <1>9 DEF PathOK
    <2>3. S[1] = path'[1].task
      BY <1>1, <1>2, <1>3, <1>9 DEF PathOK, inTarjan
    <2>4. htn'.initialTask \in DOMAIN dfsI'
      BY <1>1, <1>2 DEF PathOK
    <2>5. DOMAIN path' = DOMAIN path
      BY <1>3, <1>5
    <2>6. QED BY <1>1, <1>4, <1>5, <1>6, <2>1, <2>2, <2>3, <2>4, <2>5 DEF PathOK
  <1>11. \A x \in containedS : \A u \in Looked(x)' : u \in Looked(x) \/ (x = v /\ u = c)
    <2>1. Children(path[n].task)[path[n].next] = c
      BY <1>0, <1>3 DEF Child
    <2>2. v = path[n].task /\ ~(n < Len(path))
      BY <1>00, <1>3
    <2>3. /\ DOMAIN path' = 1 .. n /\ \A i \in 1 .. n - 1 : path'[i] = path[i]
          /\ path'[n].task = path[n].task /\ path'[n].next = path[n].next + 1
      BY <1>3, <1>5
    <2>4. QED BY <1>1, <1>3, <2>1, <2>2, <2>3, LooksAtOneMore
  <1>12. LowlinkOK'
    <2>1. \A x \in containedS : Looked(x)' \subseteq DOMAIN dfsI
      BY <1>1, <1>2, <1>11 DEF LowlinkOK
    <2>2. ASSUME NEW i \in DOMAIN path, NEW p, p = path[i].task
          PROVE  /\ \E u \in containedS : lowlink'[p] = dfsI[u] /\ lowlink'[p] <= dfsI[p] /\ LeadsTo(p, u)
                 /\ \A w \in containedS : dfsI[p] <= dfsI[w] => LeadsTo(p, w)
                 /\ \A w \in containedS : Under(w, i) =>
                      /\ \A y \in Looked(w)' \intersect containedS : lowlink'[p] <= dfsI[y]
                      /\ w # p => \E u \in containedS : /\ dfsI[u] < dfsI[w] /\ lowlink'[p] <= dfsI[u]
                                                        /\ LeadsTo(w, u)
      <3>1. /\ \E u \in containedS : lowlink[p] = dfsI[u] /\ lowlink[p] <= dfsI[p] /\ LeadsTo(p, u)
            /\ \A w \in containedS : dfsI[p] <= dfsI[w] => LeadsTo(p, w)
            /\ \A w \in containedS : Under(w, i) =>
                 /\ \A y \in Looked(w) \intersect containedS : lowlink[p] <= dfsI[y]
                 /\ w # p => \E u \in containedS : /\ dfsI[u] < dfsI[w] /\ lowlink[p] <= dfsI[u]
                                                   /\ LeadsTo(w, u)
        BY <1>2, <2>2 DEF LowlinkOK
      <3>2. p \in containedS /\ p \in DOMAIN dfsI /\ lowlink[p] \in Nat /\ dfsI[p] \in Nat
        BY <1>3, <2>2
      <3>3. CASE i < n
        <4>1. dfsI[p] < dfsI[v] /\ dfsI[v] \in Nat
          BY <1>1, <1>3, <2>2, <3>3, PathOrder
        <4>2. p # v /\ lowlink'[p] = lowlink[p]
          BY <1>7, <3>2, <4>1
        <4>3. ASSUME NEW w \in containedS, Under(w, i)
              PROVE  w # v
          <5>1. i + 1 \in DOMAIN path /\ i + 1 <= n
            BY <1>3, <3>3
          <5>2. dfsI[path[i + 1].task] <= dfsI[v] /\ dfsI[path[i + 1].task] \in Nat
            BY <1>1, <1>3, <5>1, PathOrder
          <5>3. dfsI[w] < dfsI[path[i + 1].task]
            BY <1>00, <3>3, <4>3 DEF Under
          <5>4. QED BY <1>3, <4>1, <5>2, <5>3
        <4>4. QED BY <1>11, <3>1, <4>2, <4>3
      <3>4. CASE i = n
        <4>1. p = v
          BY <1>3, <2>2, <3>4
        <4>2. \E u \in containedS : lowlink'[p] = dfsI[u] /\ lowlink'[p] <= dfsI[p] /\ LeadsTo(p, u)
          <5>1. lowlink[p] <= dfsI[p]
            BY <3>1
          <5>2. lowlink'[p] <= dfsI[p]
            BY <1>7, <3>2, <4>1, <5>1
          <5>3. CASE lowlink'[v] = lowlink[v]
            BY <3>1, <4>1, <5>3
          <5>4. CASE c \in containedS /\ lowlink'[v] = dfsI[c]
            BY <1>3, <4>1, <5>2, <5>4
          <5>5. QED BY <1>7, <5>3, <5>4
        <4>3. ASSUME NEW w \in containedS, Under(w, i)
              PROVE  /\ \A y \in Looked(w)' \intersect containedS : lowlink'[p] <= dfsI[y]
                     /\ w # p => \E u \in containedS : /\ dfsI[u] < dfsI[w] /\ lowlink'[p] <= dfsI[u]
                                                       /\ LeadsTo(w, u)
          <5>1. ASSUME NEW y \in Looked(w)' \intersect containedS
                PROVE  lowlink'[p] <= dfsI[y]
            <6>1. CASE y \in Looked(w)
              <7>1. lowlink[p] <= dfsI[y]
                BY <3>1, <4>3, <5>1, <6>1
              <7>2. dfsI[y] \in Nat
                BY <1>3, <5>1
              <7>3. QED BY <1>7, <3>2, <4>1, <7>1, <7>2
            <6>2. CASE y = c
              BY <1>7, <4>1, <5>1, <6>2
            <6>3. QED BY <1>11, <5>1, <6>1, <6>2
          <5>2. ASSUME w # p
                PROVE  \E u \in containedS : /\ dfsI[u] < dfsI[w] /\ lowlink'[p] <= dfsI[u] /\ LeadsTo(w, u)
            <6>1. PICK u \in containedS : /\ dfsI[u] < dfsI[w] /\ lowlink[p] <= dfsI[u] /\ LeadsTo(w, u)
              BY <3>1, <4>3, <5>2
            <6>2. dfsI[u] \in Nat
              BY <1>3
            <6>3. lowlink'[p] <= dfsI[u]
              BY <1>7, <3>2, <4>1, <6>1, <6>2
            <6>4. QED BY <6>1, <6>3
          <5>3. QED BY <5>1, <5>2
        <4>4. QED BY <3>1, <4>2, <4>3
      <3>5. QED BY <1>3, <3>3, <3>4
    <2>3. ASSUME NEW w, NEW i \in DOMAIN path
          PROVE  Under(w, i)' <=> Under(w, i)
      <3>1. i < n => i + 1 \in DOMAIN path
        BY <1>3
      <3>2. QED BY <1>00, <1>1, <1>5, <1>6, <1>9, <3>1 DEF Under
    <2>4. DOMAIN path' = DOMAIN path
      BY <1>3, <1>5
    <2>5. QED BY <1>1, <1>4, <1>6, <1>9, <2>1, <2>2, <2>3, <2>4 DEF LowlinkOK
  <1>13. ClosedOK'
    <2>1. numSCCs' = numSCCs
      BY <1>1 DEF numSCCs
    <2>2. QED BY <1>1, <1>2, <1>4, <1>6, <2>1 DEF ClosedOK
  <1>14. QED BY <1>8, <1>10, <1>12, <1>13 DEF TarjanInv

\* The call returns to another one, which goes on with its next child.
LEMMA CallerMoves ==
  ASSUME htn \in Problems, htn' = htn, TarjanInv, inTarjan, ~HasChild,
         NEW n, n = Len(path), n > 1, path' = OnToNextChild(Front(path))
  PROVE  /\ n - 1 \in DOMAIN path
         /\ path' \in Seq([task : Tasks, next : Nat \ {0}]) /\ Len(path') = n - 1 /\ DOMAIN path' = 1 .. n - 1
         /\ \A i \in 1 .. n - 2 : path'[i] = path[i]
         /\ path'[n - 1].next = path[n - 1].next + 1
         /\ \A i \in 1 .. n - 1 : path'[i].task = path[i].task
         /\ path' # <<>>
         /\ \A x \in containedS : \A u \in Looked(x)' :
              u \in Looked(x) \/ (x = path[n - 1].task /\ u = path[n].task)
         /\ Last(Front(path)) = path[n - 1]
         /\ Subtasks[path[n].task] \subseteq Looked(path[n].task)
         /\ PathOK => /\ path[n - 1].next <= Len(Children(path[n - 1].task))
                      /\ Len(Children(path[n - 1].task)) \in Nat
  <1> DEFINE X == [task : Tasks, next : Nat \ {0}]
             e == [path[n - 1] EXCEPT !.next = @ + 1]
             callers == Front(path)
  <1>1. /\ path \in Seq(X) /\ n \in Nat \ {0} /\ DOMAIN path = 1 .. n /\ n - 1 \in DOMAIN path /\ n \in DOMAIN path
        /\ \A i \in DOMAIN path : path[i] \in X
    BY CallFacts DEF TarjanInv, PathOK
  <1>2. e \in X /\ e.task = path[n - 1].task /\ e.next = path[n - 1].next + 1
    BY <1>1
  <1> HIDE DEF X, e
  <1>3. /\ callers \in Seq(X) /\ Len(callers) = n - 1
        /\ \A i \in 1 .. n - 1 : callers[i] = path[i]
    <2>1. \A i \in 1 .. n - 1 : path[i] \in X
      BY <1>1
    <2>2. /\ SubSeq(path, 1, n - 1) \in Seq(X)
          /\ Len(SubSeq(path, 1, n - 1)) = IF 1 <= n - 1 THEN n - 1 - 1 + 1 ELSE 0
          /\ \A i \in 1 .. n - 1 - 1 + 1 : SubSeq(path, 1, n - 1)[i] = path[1 + i - 1]
      BY <1>1, <2>1, SubSeqProperties
    <2>3. callers = SubSeq(path, 1, n - 1)
      BY DEF Front
    <2>4. QED BY <1>1, <2>2, <2>3
  <1> HIDE DEF callers
  <1>4. DOMAIN callers = 1 .. n - 1 /\ n - 1 \in DOMAIN callers /\ callers[n - 1] = path[n - 1]
    BY <1>1, <1>3, LenProperties
  <1>5. path' = [callers EXCEPT ![n - 1] = e]
    BY <1>3, <1>4 DEF OnToNextChild, callers, e
  <1>6. path' \in Seq(X) /\ Len(path') = n - 1
    BY <1>1, <1>2, <1>3, <1>5, ExceptSeq
  <1>7. /\ DOMAIN path' = 1 .. n - 1 /\ path'[n - 1] = e /\ \A i \in 1 .. n - 2 : path'[i] = path[i]
    BY <1>1, <1>3, <1>4, <1>5
  <1>8. \A i \in 1 .. n - 1 : path'[i].task = path[i].task
    <2>1. ASSUME NEW i \in 1 .. n - 1
          PROVE  path'[i].task = path[i].task
      <3>1. i \in 1 .. n - 2 \/ i = n - 1
        BY <1>1
      <3>2. QED BY <1>2, <1>7, <3>1
    <2>2. QED BY <2>1
  <1>9. path' # <<>>
    BY <1>1, <1>6
  <1>10. Subtasks[path[n].task] \subseteq Looked(path[n].task)
    <2> DEFINE v == path[n].task
    <2>1. /\ path[n].next = Len(Children(v)) + 1 /\ v \in Tasks
          /\ Children(v) \in Seq(Tasks) /\ Len(Children(v)) \in Nat /\ DOMAIN Children(v) = 1 .. Len(Children(v))
      BY <1>1, CallFacts DEF X
    <2>2. Subtasks[v] = ToSet(Children(v))
      BY <2>1, SubtasksAreGraph
    <2>3. ASSUME NEW u \in Subtasks[v], NEW i \in DOMAIN path, path[i].task = v
          PROVE  \E j \in 1 .. path[i].next - 1 : Children(v)[j] = u
      <3>1. i = n
        <4>1. i <= n
          BY <1>1
        <4>2. QED BY <1>1, <2>3, <4>1, PathOrder
      <3>2. PICK j \in DOMAIN Children(v) : Children(v)[j] = u
        BY <2>2, <2>3 DEF ToSet
      <3>3. j \in 1 .. path[i].next - 1
        BY <2>1, <3>1, <3>2
      <3>4. QED BY <3>2, <3>3
    <2>4. QED BY <2>3 DEF Looked
  <1>11. \A x \in containedS : \A u \in Looked(x)' :
              u \in Looked(x) \/ (x = path[n - 1].task /\ u = path[n].task)
    <2>1. Children(path[n - 1].task)[path[n - 1].next] = path[n].task
      <3>1. n - 1 < Len(path) /\ n - 1 + 1 = n
        BY <1>1
      <3>2. Children(path[n - 1].task)[path[n - 1].next] = path[n - 1 + 1].task
        BY <1>1, <3>1 DEF TarjanInv, PathOK
      <3>3. QED BY <3>1, <3>2
    <2>2. n - 1 < Len(path) => /\ n - 1 = Len(path) - 1
                               /\ Subtasks[path[Len(path)].task] \subseteq Looked(path[Len(path)].task)
      BY <1>10
    <2>3. /\ Len(path') = n - 1 /\ DOMAIN path' = 1 .. n - 1
          /\ \A i \in 1 .. (n - 1) - 1 : path'[i] = path[i]
          /\ path'[n - 1].task = path[n - 1].task /\ path'[n - 1].next = path[n - 1].next + 1
      BY <1>1, <1>2, <1>6, <1>7
    <2>4. QED BY <1>1, <2>1, <2>2, <2>3, LooksAtOneMore
  <1>12. Last(Front(path)) = path[n - 1]
    BY <1>3, <1>4 DEF Last, callers
  <1>13. PathOK => /\ path[n - 1].next <= Len(Children(path[n - 1].task))
                   /\ Len(Children(path[n - 1].task)) \in Nat
    <2>1. path[n - 1].task \in Tasks
      BY <1>1 DEF X
    <2>2. Len(Children(path[n - 1].task)) \in Nat
      BY <2>1, CallFacts
    <2>3. n - 1 < Len(path)
      BY <1>1
    <2>4. QED BY <1>1, <2>2, <2>3 DEF PathOK
  <1>14. QED BY <1>1, <1>2, <1>6, <1>7, <1>8, <1>9, <1>10, <1>11, <1>12, <1>13 DEF X

\* A task that leads back to one before it stays on S when its call returns.
LEMMA LeaveInsideKeeps ==
  ASSUME htn \in Problems, TarjanInv, LeaveInside
  PROVE  TarjanInv'
  <1>0. PICK v, n, q : v = Call.task /\ n = Len(path) /\ q = path[n - 1].task
    OBVIOUS
  <1>1. /\ inTarjan /\ ~HasChild /\ lowlink[v] # dfsI[v]
        /\ htn' = htn /\ S' = S /\ dfsI' = dfsI /\ taskToSCC' = taskToSCC
    BY <1>0 DEF LeaveInside, IsRoot
  <1>2. NumbersOK /\ PathOK /\ LowlinkOK /\ ClosedOK
    BY DEF TarjanInv
  <1>3. /\ n \in Nat \ {0} /\ DOMAIN path = 1 .. n /\ n \in DOMAIN path
        /\ path[n] = Call /\ path[n].task = v /\ v \in containedS
        /\ \A i \in DOMAIN path : path[i] \in [task : Tasks, next : Nat \ {0}] /\ path[i].task \in containedS
        /\ containedS \subseteq DOMAIN dfsI /\ containedS \subseteq Tasks
        /\ \A x \in DOMAIN dfsI : dfsI[x] \in Nat /\ lowlink[x] \in Nat
        /\ Len(S) \in Nat /\ DOMAIN S = 1 .. Len(S)
    <2>1. n \in 1 .. n
      BY <1>0, <1>1, CallFacts
    <2>2. QED BY <1>0, <1>1, <2>1, CallFacts
  <1>4. PICK back \in containedS : lowlink[v] = dfsI[back] /\ dfsI[back] < dfsI[v] /\ LeadsTo(v, back)
    <2>1. PICK u \in containedS : lowlink[v] = dfsI[u] /\ lowlink[v] <= dfsI[v] /\ LeadsTo(v, u)
      BY <1>2, <1>3 DEF LowlinkOK
    <2>2. dfsI[u] < dfsI[v]
      BY <1>1, <1>3, <2>1
    <2>3. QED BY <2>1, <2>2
  <1>5. n > 1
    <2>1. SUFFICES ASSUME n = 1
                   PROVE  FALSE
      BY <1>3
    <2>2. S[1] = v
      BY <1>1, <1>2, <1>3, <2>1 DEF PathOK, inTarjan
    <2>3. PICK j \in DOMAIN S : S[j] = back
      BY <1>4 DEF containedS, ToSet
    <2>4. j = 1 \/ dfsI[S[1]] < dfsI[S[j]]
      <3>1. 1 \in DOMAIN S /\ (j = 1 \/ 1 < j)
        BY <1>3, <2>3
      <3>2. QED BY <1>2, <2>3, <3>1 DEF NumbersOK
    <2>5. QED BY <1>3, <1>4, <2>2, <2>3, <2>4
  <1>6. Front(path) # <<>>
    <2>1. Len(Front(path)) = n - 1
      <3> DEFINE X == [task : Tasks, next : Nat \ {0}]
      <3>1. \A i \in 1 .. n - 1 : path[i] \in X
        BY <1>3
      <3> HIDE DEF X
      <3>2. QED BY <1>0, <1>3, <1>5, <3>1, SubSeqProperties DEF Front
    <2>2. QED BY <1>3, <1>5, <2>1
  <1>7. path' = OnToNextChild(Front(path)) /\ lowlink' = [lowlink EXCEPT ![Last(Front(path)).task] = Lower(@, lowlink[v])]
    BY <1>0, <1>6 DEF LeaveInside, BackToCaller
  <1>8. /\ n - 1 \in DOMAIN path
        /\ path' \in Seq([task : Tasks, next : Nat \ {0}]) /\ Len(path') = n - 1 /\ DOMAIN path' = 1 .. n - 1
        /\ \A i \in 1 .. n - 2 : path'[i] = path[i]
        /\ path'[n - 1].next = path[n - 1].next + 1
        /\ \A i \in 1 .. n - 1 : path'[i].task = path[i].task
        /\ path' # <<>>
        /\ \A x \in containedS : \A u \in Looked(x)' : u \in Looked(x) \/ (x = q /\ u = v)
        /\ lowlink' = [lowlink EXCEPT ![q] = Lower(@, lowlink[v])]
        /\ path[n - 1].next <= Len(Children(q)) /\ Len(Children(q)) \in Nat
    BY <1>0, <1>1, <1>2, <1>3, <1>5, <1>7, CallerMoves
  <1>9. /\ Tasks' = Tasks /\ Subtasks' = Subtasks
        /\ \A t : Children(t)' = Children(t)
        /\ \A t, u : LeadsTo(t, u)' <=> LeadsTo(t, u)
    BY <1>1, GraphStays
  <1>10. containedS' = containedS /\ Components' = Components
    BY <1>1 DEF containedS, Components
  <1>11. /\ q \in containedS /\ q \in DOMAIN dfsI /\ q \in Tasks /\ v \in DOMAIN dfsI
         /\ dfsI[q] < dfsI[v] /\ LeadsTo(q, v) /\ lowlink[q] <= dfsI[q] /\ lowlink[v] <= dfsI[v]
    <2>1. q \in containedS
      BY <1>0, <1>3, <1>8
    <2>2. dfsI[q] < dfsI[v]
      <3>1. n - 1 <= n /\ n - 1 < n
        BY <1>3
      <3>2. QED BY <1>0, <1>1, <1>3, <1>8, <3>1, PathOrder
    <2>3. /\ \E u \in containedS : lowlink[q] = dfsI[u] /\ lowlink[q] <= dfsI[q]
          /\ \A w \in containedS : dfsI[q] <= dfsI[w] => LeadsTo(q, w)
      BY <1>0, <1>2, <1>8 DEF LowlinkOK
    <2>4. QED BY <1>3, <1>4, <2>1, <2>2, <2>3
  <1>12. /\ DOMAIN lowlink = DOMAIN dfsI /\ lowlink' \in [DOMAIN dfsI -> Nat]
         /\ \A x \in DOMAIN dfsI : x # q => lowlink'[x] = lowlink[x]
         /\ lowlink'[q] <= lowlink[q] /\ lowlink'[q] \in Nat
         /\ lowlink'[q] <= lowlink[v]
         /\ lowlink'[q] = lowlink[q] \/ lowlink'[q] = lowlink[v]
    <2>1. lowlink \in [DOMAIN dfsI -> Nat]
      BY <1>2 DEF NumbersOK
    <2>2. Lower(lowlink[q], lowlink[v]) = IF lowlink[q] <= lowlink[v] THEN lowlink[q] ELSE lowlink[v]
      BY <1>3, <1>11, LowerFacts
    <2>3. QED BY <1>3, <1>8, <1>11, <2>1, <2>2
  <1>13. NumbersOK'
    <2>1. maxdfs' = maxdfs
      BY <1>1 DEF maxdfs
    <2>2. QED BY <1>1, <1>2, <1>9, <1>10, <1>12, <2>1 DEF NumbersOK
  <1>14. PathOK'
    <2>1. ASSUME NEW i \in 1 .. n - 1
          PROVE  /\ path'[i].task \in containedS
                 /\ path'[i].next <= Len(Children(path'[i].task)) + 1
                 /\ i < n - 1 => /\ path'[i].next <= Len(Children(path'[i].task))
                                 /\ Children(path'[i].task)[path'[i].next] = path'[i + 1].task
      <3>1. CASE i < n - 1
        <4>1. i \in 1 .. n - 2 /\ i \in DOMAIN path /\ i + 1 \in 1 .. n - 1 /\ i < Len(path)
          BY <1>0, <1>3, <3>1
        <4>2. path'[i] = path[i] /\ path'[i + 1].task = path[i + 1].task
          BY <1>8, <4>1
        <4>3. QED BY <1>2, <4>1, <4>2 DEF PathOK
      <3>2. CASE i = n - 1
        <4>1. path'[i].task = q /\ path'[i].next = path[n - 1].next + 1 /\ path[n - 1].next \in Nat
          BY <1>0, <1>3, <1>8, <3>2
        <4>2. QED BY <1>8, <1>11, <3>2, <4>1
      <3>3. QED BY <1>3, <3>1, <3>2
    <2>2. ASSUME NEW i \in 1 .. n - 1, NEW j \in 1 .. n - 1, i < j
          PROVE  dfsI[path'[i].task] < dfsI[path'[j].task]
      <3>1. i \in DOMAIN path /\ j \in DOMAIN path
        BY <1>3
      <3>2. QED BY <1>2, <1>8, <2>2, <3>1 DEF PathOK
    <2>3. S[1] = path'[1].task
      <3>1. 1 \in 1 .. n - 1
        BY <1>3, <1>5
      <3>2. QED BY <1>1, <1>2, <1>8, <3>1 DEF PathOK, inTarjan
    <2>4. htn'.initialTask \in DOMAIN dfsI'
      BY <1>1, <1>2 DEF PathOK
    <2>5. QED BY <1>1, <1>8, <1>9, <1>10, <2>1, <2>2, <2>3, <2>4 DEF PathOK
  <1>15. LowlinkOK'
    <2>1. \A x \in containedS : Looked(x)' \subseteq DOMAIN dfsI
      BY <1>2, <1>8, <1>11 DEF LowlinkOK
    <2>2. ASSUME NEW i \in 1 .. n - 1, NEW p, p = path[i].task
          PROVE  /\ \E u \in containedS : lowlink'[p] = dfsI[u] /\ lowlink'[p] <= dfsI[p] /\ LeadsTo(p, u)
                 /\ \A w \in containedS : dfsI[p] <= dfsI[w] => LeadsTo(p, w)
                 /\ \A w \in containedS : Under(w, i)' =>
                      /\ \A y \in Looked(w)' \intersect containedS : lowlink'[p] <= dfsI[y]
                      /\ w # p => \E u \in containedS : /\ dfsI[u] < dfsI[w] /\ lowlink'[p] <= dfsI[u]
                                                        /\ LeadsTo(w, u)
      <3>0. i \in DOMAIN path
        BY <1>3
      <3>1. /\ \E u \in containedS : lowlink[p] = dfsI[u] /\ lowlink[p] <= dfsI[p] /\ LeadsTo(p, u)
            /\ \A w \in containedS : dfsI[p] <= dfsI[w] => LeadsTo(p, w)
            /\ \A w \in containedS : Under(w, i) =>
                 /\ \A y \in Looked(w) \intersect containedS : lowlink[p] <= dfsI[y]
                 /\ w # p => \E u \in containedS : /\ dfsI[u] < dfsI[w] /\ lowlink[p] <= dfsI[u]
                                                   /\ LeadsTo(w, u)
        BY <1>2, <2>2, <3>0 DEF LowlinkOK
      <3>2. p \in containedS /\ p \in DOMAIN dfsI /\ lowlink[p] \in Nat /\ dfsI[p] \in Nat
        BY <1>3, <2>2, <3>0
      <3>3. CASE i < n - 1
        <4>1. dfsI[p] < dfsI[q] /\ dfsI[q] \in Nat
          <5>1. i <= n - 1
            BY <3>3
          <5>2. QED BY <1>0, <1>1, <1>8, <2>2, <3>0, <3>3, <5>1, PathOrder
        <4>2. p # q /\ lowlink'[p] = lowlink[p]
          BY <1>12, <3>2, <4>1
        <4>3. ASSUME NEW w \in containedS, Under(w, i)'
              PROVE  w # q /\ Under(w, i)
          <5>1. i + 1 \in DOMAIN path /\ i + 1 <= n - 1 /\ i + 1 \in 1 .. n - 1
            BY <1>3, <3>3
          <5>2. dfsI[path[i + 1].task] <= dfsI[q] /\ dfsI[path[i + 1].task] \in Nat
            BY <1>0, <1>1, <1>8, <5>1, PathOrder
          <5>3. /\ path'[i].task = p /\ path'[i + 1].task = path[i + 1].task
            BY <1>8, <2>2, <5>1
          <5>4. dfsI[p] <= dfsI[w] /\ dfsI[w] < dfsI[path[i + 1].task]
            BY <1>1, <1>8, <3>3, <4>3, <5>3 DEF Under
          <5>5. QED BY <1>3, <2>2, <4>1, <4>3, <5>2, <5>4 DEF Under
        <4>4. QED BY <1>8, <3>1, <4>2, <4>3
      <3>4. CASE i = n - 1
        <4>1. p = q
          BY <1>0, <2>2, <3>4
        <4>2. \E u \in containedS : lowlink'[p] = dfsI[u] /\ lowlink'[p] <= dfsI[p] /\ LeadsTo(p, u)
          <5>1. lowlink'[p] <= dfsI[p]
            BY <1>11, <1>12, <3>2, <4>1
          <5>2. CASE lowlink'[q] = lowlink[q]
            BY <3>1, <4>1, <5>2
          <5>3. CASE lowlink'[q] = lowlink[v]
            <6>1. LeadsTo(q, back)
              BY <1>3, <1>4, <1>11, LeadsToFacts
            <6>2. QED BY <1>4, <4>1, <5>1, <5>3, <6>1
          <5>4. QED BY <1>12, <5>2, <5>3
        <4>3. ASSUME NEW w \in containedS, Under(w, i)'
              PROVE  /\ \A y \in Looked(w)' \intersect containedS : lowlink'[p] <= dfsI[y]
                     /\ w # p => \E u \in containedS : /\ dfsI[u] < dfsI[w] /\ lowlink'[p] <= dfsI[u]
                                                       /\ LeadsTo(w, u)
          <5>1. path'[i].task = q
            BY <1>8, <2>2, <4>1
          <5>2. dfsI[q] <= dfsI[w]
            BY <1>1, <4>3, <5>1 DEF Under
          <5>3. Under(w, n - 1) \/ Under(w, n)
            <6>1. n - 1 + 1 = n
              BY <1>3
            <6>2. CASE dfsI[w] < dfsI[v]
              BY <1>0, <1>3, <5>2, <6>1, <6>2 DEF Under
            <6>3. CASE ~(dfsI[w] < dfsI[v])
              <7>1. dfsI[v] <= dfsI[w] /\ ~(n < Len(path))
                BY <1>0, <1>3, <6>3
              <7>2. QED BY <1>3, <7>1 DEF Under
            <6>4. QED BY <6>2, <6>3
          <5>4. /\ \A y \in Looked(w) \intersect containedS : lowlink[q] <= dfsI[y] \/ lowlink[v] <= dfsI[y]
                /\ w # q => \E u \in containedS : /\ dfsI[u] < dfsI[w] /\ LeadsTo(w, u)
                                                  /\ lowlink[q] <= dfsI[u] \/ lowlink[v] <= dfsI[u]
            <6>1. CASE Under(w, n - 1)
              BY <3>1, <3>4, <4>1, <6>1
            <6>2. CASE Under(w, n)
              <7>1. /\ \A y \in Looked(w) \intersect containedS : lowlink[v] <= dfsI[y]
                    /\ w # v => \E u \in containedS : /\ dfsI[u] < dfsI[w] /\ lowlink[v] <= dfsI[u]
                                                      /\ LeadsTo(w, u)
                BY <1>2, <1>3, <6>2 DEF LowlinkOK
              <7>2. w = v => dfsI[back] < dfsI[w] /\ lowlink[v] <= dfsI[back] /\ LeadsTo(w, back)
                BY <1>3, <1>4
              <7>3. QED BY <7>1, <7>2
            <6>3. QED BY <5>3, <6>1, <6>2
          <5>5. ASSUME NEW y \in containedS, lowlink[q] <= dfsI[y] \/ lowlink[v] <= dfsI[y]
                PROVE  lowlink'[p] <= dfsI[y]
            <6>1. dfsI[y] \in Nat /\ lowlink[q] \in Nat /\ lowlink[v] \in Nat
              BY <1>3, <1>11
            <6>2. QED BY <1>12, <4>1, <5>5, <6>1
          <5>6. ASSUME NEW y \in Looked(w)' \intersect containedS
                PROVE  lowlink'[p] <= dfsI[y]
            <6>1. CASE y \in Looked(w)
              BY <5>4, <5>5, <5>6, <6>1
            <6>2. CASE y = v
              BY <1>11, <5>5, <5>6, <6>2
            <6>3. QED BY <1>8, <5>6, <6>1, <6>2
          <5>7. QED BY <4>1, <5>4, <5>5, <5>6
        <4>4. QED BY <3>1, <4>2, <4>3
      <3>5. QED BY <1>3, <3>3, <3>4
    <2>3. ASSUME NEW i \in DOMAIN path', NEW p, p = path'[i].task
          PROVE  /\ \E u \in containedS' : lowlink'[p] = dfsI'[u] /\ lowlink'[p] <= dfsI'[p] /\ LeadsTo(p, u)'
                 /\ \A w \in containedS' : dfsI'[p] <= dfsI'[w] => LeadsTo(p, w)'
                 /\ \A w \in containedS' : Under(w, i)' =>
                      /\ \A y \in Looked(w)' \intersect containedS' : lowlink'[p] <= dfsI'[y]
                      /\ w # p => \E u \in containedS' : /\ dfsI'[u] < dfsI'[w] /\ lowlink'[p] <= dfsI'[u]
                                                         /\ LeadsTo(w, u)'
      <3>1. i \in 1 .. n - 1 /\ p = path[i].task
        BY <1>8, <2>3
      <3>2. QED BY <1>1, <1>9, <1>10, <2>2, <3>1
    <2>4. \A x \in containedS' : Looked(x)' \subseteq DOMAIN dfsI'
      BY <1>1, <1>10, <2>1
    <2>5. QED BY <2>3, <2>4 DEF LowlinkOK
  <1>16. ClosedOK'
    <2>1. numSCCs' = numSCCs
      BY <1>1 DEF numSCCs
    <2>2. QED BY <1>1, <1>2, <1>9, <1>10, <2>1 DEF ClosedOK
  <1>17. QED BY <1>13, <1>14, <1>15, <1>16 DEF TarjanInv

\* A list is split before one of its elements.
LEMMA SplitList ==
  ASSUME NEW X, NEW s \in Seq(X), NEW at \in 1 .. Len(s)
  PROVE  /\ ToSet(SubSeq(s, at, Len(s))) = {s[i] : i \in at .. Len(s)}
         /\ SubSeq(s, 1, at - 1) \in Seq(X)
         /\ Len(SubSeq(s, 1, at - 1)) = at - 1
         /\ DOMAIN SubSeq(s, 1, at - 1) = 1 .. at - 1
         /\ \A i \in 1 .. at - 1 : SubSeq(s, 1, at - 1)[i] = s[i]
  <1> DEFINE n == Len(s)
             top == SubSeq(s, at, n)
             rest == SubSeq(s, 1, at - 1)
  <1>1. n \in Nat /\ \A i \in 1 .. n : s[i] \in X
    BY LenProperties, ElementOfSeq
  <1>2. /\ Len(top) = n - at + 1 /\ \A i \in 1 .. n - at + 1 : top[i] = s[at + i - 1]
        /\ DOMAIN top = 1 .. n - at + 1
    <2>1. \A i \in at .. n : s[i] \in X
      BY <1>1
    <2>2. top \in Seq(X) /\ Len(top) = n - at + 1 /\ \A i \in 1 .. n - at + 1 : top[i] = s[at + i - 1]
      BY <1>1, <2>1, SubSeqProperties
    <2>3. QED BY <2>2, LenProperties
  <1>3. /\ rest \in Seq(X) /\ Len(rest) = at - 1 /\ DOMAIN rest = 1 .. at - 1
        /\ \A i \in 1 .. at - 1 : rest[i] = s[i]
    <2>1. \A i \in 1 .. at - 1 : s[i] \in X
      BY <1>1
    <2>2. /\ rest \in Seq(X) /\ Len(rest) = IF 1 <= at - 1 THEN at - 1 - 1 + 1 ELSE 0
          /\ \A i \in 1 .. at - 1 - 1 + 1 : rest[i] = s[1 + i - 1]
      BY <1>1, <2>1, SubSeqProperties
    <2>3. Len(rest) = at - 1 /\ \A i \in 1 .. at - 1 : rest[i] = s[i]
      BY <1>1, <2>2
    <2>4. QED BY <2>2, <2>3, LenProperties
  <1> HIDE DEF top, rest
  <1>4. ToSet(top) = {s[i] : i \in at .. n}
    <2>1. ASSUME NEW i \in DOMAIN top
          PROVE  top[i] \in {s[j] : j \in at .. n}
      <3>1. at + i - 1 \in at .. n
        BY <1>1, <1>2
      <3>2. QED BY <1>2, <2>1, <3>1
    <2>2. ASSUME NEW j \in at .. n
          PROVE  s[j] \in ToSet(top)
      <3>1. j - at + 1 \in 1 .. n - at + 1 /\ at + (j - at + 1) - 1 = j
        BY <1>1
      <3>2. j - at + 1 \in DOMAIN top /\ top[j - at + 1] = s[j]
        BY <1>2, <3>1
      <3>3. QED BY <3>2 DEF ToSet
    <2>3. QED BY <2>1, <2>2 DEF ToSet
  <1>5. QED BY <1>3, <1>4 DEF top, rest

\* What is popped from S: the tasks visited since this one.
LEMMA PoppedFromS ==
  ASSUME htn \in Problems, TarjanInv, inTarjan, NEW at \in DOMAIN S
  PROVE  /\ \A w \in containedS : dfsI[S[at]] <= dfsI[w] <=> \E i \in at .. Len(S) : w = S[i]
         /\ \A w \in containedS : ~(dfsI[S[at]] <= dfsI[w]) <=> \E i \in 1 .. at - 1 : w = S[i]
  <1> DEFINE n == Len(S)
  <1>1. /\ n \in Nat /\ DOMAIN S = 1 .. n /\ containedS \subseteq DOMAIN dfsI
        /\ \A x \in DOMAIN dfsI : dfsI[x] \in Nat
        /\ \A i \in 1 .. n : S[i] \in containedS
        /\ \A w \in containedS : \E i \in 1 .. n : S[i] = w
    <2>1. S \in Seq(Tasks)
      BY DEF TarjanInv, NumbersOK
    <2>2. QED BY <2>1, CallFacts, SeqParts DEF containedS, ToSet
  <1>2. \A i, j \in 1 .. n : i < j => dfsI[S[i]] < dfsI[S[j]]
    BY <1>1 DEF TarjanInv, NumbersOK
  <1>3. at \in 1 .. n
    BY <1>1
  <1>4. \A i \in 1 .. n : dfsI[S[at]] <= dfsI[S[i]] <=> at <= i
    <2>1. SUFFICES ASSUME NEW i \in 1 .. n
                   PROVE  dfsI[S[at]] <= dfsI[S[i]] <=> at <= i
      OBVIOUS
    <2>2. dfsI[S[at]] \in Nat /\ dfsI[S[i]] \in Nat
      BY <1>1, <1>3
    <2>3. CASE i < at
      <3>1. dfsI[S[i]] < dfsI[S[at]]
        BY <1>2, <1>3, <2>3
      <3>2. QED BY <1>3, <2>2, <2>3, <3>1
    <2>4. CASE i = at
      BY <1>3, <2>2, <2>4
    <2>5. CASE at < i
      <3>1. dfsI[S[at]] < dfsI[S[i]]
        BY <1>2, <1>3, <2>5
      <3>2. QED BY <1>3, <2>2, <2>5, <3>1
    <2>6. QED BY <1>3, <2>3, <2>4, <2>5
  <1>5. ASSUME NEW w \in containedS
        PROVE  /\ dfsI[S[at]] <= dfsI[w] => \E i \in at .. n : w = S[i]
               /\ ~(dfsI[S[at]] <= dfsI[w]) => \E i \in 1 .. at - 1 : w = S[i]
    <2>1. PICK j \in 1 .. n : S[j] = w
      BY <1>1
    <2>2. dfsI[S[at]] <= dfsI[w] <=> at <= j
      BY <1>4, <2>1
    <2>3. at <= j => j \in at .. n
      BY <1>1, <1>3
    <2>4. ~(at <= j) => j \in 1 .. at - 1
      BY <1>1, <1>3
    <2>5. QED BY <2>1, <2>2, <2>3, <2>4
  <1>6. /\ \A i \in at .. n : i \in 1 .. n /\ at <= i
        /\ \A i \in 1 .. at - 1 : i \in 1 .. n /\ ~(at <= i)
    BY <1>1, <1>3
  <1>7. QED BY <1>4, <1>5, <1>6

\* What is visited below the root of a component and has not been left is the component.
LEMMA RootOfComponent ==
  ASSUME htn \in Problems, TarjanInv, inTarjan, ~HasChild,
         NEW v, v = path[Len(path)].task, lowlink[v] = dfsI[v],
         Subtasks[v] \subseteq Looked(v),
         NEW C, C = {w \in containedS : dfsI[v] <= dfsI[w]}
  PROVE  /\ v \in C
         /\ \A w \in C : LeadsTo(v, w) /\ LeadsTo(w, v)
         /\ \A w \in C : Subtasks[w] \subseteq C \union Components
  <1> DEFINE n == Len(path)
  <1>1. /\ n \in Nat \ {0} /\ n \in DOMAIN path /\ v \in containedS /\ DOMAIN path = 1 .. n
        /\ containedS \subseteq DOMAIN dfsI /\ containedS \subseteq Tasks
        /\ \A x \in DOMAIN dfsI : dfsI[x] \in Nat
    <2>1. n \in 1 .. n
      BY CallFacts
    <2>2. QED BY <2>1, CallFacts
  <1>2. v \in C
    BY <1>1
  <1>3. \A w \in C : LeadsTo(v, w)
    BY <1>1 DEF TarjanInv, LowlinkOK
  <1>4. \A w \in C : Under(w, n)
    BY <1>1 DEF Under
  <1>5. \A w \in C : /\ \A y \in Looked(w) \intersect containedS : dfsI[v] <= dfsI[y]
                     /\ w # v => \E u \in containedS : /\ dfsI[u] < dfsI[w] /\ dfsI[v] <= dfsI[u]
                                                       /\ LeadsTo(w, u)
    BY <1>1, <1>4 DEF TarjanInv, LowlinkOK
  <1>6. ASSUME NEW bad \in C, ~LeadsTo(bad, v)
        PROVE  FALSE
    <2> DEFINE D == {dfsI[w] : w \in {x \in C : ~LeadsTo(x, v)}}
    <2>1. D \in SUBSET Nat /\ D # {}
      BY <1>1, <1>6
    <2>2. PICK d \in D : \A e \in D : d <= e
      <3> HIDE DEF D
      <3>1. QED BY <2>1, LeastNumber
    <2>3. PICK w \in C : ~LeadsTo(w, v) /\ d = dfsI[w]
      OBVIOUS
    <2>4. w # v
      BY <1>1, <2>3, LeadsToFacts
    <2>5. PICK u \in containedS : dfsI[u] < dfsI[w] /\ dfsI[v] <= dfsI[u] /\ LeadsTo(w, u)
      BY <1>5, <2>3, <2>4
    <2>6. u \in C /\ dfsI[u] \in Nat /\ dfsI[w] \in Nat
      BY <1>1, <2>5
    <2>7. LeadsTo(u, v)
      <3>1. ~(d <= dfsI[u])
        BY <2>3, <2>5, <2>6
      <3>2. dfsI[u] \notin D
        <4> HIDE DEF D
        <4>1. QED BY <2>2, <3>1
      <3>3. QED BY <2>6, <3>2
    <2>8. LeadsTo(w, v)
      BY <1>1, <2>5, <2>7, LeadsToFacts
    <2>9. QED BY <2>3, <2>8
  <1>7. \A w \in C : Subtasks[w] \subseteq Looked(w)
    <2>1. SUFFICES ASSUME NEW w \in C, w # v
                   PROVE  Subtasks[w] \subseteq Looked(w)
      OBVIOUS
    <2>2. ASSUME NEW i \in DOMAIN path
          PROVE  path[i].task # w
      <3>1. i <= n
        BY <1>1
      <3>2. dfsI[path[i].task] <= dfsI[v] /\ (path[i].task = v \/ dfsI[path[i].task] < dfsI[v])
            /\ dfsI[path[i].task] \in Nat
        <4>1. i = n \/ i < n
          BY <1>1
        <4>2. QED BY <1>1, <3>1, <4>1, PathOrder
      <3>3. dfsI[v] <= dfsI[w] /\ dfsI[w] \in Nat /\ dfsI[v] \in Nat
        BY <1>1
      <3>4. QED BY <2>1, <3>2, <3>3
    <2>3. QED BY <2>2 DEF Looked
  <1>8. ASSUME NEW w \in C, NEW u \in Subtasks[w]
        PROVE  u \in C \union Components
    <2>1. u \in Looked(w) /\ w \in containedS
      BY <1>7, <1>8
    <2>2. u \in DOMAIN dfsI
      BY <2>1 DEF TarjanInv, LowlinkOK
    <2>3. u \in containedS \/ u \in Components
      BY <2>2 DEF TarjanInv, NumbersOK
    <2>4. u \in containedS => u \in C
      BY <1>5, <2>1
    <2>5. QED BY <2>3, <2>4
  <1>9. QED BY <1>2, <1>3, <1>6, <1>8

\* A task that leads back to none before it leaves S with all above it: they are a component.
LEMMA CloseComponentKeeps ==
  ASSUME htn \in Problems, TarjanInv, CloseComponent
  PROVE  TarjanInv'
  <1>0. PICK v, n, q, at, k, C : /\ v = Call.task /\ n = Len(path) /\ q = path[n - 1].task
                                 /\ at = CHOOSE i \in DOMAIN S : S[i] = v
                                 /\ k = numSCCs
                                 /\ C = {w \in containedS : dfsI[v] <= dfsI[w]}
    OBVIOUS
  <1>1. /\ inTarjan /\ ~HasChild /\ lowlink[v] = dfsI[v]
        /\ htn' = htn /\ dfsI' = dfsI
        /\ S' = SubSeq(S, 1, at - 1) /\ taskToSCC' = SetFor(taskToSCC, ToSet(SubSeq(S, at, Len(S))), k)
        /\ BackToCaller(v)
    BY <1>0 DEF CloseComponent, IsRoot
  <1>2. NumbersOK /\ PathOK /\ LowlinkOK /\ ClosedOK
    BY DEF TarjanInv
  <1>3. /\ n \in Nat \ {0} /\ DOMAIN path = 1 .. n /\ n \in DOMAIN path
        /\ path[n] = Call /\ path[n].task = v /\ v \in containedS
        /\ \A i \in DOMAIN path : path[i] \in [task : Tasks, next : Nat \ {0}] /\ path[i].task \in containedS
        /\ containedS \subseteq DOMAIN dfsI /\ containedS \subseteq Tasks
        /\ \A x \in DOMAIN dfsI : dfsI[x] \in Nat /\ lowlink[x] \in Nat
        /\ Len(S) \in Nat /\ DOMAIN S = 1 .. Len(S)
    <2>1. n \in 1 .. n
      BY <1>0, <1>1, CallFacts
    <2>2. QED BY <1>0, <1>1, <2>1, CallFacts
  <1>4. /\ at \in DOMAIN S /\ S[at] = v
        /\ taskToSCC' = SetFor(taskToSCC, C, k)
        /\ S' \in Seq(Tasks) /\ Len(S') = at - 1 /\ DOMAIN S' = 1 .. at - 1
        /\ \A i \in 1 .. at - 1 : S'[i] = S[i]
        /\ containedS' = containedS \ C
    <2>0. at \in DOMAIN S /\ S[at] = v
      <3>1. \E i \in DOMAIN S : S[i] = v
        BY <1>3 DEF containedS, ToSet
      <3>2. QED BY <1>0, <3>1
    <2> DEFINE top == SubSeq(S, at, Len(S))
               rest == SubSeq(S, 1, at - 1)
    <2>1. /\ ToSet(top) = {S[i] : i \in at .. Len(S)}
          /\ rest \in Seq(Tasks) /\ Len(rest) = at - 1 /\ DOMAIN rest = 1 .. at - 1
          /\ \A i \in 1 .. at - 1 : rest[i] = S[i]
      <3>1. S \in Seq(Tasks) /\ at \in 1 .. Len(S)
        BY <1>2, <1>3, <2>0 DEF NumbersOK
      <3>2. QED BY <3>1, SplitList
    <2>2. S' = rest /\ taskToSCC' = SetFor(taskToSCC, ToSet(top), k)
      BY <1>1
    <2> HIDE DEF top, rest
    <2>3. /\ \A w \in containedS : dfsI[v] <= dfsI[w] <=> \E i \in at .. Len(S) : w = S[i]
          /\ \A w \in containedS : ~(dfsI[v] <= dfsI[w]) <=> \E i \in 1 .. at - 1 : w = S[i]
      BY <1>1, <2>0, PoppedFromS
    <2>4. /\ \A i \in at .. Len(S) : S[i] \in containedS
          /\ \A i \in 1 .. at - 1 : S[i] \in containedS
      <3>1. \A i \in DOMAIN S : S[i] \in containedS
        BY DEF containedS, ToSet
      <3>2. /\ \A i \in at .. Len(S) : i \in DOMAIN S
            /\ \A i \in 1 .. at - 1 : i \in DOMAIN S
        BY <1>3, <2>0
      <3>3. QED BY <3>1, <3>2
    <2>5. ToSet(top) = C
      BY <1>0, <2>1, <2>3, <2>4
    <2>6. ToSet(rest) = containedS \ C
      <3>1. ToSet(rest) = {S[i] : i \in 1 .. at - 1}
        BY <2>1 DEF ToSet
      <3>2. QED BY <1>0, <2>3, <2>4, <3>1
    <2>7. containedS' = ToSet(rest)
      BY <2>2 DEF containedS
    <2>8. QED BY <2>0, <2>1, <2>2, <2>5, <2>6, <2>7
  <1>5. /\ Tasks' = Tasks /\ Subtasks' = Subtasks
        /\ \A t : Children(t)' = Children(t)
        /\ \A t, u : LeadsTo(t, u)' <=> LeadsTo(t, u)
    BY <1>1, GraphStays
  <1>6. /\ path' \in Seq([task : Tasks, next : Nat \ {0}]) /\ Len(path') = n - 1 /\ DOMAIN path' = 1 .. n - 1
        /\ n > 1 => /\ n - 1 \in DOMAIN path
                    /\ \A i \in 1 .. n - 2 : path'[i] = path[i]
                    /\ path'[n - 1].next = path[n - 1].next + 1
                    /\ path'[n - 1].task = q
                    /\ path[n - 1].next <= Len(Children(q)) /\ Len(Children(q)) \in Nat
        /\ \A i \in 1 .. n - 1 : path'[i].task = path[i].task
        /\ \A x \in containedS : x # v => \A u \in Looked(x)' : u \in Looked(x) \/ u = v
        /\ Subtasks[v] \subseteq Looked(v)
        /\ lowlink' = lowlink
    <2> DEFINE X == [task : Tasks, next : Nat \ {0}]
    <2>1. Len(Front(path)) = n - 1
      <3>1. \A i \in 1 .. n - 1 : path[i] \in X
        BY <1>3
      <3> HIDE DEF X
      <3>2. QED BY <1>0, <1>3, <3>1, SubSeqProperties DEF Front
    <2>2. CASE n = 1
      <3>1. Front(path) = <<>>
        BY <1>0, <2>2, SubSeqEmpty DEF Front
      <3>2. path' = <<>> /\ lowlink' = lowlink
        BY <1>1, <3>1 DEF BackToCaller
      <3>3. path' \in Seq(X) /\ Len(path') = 0 /\ DOMAIN path' = 1 .. 0 /\ n - 1 = 0
        BY <2>2, <3>2
      <3>4. ASSUME NEW x \in containedS, x # v, NEW u \in Looked(x)'
            PROVE  u \in Looked(x)
        <4>1. u \in Subtasks[x]
          <5>1. u \in Subtasks'[x]
            BY <3>4 DEF Looked
          <5>2. QED BY <1>5, <5>1
        <4>2. \A i \in DOMAIN path : path[i].task # x
          BY <1>3, <2>2, <3>4
        <4>3. QED BY <4>1, <4>2 DEF Looked
      <3>5. Subtasks[v] \subseteq Looked(v)
        <4>1. /\ path[1].next = Len(Children(v)) + 1 /\ v \in Tasks
              /\ Children(v) \in Seq(Tasks) /\ Len(Children(v)) \in Nat /\ DOMAIN Children(v) = 1 .. Len(Children(v))
          BY <1>0, <1>1, <1>3, <2>2, CallFacts
        <4>2. Subtasks[v] = ToSet(Children(v))
          BY <4>1, SubtasksAreGraph
        <4>3. ASSUME NEW u \in Subtasks[v]
              PROVE  \E j \in 1 .. path[1].next - 1 : Children(v)[j] = u
          <5>1. PICK j \in DOMAIN Children(v) : Children(v)[j] = u
            BY <4>2 DEF ToSet
          <5>2. QED BY <4>1, <5>1
        <4>4. DOMAIN path = {1}
          BY <1>3, <2>2
        <4>5. QED BY <4>3, <4>4 DEF Looked
      <3> HIDE DEF X
      <3>6. \A i \in 1 .. n - 1 : path'[i].task = path[i].task
        BY <3>3
      <3>7. QED BY <2>2, <3>2, <3>3, <3>4, <3>5, <3>6 DEF X
    <2>3. CASE n > 1
      <3>1. Front(path) # <<>>
        BY <1>3, <2>1, <2>3
      <3>2. path' = OnToNextChild(Front(path)) /\ lowlink' = [lowlink EXCEPT ![Last(Front(path)).task] = Lower(@, lowlink[v])]
        BY <1>1, <3>1 DEF BackToCaller
      <3>3. /\ n - 1 \in DOMAIN path
            /\ path' \in Seq(X) /\ Len(path') = n - 1 /\ DOMAIN path' = 1 .. n - 1
            /\ \A i \in 1 .. n - 2 : path'[i] = path[i]
            /\ path'[n - 1].next = path[n - 1].next + 1
            /\ \A i \in 1 .. n - 1 : path'[i].task = path[i].task
            /\ \A x \in containedS : \A u \in Looked(x)' : u \in Looked(x) \/ (x = q /\ u = v)
            /\ lowlink' = [lowlink EXCEPT ![q] = Lower(@, lowlink[v])]
            /\ Subtasks[v] \subseteq Looked(v)
            /\ path[n - 1].next <= Len(Children(q)) /\ Len(Children(q)) \in Nat
        BY <1>0, <1>1, <1>2, <1>3, <2>3, <3>2, CallerMoves
      <3>4. path'[n - 1].task = q
        <4>1. n - 1 \in 1 .. n - 1
          BY <1>3, <2>3
        <4>2. QED BY <1>0, <3>3, <4>1
      <3>5. lowlink' = lowlink
        <4>1. n - 1 <= n /\ n - 1 < n
          BY <1>3
        <4>2. q \in DOMAIN dfsI /\ dfsI[q] < dfsI[v] /\ dfsI[q] \in Nat /\ dfsI[v] \in Nat
          BY <1>0, <1>1, <1>3, <3>3, <4>1, PathOrder
        <4>3. lowlink[q] <= dfsI[q] /\ lowlink[q] \in Nat
          BY <1>0, <1>2, <1>3, <3>3, <4>2 DEF LowlinkOK
        <4>4. Lower(lowlink[q], lowlink[v]) = lowlink[q]
          BY <1>1, <4>2, <4>3, LowerFacts
        <4>5. lowlink \in [DOMAIN dfsI -> Nat]
          BY <1>2 DEF NumbersOK
        <4>6. QED BY <3>3, <4>2, <4>4, <4>5
      <3> HIDE DEF X
      <3>6. QED BY <3>3, <3>4, <3>5 DEF X
    <2>4. QED BY <1>3, <2>2, <2>3
  <1>7. /\ v \in C
        /\ \A w \in C : LeadsTo(v, w) /\ LeadsTo(w, v)
        /\ \A w \in C : Subtasks[w] \subseteq C \union Components
    BY <1>0, <1>1, <1>3, <1>6, RootOfComponent
  <1>8. /\ C \subseteq containedS
        /\ \A w \in containedS' : w \in containedS /\ w \in DOMAIN dfsI /\ dfsI[w] < dfsI[v] /\ w # v
        /\ \A w \in containedS : dfsI[w] < dfsI[v] => w \in containedS'
    <2>1. dfsI[v] \in Nat /\ \A w \in containedS : dfsI[w] \in Nat
      BY <1>3
    <2>2. QED BY <1>0, <1>3, <1>4, <2>1
  <1>9. /\ Components' = Components \union C
        /\ \A t \in Components : taskToSCC'[t] = taskToSCC[t] /\ t \notin C
        /\ \A t \in C : taskToSCC'[t] = k
        /\ taskToSCC' = [t \in Components \union C |-> taskToSCC'[t]]
    <2>1. C \intersect Components = {}
      BY <1>2, <1>8 DEF NumbersOK
    <2>2. taskToSCC' = [t \in Components \union C |-> IF t \in C THEN k ELSE taskToSCC[t]]
      BY <1>4 DEF SetFor, Components
    <2>3. QED BY <2>1, <2>2 DEF Components
  <1>10. NumbersOK'
    <2>1. maxdfs' = maxdfs
      BY <1>1 DEF maxdfs
    <2>2. DOMAIN dfsI = containedS' \union Components' /\ containedS' \intersect Components' = {}
      BY <1>2, <1>4, <1>8, <1>9 DEF NumbersOK
    <2>3. ASSUME NEW i \in DOMAIN S', NEW j \in DOMAIN S', i < j
          PROVE  dfsI[S'[i]] < dfsI[S'[j]]
      <3>1. i \in DOMAIN S /\ j \in DOMAIN S /\ S'[i] = S[i] /\ S'[j] = S[j]
        BY <1>3, <1>4, <2>3
      <3>2. QED BY <1>2, <2>3, <3>1 DEF NumbersOK
    <2>4. QED BY <1>1, <1>2, <1>4, <1>5, <1>6, <2>1, <2>2, <2>3 DEF NumbersOK
  <1>11. \A i \in 1 .. n - 1 : path[i].task \in containedS'
    <2>1. SUFFICES ASSUME NEW i \in 1 .. n - 1
                   PROVE  path[i].task \in containedS'
      OBVIOUS
    <2>2. i \in DOMAIN path /\ i <= n /\ i < n
      BY <1>3
    <2>3. dfsI[path[i].task] < dfsI[v]
      BY <1>1, <1>3, <2>2, PathOrder
    <2>4. QED BY <1>3, <1>8, <2>2, <2>3
  <1>12. PathOK'
    <2>1. ASSUME NEW i \in 1 .. n - 1
          PROVE  /\ path'[i].task \in containedS'
                 /\ path'[i].next <= Len(Children(path'[i].task)) + 1
                 /\ i < n - 1 => /\ path'[i].next <= Len(Children(path'[i].task))
                                 /\ Children(path'[i].task)[path'[i].next] = path'[i + 1].task
      <3>0. path'[i].task \in containedS' /\ n > 1
        BY <1>3, <1>6, <1>11
      <3>1. CASE i < n - 1
        <4>1. i \in 1 .. n - 2 /\ i \in DOMAIN path /\ i + 1 \in 1 .. n - 1 /\ i < Len(path)
          BY <1>0, <1>3, <3>1
        <4>2. path'[i] = path[i] /\ path'[i + 1].task = path[i + 1].task
          BY <1>6, <3>0, <4>1
        <4>3. QED BY <1>2, <3>0, <4>1, <4>2 DEF PathOK
      <3>2. CASE i = n - 1
        <4>1. path'[i].task = q /\ path'[i].next = path[n - 1].next + 1 /\ path[n - 1].next \in Nat
          BY <1>0, <1>3, <1>6, <3>0, <3>2
        <4>2. QED BY <1>6, <3>0, <3>2, <4>1
      <3>3. QED BY <1>3, <3>1, <3>2
    <2>2. ASSUME NEW i \in 1 .. n - 1, NEW j \in 1 .. n - 1, i < j
          PROVE  dfsI[path'[i].task] < dfsI[path'[j].task]
      <3>1. i \in DOMAIN path /\ j \in DOMAIN path
        BY <1>3
      <3>2. QED BY <1>2, <1>6, <2>2, <3>1 DEF PathOK
    <2>3. S[1] = path[1].task /\ 1 \in DOMAIN path
      BY <1>1, <1>2, <1>3 DEF PathOK, inTarjan
    <2>4. path' # <<>> => S'[1] = path'[1].task
      <3>1. SUFFICES ASSUME path' # <<>>
                     PROVE  S'[1] = path'[1].task
        OBVIOUS
      <3>2. n > 1
        BY <1>3, <1>6, <3>1, EmptySeq
      <3>3. 1 \in 1 .. n - 1
        BY <1>3, <3>2
      <3>4. at # 1
        <4>1. path[1].task \in containedS'
          BY <1>11, <3>3
        <4>2. QED BY <1>4, <1>8, <2>3, <4>1
      <3>5. 1 \in 1 .. at - 1
        BY <1>3, <1>4, <3>4
      <3>6. QED BY <1>4, <1>6, <2>3, <3>3, <3>5
    <2>5. path' = <<>> => S' = <<>>
      <3>1. SUFFICES ASSUME path' = <<>>
                     PROVE  S' = <<>>
        OBVIOUS
      <3>2. n = 1
        <4>1. Len(path') = 0
          BY <3>1
        <4>2. QED BY <1>3, <1>6, <4>1
      <3>3. S[1] = v
        BY <1>3, <2>3, <3>2
      <3>4. ~(1 < at)
        <4>1. 1 \in DOMAIN S
          BY <1>3, <1>4
        <4>2. 1 < at => dfsI[S[1]] < dfsI[S[at]]
          BY <1>2, <1>4, <4>1 DEF NumbersOK
        <4>3. QED BY <1>3, <1>4, <3>3, <4>2
      <3>5. Len(S') = 0
        BY <1>3, <1>4, <3>4
      <3>6. QED BY <1>4, <3>5, EmptySeq
    <2>6. htn'.initialTask \in DOMAIN dfsI'
      BY <1>1, <1>2 DEF PathOK
    <2>7. QED BY <1>1, <1>5, <1>6, <2>1, <2>2, <2>4, <2>5, <2>6 DEF PathOK
  <1>13. LowlinkOK'
    <2>0. v \notin containedS'
      BY <1>4, <1>7
    <2>1. ASSUME NEW x \in containedS'
          PROVE  Looked(x)' \subseteq DOMAIN dfsI
      <3>1. x \in containedS /\ x # v /\ v \in DOMAIN dfsI
        BY <1>3, <1>8, <2>1
      <3>2. Looked(x) \subseteq DOMAIN dfsI
        BY <1>2, <3>1 DEF LowlinkOK
      <3>3. QED BY <1>6, <3>1, <3>2
    <2>2. ASSUME NEW i \in 1 .. n - 1, NEW p, p = path[i].task
          PROVE  /\ \E u \in containedS' : lowlink[p] = dfsI[u] /\ lowlink[p] <= dfsI[p] /\ LeadsTo(p, u)
                 /\ \A w \in containedS' : dfsI[p] <= dfsI[w] => LeadsTo(p, w)
                 /\ \A w \in containedS' : Under(w, i)' =>
                      /\ \A y \in Looked(w)' \intersect containedS' : lowlink[p] <= dfsI[y]
                      /\ w # p => \E u \in containedS' : /\ dfsI[u] < dfsI[w] /\ lowlink[p] <= dfsI[u]
                                                         /\ LeadsTo(w, u)
      <3>0. i \in DOMAIN path /\ i < n /\ n > 1
        BY <1>3
      <3>1. /\ \E u \in containedS : lowlink[p] = dfsI[u] /\ lowlink[p] <= dfsI[p] /\ LeadsTo(p, u)
            /\ \A w \in containedS : dfsI[p] <= dfsI[w] => LeadsTo(p, w)
            /\ \A w \in containedS : Under(w, i) =>
                 /\ \A y \in Looked(w) \intersect containedS : lowlink[p] <= dfsI[y]
                 /\ w # p => \E u \in containedS : /\ dfsI[u] < dfsI[w] /\ lowlink[p] <= dfsI[u]
                                                   /\ LeadsTo(w, u)
        BY <1>2, <2>2, <3>0 DEF LowlinkOK
      <3>2. p \in containedS' /\ p \in DOMAIN dfsI /\ dfsI[p] < dfsI[v] /\ dfsI[p] \in Nat /\ dfsI[v] \in Nat
        BY <1>3, <1>8, <1>11, <2>2
      <3>3. \E u \in containedS' : lowlink[p] = dfsI[u] /\ lowlink[p] <= dfsI[p] /\ LeadsTo(p, u)
        <4>1. PICK u \in containedS : lowlink[p] = dfsI[u] /\ lowlink[p] <= dfsI[p] /\ LeadsTo(p, u)
          BY <3>1
        <4>2. dfsI[u] < dfsI[v]
          BY <1>3, <3>2, <4>1
        <4>3. QED BY <1>8, <4>1, <4>2
      <3>4. ASSUME NEW w \in containedS', Under(w, i)'
            PROVE  Under(w, i)
        <4>1. path'[i].task = p
          BY <1>6, <2>2
        <4>2. dfsI[p] <= dfsI[w] /\ w \in containedS /\ dfsI[w] < dfsI[v]
          BY <1>1, <1>8, <3>4, <4>1 DEF Under
        <4>3. CASE i < n - 1
          <5>1. i + 1 \in 1 .. n - 1
            BY <1>3, <4>3
          <5>2. path'[i + 1].task = path[i + 1].task
            BY <1>6, <5>1
          <5>3. dfsI[w] < dfsI[path[i + 1].task]
            BY <1>1, <1>6, <3>4, <4>3, <5>2 DEF Under
          <5>4. QED BY <2>2, <4>2, <5>3 DEF Under
        <4>4. CASE i = n - 1
          <5>1. i + 1 = n
            BY <1>3, <4>4
          <5>2. QED BY <1>3, <2>2, <4>2, <5>1 DEF Under
        <4>5. QED BY <1>3, <4>3, <4>4
      <3>5. ASSUME NEW w \in containedS', Under(w, i)'
            PROVE  /\ \A y \in Looked(w)' \intersect containedS' : lowlink[p] <= dfsI[y]
                   /\ w # p => \E u \in containedS' : /\ dfsI[u] < dfsI[w] /\ lowlink[p] <= dfsI[u]
                                                      /\ LeadsTo(w, u)
        <4>1. Under(w, i) /\ w \in containedS /\ w # v /\ w \in DOMAIN dfsI /\ dfsI[w] < dfsI[v]
          BY <1>8, <3>4, <3>5
        <4>2. ASSUME NEW y \in Looked(w)' \intersect containedS'
              PROVE  lowlink[p] <= dfsI[y]
          <5>1. y \in Looked(w) /\ y \in containedS
            BY <1>6, <1>8, <2>0, <4>1, <4>2
          <5>2. QED BY <3>1, <4>1, <5>1
        <4>3. ASSUME w # p
              PROVE  \E u \in containedS' : /\ dfsI[u] < dfsI[w] /\ lowlink[p] <= dfsI[u] /\ LeadsTo(w, u)
          <5>1. PICK u \in containedS : /\ dfsI[u] < dfsI[w] /\ lowlink[p] <= dfsI[u] /\ LeadsTo(w, u)
            BY <3>1, <4>1, <4>3
          <5>2. dfsI[u] < dfsI[v]
            <6>1. dfsI[u] \in Nat /\ dfsI[w] \in Nat
              BY <1>3, <4>1
            <6>2. QED BY <3>2, <4>1, <5>1, <6>1
          <5>3. QED BY <1>8, <5>1, <5>2
        <4>4. QED BY <4>2, <4>3
      <3>6. \A w \in containedS' : dfsI[p] <= dfsI[w] => LeadsTo(p, w)
        BY <1>8, <3>1
      <3>7. QED BY <3>3, <3>5, <3>6
    <2>3. QED BY <1>1, <1>5, <1>6, <2>1, <2>2 DEF LowlinkOK
  <1>14. ClosedOK'
    <2>1. /\ IsFiniteSet(Components) /\ C # {}
          /\ k \in Nat /\ taskToSCC \in [Components -> 0 .. k - 1]
          /\ \A c \in 0 .. k - 1 : \E t \in Components : taskToSCC[t] = c
      <3>1. IsFiniteSet(Components)
        <4>1. Components \subseteq DOMAIN dfsI /\ IsFiniteSet(DOMAIN dfsI)
          BY <1>2 DEF NumbersOK
        <4>2. QED BY <4>1, FS_Subset
      <3>2. k \in Nat
        <4>1. {taskToSCC[t] : t \in DOMAIN taskToSCC} = {taskToSCC[t] : t \in Components}
          BY DEF Components
        <4>2. IsFiniteSet({taskToSCC[t] : t \in Components})
          <5> DEFINE T == {taskToSCC[t] : t \in Components}
                     f == [t \in Components |-> taskToSCC[t]]
          <5>1. f \in Surjection(Components, T)
            BY DEF Surjection
          <5> HIDE DEF f, T
          <5>2. IsFiniteSet(T)
            BY <3>1, <5>1, FS_Surjection
          <5>3. QED BY <5>2 DEF T
        <4>3. QED BY <1>0, <4>1, <4>2, FS_CardinalityType DEF numSCCs
      <3>3. QED BY <1>0, <1>2, <1>7, <3>1, <3>2 DEF ClosedOK
    <2>2. numSCCs' = k + 1
      <3>1. {taskToSCC'[t] : t \in DOMAIN taskToSCC'} = 0 .. k
        <4>1. DOMAIN taskToSCC' = Components \union C
          BY <1>9
        <4>2. \A t \in Components \union C : taskToSCC'[t] \in 0 .. k
          BY <1>9, <2>1
        <4>3. \A c \in 0 .. k : \E t \in Components \union C : taskToSCC'[t] = c
          <5>1. SUFFICES ASSUME NEW c \in 0 .. k
                         PROVE  \E t \in Components \union C : taskToSCC'[t] = c
            OBVIOUS
          <5>2. CASE c = k
            BY <1>7, <1>9, <5>2
          <5>3. CASE c # k
            <6>1. c \in 0 .. k - 1
              BY <2>1, <5>3
            <6>2. QED BY <1>9, <2>1, <6>1
          <5>4. QED BY <5>2, <5>3
        <4>4. QED BY <4>1, <4>2, <4>3
      <3>2. Cardinality(0 .. k) = k + 1
        BY <2>1, FS_Interval
      <3>3. QED BY <3>1, <3>2 DEF numSCCs
    <2>3. taskToSCC' \in [Components' -> 0 .. numSCCs' - 1]
      <3>1. \A t \in Components \union C : taskToSCC'[t] \in 0 .. k + 1 - 1
        BY <1>9, <2>1
      <3>2. QED BY <1>9, <2>1, <2>2, <3>1
    <2>4. \A c \in 0 .. numSCCs' - 1 : \E t \in Components' : taskToSCC'[t] = c
      <3>1. SUFFICES ASSUME NEW c \in 0 .. k
                     PROVE  \E t \in Components \union C : taskToSCC'[t] = c
        BY <1>9, <2>1, <2>2
      <3>2. CASE c = k
        BY <1>7, <1>9, <3>2
      <3>3. CASE c # k
        <4>1. c \in 0 .. k - 1
          BY <2>1, <3>3
        <4>2. QED BY <1>9, <2>1, <4>1
      <3>4. QED BY <3>2, <3>3
    <2>5. \A t \in Components : \A u \in Subtasks[t] : u \in Components /\ taskToSCC[u] <= taskToSCC[t]
      BY <1>2 DEF ClosedOK
    <2>6. \A t \in Components' : \A u \in Subtasks[t] : u \in Components' /\ taskToSCC'[u] <= taskToSCC'[t]
      <3>1. ASSUME NEW t \in Components, NEW u \in Subtasks[t]
            PROVE  u \in Components' /\ taskToSCC'[u] <= taskToSCC'[t]
        BY <1>9, <2>5
      <3>2. ASSUME NEW t \in C, NEW u \in Subtasks[t]
            PROVE  u \in Components' /\ taskToSCC'[u] <= taskToSCC'[t]
        <4>1. u \in C \union Components
          BY <1>7, <3>2
        <4>2. taskToSCC'[u] \in 0 .. k /\ taskToSCC'[t] = k
          BY <1>9, <2>1, <4>1
        <4>3. QED BY <1>9, <2>1, <4>1, <4>2
      <3>3. QED BY <1>9, <3>1, <3>2
    <2>7. \A t, u \in Components' : taskToSCC'[t] = taskToSCC'[u] <=> LeadsTo(t, u) /\ LeadsTo(u, t)
      <3>1. \A t, u \in Components : taskToSCC'[t] = taskToSCC'[u] <=> LeadsTo(t, u) /\ LeadsTo(u, t)
        BY <1>2, <1>9 DEF ClosedOK
      <3>2. ASSUME NEW t \in C, NEW u \in C
            PROVE  taskToSCC'[t] = taskToSCC'[u] /\ LeadsTo(t, u) /\ LeadsTo(u, t)
        <4>1. t \in Tasks /\ u \in Tasks /\ v \in Tasks
          BY <1>3, <1>8
        <4>2. LeadsTo(t, u) /\ LeadsTo(u, t)
          BY <1>7, <4>1, LeadsToFacts
        <4>3. QED BY <1>9, <4>2
      <3>3. ASSUME NEW t \in C, NEW u \in Components
            PROVE  taskToSCC'[t] # taskToSCC'[u] /\ ~LeadsTo(u, t)
        <4>1. u \in Components \intersect Tasks
          BY <1>2 DEF NumbersOK
        <4>2. t \notin Components
          BY <1>9, <3>3
        <4>3. \A x \in Components \intersect Tasks : Subtasks[x] \subseteq Components
          BY <2>5
        <4>4. ~LeadsTo(u, t)
          BY <4>1, <4>2, <4>3, LeadsNowhereElse
        <4>5. taskToSCC'[t] = k /\ taskToSCC'[u] \in 0 .. k - 1
          BY <1>9, <2>1, <3>3
        <4>6. QED BY <2>1, <4>4, <4>5
      <3>4. QED BY <1>9, <3>1, <3>2, <3>3
    <2>8. QED BY <1>5, <2>3, <2>4, <2>6, <2>7 DEF ClosedOK
  <1>15. QED BY <1>10, <1>12, <1>13, <1>14 DEF TarjanInv
-----------------------------------------------------------------------------
(* The graph of the components.                                            *)

\* There are finitely many components.
LEMMA NumberOfSCCs ==
  ASSUME IsFiniteSet(Components)
  PROVE  numSCCs \in Nat
  <1> DEFINE T == {taskToSCC[t] : t \in Components}
             f == [t \in Components |-> taskToSCC[t]]
  <1>1. f \in Surjection(Components, T)
    BY DEF Surjection
  <1>2. numSCCs = Cardinality(T)
    BY DEF numSCCs, Components
  <1> HIDE DEF f, T
  <1>3. QED BY <1>1, <1>2, FS_Surjection, FS_CardinalityType

\* Every task is in one component, and no component is empty.
LEMMA ComponentsFacts ==
  ASSUME htn \in Problems, ComponentsKnown
  PROVE  /\ numSCCs \in Nat /\ SCCs = 0 .. numSCCs - 1 /\ SCCs \subseteq Nat /\ IsFiniteSet(SCCs)
         /\ \A t \in Tasks : taskToSCC[t] \in SCCs /\ t \in sccToTasks(taskToSCC[t])
         /\ \A c : sccToTasks(c) \subseteq Tasks /\ \A t \in sccToTasks(c) : taskToSCC[t] = c
         /\ \A c \in SCCs : sccToTasks(c) # {}
         /\ \A t, u \in Tasks : taskToSCC[t] = taskToSCC[u] <=> LeadsTo(t, u) /\ LeadsTo(u, t)
  <1>1. Components = Tasks /\ ClosedOK
    BY DEF ComponentsKnown
  <1>2. IsFiniteSet(Tasks) /\ Tasks \subseteq Nat
    BY ProblemFacts
  <1>3. numSCCs \in Nat
    BY <1>1, <1>2, NumberOfSCCs
  <1>4. SCCs = 0 .. numSCCs - 1 /\ SCCs \subseteq Nat /\ IsFiniteSet(SCCs)
    BY <1>3, FS_Interval DEF SCCs
  <1>5. \A t \in Tasks : taskToSCC[t] \in SCCs
    BY <1>1, <1>4 DEF ClosedOK
  <1>6. \A c \in SCCs : \E t \in Tasks : taskToSCC[t] = c
    BY <1>1, <1>4 DEF ClosedOK
  <1>7. \A t, u \in Tasks : taskToSCC[t] = taskToSCC[u] <=> LeadsTo(t, u) /\ LeadsTo(u, t)
    BY <1>1 DEF ClosedOK
  <1>8. QED BY <1>3, <1>4, <1>5, <1>6, <1>7 DEF sccToTasks

\* A component has smaller numbers below it.
LEMMA SccGraph ==
  ASSUME htn \in Problems, ComponentsKnown
  PROVE  /\ \A c : \A d \in sccG(c) : \E t \in sccToTasks(c) : \E u \in Subtasks[t] : taskToSCC[u] = d
         /\ \A t \in Tasks : \A u \in Subtasks[t] :
              /\ taskToSCC[u] <= taskToSCC[t]
              /\ taskToSCC[u] = taskToSCC[t] \/ taskToSCC[u] \in sccG(taskToSCC[t])
         /\ \A c \in SCCs : sccG(c) \subseteq SCCs /\ IsFiniteSet(sccG(c)) /\ \A d \in sccG(c) : d < c
  <1>1. \A t \in Tasks : Subtasks[t] = ToSet(Children(t)) /\ Subtasks[t] \subseteq Tasks
    BY SubtasksAreGraph
  <1>2. Components = Tasks /\ ClosedOK
    BY DEF ComponentsKnown
  <1>3. ASSUME NEW c, NEW d \in sccG(c)
        PROVE  d # c /\ \E t \in sccToTasks(c) : \E u \in Subtasks[t] : taskToSCC[u] = d
    <2>1. PICK u \in UNION {ToSet(Children(t)) : t \in sccToTasks(c)} : d = taskToSCC[u]
      BY <1>3 DEF sccG
    <2>2. PICK t \in sccToTasks(c) : u \in ToSet(Children(t))
      BY <2>1
    <2>3. t \in Tasks
      BY ComponentsFacts
    <2>4. QED BY <1>1, <1>3, <2>1, <2>2, <2>3 DEF sccG
  <1>4. ASSUME NEW t \in Tasks, NEW u \in Subtasks[t]
        PROVE  /\ taskToSCC[u] <= taskToSCC[t]
               /\ taskToSCC[u] = taskToSCC[t] \/ taskToSCC[u] \in sccG(taskToSCC[t])
    <2>1. taskToSCC[u] <= taskToSCC[t]
      BY <1>2, <1>4 DEF ClosedOK
    <2>2. t \in sccToTasks(taskToSCC[t])
      BY ComponentsFacts
    <2>3. u \in UNION {ToSet(Children(x)) : x \in sccToTasks(taskToSCC[t])}
      BY <1>1, <1>4, <2>2
    <2>4. QED BY <2>1, <2>3 DEF sccG
  <1>5. ASSUME NEW c \in SCCs, NEW d \in sccG(c)
        PROVE  d \in SCCs /\ d < c
    <2>0. PICK t \in sccToTasks(c) : \E u \in Subtasks[t] : taskToSCC[u] = d
      BY <1>3, <1>5
    <2>1. PICK u \in Subtasks[t] : taskToSCC[u] = d /\ d # c
      BY <1>3, <1>5, <2>0
    <2>2. t \in Tasks /\ taskToSCC[t] = c
      BY ComponentsFacts
    <2>3. u \in Tasks /\ d <= c
      BY <1>1, <1>4, <2>1, <2>2
    <2>4. d \in SCCs /\ c \in Nat /\ d \in Nat
      BY <2>1, <2>3, ComponentsFacts
    <2>5. QED BY <2>1, <2>3, <2>4
  <1>6. \A c \in SCCs : sccG(c) \subseteq SCCs /\ IsFiniteSet(sccG(c))
    <2>1. SUFFICES ASSUME NEW c \in SCCs
                   PROVE  sccG(c) \subseteq SCCs /\ IsFiniteSet(sccG(c))
      OBVIOUS
    <2>2. sccG(c) \subseteq SCCs
      BY <1>5
    <2>3. QED BY <2>2, ComponentsFacts, FS_Subset
  <1>7. QED BY <1>3, <1>4, <1>5, <1>6

\* When all calls have returned, all tasks have been visited.
LEMMA AllInComponents ==
  ASSUME htn \in Problems, TarjanInv, path = <<>>
  PROVE  Components = Tasks /\ ClosedOK
  <1>1. NumbersOK /\ PathOK /\ ClosedOK
    BY DEF TarjanInv
  <1>2. containedS = {}
    <2>1. S = <<>>
      BY <1>1 DEF PathOK
    <2>2. QED BY <2>1 DEF containedS, ToSet
  <1>3. DOMAIN dfsI = Components /\ Components \subseteq Tasks /\ htn.initialTask \in Components
    BY <1>1, <1>2 DEF NumbersOK, PathOK
  <1>4. \A t \in Components : Subtasks[t] \subseteq Components
    BY <1>1 DEF ClosedOK
  <1>5. \A i \in DOMAIN htn.methods :
          htn.methods[i].task \in Components => ToSet(htn.methods[i].subTasks) \subseteq Components
    <2>1. SUFFICES ASSUME NEW i \in DOMAIN htn.methods, NEW t, t = htn.methods[i].task, t \in Components
                   PROVE  ToSet(htn.methods[i].subTasks) \subseteq Components
      OBVIOUS
    <2>2. ToSet(Children(t)) =
              UNION {ToSet(htn.methods[k].subTasks) : k \in {j \in DOMAIN htn.methods : htn.methods[j].task = t}}
      BY ChildrenOfTask
    <2>3. ToSet(htn.methods[i].subTasks) \subseteq ToSet(Children(t))
      BY <2>1, <2>2
    <2>4. Subtasks[t] = ToSet(Children(t))
      BY <1>3, <2>1, SubtasksAreGraph
    <2>5. QED BY <1>4, <2>1, <2>3, <2>4
  <1>6. Components = 0 .. htn.numTasks - 1
    <2>1. Components \in SUBSET (0 .. htn.numTasks - 1)
      BY <1>3 DEF Tasks
    <2>2. QED BY <1>3, <1>5, <2>1, ProblemsAssumption
  <1>7. QED BY <1>1, <1>6 DEF Tasks

\* A component is cyclic if one of its tasks recurs.
LEMMA CyclicComponents ==
  ASSUME htn \in Problems, Components = Tasks, ClosedOK
  PROVE  {c \in SCCs : IsCyclic(c)} = {taskToSCC[t] : t \in {x \in Tasks : Recurs(x)}}
  <1>1. \A t \in Tasks : Subtasks[t] = ToSet(Children(t)) /\ Subtasks[t] \subseteq Tasks
    BY SubtasksAreGraph
  <1>2. IsFiniteSet(Tasks)
    BY ProblemFacts
  <1>3. \A t, u \in Tasks : taskToSCC[t] = taskToSCC[u] <=> LeadsTo(t, u) /\ LeadsTo(u, t)
    BY DEF ClosedOK
  <1>4. \A t \in Tasks : taskToSCC[t] \in SCCs
    BY DEF ClosedOK, SCCs
  <1>5. ASSUME NEW c \in SCCs, IsCyclic(c)
        PROVE  \E t \in Tasks : Recurs(t) /\ taskToSCC[t] = c
    <2>1. IsFiniteSet(sccToTasks(c)) /\ sccToTasks(c) \subseteq Tasks /\ \A t \in sccToTasks(c) : taskToSCC[t] = c
      BY <1>2, FS_Subset DEF sccToTasks
    <2>2. CASE Cardinality(sccToTasks(c)) > 1
      <3>1. PICK t \in sccToTasks(c) : TRUE
        BY <2>2, FS_EmptySet
      <3>2. PICK u \in sccToTasks(c) : u # t
        <4>1. SUFFICES ASSUME sccToTasks(c) = {t}
                       PROVE  FALSE
          BY <3>1
        <4>2. Cardinality({t}) = 1
          BY FS_Singleton
        <4>3. Cardinality(sccToTasks(c)) = 1
          BY <4>1, <4>2
        <4>4. QED BY <2>2, <4>3
      <3>3. t \in Tasks /\ u \in Tasks /\ LeadsTo(t, u) /\ LeadsTo(u, t)
        BY <1>3, <2>1
      <3>4. u \in ReachedFrom(Subtasks, {t})
        BY <3>2, <3>3 DEF LeadsTo
      <3>5. PICK s \in Subtasks[t] : LeadsTo(s, u)
        BY <3>3, <3>4, FirstStep
      <3>6. LeadsTo(s, t)
        BY <1>1, <3>3, <3>5, LeadsToFacts
      <3>7. Recurs(t)
        BY <3>3, <3>6, FirstStep DEF Recurs
      <3>8. QED BY <2>1, <3>3, <3>7
    <2>3. CASE \E t \in sccToTasks(c) : t \in ToSet(Children(t))
      <3>1. PICK t \in sccToTasks(c) : t \in ToSet(Children(t))
        BY <2>3
      <3>2. t \in Tasks /\ t \in Subtasks[t] /\ LeadsTo(t, t)
        BY <1>1, <2>1, <3>1, LeadsToFacts
      <3>3. Recurs(t)
        BY <3>2, FirstStep DEF Recurs
      <3>4. QED BY <2>1, <3>2, <3>3
    <2>4. QED BY <1>5, <2>2, <2>3 DEF IsCyclic
  <1>6. ASSUME NEW t \in Tasks, Recurs(t)
        PROVE  IsCyclic(taskToSCC[t])
    <2> DEFINE c == taskToSCC[t]
    <2>1. PICK s \in Subtasks[t] : LeadsTo(s, t)
      BY <1>6, FirstStep DEF Recurs
    <2>2. s \in Tasks /\ LeadsTo(t, s)
      BY <1>1, LeadsToFacts
    <2>3. t \in sccToTasks(c) /\ s \in sccToTasks(c)
      BY <1>3, <2>1, <2>2 DEF sccToTasks
    <2>4. CASE s = t
      <3>1. t \in ToSet(Children(t))
        BY <1>1, <2>4
      <3>2. QED BY <2>3, <3>1 DEF IsCyclic
    <2>5. CASE s # t
      <3>1. IsFiniteSet(sccToTasks(c))
        BY <1>2, FS_Subset DEF sccToTasks
      <3>2. IsFiniteSet({t}) /\ Cardinality({t}) = 1
        BY FS_Singleton
      <3>3. Cardinality({t} \union {s}) = 2
        <4>1. Cardinality({t} \union {s}) = Cardinality({t}) + 1
          BY <2>5, <3>2, FS_AddElement
        <4>2. QED BY <3>2, <4>1
      <3>4. {t} \union {s} \subseteq sccToTasks(c)
        BY <2>3
      <3>5. 2 <= Cardinality(sccToTasks(c))
        BY <3>1, <3>3, <3>4, FS_Subset
      <3>6. Cardinality(sccToTasks(c)) \in Nat
        BY <3>1, FS_CardinalityType
      <3>7. Cardinality(sccToTasks(c)) > 1
        BY <3>5, <3>6
      <3>8. QED BY <3>7 DEF IsCyclic
    <2>6. QED BY <2>4, <2>5
  <1>7. QED BY <1>4, <1>5, <1>6

\* The components are those of the graph, and the cyclic ones hold what recurs.
LEMMA FindCyclicKeeps ==
  ASSUME htn \in Problems, TarjanInv, FindCyclic
  PROVE  ComponentsKnown'
  <1>1. Components = Tasks /\ ClosedOK
    BY AllInComponents DEF FindCyclic
  <1>2. htn' = htn /\ taskToSCC' = taskToSCC /\ sccsCyclic' = {c \in SCCs : IsCyclic(c)}
    BY DEF FindCyclic
  <1>3. /\ Tasks' = Tasks /\ Subtasks' = Subtasks
        /\ \A t : Recurs(t)' <=> Recurs(t)
        /\ \A t, u : LeadsTo(t, u)' <=> LeadsTo(t, u)
    BY <1>2, GraphStays
  <1>4. Components' = Components /\ numSCCs' = numSCCs
    BY <1>2 DEF Components, numSCCs
  <1>5. ClosedOK'
    BY <1>1, <1>2, <1>3, <1>4 DEF ClosedOK
  <1>6. CyclicOK'
    <2>1. sccsCyclic' = {taskToSCC[t] : t \in {x \in Tasks : Recurs(x)}}
      BY <1>1, <1>2, CyclicComponents
    <2>2. QED BY <1>2, <1>3, <2>1 DEF CyclicOK
  <1>7. QED BY <1>1, <1>3, <1>4, <1>5, <1>6 DEF ComponentsKnown

\* The components stay what they are once they are known.
LEMMA ComponentsStay ==
  ASSUME htn' = htn, taskToSCC' = taskToSCC, sccsCyclic' = sccsCyclic
  PROVE  /\ ComponentsKnown => ComponentsKnown'
         /\ SCCs' = SCCs
         /\ \A c : sccToTasks(c)' = sccToTasks(c) /\ sccG(c)' = sccG(c)
  <1>1. /\ Tasks' = Tasks /\ Subtasks' = Subtasks
        /\ \A t : Children(t)' = Children(t) /\ (Recurs(t)' <=> Recurs(t))
        /\ \A t, u : LeadsTo(t, u)' <=> LeadsTo(t, u)
    BY GraphStays
  <1>2. Components' = Components /\ numSCCs' = numSCCs /\ SCCs' = SCCs
    BY DEF Components, numSCCs, SCCs
  <1>3. ClosedOK => ClosedOK'
    BY <1>1, <1>2 DEF ClosedOK
  <1>4. CyclicOK => CyclicOK'
    BY <1>1 DEF CyclicOK
  <1>5. \A c : sccToTasks(c)' = sccToTasks(c)
    BY <1>1 DEF sccToTasks
  <1>6. \A c : sccG(c)' = sccG(c)
    BY <1>1, <1>5 DEF sccG
  <1>7. QED BY <1>1, <1>2, <1>3, <1>4, <1>5, <1>6 DEF ComponentsKnown

\* Below some task of the component something recurs.
RecursBelow(c) == \E t \in sccToTasks(c) : \E u \in Tasks : LeadsTo(t, u) /\ Recurs(u)

\* Nothing recurs below a component if it is not cyclic and nothing recurs below its successors.
LEMMA AcyclicStep ==
  ASSUME htn \in Problems, ComponentsKnown, NEW c \in SCCs
  PROVE  ~RecursBelow(c) <=> c \notin sccsCyclic /\ \A d \in sccG(c) : ~RecursBelow(d)
  <1>1. \A t \in Tasks : Subtasks[t] \subseteq Tasks
    BY SubtasksAreGraph
  <1>2. \A t \in Tasks : Recurs(t) => taskToSCC[t] \in sccsCyclic
    BY DEF ComponentsKnown, CyclicOK
  <1>3. ASSUME c \in sccsCyclic
        PROVE  RecursBelow(c)
    <2>1. PICK t \in Tasks : Recurs(t) /\ taskToSCC[t] = c
      BY <1>3 DEF ComponentsKnown, CyclicOK
    <2>2. t \in sccToTasks(c) /\ LeadsTo(t, t)
      BY <2>1, ComponentsFacts, LeadsToFacts
    <2>3. QED BY <2>1, <2>2 DEF RecursBelow
  <1>4. ASSUME NEW d \in sccG(c), RecursBelow(d)
        PROVE  RecursBelow(c)
    <2>1. PICK x \in sccToTasks(d) : \E u \in Tasks : LeadsTo(x, u) /\ Recurs(u)
      BY <1>4 DEF RecursBelow
    <2>2. PICK u \in Tasks : LeadsTo(x, u) /\ Recurs(u)
      BY <2>1
    <2>3. PICK t \in sccToTasks(c) : \E y \in Subtasks[t] : taskToSCC[y] = d
      BY SccGraph
    <2>4. PICK y \in Subtasks[t] : taskToSCC[y] = d
      BY <2>3
    <2>5. t \in Tasks /\ y \in Tasks /\ x \in Tasks /\ taskToSCC[x] = d
      BY <1>1, <2>1, <2>3, <2>4, ComponentsFacts
    <2>6. LeadsTo(t, y) /\ LeadsTo(y, x)
      BY <2>4, <2>5, ComponentsFacts, LeadsToFacts
    <2>7. LeadsTo(t, u)
      BY <2>2, <2>5, <2>6, LeadsToFacts
    <2>8. QED BY <2>2, <2>3, <2>7 DEF RecursBelow
  <1>5. ASSUME c \notin sccsCyclic, \A d \in sccG(c) : ~RecursBelow(d), RecursBelow(c)
        PROVE  FALSE
    <2>1. PICK t \in sccToTasks(c), u \in Tasks : LeadsTo(t, u) /\ Recurs(u)
      BY <1>5 DEF RecursBelow
    <2>2. t \in Tasks /\ taskToSCC[t] = c
      BY ComponentsFacts
    <2> DEFINE Good == {x \in Tasks : taskToSCC[x] = c \/ \A y \in Tasks : LeadsTo(x, y) => ~Recurs(y)}
    <2>3. \A x \in Good \intersect Tasks : Subtasks[x] \subseteq Good
      <3>1. SUFFICES ASSUME NEW x \in Good, NEW y \in Subtasks[x]
                     PROVE  y \in Good
        OBVIOUS
      <3>2. x \in Tasks /\ y \in Tasks /\ LeadsTo(x, y)
        BY <1>1, LeadsToFacts
      <3>3. CASE taskToSCC[x] = c /\ taskToSCC[y] # c
        <4>1. taskToSCC[y] \in sccG(c)
          BY <3>2, <3>3, SccGraph
        <4>2. y \in sccToTasks(taskToSCC[y])
          BY <3>2, ComponentsFacts
        <4>3. \A z \in Tasks : LeadsTo(y, z) => ~Recurs(z)
          BY <1>5, <4>1, <4>2 DEF RecursBelow
        <4>4. QED BY <3>2, <4>3
      <3>4. CASE \A z \in Tasks : LeadsTo(x, z) => ~Recurs(z)
        <4>1. \A z \in Tasks : LeadsTo(y, z) => LeadsTo(x, z)
          BY <3>2, LeadsToFacts
        <4>2. QED BY <3>2, <3>4, <4>1
      <3>5. QED BY <3>2, <3>3, <3>4
    <2>4. t \in Good \intersect Tasks
      BY <2>2
    <2> HIDE DEF Good
    <2>5. u \in Good
      BY <2>1, <2>3, <2>4, LeadsNowhereElse
    <2>6. taskToSCC[u] # c
      BY <1>2, <1>5, <2>1
    <2>7. \A y \in Tasks : LeadsTo(u, y) => ~Recurs(y)
      BY <2>5, <2>6 DEF Good
    <2>8. QED BY <2>1, <2>7, LeadsToFacts
  <1>6. QED BY <1>3, <1>4, <1>5

\* One pass over the components in the order of their numbers tells.
LEMMA AcyclicPass ==
  ASSUME htn \in Problems, ComponentsKnown
  PROVE  AcyclicInOrder = [c \in SCCs |-> ~RecursBelow(c)]
  <1> DEFINE f == CHOOSE f : f = [c \in SCCs |->
                    /\ c \notin sccsCyclic
                    /\ \A d \in sccG(c) : IF d < c THEN f[d] ELSE d \notin sccsCyclic]
             g == [c \in SCCs |-> ~RecursBelow(c)]
  <1>1. AcyclicInOrder = f
    BY DEF AcyclicInOrder
  <1>2. SCCs \subseteq Nat /\ \A c \in SCCs : sccG(c) \subseteq SCCs /\ \A d \in sccG(c) : d < c
    BY ComponentsFacts, SccGraph
  <1>3. g = [c \in SCCs |->
               /\ c \notin sccsCyclic
               /\ \A d \in sccG(c) : IF d < c THEN g[d] ELSE d \notin sccsCyclic]
    <2>1. ASSUME NEW c \in SCCs
          PROVE  g[c] = (/\ c \notin sccsCyclic
                         /\ \A d \in sccG(c) : IF d < c THEN g[d] ELSE d \notin sccsCyclic)
      <3>1. g[c] = ~RecursBelow(c)
        OBVIOUS
      <3>2. \A d \in sccG(c) : d < c /\ g[d] = ~RecursBelow(d)
        BY <1>2
      <3> HIDE DEF g
      <3>3. (\A d \in sccG(c) : IF d < c THEN g[d] ELSE d \notin sccsCyclic) <=> \A d \in sccG(c) : ~RecursBelow(d)
        BY <3>2
      <3>4. QED BY <3>1, <3>3, AcyclicStep
    <2>2. QED BY <2>1
  <1>4. f = [c \in SCCs |->
               /\ c \notin sccsCyclic
               /\ \A d \in sccG(c) : IF d < c THEN f[d] ELSE d \notin sccsCyclic]
    <2> HIDE DEF g
    <2>1. QED BY <1>3
  <1> HIDE DEF f, g
  <1>5. \A c \in SCCs : f[c] = g[c]
    <2> DEFINE Bad == {c \in SCCs : f[c] # g[c]}
    <2>1. SUFFICES ASSUME Bad # {}
                   PROVE  FALSE
      OBVIOUS
    <2>2. PICK c \in Bad : \A d \in Bad : c <= d
      <3>1. Bad \in SUBSET Nat
        BY <1>2
      <3> HIDE DEF Bad
      <3>2. QED BY <2>1, <3>1, LeastNumber
    <2>3. \A d \in sccG(c) : d < c /\ f[d] = g[d]
      <3>1. SUFFICES ASSUME NEW d \in sccG(c)
                     PROVE  d < c /\ f[d] = g[d]
        OBVIOUS
      <3>2. d \in SCCs /\ d < c /\ d \in Nat /\ c \in Nat
        BY <1>2
      <3>3. d \notin Bad
        <4>1. ~(c <= d)
          BY <3>2
        <4> HIDE DEF Bad
        <4>2. QED BY <2>2, <4>1
      <3>4. QED BY <3>2, <3>3
    <2>4. f[c] = (/\ c \notin sccsCyclic
                  /\ \A d \in sccG(c) : IF d < c THEN f[d] ELSE d \notin sccsCyclic)
      BY <1>4
    <2>5. g[c] = (/\ c \notin sccsCyclic
                  /\ \A d \in sccG(c) : IF d < c THEN g[d] ELSE d \notin sccsCyclic)
      BY <1>3
    <2>6. f[c] = g[c]
      <3> HIDE DEF Bad
      <3>1. (\A d \in sccG(c) : IF d < c THEN f[d] ELSE d \notin sccsCyclic)
              <=> (\A d \in sccG(c) : IF d < c THEN g[d] ELSE d \notin sccsCyclic)
        BY <2>3
      <3>2. QED BY <2>4, <2>5, <3>1
    <2>7. QED BY <2>6
  <1>6. DOMAIN f = SCCs /\ DOMAIN g = SCCs
    BY <1>4 DEF g
  <1>7. f = [c \in SCCs |-> f[c]]
    <2>1. \E F : f = [c \in SCCs |-> F[c]]
      <3> DEFINE F == [c \in SCCs |->
                         /\ c \notin sccsCyclic
                         /\ \A d \in sccG(c) : IF d < c THEN f[d] ELSE d \notin sccsCyclic]
      <3>1. f = F /\ F = [c \in SCCs |-> F[c]]
        BY <1>4
      <3> HIDE DEF F
      <3>2. QED BY <3>1
    <2>2. QED BY <2>1
  <1>8. QED BY <1>1, <1>5, <1>7 DEF g

\* The pass over the components is right.
LEMMA AnalyseCyclicityKeeps ==
  ASSUME htn \in Problems, ComponentsKnown, AnalyseCyclicity
  PROVE  AcyclicExact'
  <1>1. htn' = htn /\ taskToSCC' = taskToSCC /\ sccIsAcyclic' = [c \in SCCs |-> ~RecursBelow(c)]
    BY AcyclicPass DEF AnalyseCyclicity
  <1>2. /\ Tasks' = Tasks
        /\ \A t : Recurs(t)' <=> Recurs(t)
        /\ \A t, u : LeadsTo(t, u)' <=> LeadsTo(t, u)
    BY <1>1, GraphStays
  <1>3. ASSUME NEW t \in Tasks
        PROVE  sccIsAcyclic'[taskToSCC[t]] <=> \A u \in Tasks : LeadsTo(t, u) => ~Recurs(u)
    <2>1. taskToSCC[t] \in SCCs /\ t \in sccToTasks(taskToSCC[t])
      BY ComponentsFacts
    <2>2. sccIsAcyclic'[taskToSCC[t]] <=> ~RecursBelow(taskToSCC[t])
      BY <1>1, <2>1
    <2>3. ASSUME NEW x \in sccToTasks(taskToSCC[t]), NEW u \in Tasks, LeadsTo(x, u)
          PROVE  LeadsTo(t, u)
      <3>1. x \in Tasks /\ LeadsTo(t, x)
        BY ComponentsFacts
      <3>2. QED BY <2>3, <3>1, LeadsToFacts
    <2>4. QED BY <2>1, <2>2, <2>3 DEF RecursBelow
  <1>4. QED BY <1>1, <1>2, <1>3 DEF AcyclicExact

\* The components that wait for none are put on the stack.
LEMMA StartReachabilityKeeps ==
  ASSUME htn \in Problems, ComponentsKnown, reachable = NoFunction, StartReachability
  PROVE  ReachInv'
  <1> DEFINE First == {c \in SCCs : sccG(c) = {}}
  <1>1. /\ htn' = htn /\ taskToSCC' = taskToSCC /\ sccsCyclic' = sccsCyclic /\ reachable' = reachable
        /\ ready' = [c \in SCCs |-> Cardinality(sccG(c))] /\ stack' = Ascending(First)
    BY DEF StartReachability
  <1>2. /\ Tasks' = Tasks /\ SCCs' = SCCs
        /\ \A c : sccToTasks(c)' = sccToTasks(c) /\ sccG(c)' = sccG(c)
    BY <1>1, GraphStays, ComponentsStay
  <1>3. DOMAIN reachable = {}
    BY DEF NoFunction
  <1>4. Processed' = {}
    <2>1. \A c \in SCCs : sccToTasks(c) # {}
      BY ComponentsFacts
    <2>2. QED BY <1>1, <1>2, <1>3, <2>1 DEF Processed
  <1>5. First \in SUBSET Nat /\ IsFiniteSet(First)
    <2>1. First \subseteq SCCs /\ SCCs \subseteq Nat /\ IsFiniteSet(SCCs)
      BY ComponentsFacts
    <2>2. QED BY <2>1, FS_Subset
  <1>6. /\ stack' \in Seq(First) /\ ToSet(stack') = First
        /\ \A i, j \in DOMAIN stack' : stack'[i] = stack'[j] => i = j
    BY <1>1, <1>5, AscendingList
  <1>7. stack' \in Seq(SCCs)
    BY <1>6, SeqMonotonic
  <1>8. ready' = [c \in SCCs |-> Cardinality(sccG(c) \ {})]
    <2>1. \A c : sccG(c) \ {} = sccG(c)
      OBVIOUS
    <2>2. QED BY <1>1, <2>1
  <1>9. reachable' = [t \in {u \in Tasks : taskToSCC[u] \in {}} |-> ActionsBelow(t)']
    BY <1>1, <1>3 DEF NoFunction
  <1>10. ToSet(stack') = {c \in SCCs \ {} : sccG(c) \subseteq {}}
    BY <1>6
  <1>11. QED BY <1>1, <1>2, <1>4, <1>6, <1>7, <1>8, <1>9, <1>10 DEF ReachInv

\* What a component reaches, if all of those that it leads to are processed.
LEMMA ReachableFromComponent ==
  ASSUME htn \in Problems, ComponentsKnown, ReachInv,
         NEW c \in SCCs, sccG(c) \subseteq Processed, NEW t \in sccToTasks(c)
  PROVE  ReachableFrom(c) = ActionsBelow(t)
  <1>1. htn.numTasks \in Nat /\ htn.numActions \in 0 .. htn.numTasks /\ Tasks \subseteq Nat
    BY ProblemFacts
  <1>2. \A a \in Tasks : a \in 0 .. htn.numActions - 1 <=> IsMaintained(a)
    <2>1. SUFFICES ASSUME NEW a \in Tasks
                   PROVE  a \in 0 .. htn.numActions - 1 <=> IsMaintained(a)
      OBVIOUS
    <2>2. a \in Nat
      BY <1>1
    <2>3. QED BY <1>1, <2>2 DEF IsMaintained
  <1>3. t \in Tasks /\ taskToSCC[t] = c
    BY ComponentsFacts
  <1>4. \A d \in sccG(c) : /\ d \in SCCs
                           /\ Min(sccToTasks(d)) \in sccToTasks(d) /\ Min(sccToTasks(d)) \in Tasks
                           /\ reachable[Min(sccToTasks(d))] = ActionsBelow(Min(sccToTasks(d)))
    <2>1. SUFFICES ASSUME NEW d \in sccG(c)
                   PROVE  /\ d \in SCCs
                          /\ Min(sccToTasks(d)) \in sccToTasks(d) /\ Min(sccToTasks(d)) \in Tasks
                          /\ reachable[Min(sccToTasks(d))] = ActionsBelow(Min(sccToTasks(d)))
      OBVIOUS
    <2>2. d \in SCCs /\ d \in Processed
      BY SccGraph
    <2>3. sccToTasks(d) \in SUBSET Nat /\ sccToTasks(d) # {} /\ sccToTasks(d) \subseteq Tasks
      BY <1>1, <2>2, ComponentsFacts
    <2>4. \E x \in sccToTasks(d) : \A y \in sccToTasks(d) : x <= y
      BY <2>3, LeastNumber
    <2>5. Min(sccToTasks(d)) \in sccToTasks(d)
      BY <2>4 DEF Min
    <2>6. taskToSCC[Min(sccToTasks(d))] = d
      BY <2>5, ComponentsFacts
    <2>7. QED BY <2>2, <2>3, <2>5, <2>6 DEF ReachInv
  <1>5. ASSUME NEW a \in ReachableFrom(c)
        PROVE  a \in ActionsBelow(t)
    <2>1. CASE a \in sccToTasks(c) /\ IsMaintained(a)
      <3>1. a \in Tasks /\ LeadsTo(t, a)
        BY <1>3, <2>1, ComponentsFacts
      <3>2. QED BY <1>2, <2>1, <3>1 DEF ActionsBelow
    <2>2. CASE a \in UNION {reachable[Min(sccToTasks(d))] : d \in sccG(c)}
      <3>1. PICK d \in sccG(c) : a \in reachable[Min(sccToTasks(d))]
        BY <2>2
      <3>2. PICK m : m = Min(sccToTasks(d))
        OBVIOUS
      <3>3. m \in sccToTasks(d) /\ m \in Tasks /\ a \in ActionsBelow(m) /\ taskToSCC[m] = d
        BY <1>4, <3>1, <3>2, ComponentsFacts
      <3>4. PICK x \in sccToTasks(c) : \E u \in Subtasks[x] : taskToSCC[u] = d
        BY SccGraph
      <3>5. PICK u \in Subtasks[x] : taskToSCC[u] = d
        BY <3>4
      <3>6. x \in Tasks /\ u \in Tasks /\ LeadsTo(t, x) /\ LeadsTo(x, u) /\ LeadsTo(u, m)
        <4>1. x \in Tasks /\ taskToSCC[x] = c
          BY ComponentsFacts
        <4>2. u \in Tasks /\ LeadsTo(x, u)
          BY <4>1, LeadsToFacts
        <4>3. QED BY <1>3, <3>3, <3>5, <4>1, <4>2, ComponentsFacts
      <3>7. a \in 0 .. htn.numActions - 1 /\ LeadsTo(m, a) /\ a \in Tasks
        BY <1>1, <3>3 DEF ActionsBelow, Tasks
      <3>8. LeadsTo(t, m)
        <4>1. LeadsTo(t, u)
          BY <1>3, <3>6, LeadsToFacts
        <4>2. QED BY <1>3, <3>3, <3>6, <4>1, LeadsToFacts
      <3>9. LeadsTo(t, a)
        BY <1>3, <3>3, <3>7, <3>8, LeadsToFacts
      <3>10. QED BY <3>7, <3>9 DEF ActionsBelow
    <2>3. QED BY <1>5, <2>1, <2>2 DEF ReachableFrom
  <1>6. ASSUME NEW a \in ActionsBelow(t)
        PROVE  a \in ReachableFrom(c)
    <2> DEFINE Cl == sccToTasks(c) \union {x \in Tasks : \E d \in sccG(c) : LeadsTo(Min(sccToTasks(d)), x)}
    <2>1. \A x \in Cl \intersect Tasks : Subtasks[x] \subseteq Cl
      <3>1. SUFFICES ASSUME NEW x \in Cl \intersect Tasks, NEW y \in Subtasks[x]
                     PROVE  y \in Cl
        OBVIOUS
      <3>2. x \in Tasks /\ y \in Tasks /\ LeadsTo(x, y)
        BY LeadsToFacts
      <3>3. CASE x \in sccToTasks(c)
        <4>1. taskToSCC[x] = c
          BY <3>3, ComponentsFacts
        <4>2. CASE taskToSCC[y] = c
          BY <3>2, <4>2, ComponentsFacts
        <4>3. CASE taskToSCC[y] # c
          <5>1. PICK d : d = taskToSCC[y] /\ d \in sccG(c)
            BY <3>2, <4>1, <4>3, SccGraph
          <5>2. PICK m : m = Min(sccToTasks(d))
            OBVIOUS
          <5>3. m \in Tasks /\ m \in sccToTasks(d)
            BY <1>4, <5>1, <5>2
          <5>4. LeadsTo(m, y)
            BY <3>2, <5>1, <5>3, ComponentsFacts
          <5>5. QED BY <3>2, <5>1, <5>2, <5>4
        <4>4. QED BY <4>2, <4>3
      <3>4. CASE \E d \in sccG(c) : LeadsTo(Min(sccToTasks(d)), x)
        <4>1. PICK d \in sccG(c) : LeadsTo(Min(sccToTasks(d)), x)
          BY <3>4
        <4>2. PICK m : m = Min(sccToTasks(d))
          OBVIOUS
        <4>3. m \in Tasks
          BY <1>4, <4>2
        <4>4. LeadsTo(m, y)
          BY <3>2, <4>1, <4>2, <4>3, LeadsToFacts
        <4>5. QED BY <3>2, <4>2, <4>4
      <3>5. QED BY <3>1, <3>3, <3>4
    <2>2. t \in Cl \intersect Tasks
      BY <1>3
    <2> HIDE DEF Cl
    <2>3. a \in Cl
      BY <2>1, <2>2, LeadsNowhereElse DEF ActionsBelow
    <2>4. a \in Tasks /\ IsMaintained(a) /\ a \in 0 .. htn.numActions - 1
      BY <1>1, <1>2 DEF ActionsBelow, Tasks
    <2>5. CASE a \in sccToTasks(c)
      BY <2>4, <2>5 DEF ReachableFrom
    <2>6. CASE \E d \in sccG(c) : LeadsTo(Min(sccToTasks(d)), a)
      <3>1. PICK d \in sccG(c) : LeadsTo(Min(sccToTasks(d)), a)
        BY <2>6
      <3>2. a \in ActionsBelow(Min(sccToTasks(d)))
        BY <2>4, <3>1 DEF ActionsBelow
      <3>3. a \in reachable[Min(sccToTasks(d))]
        BY <1>4, <3>2
      <3>4. QED BY <3>3 DEF ReachableFrom
    <2>7. QED BY <2>3, <2>5, <2>6 DEF Cl
  <1>7. QED BY <1>5, <1>6

\* Two lists without common elements, one after the other, list none twice if neither does.
LEMMA ConcatDistinct ==
  ASSUME NEW X, NEW s \in Seq(X), NEW t \in Seq(X), ToSet(s) \intersect ToSet(t) = {},
         \A i, j \in DOMAIN s : s[i] = s[j] => i = j,
         \A i, j \in DOMAIN t : t[i] = t[j] => i = j
  PROVE  \A i, j \in DOMAIN (s \o t) : (s \o t)[i] = (s \o t)[j] => i = j
  <1> DEFINE u == s \o t
             m == Len(s)
  <1>1. /\ m \in Nat /\ DOMAIN s = 1 .. m /\ Len(t) \in Nat /\ DOMAIN t = 1 .. Len(t)
        /\ DOMAIN u = 1 .. m + Len(t)
        /\ \A i \in DOMAIN u : u[i] = IF i <= m THEN s[i] ELSE t[i - m]
    <2>1. /\ u \in Seq(X) /\ Len(u) = m + Len(t)
          /\ \A i \in 1 .. m + Len(t) : u[i] = IF i <= m THEN s[i] ELSE t[i - m]
      BY ConcatProperties
    <2>2. QED BY <2>1, LenProperties
  <1> HIDE DEF u, m
  <1>2. \A i \in DOMAIN u : IF i <= m THEN i \in DOMAIN s /\ u[i] = s[i]
                                      ELSE i - m \in DOMAIN t /\ u[i] = t[i - m]
    BY <1>1
  <1>3. \A i, j \in DOMAIN u : u[i] = u[j] => i = j
    <2>1. SUFFICES ASSUME NEW i \in DOMAIN u, NEW j \in DOMAIN u, u[i] = u[j]
                   PROVE  i = j
      OBVIOUS
    <2>2. CASE i <= m /\ j <= m
      BY <1>2, <2>1, <2>2
    <2>3. CASE ~(i <= m) /\ ~(j <= m)
      <3>1. i - m = j - m
        BY <1>2, <2>1, <2>3
      <3>2. QED BY <1>1, <3>1
    <2>4. ~(i <= m <=> ~(j <= m))
      <3>1. \A k \in DOMAIN s, l \in DOMAIN t : s[k] # t[l]
        BY DEF ToSet
      <3>2. QED BY <1>2, <2>1, <3>1
    <2>5. QED BY <2>2, <2>3, <2>4
  <1>4. QED BY <1>3 DEF u

\* A component is processed: its tasks get their actions, and those that waited for it alone are next.
LEMMA ProcessKeeps ==
  ASSUME htn \in Problems, ComponentsKnown, ReachInv, Process
  PROVE  ReachInv'
  <1>0. PICK c, n, R : /\ c = Last(stack) /\ n = Len(stack)
                       /\ R = {d \in sccGinverse(c) : ReadyNow(d)}
    OBVIOUS
  <1>1. /\ htn' = htn /\ taskToSCC' = taskToSCC /\ sccsCyclic' = sccsCyclic /\ stack # <<>>
        /\ reachable' = SetFor(reachable, sccToTasks(c), ReachableFrom(c))
        /\ ready' = [d \in SCCs |-> IF d \in sccGinverse(c) THEN ready[d] - 1 ELSE ready[d]]
        /\ stack' = Front(stack) \o Ascending(R)
    BY <1>0 DEF Process
  <1>2. /\ Tasks' = Tasks /\ SCCs' = SCCs
        /\ \A t : sccToTasks(t)' = sccToTasks(t) /\ sccG(t)' = sccG(t)
        /\ \A t, u : LeadsTo(t, u)' <=> LeadsTo(t, u)
    BY <1>1, GraphStays, ComponentsStay
  <1>3. /\ stack \in Seq(SCCs) /\ n \in Nat \ {0} /\ DOMAIN stack = 1 .. n /\ c = stack[n]
        /\ c \in ToSet(stack)
    <2>1. stack \in Seq(SCCs)
      BY DEF ReachInv
    <2>2. n \in Nat /\ n # 0 /\ DOMAIN stack = 1 .. n
      BY <1>0, <1>1, <2>1, LenProperties, EmptySeq
    <2>3. n \in DOMAIN stack
      BY <2>2
    <2>4. c = stack[n]
      BY <1>0 DEF Last
    <2>5. QED BY <2>1, <2>2, <2>3, <2>4 DEF ToSet
  <1>4. c \in SCCs /\ c \notin Processed /\ sccG(c) \subseteq Processed
    BY <1>3 DEF ReachInv
  <1>5. /\ DOMAIN reachable = {u \in Tasks : taskToSCC[u] \in Processed}
        /\ \A t \in DOMAIN reachable : reachable[t] = ActionsBelow(t)
    BY DEF ReachInv
  <1>6. /\ \A t \in Tasks : taskToSCC[t] = c <=> t \in sccToTasks(c)
        /\ sccToTasks(c) \subseteq Tasks
        /\ \A d \in SCCs : sccToTasks(d) # {} /\ sccToTasks(d) \subseteq Tasks
                           /\ \A t \in sccToTasks(d) : taskToSCC[t] = d
    BY ComponentsFacts
  <1>7. Processed' = Processed \union {c}
    <2>1. DOMAIN reachable' = DOMAIN reachable \union sccToTasks(c)
      BY <1>1 DEF SetFor
    <2>2. ASSUME NEW d \in SCCs, sccToTasks(d) \subseteq DOMAIN reachable \union sccToTasks(c), d # c
          PROVE  sccToTasks(d) \subseteq DOMAIN reachable
      BY <1>6, <2>2
    <2>3. Processed' = {d \in SCCs : sccToTasks(d) \subseteq DOMAIN reachable'}
      BY <1>2 DEF Processed
    <2>4. QED BY <1>4, <2>1, <2>2, <2>3 DEF Processed
  <1>8. reachable' = [t \in {u \in Tasks : taskToSCC[u] \in Processed \union {c}} |-> ActionsBelow(t)]
    <2>1. DOMAIN reachable \union sccToTasks(c) = {u \in Tasks : taskToSCC[u] \in Processed \union {c}}
      BY <1>5, <1>6
    <2>2. ASSUME NEW t \in DOMAIN reachable \union sccToTasks(c)
          PROVE  (IF t \in sccToTasks(c) THEN ReachableFrom(c) ELSE reachable[t]) = ActionsBelow(t)
      BY <1>4, <1>5, <2>2, ReachableFromComponent
    <2>3. reachable' = [t \in DOMAIN reachable \union sccToTasks(c) |->
                          IF t \in sccToTasks(c) THEN ReachableFrom(c) ELSE reachable[t]]
      BY <1>1 DEF SetFor
    <2>4. QED BY <2>1, <2>2, <2>3
  <1>9. \A t : ActionsBelow(t)' = ActionsBelow(t)
    BY <1>1, <1>2 DEF ActionsBelow
  <1>10. ASSUME NEW d \in SCCs
         PROVE  /\ IsFiniteSet(sccG(d) \ Processed) /\ ready[d] = Cardinality(sccG(d) \ Processed)
                /\ ready[d] \in Nat
                /\ d \in sccGinverse(c) => Cardinality(sccG(d) \ (Processed \union {c})) = ready[d] - 1
                /\ d \notin sccGinverse(c) => sccG(d) \ (Processed \union {c}) = sccG(d) \ Processed
                /\ d \in R <=> sccG(d) \ Processed = {c}
    <2> DEFINE W == sccG(d) \ Processed
    <2>1. IsFiniteSet(sccG(d))
      BY SccGraph
    <2>2. IsFiniteSet(W)
      BY <2>1, FS_Subset
    <2>3. ready[d] = Cardinality(W)
      BY DEF ReachInv
    <2>4. Cardinality(W) \in Nat
      BY <2>2, FS_CardinalityType
    <2>5. sccG(d) \ (Processed \union {c}) = W \ {c}
      OBVIOUS
    <2>6. d \in sccGinverse(c) <=> c \in W
      BY <1>4 DEF sccGinverse
    <2> HIDE DEF W
    <2>7. c \in W => Cardinality(W \ {c}) = Cardinality(W) - 1 /\ IsFiniteSet(W \ {c})
      BY <2>2, FS_RemoveElement
    <2>8. c \notin W => W \ {c} = W
      OBVIOUS
    <2>9. ASSUME c \in W, Cardinality(W) = 1
          PROVE  W = {c}
      <3>1. Cardinality(W \ {c}) = 0
        BY <2>7, <2>9
      <3>2. W \ {c} = {}
        BY <2>7, <2>9, <3>1, FS_EmptySet
      <3>3. QED BY <2>9, <3>2
    <2>10. ASSUME W = {c}
           PROVE  Cardinality(W) = 1
      <3>1. Cardinality({c}) = 1
        BY FS_Singleton
      <3>2. QED BY <2>10, <3>1
    <2>11. d \in R <=> W = {c}
      BY <1>0, <2>3, <2>6, <2>9, <2>10 DEF ReadyNow
    <2>12. QED BY <2>2, <2>3, <2>4, <2>5, <2>6, <2>7, <2>8, <2>11 DEF W
  <1>11. ready' = [d \in SCCs |-> Cardinality(sccG(d) \ (Processed \union {c}))]
    BY <1>1, <1>10
  <1>12. /\ R \subseteq SCCs /\ R \in SUBSET Nat /\ IsFiniteSet(R)
         /\ \A d \in R : d # c /\ d \notin Processed
    <2>1. R \subseteq SCCs
      BY <1>0 DEF sccGinverse
    <2>2. SCCs \subseteq Nat /\ IsFiniteSet(SCCs)
      BY ComponentsFacts
    <2>3. IsFiniteSet(R)
      BY <2>1, <2>2, FS_Subset
    <2>4. \A d \in R : sccG(d) \ Processed = {c}
      BY <1>10, <2>1
    <2>5. \A d \in R : d # c /\ d \notin Processed
      <3>1. SUFFICES ASSUME NEW d \in R
                     PROVE  d # c /\ d \notin Processed
        OBVIOUS
      <3>2. c \in sccG(d) /\ c \notin Processed
        BY <2>4
      <3>3. QED BY <1>4, <3>2 DEF ReachInv
    <2>6. QED BY <2>1, <2>2, <2>3, <2>5
  <1> DEFINE front == Front(stack)
             added == Ascending(R)
  <1>13. /\ added \in Seq(SCCs) /\ ToSet(added) = R
         /\ \A i, j \in DOMAIN added : added[i] = added[j] => i = j
    <2>1. /\ added \in Seq(R) /\ ToSet(added) = R
          /\ \A i, j \in DOMAIN added : added[i] = added[j] => i = j
      BY <1>12, AscendingList
    <2>2. added \in Seq(SCCs)
      BY <1>12, <2>1, SeqMonotonic
    <2>3. QED BY <2>1, <2>2
  <1>14. /\ front \in Seq(SCCs) /\ ToSet(front) = ToSet(stack) \ {c}
         /\ \A i, j \in DOMAIN front : front[i] = front[j] => i = j
    <2>1. /\ front \in Seq(SCCs) /\ DOMAIN front = 1 .. n - 1
          /\ \A i \in 1 .. n - 1 : front[i] = stack[i]
      <3>1. n \in 1 .. Len(stack) /\ n = Len(stack)
        BY <1>0, <1>3
      <3>2. front = SubSeq(stack, 1, n - 1)
        BY <1>0 DEF Front
      <3> HIDE DEF front
      <3>3. QED BY <1>3, <3>1, <3>2, SplitList
    <2>2. \A i, j \in 1 .. n : stack[i] = stack[j] => i = j
      BY <1>3 DEF ReachInv
    <2> HIDE DEF front
    <2>3. ToSet(front) = {stack[i] : i \in 1 .. n - 1}
      BY <2>1 DEF ToSet
    <2>4. ToSet(stack) = {stack[i] : i \in 1 .. n}
      BY <1>3 DEF ToSet
    <2>5. ASSUME NEW i \in 1 .. n
          PROVE  stack[i] # c <=> i \in 1 .. n - 1
      <3>1. stack[i] # c <=> i # n
        BY <1>3, <2>2, <2>5
      <3>2. i # n <=> i \in 1 .. n - 1
        BY <1>3, <2>5
      <3>3. QED BY <3>1, <3>2
    <2>6. ToSet(front) = ToSet(stack) \ {c}
      <3>1. \A i \in 1 .. n - 1 : i \in 1 .. n
        BY <1>3
      <3>2. QED BY <2>3, <2>4, <2>5, <3>1
    <2>7. \A i \in 1 .. n - 1 : i \in 1 .. n
      BY <1>3
    <2>8. QED BY <2>1, <2>2, <2>6, <2>7
  <1> HIDE DEF front, added
  <1>15. ToSet(stack) = {d \in SCCs \ Processed : sccG(d) \subseteq Processed}
    BY DEF ReachInv
  <1>16. /\ stack' \in Seq(SCCs) /\ ToSet(stack') = (ToSet(stack) \ {c}) \union R
         /\ \A i, j \in DOMAIN stack' : stack'[i] = stack'[j] => i = j
    <2>1. stack' = front \o added
      BY <1>1 DEF front, added
    <2>2. stack' \in Seq(SCCs) /\ ToSet(stack') = ToSet(front) \union ToSet(added)
      BY <1>13, <1>14, <2>1, ConcatSet
    <2>3. ToSet(front) \intersect ToSet(added) = {}
      <3>1. \A d \in R : d \notin ToSet(stack)
        BY <1>4, <1>10, <1>12, <1>15
      <3>2. QED BY <1>13, <1>14, <3>1
    <2>4. \A i, j \in DOMAIN stack' : stack'[i] = stack'[j] => i = j
      BY <1>13, <1>14, <2>1, <2>3, ConcatDistinct
    <2>5. QED BY <1>13, <1>14, <2>2, <2>4
  <1>17. ToSet(stack') = {d \in SCCs \ (Processed \union {c}) : sccG(d) \subseteq Processed \union {c}}
    <2>1. ASSUME NEW d \in SCCs \ (Processed \union {c}), sccG(d) \subseteq Processed \union {c}
          PROVE  d \in (ToSet(stack) \ {c}) \union R
      <3>1. sccG(d) \subseteq Processed \/ sccG(d) \ Processed = {c}
        BY <2>1
      <3>2. QED BY <1>10, <1>15, <2>1, <3>1
    <2>2. ASSUME NEW d \in R
          PROVE  d \in SCCs \ (Processed \union {c}) /\ sccG(d) \subseteq Processed \union {c}
      BY <1>10, <1>12, <2>2
    <2>3. QED BY <1>15, <1>16, <2>1, <2>2
  <1>18. \A d \in Processed \union {c} : sccG(d) \subseteq Processed \union {c}
    BY <1>4 DEF ReachInv
  <1>19. reachable' = [t \in {u \in Tasks' : taskToSCC'[u] \in Processed'} |-> ActionsBelow(t)']
    <2>1. {u \in Tasks' : taskToSCC'[u] \in Processed'} = {u \in Tasks : taskToSCC[u] \in Processed \union {c}}
      BY <1>1, <1>2, <1>7
    <2>2. QED BY <1>8, <1>9, <2>1
  <1>20. ready' = [d \in SCCs' |-> Cardinality(sccG(d)' \ Processed')]
    BY <1>2, <1>7, <1>11
  <1>21. ToSet(stack') = {d \in SCCs' \ Processed' : sccG(d)' \subseteq Processed'}
    BY <1>2, <1>7, <1>17
  <1>22. \A d \in Processed' : sccG(d)' \subseteq Processed'
    BY <1>2, <1>7, <1>18
  <1>23. QED BY <1>2, <1>16, <1>19, <1>20, <1>21, <1>22 DEF ReachInv

\* No component is left when the stack is empty.
LEMMA AllProcessed ==
  ASSUME htn \in Problems, ComponentsKnown, ReachInv, stack = <<>>
  PROVE  reachable = [t \in Tasks |-> ActionsBelow(t)]
  <1>1. {c \in SCCs \ Processed : sccG(c) \subseteq Processed} = {}
    BY DEF ReachInv, ToSet
  <1>2. SCCs \subseteq Processed
    <2> DEFINE Left == SCCs \ Processed
    <2>1. SUFFICES ASSUME Left # {}
                   PROVE  FALSE
      OBVIOUS
    <2>2. Left \in SUBSET Nat
      BY ComponentsFacts
    <2>3. PICK c \in Left : \A d \in Left : c <= d
      <3> HIDE DEF Left
      <3>1. QED BY <2>1, <2>2, LeastNumber
    <2>4. \A d \in sccG(c) : d \in SCCs /\ d < c /\ d \in Nat /\ c \in Nat
      BY ComponentsFacts, SccGraph
    <2>5. \A d \in sccG(c) : d \in Processed
      <3>1. SUFFICES ASSUME NEW d \in sccG(c), d \in Left
                     PROVE  FALSE
        BY <2>4
      <3>2. c <= d
        BY <2>3, <3>1
      <3>3. QED BY <2>4, <3>2
    <2>6. QED BY <1>1, <2>5
  <1>3. {u \in Tasks : taskToSCC[u] \in Processed} = Tasks
    BY <1>2, ComponentsFacts
  <1>4. QED BY <1>3 DEF ReachInv
-----------------------------------------------------------------------------
(* The analysis.                                                           *)

\* The invariant holds when the problem has been read.
LEMMA GraphInitInv ==
  ASSUME GraphInit
  PROVE  GraphInv
  <1>1. reachable = NoFunction
    BY DEF GraphInit
  <1>2. QED BY <1>1, TarjanInit DEF GraphInv

\* Every step of the analysis keeps the invariant.
LEMMA GraphNextKeeps ==
  ASSUME GraphInv, GraphNext
  PROVE  GraphInv'
  <1>1. htn \in Problems /\ (phase = "tarjan" => TarjanInv) /\ (phase # "tarjan" => ComponentsKnown)
        /\ (phase \in {"tarjan", "graph"} => reachable = NoFunction) /\ (phase = "reach" => ReachInv)
    BY DEF GraphInv
  <1>2. ASSUME Descend \/ SeeChild \/ CloseComponent \/ LeaveInside
        PROVE  GraphInv'
    <2>1. phase = "tarjan" /\ phase' = "tarjan" /\ htn' = htn /\ reachable' = reachable
      BY <1>2 DEF Descend, SeeChild, CloseComponent, LeaveInside, inTarjan
    <2>2. TarjanInv'
      BY <1>1, <1>2, <2>1, DescendKeeps, SeeChildKeeps, CloseComponentKeeps, LeaveInsideKeeps
    <2>3. NoFunction' = NoFunction
      BY DEF NoFunction
    <2>4. QED BY <1>1, <2>1, <2>2, <2>3 DEF GraphInv
  <1>3. CASE FindCyclic
    <2>1. phase = "tarjan" /\ phase' = "graph" /\ htn' = htn /\ reachable' = reachable
      BY <1>3 DEF FindCyclic
    <2>2. ComponentsKnown'
      BY <1>1, <1>3, <2>1, FindCyclicKeeps
    <2>3. NoFunction' = NoFunction
      BY DEF NoFunction
    <2>4. QED BY <1>1, <2>1, <2>2, <2>3 DEF GraphInv
  <1>4. ASSUME phase # "tarjan", htn' = htn, taskToSCC' = taskToSCC, sccsCyclic' = sccsCyclic
        PROVE  ComponentsKnown /\ ComponentsKnown' /\ htn' \in Problems
    BY <1>1, <1>4, ComponentsStay
  <1>5. CASE AnalyseCyclicity
    <2>1. /\ phase = "graph" /\ phase' = "sat" /\ htn' = htn
          /\ taskToSCC' = taskToSCC /\ sccsCyclic' = sccsCyclic
      BY <1>5 DEF AnalyseCyclicity
    <2>2. AcyclicExact'
      BY <1>1, <1>4, <1>5, <2>1, AnalyseCyclicityKeeps
    <2>3. QED BY <1>4, <2>1, <2>2 DEF GraphInv
  <1>6. CASE StartReachability
    <2>1. /\ phase = "graph" /\ phase' = "reach" /\ htn' = htn
          /\ taskToSCC' = taskToSCC /\ sccsCyclic' = sccsCyclic
      BY <1>6 DEF StartReachability
    <2>2. ReachInv'
      BY <1>1, <1>4, <1>6, <2>1, StartReachabilityKeeps
    <2>3. QED BY <1>4, <2>1, <2>2 DEF GraphInv
  <1>7. CASE Process
    <2>1. /\ phase = "reach" /\ phase' = "reach" /\ htn' = htn
          /\ taskToSCC' = taskToSCC /\ sccsCyclic' = sccsCyclic
      BY <1>7 DEF Process
    <2>2. ReachInv'
      BY <1>1, <1>4, <1>7, <2>1, ProcessKeeps
    <2>3. QED BY <1>4, <2>1, <2>2 DEF GraphInv
  <1>8. CASE GraphKnown
    <2>1. /\ phase = "reach" /\ phase' = "prepared" /\ htn' = htn /\ stack = <<>> /\ reachable' = reachable
          /\ taskToSCC' = taskToSCC /\ sccsCyclic' = sccsCyclic
      BY <1>8 DEF GraphKnown
    <2>2. reachable = [t \in Tasks |-> ActionsBelow(t)]
      BY <1>1, <1>4, <2>1, AllProcessed
    <2>3. Tasks' = Tasks /\ \A t : ActionsBelow(t)' = ActionsBelow(t)
      BY <2>1, GraphStays DEF ActionsBelow
    <2>4. reachable' = [t \in Tasks' |-> ActionsBelow(t)']
      BY <2>1, <2>2, <2>3
    <2>5. QED BY <1>4, <2>1, <2>4 DEF GraphInv
  <1>9. QED BY <1>2, <1>3, <1>5, <1>6, <1>7, <1>8 DEF GraphNext

\* A step that leaves the analysis alone, but for the phases that come after it.
LEMMA GraphRests ==
  ASSUME GraphInv, htn' = htn, graphVars' = graphVars,
         phase' = phase \/ (/\ phase \notin {"tarjan", "graph", "sat", "reach"}
                            /\ phase' \notin {"tarjan", "graph", "sat", "reach"})
  PROVE  GraphInv'
  <1>1. /\ path' = path /\ S' = S /\ dfsI' = dfsI /\ lowlink' = lowlink /\ taskToSCC' = taskToSCC
        /\ sccsCyclic' = sccsCyclic /\ sccIsAcyclic' = sccIsAcyclic /\ ready' = ready /\ stack' = stack
        /\ reachable' = reachable
    BY DEF graphVars
  <1>2. /\ Tasks' = Tasks /\ Subtasks' = Subtasks
        /\ \A t : Children(t)' = Children(t) /\ (Recurs(t)' <=> Recurs(t))
        /\ \A t, u : LeadsTo(t, u)' <=> LeadsTo(t, u)
    BY GraphStays
  <1>3. /\ ComponentsKnown => ComponentsKnown'
        /\ SCCs' = SCCs
        /\ \A c : sccToTasks(c)' = sccToTasks(c) /\ sccG(c)' = sccG(c)
    BY <1>1, ComponentsStay
  <1>4. Components' = Components /\ containedS' = containedS /\ maxdfs' = maxdfs /\ numSCCs' = numSCCs
    BY <1>1 DEF Components, containedS, maxdfs, numSCCs
  <1>5. TarjanInv => TarjanInv'
    <2>1. \A v : Looked(v)' = Looked(v)
      BY <1>1, <1>2 DEF Looked
    <2>2. \A w, i : Under(w, i)' <=> Under(w, i)
      BY <1>1, <1>4 DEF Under
    <2>3. NumbersOK => NumbersOK'
      BY <1>1, <1>2, <1>4 DEF NumbersOK
    <2>4. PathOK => PathOK'
      BY <1>1, <1>2, <1>4 DEF PathOK
    <2>5. LowlinkOK => LowlinkOK'
      BY <1>1, <1>2, <1>4, <2>1, <2>2 DEF LowlinkOK
    <2>6. ClosedOK => ClosedOK'
      BY <1>1, <1>2, <1>4 DEF ClosedOK
    <2>7. QED BY <2>3, <2>4, <2>5, <2>6 DEF TarjanInv
  <1>6. \A t : ActionsBelow(t)' = ActionsBelow(t)
    BY <1>2 DEF ActionsBelow
  <1>7. ReachInv => ReachInv'
    <2>1. Processed' = Processed
      BY <1>1, <1>3 DEF Processed
    <2>2. QED BY <1>1, <1>2, <1>3, <1>6, <2>1 DEF ReachInv
  <1>8. AcyclicExact /\ phase = "sat" /\ phase' = "sat" => AcyclicExact'
    BY <1>1, <1>2 DEF AcyclicExact
  <1>9. NoFunction' = NoFunction
    BY DEF NoFunction
  <1>10. CASE phase' = phase
    BY <1>1, <1>2, <1>3, <1>5, <1>6, <1>7, <1>8, <1>9, <1>10 DEF GraphInv
  <1>11. CASE /\ phase \notin {"tarjan", "graph", "sat", "reach"}
              /\ phase' \notin {"tarjan", "graph", "sat", "reach"}
    BY <1>1, <1>2, <1>3, <1>6, <1>11 DEF GraphInv
  <1>12. QED BY <1>10, <1>11

\* What the invariant is for.
LEMMA GraphInvExact ==
  ASSUME GraphInv
  PROVE  AnalysisExact
  <1>1. ASSUME phase \in {"graph", "prepared"}
        PROVE  ComponentsCorrect
    <2>1. htn \in Problems /\ ComponentsKnown
      BY <1>1 DEF GraphInv
    <2>2. \A t, u \in Tasks : taskToSCC[t] = taskToSCC[u] <=> LeadsTo(t, u) /\ LeadsTo(u, t)
      BY <2>1, ComponentsFacts
    <2>3. \A t \in Tasks : \A u \in ToSet(Children(t)) : taskToSCC[u] <= taskToSCC[t]
      BY <2>1, SccGraph, SubtasksAreGraph
    <2>4. sccsCyclic = {taskToSCC[t] : t \in {x \in Tasks : Recurs(x)}}
      BY <2>1 DEF ComponentsKnown, CyclicOK
    <2>5. QED BY <2>2, <2>3, <2>4 DEF ComponentsCorrect
  <1>2. ComponentsCorrect
    BY <1>1 DEF ComponentsCorrect
  <1>3. AcyclicExact
    BY DEF GraphInv, AcyclicExact
  <1>4. ReachableExact
    BY DEF GraphInv, ReachableExact, ActionsBelow
  <1>5. QED BY <1>2, <1>3, <1>4 DEF AnalysisExact
=============================================================================
