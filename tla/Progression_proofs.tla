------------------------- MODULE Progression_proofs -------------------------
(***************************************************************************)
(* Proofs about Progression, for every problem and any number of nodes     *)
(* that share their plan steps: pointer counts are exact, so that deleting *)
(* a node frees what only it could reach; lists, task counts, cached       *)
(* reachability, results of calls and costs describe the network they      *)
(* belong to; and every node behaves as a value of its own (TaskNetwork).  *)
(***************************************************************************)
EXTENDS Progression, PointerGraph_proofs, SequenceTheorems

(* What the operators that change a heap do, field by field.               *)

PlanStep == [task : Task, successorList : SUBSET Address, pointersToMe : Nat,
             reachableT : (SUBSET Primitive) \union {NoReachability}]

SolutionStep == [task : Task, method : Method \union {NoMethod}, prev : Nat, pointersToMe : Nat]

\* h is a heap of plan steps; g has the same steps with the same tasks and successors.
IsHeap(h) == \A x \in DOMAIN h : h[x] \in PlanStep

SameSteps(g, h) ==
  /\ DOMAIN g = DOMAIN h
  /\ \A x \in DOMAIN h : g[x].task = h[x].task /\ g[x].successorList = h[x].successorList

\* Counting pointers to some steps changes their counts only.
LEMMA AddPointersFacts ==
  ASSUME NEW h, IsHeap(h), NEW S, NEW k \in Nat
  PROVE  /\ IsHeap(AddPointers(h, S, k))
         /\ SameSteps(AddPointers(h, S, k), h)
         /\ \A x \in DOMAIN h :
              /\ AddPointers(h, S, k)[x].reachableT = h[x].reachableT
              /\ AddPointers(h, S, k)[x].pointersToMe = h[x].pointersToMe + (IF x \in S THEN k ELSE 0)
  <1> DEFINE g == AddPointers(h, S, k)
  <1>1. DOMAIN g = DOMAIN h
    BY DEF AddPointers
  <1>2. ASSUME NEW x \in DOMAIN h
        PROVE  /\ g[x] \in PlanStep
               /\ g[x].task = h[x].task /\ g[x].successorList = h[x].successorList
               /\ g[x].reachableT = h[x].reachableT
               /\ g[x].pointersToMe = h[x].pointersToMe + (IF x \in S THEN k ELSE 0)
    <2>1. h[x] \in PlanStep
      BY DEF IsHeap
    <2>2. g[x] = IF x \in S THEN [h[x] EXCEPT !.pointersToMe = @ + k] ELSE h[x]
      BY DEF AddPointers
    <2>3. QED BY <2>1, <2>2 DEF PlanStep
  <1>3. QED BY <1>1, <1>2 DEF IsHeap, SameSteps

\* Updating cached reachability changes the caches only, to what is reachable.
LEMMA UpdateReachabilityFacts ==
  ASSUME NEW h, IsHeap(h), NEW uc,
         \A x \in DOMAIN h : ReachabilityOf(h)[x] \in SUBSET Primitive
  PROVE  /\ IsHeap(UpdateReachability(h, uc))
         /\ SameSteps(UpdateReachability(h, uc), h)
         /\ \A x \in DOMAIN h :
              /\ UpdateReachability(h, uc)[x].pointersToMe = h[x].pointersToMe
              /\ UpdateReachability(h, uc)[x].reachableT \in {h[x].reachableT, ReachabilityOf(h)[x]}
  <1> DEFINE g == UpdateReachability(h, uc)
             r == ReachabilityOf(h)
             D == uc \union Descendants(h, uc)
  <1>1. DOMAIN g = DOMAIN h
    BY DEF UpdateReachability
  <1>2. ASSUME NEW x \in DOMAIN h
        PROVE  /\ g[x] \in PlanStep
               /\ g[x].task = h[x].task /\ g[x].successorList = h[x].successorList
               /\ g[x].pointersToMe = h[x].pointersToMe
               /\ g[x].reachableT \in {h[x].reachableT, r[x]}
    <2>1. h[x] \in PlanStep /\ r[x] \in SUBSET Primitive
      BY DEF IsHeap
    <2>2. g[x] = IF x \in D THEN [h[x] EXCEPT !.reachableT = r[x]] ELSE h[x]
      BY DEF UpdateReachability
    <2> HIDE DEF g, r, D
    <2>3. QED BY <2>1, <2>2 DEF PlanStep
  <1>3. QED BY <1>1, <1>2 DEF IsHeap, SameSteps

\* The graph of successor pointers is a matter of the successor lists.
LEMMA SamePointers ==
  ASSUME NEW g, NEW h, SameSteps(g, h)
  PROVE  Pointers(g) = Pointers(h) /\ \A S : Descendants(g, S) = Descendants(h, S)
  <1>1. Pointers(g) = Pointers(h)
    BY DEF SameSteps, Pointers
  <1>2. QED BY <1>1 DEF Descendants

\* The actions that s and the steps below it can still lead to.
Below(h, s) == UNION {Reachable(h[x].task) : x \in {s} \union Descendants(h, {s})}

CachesExact(h) ==
  \A s \in DOMAIN h : h[s].reachableT # NoReachability => h[s].reachableT = Below(h, s)

\* The graph of plan steps has the steps as its objects, with their successors.
LEMMA PointersOf ==
  ASSUME NEW h
  PROVE  DOMAIN Pointers(h) = DOMAIN h /\ \A x \in DOMAIN h : Pointers(h)[x] = h[x].successorList
  BY DEF Pointers

\* What a step leads to is what its task leads to and what its successors do.
LEMMA BelowStep ==
  ASSUME NEW h, IsGraph(Pointers(h)), NEW s \in DOMAIN h
  PROVE  Below(h, s) = Reachable(h[s].task) \union UNION {Below(h, x) : x \in h[s].successorList}
  <1> DEFINE D(x) == ReachedFrom(Pointers(h), {x})
             C == h[s].successorList \union UNION {D(x) : x \in h[s].successorList}
  <1>1. h[s].successorList \subseteq DOMAIN h /\ Pointers(h)[s] = h[s].successorList
        /\ DOMAIN Pointers(h) = DOMAIN h
    BY PointersOf DEF IsGraph
  <1>2. D(s) \subseteq C
    <2>1. \A x \in {s} \intersect DOMAIN Pointers(h) : Pointers(h)[x] \subseteq C
      BY <1>1
    <2>2. ASSUME NEW x \in h[s].successorList
          PROVE  Pointers(h)[x] \subseteq D(x) /\ \A y \in D(x) : Pointers(h)[y] \subseteq D(x)
      BY <1>1, ReachedIsLeast
    <2>3. \A x \in C \intersect DOMAIN Pointers(h) : Pointers(h)[x] \subseteq C
      BY <2>2
    <2> HIDE DEF C
    <2>4. QED BY <2>1, <2>3, ReachedIsLeast
  <1>3. C \subseteq D(s)
    <2>1. h[s].successorList \subseteq D(s)
      BY <1>1, ReachedIsLeast
    <2>2. ASSUME NEW x \in h[s].successorList
          PROVE  D(x) \subseteq D(s)
      BY <2>1, ReachedMonotone
    <2>3. QED BY <2>1, <2>2
  <1>4. {s} \union Descendants(h, {s}) = {s} \union C
    BY <1>2, <1>3 DEF Descendants
  <1>5. \A x : {x} \union Descendants(h, {x}) = {x} \union D(x)
    BY DEF Descendants
  <1> DEFINE T(x) == Reachable(h[x].task)
  <1> HIDE DEF T, D
  <1>6. \A x : Below(h, x) = UNION {T(y) : y \in {x} \union D(x)}
    BY <1>5 DEF Below, T
  <1>7. Below(h, s) = UNION {T(y) : y \in {s} \union C}
    BY <1>4 DEF Below, T
  <1>8. QED BY <1>6, <1>7 DEF T

\* calcReachability finds it, whichever steps have it cached already.
LEMMA ReachabilityIsBelow ==
  ASSUME NEW h, IsGraph(Pointers(h)), Acyclic(Pointers(h)), CachesExact(h), NEW s \in DOMAIN h
  PROVE  ReachabilityOf(h)[s] = Below(h, s)
  <1> DEFINE Is(r) == r = [x \in DOMAIN h |->
                             IF h[x].reachableT # NoReachability THEN h[x].reachableT
                             ELSE Reachable(h[x].task) \union UNION {r[y] : y \in h[x].successorList}]
             b == [x \in DOMAIN h |-> Below(h, x)]
             R == CHOOSE r : Is(r)
             W == {x \in DOMAIN h : R[x] # Below(h, x)}
  <1>1. ReachabilityOf(h) = R
    BY DEF ReachabilityOf
  <1>2. \A x \in DOMAIN h : h[x].successorList \subseteq DOMAIN h
    BY PointersOf DEF IsGraph
  <1>3. Is(b)
    <2>1. ASSUME NEW x \in DOMAIN h
          PROVE  b[x] = IF h[x].reachableT # NoReachability THEN h[x].reachableT
                        ELSE Reachable(h[x].task) \union UNION {b[y] : y \in h[x].successorList}
      <3>1. Below(h, x) = Reachable(h[x].task) \union UNION {Below(h, y) : y \in h[x].successorList}
        BY BelowStep
      <3>2. UNION {b[y] : y \in h[x].successorList} = UNION {Below(h, y) : y \in h[x].successorList}
        BY <1>2
      <3>3. h[x].reachableT # NoReachability => h[x].reachableT = Below(h, x)
        BY DEF CachesExact
      <3>4. QED BY <3>1, <3>2, <3>3
    <2>2. QED BY <2>1
  <1>4. Is(R)
    <2> HIDE DEF b, Is
    <2>1. QED BY <1>3
  <1>5. ASSUME W # {}
        PROVE  FALSE
    <2>1. PICK x \in W : Pointers(h)[x] \intersect W = {}
      <3>1. W \in SUBSET DOMAIN Pointers(h)
        BY PointersOf
      <3> HIDE DEF W
      <3>2. QED BY <1>5, <3>1, AcyclicSinks
    <2>2. \A y \in h[x].successorList : R[y] = Below(h, y)
      BY <1>2, <2>1, PointersOf
    <2> HIDE DEF R
    <2>3. R[x] = IF h[x].reachableT # NoReachability THEN h[x].reachableT
                 ELSE Reachable(h[x].task) \union UNION {R[y] : y \in h[x].successorList}
      BY <1>4
    <2>4. UNION {R[y] : y \in h[x].successorList} = UNION {Below(h, y) : y \in h[x].successorList}
      BY <2>2
    <2>5. Below(h, x) = Reachable(h[x].task) \union UNION {Below(h, y) : y \in h[x].successorList}
      BY BelowStep
    <2>6. QED BY <2>3, <2>4, <2>5 DEF CachesExact
  <1>6. QED BY <1>1, <1>5

\* Only primitive tasks are cached.
LEMMA BelowIsPrimitive ==
  ASSUME NEW h, NEW s
  PROVE  Below(h, s) \in SUBSET Primitive
  <1>1. \A t : Reachable(t) \subseteq Primitive
    BY DEF Reachable
  <1>2. QED BY <1>1 DEF Below
-----------------------------------------------------------------------------
(* The network of a node: what its lists lead to.                          *)

\* uc are the members of N that none of N points to, and N is what they lead to.
IsNetwork(G, uc, N) ==
  /\ N \subseteq DOMAIN G
  /\ uc = {x \in N : \A p \in N : x \notin G[p]}
  /\ N = uc \union ReachedFrom(G, uc)

\* A network holds its first steps and all that follows its steps.
LEMMA NetworkIsClosed ==
  ASSUME NEW G, IsGraph(G), NEW uc, NEW N, IsNetwork(G, uc, N)
  PROVE  uc \subseteq N /\ \A x \in N : G[x] \subseteq N
  <1>1. uc \subseteq N
    BY DEF IsNetwork
  <1>2. ASSUME NEW x \in N
        PROVE  G[x] \subseteq N
    <2>1. x \in DOMAIN G /\ (x \in uc \/ x \in ReachedFrom(G, uc))
      BY DEF IsNetwork
    <2>2. G[x] \subseteq ReachedFrom(G, uc)
      BY <2>1, ReachedIsLeast
    <2>3. QED BY <2>2 DEF IsNetwork
  <1>3. QED BY <1>1, <1>2

\* Where a network is the same, so is its lists' meaning.
LEMMA NetworkStays ==
  ASSUME NEW G, IsGraph(G), NEW H, IsGraph(H), NEW uc, NEW N, IsNetwork(G, uc, N),
         \A x \in N : x \in DOMAIN H /\ H[x] = G[x]
  PROVE  /\ IsNetwork(H, uc, N)
         /\ \A x \in N : ReachedFrom(H, {x}) = ReachedFrom(G, {x})
  <1>1. uc \subseteq N /\ \A x \in N : x \in DOMAIN G /\ G[x] \subseteq N
    BY NetworkIsClosed DEF IsNetwork
  <1>2. ReachedFrom(G, uc) = ReachedFrom(H, uc)
    BY <1>1, ReachedSame
  <1>3. ASSUME NEW x \in N
        PROVE  ReachedFrom(H, {x}) = ReachedFrom(G, {x})
    <2>1. {x} \subseteq N
      OBVIOUS
    <2>2. QED BY <1>1, <2>1, ReachedSame
  <1>4. uc = {x \in N : \A p \in N : x \notin H[p]}
    BY DEF IsNetwork
  <1>5. QED BY <1>2, <1>3, <1>4 DEF IsNetwork

\* Progressing s: the candidates that neither the others of the list nor another candidate
\* leads to become first, and the rest is all there.
LEMMA AppliedNetwork ==
  ASSUME NEW G, IsGraph(G), Acyclic(G), NEW uc, NEW N, IsNetwork(G, uc, N), NEW s \in uc,
         NEW K, K = G[s] \union (uc \ {s}),
         NEW T, T = (uc \ {s}) \union (G[s] \ ReachedFrom(G, K))
  PROVE  IsNetwork(G, T, N \ {s})
  <1> DEFINE R == ReachedFrom(G, K)
             M == N \ {s}
  <1>1. uc \subseteq N /\ (\A x \in N : G[x] \subseteq N) /\ N \subseteq DOMAIN G
    BY NetworkIsClosed DEF IsNetwork
  <1>2. \A x \in N : (\A p \in N : x \notin G[p]) <=> x \in uc
    BY DEF IsNetwork
  <1>3. M \subseteq DOMAIN G /\ \A x \in M : G[x] \subseteq M
    BY <1>1, <1>2
  <1>4. K \subseteq M
    BY <1>1, <1>2
  <1>5. /\ \A x \in K : G[x] \subseteq R
        /\ \A x \in R : G[x] \subseteq R
    BY <1>1, <1>4, ReachedIsLeast
  <1>6. R \subseteq M
    <2> HIDE DEF M
    <2>1. \A x \in K \intersect DOMAIN G : G[x] \subseteq M
      BY <1>3, <1>4
    <2>2. \A x \in M \intersect DOMAIN G : G[x] \subseteq M
      BY <1>3
    <2>3. QED BY <2>1, <2>2, ReachedIsLeast
  <1>7. N \subseteq {s} \union K \union R
    <2> DEFINE C == {s} \union K \union R
    <2>1. \A x \in uc \intersect DOMAIN G : G[x] \subseteq C
      BY <1>5
    <2>2. \A x \in C \intersect DOMAIN G : G[x] \subseteq C
      BY <1>5
    <2>3. uc \subseteq C
      OBVIOUS
    <2>4. ReachedFrom(G, uc) \subseteq C
      <3> HIDE DEF C
      <3>1. QED BY <2>1, <2>2, ReachedIsLeast
    <2>5. QED BY <2>3, <2>4 DEF IsNetwork
  <1>8. ASSUME NEW x \in T
        PROVE  x \in M /\ \A p \in M : x \notin G[p]
    <2>1. x \in M
      BY <1>4
    <2>2. CASE x \in uc
      BY <1>2, <2>1, <2>2
    <2>3. CASE x \notin uc
      <3>1. x \notin R
        BY <2>3
      <3>2. \A p \in M : p \in K \union R
        BY <1>7
      <3>3. QED BY <1>5, <2>1, <3>1, <3>2
    <2>4. QED BY <2>2, <2>3
  <1>9. ASSUME NEW x \in M, \A p \in M : x \notin G[p]
        PROVE  x \in T
    <2>1. CASE x \in uc
      BY <2>1
    <2>2. CASE x \notin uc
      <3>1. x \in G[s]
        BY <1>2, <1>9, <2>2
      <3>2. x \notin R
        <4>1. SUFFICES ASSUME x \in R
                       PROVE  FALSE
          OBVIOUS
        <4>2. PICK p \in DOMAIN G : (p \in K \/ p \in R) /\ x \in G[p]
          BY <4>1, ReachedHasPred
        <4>3. QED BY <1>4, <1>6, <1>9, <4>2
      <3>3. QED BY <3>1, <3>2
    <2>3. QED BY <2>1, <2>2
  <1>10. T = {x \in M : \A p \in M : x \notin G[p]}
    BY <1>8, <1>9
  <1>11. M = T \union ReachedFrom(G, T)
    <2>1. M \in SUBSET DOMAIN G /\ T \in SUBSET M /\ \A x \in M \ T : \E p \in M : x \in G[p]
      BY <1>3, <1>10
    <2>2. \A x \in M : G[x] \subseteq M
      BY <1>3
    <2> HIDE DEF M
    <2>3. IsGraph(G) /\ Acyclic(G)
      OBVIOUS
    <2>4. QED BY ONLY <2>1, <2>2, <2>3, ReachedFromSources
  <1>12. QED BY <1>3, <1>10, <1>11 DEF IsNetwork

\* H is G with new objects in place of s in a network: what s points to, some of them do,
\* and Firsts are those that none of them points to.
Replacing(G, H, New, Firsts, s) ==
  /\ IsFiniteSet(New) /\ New \intersect DOMAIN G = {}
  /\ DOMAIN H = DOMAIN G \union New
  /\ \A x \in DOMAIN G : H[x] = G[x]
  /\ \A x \in New : H[x] \subseteq New \union G[s]
  /\ \A S \in SUBSET New : S # {} => \E x \in S : \A y \in S : x \notin H[y]
  /\ \A z \in G[s] : \E x \in New : z \in H[x]
  /\ Firsts = {x \in New : \A y \in New : x \notin H[y]}

\* A step that gives way to the steps of a method leaves no cycle.
LEMMA ReplacingIsGraph ==
  ASSUME NEW G, IsGraph(G), Acyclic(G), NEW s \in DOMAIN G,
         NEW H, NEW New, NEW Firsts, Replacing(G, H, New, Firsts, s)
  PROVE  IsGraph(H) /\ Acyclic(H)
  <1>1. IsFiniteSet(DOMAIN G \union New)
    BY FS_Union DEF IsGraph, Replacing
  <1>2. ASSUME NEW x \in DOMAIN H
        PROVE  H[x] \subseteq DOMAIN H
    BY DEF IsGraph, Replacing
  <1>3. IsGraph(H)
    BY <1>1, <1>2 DEF IsGraph, Replacing
  <1>4. ASSUME NEW S \in SUBSET DOMAIN H, S # {}
        PROVE  \E x \in S : \A y \in S : x \notin H[y]
    <2>1. CASE S \intersect New = {}
      <3>1. S \in SUBSET DOMAIN G
        BY <2>1 DEF Replacing
      <3>2. PICK x \in S : \A y \in S : x \notin G[y]
        BY <1>4, <3>1 DEF Acyclic
      <3>3. QED BY <3>1, <3>2 DEF Replacing
    <2>2. CASE S \intersect New # {}
      <3>1. PICK x \in S \intersect New : \A y \in S \intersect New : x \notin H[y]
        <4> DEFINE A == S \intersect New
        <4>1. A \in SUBSET New /\ A # {}
          BY <2>2
        <4> HIDE DEF A
        <4>2. \E x \in A : \A y \in A : x \notin H[y]
          BY <4>1 DEF Replacing
        <4>3. QED BY <4>2 DEF A
      <3>2. \A y \in S \ New : x \notin H[y]
        <4>1. \A y \in S \ New : y \in DOMAIN G /\ H[y] \subseteq DOMAIN G
          BY DEF Replacing, IsGraph
        <4>2. QED BY <4>1 DEF Replacing
      <3>3. QED BY <3>1, <3>2
    <2>3. QED BY <2>1, <2>2
  <1>5. QED BY <1>3, <1>4 DEF Acyclic

\* The network of a decomposed node is the old one with the steps of the method for one of them.
LEMMA DecomposedNetwork ==
  ASSUME NEW G, IsGraph(G), Acyclic(G), NEW uc, NEW N, IsNetwork(G, uc, N), NEW s \in uc,
         NEW H, NEW New, NEW Firsts, Replacing(G, H, New, Firsts, s),
         NEW T, T = (uc \ {s}) \union Firsts
  PROVE  IsNetwork(H, T, (N \ {s}) \union New)
  <1> DEFINE M == (N \ {s}) \union New
  <1>1. uc \subseteq N /\ (\A x \in N : G[x] \subseteq N) /\ N \subseteq DOMAIN G
    BY NetworkIsClosed DEF IsNetwork
  <1>2. \A x \in N : (\A p \in N : x \notin G[p]) <=> x \in uc
    BY DEF IsNetwork
  <1>3. IsGraph(H) /\ Acyclic(H)
    BY <1>1, ReplacingIsGraph
  <1>4. \A x \in N : H[x] = G[x] /\ x \notin New
    BY <1>1 DEF Replacing
  <1>5. \A x \in New : H[x] \subseteq New \union G[s]
    BY DEF Replacing
  <1>6. M \subseteq DOMAIN H
    BY <1>1 DEF Replacing
  <1>7. \A x \in M : H[x] \subseteq M
    BY <1>1, <1>2, <1>4, <1>5
  <1>8. \A x \in New : \A p \in N : x \notin H[p]
    BY <1>1, <1>4
  <1>9. \A x \in New : (\A p \in M : x \notin H[p]) <=> x \in Firsts
    BY <1>8 DEF Replacing
  <1>10. \A x \in uc \ {s} : \A p \in M : x \notin H[p]
    BY <1>1, <1>2, <1>4, <1>5
  <1>11. ASSUME NEW x \in N \ {s}, \A p \in M : x \notin H[p]
         PROVE  x \in uc
    <2>1. \A p \in N \ {s} : x \notin G[p]
      BY <1>4, <1>11
    <2>2. x \notin G[s]
      BY <1>11 DEF Replacing
    <2>3. QED BY <1>2, <2>1, <2>2
  <1>12. T = {x \in M : \A p \in M : x \notin H[p]}
    <2>1. Firsts \subseteq New
      BY DEF Replacing
    <2>2. \A x \in T : x \in M /\ \A p \in M : x \notin H[p]
      BY <1>1, <1>9, <1>10, <2>1
    <2>3. \A x \in M : (\A p \in M : x \notin H[p]) => x \in T
      BY <1>9, <1>11
    <2>4. QED BY <2>2, <2>3
  <1>13. M = T \union ReachedFrom(H, T)
    <2>1. M \in SUBSET DOMAIN H /\ T \in SUBSET M /\ \A x \in M \ T : \E p \in M : x \in H[p]
      BY <1>6, <1>12
    <2> HIDE DEF M
    <2>2. QED BY <1>3, <1>7, <2>1, ReachedFromSources
  <1>14. QED BY <1>6, <1>12, <1>13 DEF IsNetwork
-----------------------------------------------------------------------------
(* The subtasks of a method, at new addresses.                             *)

PositionGraph(m) == [i \in Positions(m) |-> Successors(m, i)]

\* What a method is made of.
LEMMA MethodFacts ==
  ASSUME NEW m \in Method
  PROVE  /\ Len(subTasks[m]) \in Nat \ {0}
         /\ \A i \in Positions(m) : subTasks[m][i] \in Task
         /\ IsFiniteSet(Positions(m)) /\ Cardinality(Positions(m)) = Len(subTasks[m])
         /\ decomposedTask[m] \in Task \ Primitive
         /\ IsGraph(PositionGraph(m)) /\ Acyclic(PositionGraph(m))
  <1>1. subTasks[m] \in Seq(Task) /\ subTasks[m] # <<>>
    BY ModelAssumption
  <1>2. Len(subTasks[m]) \in Nat \ {0}
    BY <1>1, EmptySeq
  <1>3. \A i \in Positions(m) : subTasks[m][i] \in Task
    BY <1>1, ElementOfSeq DEF Positions
  <1>4. IsFiniteSet(Positions(m)) /\ Cardinality(Positions(m)) = Len(subTasks[m])
    <2>1. 1 \in Int /\ Len(subTasks[m]) \in Int
      BY <1>2
    <2>2. /\ IsFiniteSet(1 .. Len(subTasks[m]))
          /\ Cardinality(1 .. Len(subTasks[m]))
               = IF 1 > Len(subTasks[m]) THEN 0 ELSE Len(subTasks[m]) - 1 + 1
      BY <2>1, FS_Interval
    <2>3. QED BY <1>2, <2>2 DEF Positions
  <1>5. IsGraph(PositionGraph(m))
    BY <1>4 DEF IsGraph, PositionGraph, Successors
  <1>6. Acyclic(PositionGraph(m))
    <2>1. SUFFICES ASSUME NEW S \in SUBSET Positions(m), S # {}
                   PROVE  \E x \in S : \A y \in S : x \notin PositionGraph(m)[y]
      BY DEF Acyclic, PositionGraph
    <2>2. PICK j \in S : Predecessors(m, j) \intersect S = {}
      BY <2>1, ModelAssumption
    <2>3. \A y \in S : j \notin PositionGraph(m)[y]
      BY <2>2 DEF PositionGraph, Successors, Predecessors
    <2>4. QED BY <2>3
  <1>7. QED BY <1>2, <1>3, <1>4, <1>5, <1>6, ModelAssumption

\* Every set of subtasks has one that precedes no other of the set.
LEMMA LastOfPositions ==
  ASSUME NEW m \in Method, NEW S \in SUBSET Positions(m), S # {}
  PROVE  \E i \in S : Successors(m, i) \intersect S = {}
  <1>1. S \in SUBSET DOMAIN PositionGraph(m)
    BY DEF PositionGraph
  <1>2. \E i \in S : PositionGraph(m)[i] \intersect S = {}
    BY <1>1, MethodFacts, AcyclicSinks
  <1>3. QED BY <1>2 DEF PositionGraph

\* Methods are acyclic, so that some subtask is a last one.
LEMMA LastTasksExist ==
  ASSUME NEW m \in Method
  PROVE  LastTasksOf(m) # {}
  <1>1. Positions(m) # {} /\ \A i \in Positions(m) : Successors(m, i) \subseteq Positions(m)
    BY MethodFacts DEF Positions, Successors
  <1>2. QED BY <1>1, LastOfPositions DEF LastTasksOf

\* As many addresses as positions are taken for the steps of a method.
LEMMA ImageOfInjection ==
  ASSUME NEW P, IsFiniteSet(P), NEW f, \A i, j \in P : f[i] = f[j] => i = j,
         NEW I, I = {f[i] : i \in P}
  PROVE  IsFiniteSet(I) /\ Cardinality(I) = Cardinality(P)
  <1> DEFINE b == [i \in P |-> f[i]]
  <1>1. b \in Bijection(P, I)
    BY DEF Bijection, Injection, Surjection, IsInjective
  <1>2. ExistsBijection(P, I)
    BY <1>1 DEF ExistsBijection
  <1>3. QED BY <1>2, FS_Bijection

\* inst allocates the subtasks of m.
IsAllocated(h, m, inst) ==
  /\ inst \in [Positions(m) -> Address \ DOMAIN h]
  /\ \A i, j \in Positions(m) : inst[i] = inst[j] => i = j

\* As many free addresses as subtasks are enough.
LEMMA AllocationExists ==
  ASSUME NEW h, NEW m \in Method, Cardinality(Address \ DOMAIN h) >= Len(subTasks[m])
  PROVE  \E inst : IsAllocated(h, m, inst)
  <1> DEFINE A == Address \ DOMAIN h
  <1>1. IsFiniteSet(A)
    BY FS_Difference, MemoryAssumption
  <1> HIDE DEF A
  <1>2. Cardinality(A) \in Nat /\ ExistsBijection(1 .. Cardinality(A), A)
    BY <1>1, FS_CardinalityType
  <1>3. PICK f : f \in [1 .. Cardinality(A) -> A] /\ \A i, j \in 1 .. Cardinality(A) : f[i] = f[j] => i = j
    BY <1>2 DEF ExistsBijection, Bijection, Injection, IsInjective
  <1> DEFINE inst == [i \in Positions(m) |-> f[i]]
  <1>4. Positions(m) \subseteq 1 .. Cardinality(A)
    BY <1>2, MethodFacts DEF Positions, A
  <1>5. inst \in [Positions(m) -> A] /\ \A i, j \in Positions(m) : inst[i] = inst[j] => i = j
    BY <1>3, <1>4
  <1> HIDE DEF inst
  <1>6. QED BY <1>5 DEF IsAllocated, A

\* What the new step for the subtask at i points to.
NextOf(h, s, m, inst, i) ==
  IF i \in LastTasksOf(m) THEN h[s].successorList ELSE {inst[j] : j \in Successors(m, i)}

\* g is h with the subtasks of m for s.
HasMethod(g, h, s, m, inst, New) ==
  /\ New = {inst[i] : i \in Positions(m)}
  /\ New \subseteq Address \ DOMAIN h
  /\ DOMAIN g = DOMAIN h \union New
  /\ \A x \in DOMAIN h : g[x] = h[x]
  /\ \A i \in Positions(m) :
       /\ g[inst[i]].task = subTasks[m][i]
       /\ g[inst[i]].successorList = NextOf(h, s, m, inst, i)
       /\ g[inst[i]].pointersToMe = Cardinality(Predecessors(m, i))
       /\ g[inst[i]].reachableT = NoReachability

\* What decompose allocates is the subtasks of the method, followed by what followed the step.
LEMMA WithMethodFacts ==
  ASSUME NEW h, IsHeap(h), NEW s \in DOMAIN h, NEW m \in Method, NEW inst, IsAllocated(h, m, inst),
         NEW g, g = WithMethod(h, s, m, inst), NEW New, New = {inst[i] : i \in Positions(m)}
  PROVE  HasMethod(g, h, s, m, inst, New) /\ IsHeap(g)
  <1>1. DOMAIN g = DOMAIN h \union New
    BY DEF WithMethod
  <1>2. New \subseteq Address \ DOMAIN h
    BY DEF IsAllocated
  <1>3. \A x \in DOMAIN h : g[x] = h[x]
    BY DEF WithMethod
  <1> DEFINE Field(i) == [task |-> subTasks[m][i], successorList |-> NextOf(h, s, m, inst, i),
                          pointersToMe |-> Cardinality(Predecessors(m, i)),
                          reachableT |-> NoReachability]
  <1>4. ASSUME NEW i \in Positions(m)
        PROVE  g[inst[i]] = Field(i)
    <2> DEFINE k == CHOOSE j \in Positions(m) : inst[j] = inst[i]
    <2>1. k = i
      BY DEF IsAllocated
    <2>2. inst[i] \in New /\ inst[i] \notin DOMAIN h
      BY <1>2
    <2>3. g[inst[i]] = Field(k)
      BY <2>2 DEF WithMethod, Inherited, NextOf
    <2> HIDE DEF k, Field
    <2>4. QED BY <2>1, <2>3
  <1>5. ASSUME NEW i \in Positions(m)
        PROVE  Field(i) \in PlanStep
    <2>1. subTasks[m][i] \in Task
      BY MethodFacts
    <2>2. Cardinality(Predecessors(m, i)) \in Nat
      <3>1. Predecessors(m, i) \subseteq Positions(m)
        BY DEF Predecessors
      <3>2. IsFiniteSet(Predecessors(m, i))
        BY <3>1, MethodFacts, FS_Subset
      <3>3. QED BY <3>2, FS_CardinalityType
    <2>3. {inst[j] : j \in Successors(m, i)} \subseteq Address
      BY DEF IsAllocated, Successors
    <2>4. h[s].successorList \subseteq Address
      BY DEF IsHeap, PlanStep
    <2>5. NextOf(h, s, m, inst, i) \in SUBSET Address
      BY <2>3, <2>4 DEF NextOf
    <2> DEFINE n == NextOf(h, s, m, inst, i)
               c == Cardinality(Predecessors(m, i))
               t == subTasks[m][i]
    <2> HIDE DEF n, c, t
    <2>6. t \in Task /\ c \in Nat /\ n \in SUBSET Address
      BY <2>1, <2>2, <2>5 DEF t, c, n
    <2>7. [task |-> t, successorList |-> n, pointersToMe |-> c, reachableT |-> NoReachability] \in PlanStep
      BY <2>6 DEF PlanStep
    <2>8. QED BY <2>7 DEF t, c, n
  <1>6. IsHeap(g)
    <2>1. SUFFICES ASSUME NEW x \in DOMAIN g
                   PROVE  g[x] \in PlanStep
      BY DEF IsHeap
    <2> HIDE DEF Field
    <2>2. CASE x \in DOMAIN h
      BY <1>3, <2>2 DEF IsHeap
    <2>3. CASE x \in New
      BY <1>4, <1>5, <2>3
    <2>4. QED BY <1>1, <2>2, <2>3
  <1>7. ASSUME NEW i \in Positions(m)
        PROVE  /\ g[inst[i]].task = subTasks[m][i]
               /\ g[inst[i]].successorList = NextOf(h, s, m, inst, i)
               /\ g[inst[i]].pointersToMe = Cardinality(Predecessors(m, i))
               /\ g[inst[i]].reachableT = NoReachability
    <2>1. g[inst[i]] = Field(i)
      BY <1>4
    <2>2. QED BY <2>1
  <1>8. QED BY <1>1, <1>2, <1>3, <1>6, <1>7 DEF HasMethod

\* They take the place of s, and their pointers are what the code adds to the counts.
LEMMA MethodReplaces ==
  ASSUME NEW h, IsGraph(Pointers(h)), NEW s \in DOMAIN h,
         NEW m \in Method, NEW inst, IsAllocated(h, m, inst),
         NEW g, NEW New, HasMethod(g, h, s, m, inst, New),
         NEW Firsts, Firsts = {inst[i] : i \in FirstTasksOf(m)}
  PROVE  /\ Replacing(Pointers(h), Pointers(g), New, Firsts, s)
         /\ \A x \in DOMAIN h : Cardinality({y \in New : x \in Pointers(g)[y]})
                                  = IF x \in h[s].successorList THEN GainedPointers(m) ELSE 0
         /\ \A i \in Positions(m) : Cardinality({y \in New : inst[i] \in Pointers(g)[y]})
                                      = Cardinality(Predecessors(m, i))
  <1> DEFINE H == Pointers(g)
  <1>1. /\ New = {inst[i] : i \in Positions(m)}
        /\ New \subseteq Address \ DOMAIN h
    BY DEF HasMethod
  <1>2. /\ DOMAIN H = DOMAIN h \union New
        /\ \A x \in DOMAIN H : H[x] = g[x].successorList
        /\ \A x \in DOMAIN h : H[x] = h[x].successorList /\ Pointers(h)[x] = h[x].successorList
        /\ DOMAIN Pointers(h) = DOMAIN h
    BY PointersOf DEF HasMethod
  <1>3. ASSUME NEW i \in Positions(m)
        PROVE  H[inst[i]] = NextOf(h, s, m, inst, i)
    <2>1. inst[i] \in DOMAIN H
      BY <1>1, <1>2
    <2>2. QED BY <1>2, <2>1 DEF HasMethod
  <1> HIDE DEF H
  <1>4. h[s].successorList \subseteq DOMAIN h /\ h[s].successorList \intersect New = {}
    BY <1>1, <1>2 DEF IsGraph
  <1>5. \A i, j \in Positions(m) : inst[i] = inst[j] => i = j
    BY DEF IsAllocated
  \* Which new steps point to a new one, and to an old one.
  <1>6. ASSUME NEW i \in Positions(m), NEW j \in Positions(m)
        PROVE  inst[j] \in H[inst[i]] <=> i \in Predecessors(m, j)
    <2>1. i \in Predecessors(m, j) <=> j \in Successors(m, i)
      BY DEF Predecessors, Successors
    <2>2. CASE i \in LastTasksOf(m)
      BY <1>1, <1>3, <1>4, <2>1, <2>2 DEF LastTasksOf, NextOf
    <2>3. CASE i \notin LastTasksOf(m)
      <3>1. H[inst[i]] = {inst[k] : k \in Successors(m, i)}
        BY <1>3, <2>3 DEF NextOf
      <3>2. Successors(m, i) \subseteq Positions(m)
        BY DEF Successors
      <3>3. QED BY <1>5, <2>1, <3>1, <3>2
    <2>4. QED BY <2>2, <2>3
  <1>7. ASSUME NEW i \in Positions(m), NEW x \in DOMAIN h
        PROVE  x \in H[inst[i]] <=> i \in LastTasksOf(m) /\ x \in h[s].successorList
    <2>1. CASE i \in LastTasksOf(m)
      BY <1>3, <2>1 DEF NextOf
    <2>2. CASE i \notin LastTasksOf(m)
      <3>1. H[inst[i]] = {inst[k] : k \in Successors(m, i)}
        BY <1>3, <2>2 DEF NextOf
      <3>2. Successors(m, i) \subseteq Positions(m)
        BY DEF Successors
      <3>3. \A k \in Positions(m) : x # inst[k]
        BY <1>1
      <3>4. QED BY <2>2, <3>1, <3>2, <3>3
    <2>3. QED BY <2>1, <2>2
  <1>8. IsFiniteSet(New)
    BY <1>1, <1>5, MethodFacts, ImageOfInjection
  <1>9. \A x \in New : H[x] \subseteq New \union Pointers(h)[s]
    <2>1. SUFFICES ASSUME NEW i \in Positions(m)
                   PROVE  H[inst[i]] \subseteq New \union Pointers(h)[s]
      BY <1>1
    <2>2. Successors(m, i) \subseteq Positions(m)
      BY DEF Successors
    <2>3. {inst[j] : j \in Successors(m, i)} \subseteq New
      BY <1>1, <2>2
    <2>4. NextOf(h, s, m, inst, i) \subseteq New \union h[s].successorList
      BY <2>3 DEF NextOf
    <2>5. Pointers(h)[s] = h[s].successorList
      BY <1>2
    <2>6. QED BY <1>3, <2>4, <2>5
  <1>10. ASSUME NEW S \in SUBSET New, S # {}
         PROVE  \E x \in S : \A y \in S : x \notin H[y]
    <2> DEFINE P == {i \in Positions(m) : inst[i] \in S}
    <2>1. P # {} /\ P \in SUBSET Positions(m)
      BY <1>1, <1>10
    <2>2. PICK j \in P : Predecessors(m, j) \intersect P = {}
      <3> HIDE DEF P
      <3>1. QED BY <2>1, ModelAssumption
    <2>3. \A y \in S : inst[j] \notin H[y]
      <3>1. SUFFICES ASSUME NEW i \in Positions(m), inst[i] \in S
                     PROVE  inst[j] \notin H[inst[i]]
        BY <1>1
      <3>2. QED BY <1>6, <2>2, <3>1
    <2>4. QED BY <2>3
  <1>11. \A z \in Pointers(h)[s] : \E x \in New : z \in H[x]
    <2>1. PICK i \in LastTasksOf(m) : TRUE
      BY LastTasksExist
    <2>2. i \in Positions(m)
      BY DEF LastTasksOf
    <2>3. H[inst[i]] = Pointers(h)[s]
      <3>1. NextOf(h, s, m, inst, i) = h[s].successorList
        BY DEF NextOf
      <3>2. Pointers(h)[s] = h[s].successorList
        BY <1>2
      <3>3. QED BY <1>3, <2>2, <3>1, <3>2
    <2>4. inst[i] \in New
      BY <1>1, <2>2
    <2>5. QED BY <2>3, <2>4
  <1>12. Firsts = {x \in New : \A y \in New : x \notin H[y]}
    <2>1. ASSUME NEW j \in Positions(m)
          PROVE  (\A y \in New : inst[j] \notin H[y]) <=> j \in FirstTasksOf(m)
      <3>1. (\A y \in New : inst[j] \notin H[y]) <=> \A i \in Positions(m) : inst[j] \notin H[inst[i]]
        BY <1>1
      <3>2. (\A i \in Positions(m) : inst[j] \notin H[inst[i]]) <=> Predecessors(m, j) = {}
        BY <1>6 DEF Predecessors
      <3>3. QED BY <3>1, <3>2 DEF FirstTasksOf
    <2>2. FirstTasksOf(m) \subseteq Positions(m)
      BY DEF FirstTasksOf
    <2>3. QED BY <1>1, <1>5, <2>1, <2>2
  <1>13. Replacing(Pointers(h), H, New, Firsts, s)
    <2>1. New \intersect DOMAIN h = {}
      BY <1>1
    <2>2. QED BY <1>2, <1>8, <1>9, <1>10, <1>11, <1>12, <2>1 DEF Replacing
  <1>14. ASSUME NEW Q \in SUBSET Positions(m), NEW z, \A i \in Positions(m) : z \in H[inst[i]] <=> i \in Q
         PROVE  Cardinality({y \in New : z \in H[y]}) = Cardinality(Q)
    <2> DEFINE I == {inst[i] : i \in Q}
    <2>1. IsFiniteSet(Q) /\ \A i, j \in Q : inst[i] = inst[j] => i = j
      BY <1>5, MethodFacts, FS_Subset
    <2>2. Cardinality(I) = Cardinality(Q)
      BY <2>1, ImageOfInjection
    <2>3. {y \in New : z \in H[y]} = I
      BY <1>1, <1>14
    <2>4. QED BY <2>2, <2>3
  <1>15. ASSUME NEW x \in DOMAIN h
         PROVE  Cardinality({y \in New : x \in H[y]})
                  = IF x \in h[s].successorList THEN GainedPointers(m) ELSE 0
    <2>1. CASE x \in h[s].successorList
      <3>1. LastTasksOf(m) \in SUBSET Positions(m)
        BY DEF LastTasksOf
      <3>2. \A i \in Positions(m) : x \in H[inst[i]] <=> i \in LastTasksOf(m)
        BY <1>7, <2>1
      <3>3. Cardinality({y \in New : x \in H[y]}) = Cardinality(LastTasksOf(m))
        BY <1>14, <3>1, <3>2
      <3>4. QED BY <2>1, <3>3 DEF GainedPointers
    <2>2. CASE x \notin h[s].successorList
      <3>1. {y \in New : x \in H[y]} = {}
        BY <1>1, <1>7, <2>2
      <3>2. QED BY <2>2, <3>1, FS_EmptySet
    <2>3. QED BY <2>1, <2>2
  <1>16. ASSUME NEW j \in Positions(m)
         PROVE  Cardinality({y \in New : inst[j] \in H[y]}) = Cardinality(Predecessors(m, j))
    <2>1. Predecessors(m, j) \in SUBSET Positions(m)
      BY DEF Predecessors
    <2>2. \A i \in Positions(m) : inst[j] \in H[inst[i]] <=> i \in Predecessors(m, j)
      BY <1>6
    <2>3. QED BY <1>14, <2>1, <2>2
  <1>17. QED BY <1>13, <1>15, <1>16 DEF H
-----------------------------------------------------------------------------
(* Freeing.                                                                *)

\* The address of a new solution step is free, and it is not nullptr.
LEMMA FreshIsFree ==
  ASSUME NEW D, IsFiniteSet(D)
  PROVE  FreshIn(D) \in Nat \ {NoPlan} /\ FreshIn(D) \notin D
  <1> DEFINE I == 1 .. Cardinality(D) + 1
  <1>1. Cardinality(D) \in Nat
    BY FS_CardinalityType
  <1>2. Cardinality(I) = Cardinality(D) + 1
    <2>1. 1 \in Int /\ Cardinality(D) + 1 \in Int
      BY <1>1
    <2>2. Cardinality(I) = IF 1 > Cardinality(D) + 1 THEN 0 ELSE (Cardinality(D) + 1) - 1 + 1
      BY <2>1, FS_Interval
    <2> HIDE DEF I
    <2>3. QED BY <1>1, <2>2
  <1>3. \E a \in I : a \notin D
    <2>1. SUFFICES ASSUME I \in SUBSET D
                   PROVE  FALSE
      OBVIOUS
    <2>2. Cardinality(I) <= Cardinality(D)
      BY <2>1, FS_Subset
    <2> HIDE DEF I
    <2>3. QED BY <1>1, <1>2, <2>2
  <1>4. FreshIn(D) \in I /\ FreshIn(D) \notin D
    BY <1>3 DEF FreshIn
  <1>5. QED BY <1>1, <1>4 DEF NoPlan

\* What stays when a node n goes has exact counts.
FreedBy(f, G, S) == Freed(G, Counts(f), S)

\* g is f without F, and with other counts.
Recounted(g, f, F, after) ==
  /\ F \subseteq DOMAIN f
  /\ DOMAIN g = DOMAIN f \ F
  /\ \A x \in DOMAIN f \ F : /\ after[x] \in Nat \ {0}
                             /\ g[x] = [f[x] EXCEPT !.pointersToMe = after[x]]

\* An object that one root lets go of: what is freed, and the counts of what is left.
LEMMA ReleasedFacts ==
  ASSUME NEW f, NEW G, DOMAIN G = DOMAIN f, NEW roots, Shared(G, Counts(f), roots),
         NEW n \in DOMAIN roots
  PROVE  /\ Recounted(Released(f, G, roots[n]), f, FreedBy(f, G, roots[n]),
                      CountsAfter(G, Counts(f), roots[n]))
         /\ Shared(Dropped(G, FreedBy(f, G, roots[n])), CountsAfter(G, Counts(f), roots[n]),
                   Dropped(roots, {n}))
  <1> DEFINE c == Counts(f)
             F == FreedBy(f, G, roots[n])
             after == CountsAfter(G, c, roots[n])
  <1>1. F = Freed(G, c, roots[n])
    BY DEF FreedBy
  <1>2. \A x \in DOMAIN f : c[x] = f[x].pointersToMe
    BY DEF Counts
  <1>3. after = [x \in DOMAIN G \ F |-> c[x] - PointersLost(G, roots[n], F, x)]
    BY DEF FreedBy, CountsAfter
  <1>4. Released(f, G, roots[n])
          = [x \in DOMAIN f \ F |-> [f[x] EXCEPT !.pointersToMe
                                       = f[x].pointersToMe - PointersLost(G, roots[n], F, x)]]
    BY DEF Released, FreedBy
  <1>5. /\ F \subseteq DOMAIN G
        /\ \A x \in DOMAIN G \ F : after[x] \in Nat \ {0}
        /\ Shared(Dropped(G, F), after, Dropped(roots, {n}))
    BY SharedAfterDrop DEF FreedBy
  <1> HIDE DEF c, F, after
  <1>6. \A x \in DOMAIN f \ F : after[x] = f[x].pointersToMe - PointersLost(G, roots[n], F, x)
    BY <1>2, <1>3
  <1>7. \A x \in DOMAIN f \ F : Released(f, G, roots[n])[x] = [f[x] EXCEPT !.pointersToMe = after[x]]
    BY <1>4, <1>6
  <1>8. DOMAIN Released(f, G, roots[n]) = DOMAIN f \ F
    BY <1>4
  <1>9. Recounted(Released(f, G, roots[n]), f, F, after)
    BY <1>5, <1>7, <1>8 DEF Recounted
  <1>10. QED BY <1>5, <1>9 DEF F, after, c

\* Deleting a node's list of steps leaves the steps of the other nodes, with exact counts.
LEMMA ReleaseFacts ==
  ASSUME NEW h, IsHeap(h), NEW roots, Shared(Pointers(h), Counts(h), roots), NEW n \in DOMAIN roots,
         NEW g, g = Release(h, roots[n])
  PROVE  /\ DOMAIN g \subseteq DOMAIN h
         /\ IsHeap(g)
         /\ \A x \in DOMAIN g : /\ g[x].task = h[x].task
                                /\ g[x].successorList = h[x].successorList
                                /\ g[x].reachableT = h[x].reachableT
         /\ Shared(Pointers(g), Counts(g), Dropped(roots, {n}))
  <1> DEFINE G == Pointers(h)
             F == FreedBy(h, G, roots[n])
             after == CountsAfter(G, Counts(h), roots[n])
  <1>1. DOMAIN G = DOMAIN h /\ \A x \in DOMAIN h : G[x] = h[x].successorList
    BY PointersOf
  <1>2. /\ Recounted(g, h, F, after)
        /\ Shared(Dropped(G, F), after, Dropped(roots, {n}))
    <2>1. g = Released(h, G, roots[n])
      BY DEF Release
    <2>2. Shared(G, Counts(h), roots) /\ DOMAIN G = DOMAIN h
      BY <1>1
    <2>3. n \in DOMAIN roots
      OBVIOUS
    <2> HIDE DEF G
    <2>4. QED BY ONLY <2>1, <2>2, <2>3, ReleasedFacts
  <1>3. after = [x \in DOMAIN h \ F |-> after[x]]
    BY <1>1 DEF CountsAfter, FreedBy
  <1> HIDE DEF G, F, after
  <1>4. DOMAIN g = DOMAIN h \ F
    BY <1>2 DEF Recounted
  <1>5. ASSUME NEW x \in DOMAIN g
        PROVE  /\ g[x] \in PlanStep
               /\ g[x].task = h[x].task /\ g[x].successorList = h[x].successorList
               /\ g[x].reachableT = h[x].reachableT /\ g[x].pointersToMe = after[x]
    <2>1. h[x] \in PlanStep
      BY <1>4 DEF IsHeap
    <2>2. g[x] = [h[x] EXCEPT !.pointersToMe = after[x]] /\ after[x] \in Nat
      BY <1>2, <1>4 DEF Recounted
    <2>3. QED BY <2>1, <2>2 DEF PlanStep
  <1>6. Pointers(g) = Dropped(G, F)
    BY <1>1, <1>4, <1>5 DEF Pointers, Dropped
  <1>7. Counts(g) = after
    BY <1>3, <1>4, <1>5 DEF Counts
  <1>8. QED BY <1>2, <1>4, <1>5, <1>6, <1>7 DEF IsHeap

\* Solution steps, those of actions with actions.
IsPlans(sol) ==
  /\ DOMAIN sol \subseteq Nat \ {NoPlan}
  /\ \A p \in DOMAIN sol : /\ sol[p] \in SolutionStep
                           /\ sol[p].method = NoMethod => sol[p].task \in Primitive

\* The same for the chain of solution steps.
LEMMA ReleasePlanFacts ==
  ASSUME NEW sol, IsPlans(sol), NEW roots, Shared(PlanPointers(sol), Counts(sol), roots),
         NEW n \in DOMAIN roots, NEW g, g = ReleasePlan(sol, roots[n])
  PROVE  /\ DOMAIN g \subseteq DOMAIN sol
         /\ IsPlans(g)
         /\ \A p \in DOMAIN g : /\ g[p].task = sol[p].task
                                /\ g[p].method = sol[p].method
                                /\ g[p].prev = sol[p].prev
         /\ Shared(PlanPointers(g), Counts(g), Dropped(roots, {n}))
  <1> DEFINE G == PlanPointers(sol)
             F == FreedBy(sol, G, roots[n])
             after == CountsAfter(G, Counts(sol), roots[n])
  <1>1. DOMAIN G = DOMAIN sol /\ \A x \in DOMAIN sol : G[x] = {sol[x].prev} \ {NoPlan}
    BY DEF PlanPointers
  <1>2. /\ Recounted(g, sol, F, after)
        /\ Shared(Dropped(G, F), after, Dropped(roots, {n}))
    <2>1. g = Released(sol, G, roots[n])
      BY DEF ReleasePlan
    <2>2. Shared(G, Counts(sol), roots) /\ DOMAIN G = DOMAIN sol
      BY <1>1
    <2>3. n \in DOMAIN roots
      OBVIOUS
    <2> HIDE DEF G
    <2>4. QED BY ONLY <2>1, <2>2, <2>3, ReleasedFacts
  <1>3. after = [x \in DOMAIN sol \ F |-> after[x]]
    BY <1>1 DEF CountsAfter, FreedBy
  <1> HIDE DEF G, F, after
  <1>4. DOMAIN g = DOMAIN sol \ F
    BY <1>2 DEF Recounted
  <1>5. ASSUME NEW x \in DOMAIN g
        PROVE  /\ g[x] \in SolutionStep
               /\ g[x].task = sol[x].task /\ g[x].method = sol[x].method
               /\ g[x].prev = sol[x].prev /\ g[x].pointersToMe = after[x]
    <2>1. sol[x] \in SolutionStep
      BY <1>4 DEF IsPlans
    <2>2. g[x] = [sol[x] EXCEPT !.pointersToMe = after[x]] /\ after[x] \in Nat
      BY <1>2, <1>4 DEF Recounted
    <2>3. QED BY <2>1, <2>2 DEF SolutionStep
  <1>6. PlanPointers(g) = Dropped(G, F)
    BY <1>1, <1>4, <1>5 DEF PlanPointers, Dropped
  <1>7. Counts(g) = after
    BY <1>3, <1>4, <1>5 DEF Counts
  <1>8. IsPlans(g)
    BY <1>4, <1>5 DEF IsPlans
  <1>9. QED BY <1>2, <1>4, <1>5, <1>6, <1>7, <1>8
-----------------------------------------------------------------------------
(* Plan and PlanCost go back along the prev pointers.  What such a function *)
(* computes is fixed by the objects it passes.                             *)

\* f at p is step[p] of f at prev[p], and base where there is no object.
GoesBack(D, prev, base, step, f) ==
  \A p \in Nat : f[p] = IF p \in D THEN step[p][f[prev[p]]] ELSE base

\* There is a function that is computed backwards along a chain.
LEMMA GoingBackExists ==
  ASSUME NEW G, IsGraph(G), Acyclic(G), DOMAIN G \subseteq Nat, NEW prev, NEW V, NEW base \in V,
         NEW step \in [DOMAIN G -> [V -> V]],
         \A p \in DOMAIN G : prev[p] \in Nat /\ (prev[p] \in DOMAIN G => prev[p] \in G[p])
  PROVE  \E f \in [Nat -> V] : GoesBack(DOMAIN G, prev, base, step, f)
  <1> DEFINE D == DOMAIN G
             Solves(U, f) == /\ f \in [Nat -> V]
                             /\ GoesBack(U, prev, base, step, f)
             W == {U \in SUBSET D : (\A p \in U : G[p] \subseteq U) /\ \E f : Solves(U, f)}
  <1>1. {} \in W
    <2>1. [p \in Nat |-> base] \in [Nat -> V]
      OBVIOUS
    <2>2. Solves({}, [p \in Nat |-> base])
      BY <2>1 DEF GoesBack
    <2>3. QED BY <2>2
  <1>2. PICK U \in W : \A B \in W : U \subseteq B => B = U
    <2>1. W \in SUBSET (SUBSET D) /\ W # {} /\ IsFiniteSet(D)
      BY <1>1 DEF IsGraph
    <2> HIDE DEF W, D
    <2>2. QED BY <2>1, LargestSet
  <1>3. PICK f : Solves(U, f)
    OBVIOUS
  <1>4. ASSUME U # D
        PROVE  FALSE
    <2> DEFINE Rest == D \ U
    <2>1. PICK x \in Rest : G[x] \intersect Rest = {}
      <3>1. Rest \in SUBSET DOMAIN G /\ Rest # {}
        BY <1>4
      <3> HIDE DEF Rest
      <3>2. QED BY <3>1, AcyclicSinks
    <2>2. G[x] \subseteq U
      BY <2>1 DEF IsGraph
    <2> DEFINE g == [f EXCEPT ![x] = step[x][f[prev[x]]]]
               B == U \union {x}
    <2>3. x \in Nat /\ prev[x] \in Nat /\ prev[x] # x
      BY <2>2
    <2>4. f \in [Nat -> V]
      BY <1>3
    <2>5. step[x] \in [V -> V] /\ f[prev[x]] \in V
      BY <2>3, <2>4
    <2>6. g \in [Nat -> V]
      BY <2>4, <2>5
    <2>7. \A p \in Nat : p # x => g[p] = f[p]
      BY <2>4
    <2>8. g[x] = step[x][g[prev[x]]]
      BY <2>3, <2>4, <2>7
    <2>9. ASSUME NEW p \in Nat
          PROVE  g[p] = IF p \in B THEN step[p][g[prev[p]]] ELSE base
      <3>1. CASE p = x
        BY <2>8, <3>1
      <3>2. CASE p # x /\ p \in U
        <4>1. prev[p] # x
          BY <3>2
        <4>2. prev[p] \in Nat
          BY <3>2
        <4>3. f[p] = step[p][f[prev[p]]]
          BY <1>3, <3>2 DEF GoesBack
        <4> HIDE DEF g
        <4>4. QED BY <2>7, <3>2, <4>1, <4>2, <4>3
      <3>3. CASE p # x /\ p \notin U
        <4>1. f[p] = base
          BY <1>3, <3>3 DEF GoesBack
        <4> HIDE DEF g
        <4>2. QED BY <2>7, <3>3, <4>1
      <3>4. QED BY <3>1, <3>2, <3>3
    <2> HIDE DEF g
    <2>10. Solves(B, g)
      BY <2>6, <2>9 DEF GoesBack
    <2>11. B \in W
      BY <2>2, <2>10
    <2> HIDE DEF W
    <2>12. B = U
      BY <1>2, <2>11
    <2>13. QED BY <2>1, <2>12
  <1>5. QED BY <1>3, <1>4

\* Both pass the same objects from those of C.
PassSame(C, D, D2, G, prev, prev2, step, step2) ==
  /\ C \subseteq D /\ C \subseteq D2
  /\ \A p \in C : prev[p] = prev2[p] /\ step[p] = step2[p] /\ prev[p] \in Nat
  /\ \A p \in C : (prev[p] \in C /\ prev[p] \in G[p]) \/ (prev[p] \notin D /\ prev[p] \notin D2)

\* Then they agree there.
LEMMA GoingBackSame ==
  ASSUME NEW G, IsGraph(G), Acyclic(G), NEW D, D = DOMAIN G, D \subseteq Nat,
         NEW prev, NEW base, NEW step, NEW f, GoesBack(D, prev, base, step, f),
         NEW D2, NEW prev2, NEW step2, NEW f2, GoesBack(D2, prev2, base, step2, f2),
         NEW C, PassSame(C, D, D2, G, prev, prev2, step, step2)
  PROVE  \A p \in C : f[p] = f2[p]
  <1> USE DEF PassSame
  <1> DEFINE W == {p \in C : f[p] # f2[p]}
  <1>1. SUFFICES ASSUME W # {}
                 PROVE  FALSE
    OBVIOUS
  <1>2. PICK x \in W : G[x] \intersect W = {}
    <2>1. W \in SUBSET DOMAIN G
      OBVIOUS
    <2> HIDE DEF W
    <2>2. QED BY <1>1, <2>1, AcyclicSinks
  <1>3. f[prev[x]] = f2[prev[x]]
    <2>1. prev[x] \in Nat
      OBVIOUS
    <2>2. CASE prev[x] \in C /\ prev[x] \in G[x]
      BY <1>2, <2>2
    <2>3. CASE prev[x] \notin D /\ prev[x] \notin D2
      <3>1. f[prev[x]] = base /\ f2[prev[x]] = base
        BY <2>1, <2>3 DEF GoesBack
      <3>2. QED BY <3>1
    <2>4. QED BY <2>2, <2>3
  <1>4. f[x] = step[x][f[prev[x]]] /\ f2[x] = step2[x][f2[prev2[x]]]
    BY DEF GoesBack
  <1>5. QED BY <1>3, <1>4
-----------------------------------------------------------------------------
(* Plans.                                                                  *)

Plans == Seq(Task \X (Method \union {NoMethod}))

PlanOf(sol) ==
  LET plan[p \in Nat] == IF p \notin DOMAIN sol THEN <<>>
                         ELSE Append(plan[sol[p].prev], <<sol[p].task, sol[p].method>>)
  IN  plan

CostOfStep(e) == IF e.method = NoMethod THEN actionCosts[e.task] ELSE 0

CostOf(sol) ==
  LET cost[p \in Nat] == IF p \notin DOMAIN sol THEN 0 ELSE cost[sol[p].prev] + CostOfStep(sol[p])
  IN  cost

\* The plans and costs of the module are those of the current solution steps.
LEMMA PlanIsPlanOf ==
  Plan = PlanOf(solutions) /\ PlanCost = CostOf(solutions)
  BY DEF Plan, PlanOf, PlanCost, CostOf, CostOfStep

\* Solution steps that can be walked.
AreChains(sol) == IsPlans(sol) /\ IsGraph(PlanPointers(sol)) /\ Acyclic(PlanPointers(sol))

PrevOf(sol) == [p \in DOMAIN sol |-> sol[p].prev]
Appending(sol) == [p \in DOMAIN sol |-> [v \in Plans |-> Append(v, <<sol[p].task, sol[p].method>>)]]
Adding(sol) == [p \in DOMAIN sol |-> [v \in Nat |-> v + CostOfStep(sol[p])]]

\* A solution step has at most the one before it as its pointer.
LEMMA PrevFacts ==
  ASSUME NEW sol, AreChains(sol)
  PROVE  /\ DOMAIN PlanPointers(sol) = DOMAIN sol
         /\ DOMAIN sol \subseteq Nat /\ NoPlan \in Nat \ DOMAIN sol
         /\ \A p \in DOMAIN sol :
              /\ PrevOf(sol)[p] = sol[p].prev
              /\ sol[p].prev \in Nat
              /\ sol[p].prev = NoPlan \/ sol[p].prev \in DOMAIN sol
              /\ sol[p].prev \in DOMAIN sol => sol[p].prev \in PlanPointers(sol)[p]
              /\ <<sol[p].task, sol[p].method>> \in Task \X (Method \union {NoMethod})
              /\ CostOfStep(sol[p]) \in Nat
  <1>1. DOMAIN PlanPointers(sol) = DOMAIN sol
        /\ \A p \in DOMAIN sol : PlanPointers(sol)[p] = {sol[p].prev} \ {NoPlan}
    BY DEF PlanPointers
  <1>2. DOMAIN sol \subseteq Nat /\ NoPlan \in Nat \ DOMAIN sol
    BY DEF AreChains, IsPlans, NoPlan
  <1>3. ASSUME NEW p \in DOMAIN sol
        PROVE  /\ PrevOf(sol)[p] = sol[p].prev
               /\ sol[p].prev \in Nat
               /\ sol[p].prev = NoPlan \/ sol[p].prev \in DOMAIN sol
               /\ sol[p].prev \in DOMAIN sol => sol[p].prev \in PlanPointers(sol)[p]
               /\ <<sol[p].task, sol[p].method>> \in Task \X (Method \union {NoMethod})
               /\ CostOfStep(sol[p]) \in Nat
    <2>1. sol[p] \in SolutionStep /\ (sol[p].method = NoMethod => sol[p].task \in Primitive)
      BY DEF AreChains, IsPlans
    <2>2. sol[p].task \in Task /\ sol[p].method \in Method \union {NoMethod} /\ sol[p].prev \in Nat
      BY <2>1 DEF SolutionStep
    <2>3. {sol[p].prev} \ {NoPlan} \subseteq DOMAIN sol
      BY <1>1 DEF AreChains, IsGraph
    <2>4. CostOfStep(sol[p]) \in Nat
      BY <2>1, ModelAssumption DEF CostOfStep
    <2>5. QED BY <1>1, <1>2, <2>2, <2>3, <2>4 DEF PrevOf
  <1>4. QED BY <1>1, <1>2, <1>3

\* A plan is read backwards from the last solution step.
LEMMA PlanGoesBack ==
  ASSUME NEW sol, AreChains(sol)
  PROVE  /\ PlanOf(sol) \in [Nat -> Plans]
         /\ GoesBack(DOMAIN sol, PrevOf(sol), <<>>, Appending(sol), PlanOf(sol))
  <1> DEFINE G == PlanPointers(sol)
             Next1(f) == [p \in Nat |-> IF p \notin DOMAIN sol THEN <<>>
                                        ELSE Append(f[sol[p].prev], <<sol[p].task, sol[p].method>>)]
             R == CHOOSE f : f = Next1(f)
  <1>1. IsGraph(G) /\ Acyclic(G) /\ DOMAIN G = DOMAIN sol
    BY PrevFacts DEF AreChains
  <1>2. PICK f \in [Nat -> Plans] : GoesBack(DOMAIN sol, PrevOf(sol), <<>>, Appending(sol), f)
    <2>1. <<>> \in Plans
      BY EmptySeq DEF Plans
    <2>2. Appending(sol) \in [DOMAIN sol -> [Plans -> Plans]]
      <3>1. SUFFICES ASSUME NEW p \in DOMAIN sol, NEW v \in Plans
                     PROVE  Append(v, <<sol[p].task, sol[p].method>>) \in Plans
        BY DEF Appending
      <3>2. <<sol[p].task, sol[p].method>> \in Task \X (Method \union {NoMethod})
        BY PrevFacts
      <3> DEFINE e == <<sol[p].task, sol[p].method>>
                 S == Task \X (Method \union {NoMethod})
      <3> HIDE DEF e, S
      <3>3. v \in Seq(S) /\ e \in S
        BY <3>2 DEF Plans, e, S
      <3>4. Append(v, e) \in Seq(S)
        BY <3>3, AppendProperties
      <3>5. QED BY <3>4 DEF Plans, e, S
    <2>3. \A p \in DOMAIN G : PrevOf(sol)[p] \in Nat /\ (PrevOf(sol)[p] \in DOMAIN G => PrevOf(sol)[p] \in G[p])
      BY <1>1, PrevFacts
    <2>4. DOMAIN G \subseteq Nat
      BY <1>1, PrevFacts
    <2> HIDE DEF G
    <2>5. \E f \in [Nat -> Plans] : GoesBack(DOMAIN G, PrevOf(sol), <<>>, Appending(sol), f)
      BY <1>1, <2>1, <2>2, <2>3, <2>4, GoingBackExists
    <2>6. QED BY <1>1, <2>5
  <1>3. f = Next1(f)
    <2>1. ASSUME NEW p \in DOMAIN sol
          PROVE  f[p] = Append(f[sol[p].prev], <<sol[p].task, sol[p].method>>)
      <3>1. p \in Nat /\ sol[p].prev \in Nat /\ PrevOf(sol)[p] = sol[p].prev
        BY PrevFacts
      <3>2. f[sol[p].prev] \in Plans
        BY <3>1
      <3>3. f[p] = Appending(sol)[p][f[sol[p].prev]]
        BY <1>2, <3>1 DEF GoesBack
      <3>4. QED BY <3>2, <3>3 DEF Appending
    <2>2. \A p \in Nat : p \notin DOMAIN sol => f[p] = <<>>
      BY <1>2 DEF GoesBack
    <2>3. QED BY <2>1, <2>2
  <1>4. R = Next1(R)
    <2> HIDE DEF Next1
    <2>1. QED BY <1>3
  <1>5. PlanOf(sol) = R
    BY DEF PlanOf
  <1> HIDE DEF R
  <1>6. R = f
    <2> DEFINE W == {p \in DOMAIN sol : R[p] # f[p]}
    <2>1. ASSUME W # {}
          PROVE  FALSE
      <3>1. PICK x \in W : G[x] \intersect W = {}
        <4>1. W \in SUBSET DOMAIN G
          BY <1>1
        <4> HIDE DEF W, G
        <4>2. QED BY <1>1, <2>1, <4>1, AcyclicSinks
      <3>2. R[sol[x].prev] = f[sol[x].prev]
        <4>1. CASE sol[x].prev \in DOMAIN sol
          <5>1. sol[x].prev \notin W
            BY <3>1, <4>1, PrevFacts
          <5>2. QED BY <4>1, <5>1
        <4>2. CASE sol[x].prev \notin DOMAIN sol
          <5>1. sol[x].prev \in Nat
            BY PrevFacts
          <5>2. QED BY <1>3, <1>4, <4>2, <5>1
        <4>3. QED BY <4>1, <4>2
      <3>3. x \in Nat /\ x \in DOMAIN sol
        BY PrevFacts
      <3>4. QED BY <1>3, <1>4, <3>2, <3>3
    <2>2. \A p \in Nat : R[p] = f[p]
      BY <1>3, <1>4, <2>1
    <2>3. R = [p \in Nat |-> R[p]] /\ f = [p \in Nat |-> f[p]]
      BY <1>4
    <2>4. QED BY <2>2, <2>3
  <1>7. QED BY <1>2, <1>5, <1>6

\* So are its costs.
LEMMA CostGoesBack ==
  ASSUME NEW sol, AreChains(sol)
  PROVE  /\ CostOf(sol) \in [Nat -> Nat]
         /\ GoesBack(DOMAIN sol, PrevOf(sol), 0, Adding(sol), CostOf(sol))
  <1> DEFINE G == PlanPointers(sol)
             Next1(f) == [p \in Nat |-> IF p \notin DOMAIN sol THEN 0
                                        ELSE f[sol[p].prev] + CostOfStep(sol[p])]
             R == CHOOSE f : f = Next1(f)
  <1>1. IsGraph(G) /\ Acyclic(G) /\ DOMAIN G = DOMAIN sol
    BY PrevFacts DEF AreChains
  <1>2. PICK f \in [Nat -> Nat] : GoesBack(DOMAIN sol, PrevOf(sol), 0, Adding(sol), f)
    <2>1. Adding(sol) \in [DOMAIN sol -> [Nat -> Nat]]
      <3>1. \A p \in DOMAIN sol : CostOfStep(sol[p]) \in Nat
        BY PrevFacts
      <3>2. QED BY <3>1 DEF Adding
    <2>2. \A p \in DOMAIN G : PrevOf(sol)[p] \in Nat /\ (PrevOf(sol)[p] \in DOMAIN G => PrevOf(sol)[p] \in G[p])
      BY <1>1, PrevFacts
    <2>3. DOMAIN G \subseteq Nat
      BY <1>1, PrevFacts
    <2> HIDE DEF G
    <2>4. \E f \in [Nat -> Nat] : GoesBack(DOMAIN G, PrevOf(sol), 0, Adding(sol), f)
      BY <1>1, <2>1, <2>2, <2>3, GoingBackExists
    <2>5. QED BY <1>1, <2>4
  <1>3. f = Next1(f)
    <2>1. ASSUME NEW p \in DOMAIN sol
          PROVE  f[p] = f[sol[p].prev] + CostOfStep(sol[p])
      <3>1. p \in Nat /\ sol[p].prev \in Nat /\ PrevOf(sol)[p] = sol[p].prev
        BY PrevFacts
      <3>2. f[sol[p].prev] \in Nat
        BY <3>1
      <3>3. f[p] = Adding(sol)[p][f[sol[p].prev]]
        BY <1>2, <3>1 DEF GoesBack
      <3>4. QED BY <3>2, <3>3 DEF Adding
    <2>2. \A p \in Nat : p \notin DOMAIN sol => f[p] = 0
      BY <1>2 DEF GoesBack
    <2>3. QED BY <2>1, <2>2
  <1>4. R = Next1(R)
    <2> HIDE DEF Next1
    <2>1. QED BY <1>3
  <1>5. CostOf(sol) = R
    BY DEF CostOf
  <1> HIDE DEF R
  <1>6. R = f
    <2> DEFINE W == {p \in DOMAIN sol : R[p] # f[p]}
    <2>1. ASSUME W # {}
          PROVE  FALSE
      <3>1. PICK x \in W : G[x] \intersect W = {}
        <4>1. W \in SUBSET DOMAIN G
          BY <1>1
        <4> HIDE DEF W, G
        <4>2. QED BY <1>1, <2>1, <4>1, AcyclicSinks
      <3>2. R[sol[x].prev] = f[sol[x].prev]
        <4>1. CASE sol[x].prev \in DOMAIN sol
          <5>1. sol[x].prev \notin W
            BY <3>1, <4>1, PrevFacts
          <5>2. QED BY <4>1, <5>1
        <4>2. CASE sol[x].prev \notin DOMAIN sol
          <5>1. sol[x].prev \in Nat
            BY PrevFacts
          <5>2. QED BY <1>3, <1>4, <4>2, <5>1
        <4>3. QED BY <4>1, <4>2
      <3>3. x \in Nat /\ x \in DOMAIN sol
        BY PrevFacts
      <3>4. QED BY <1>3, <1>4, <3>2, <3>3
    <2>2. \A p \in Nat : R[p] = f[p]
      BY <1>3, <1>4, <2>1
    <2>3. R = [p \in Nat |-> R[p]] /\ f = [p \in Nat |-> f[p]]
      BY <1>4
    <2>4. QED BY <2>2, <2>3
  <1>7. QED BY <1>2, <1>5, <1>6

\* A step extends the plan and the costs of the one before.
LEMMA PlanUnfolds ==
  ASSUME NEW sol, AreChains(sol)
  PROVE  /\ \A p \in Nat : PlanOf(sol)[p] \in Plans /\ CostOf(sol)[p] \in Nat
         /\ PlanOf(sol)[NoPlan] = <<>> /\ CostOf(sol)[NoPlan] = 0
         /\ \A p \in DOMAIN sol :
              /\ PlanOf(sol)[p] = Append(PlanOf(sol)[sol[p].prev], <<sol[p].task, sol[p].method>>)
              /\ CostOf(sol)[p] = CostOf(sol)[sol[p].prev] + CostOfStep(sol[p])
  <1>1. \A p \in Nat : PlanOf(sol)[p] \in Plans /\ CostOf(sol)[p] \in Nat
    BY PlanGoesBack, CostGoesBack
  <1>2. PlanOf(sol)[NoPlan] = <<>> /\ CostOf(sol)[NoPlan] = 0
    BY PlanGoesBack, CostGoesBack, PrevFacts DEF GoesBack
  <1>3. ASSUME NEW p \in DOMAIN sol
        PROVE  /\ PlanOf(sol)[p] = Append(PlanOf(sol)[sol[p].prev], <<sol[p].task, sol[p].method>>)
               /\ CostOf(sol)[p] = CostOf(sol)[sol[p].prev] + CostOfStep(sol[p])
    <2>1. p \in Nat /\ sol[p].prev \in Nat /\ PrevOf(sol)[p] = sol[p].prev
      BY PrevFacts
    <2>2. PlanOf(sol)[p] = Appending(sol)[p][PlanOf(sol)[sol[p].prev]]
      BY <2>1, PlanGoesBack DEF GoesBack
    <2>3. CostOf(sol)[p] = Adding(sol)[p][CostOf(sol)[sol[p].prev]]
      BY <2>1, CostGoesBack DEF GoesBack
    <2>4. QED BY <1>1, <2>1, <2>2, <2>3 DEF Appending, Adding
  <1>4. QED BY <1>1, <1>2, <1>3

\* Plans stay when solution steps are added or freed elsewhere.
LEMMA PlanStays ==
  ASSUME NEW sol, AreChains(sol), NEW now, AreChains(now),
         NEW C, C \subseteq DOMAIN sol /\ C \subseteq DOMAIN now,
         \A p \in C : /\ now[p].task = sol[p].task /\ now[p].method = sol[p].method
                      /\ now[p].prev = sol[p].prev
                      /\ sol[p].prev = NoPlan \/ sol[p].prev \in C
  PROVE  \A p \in C \union {NoPlan} : PlanOf(now)[p] = PlanOf(sol)[p] /\ CostOf(now)[p] = CostOf(sol)[p]
  <1> DEFINE G == PlanPointers(sol)
  <1>1. IsGraph(G) /\ Acyclic(G) /\ DOMAIN G = DOMAIN sol /\ DOMAIN sol \subseteq Nat
    BY PrevFacts DEF AreChains
  <1>2. ASSUME NEW p \in C
        PROVE  /\ PrevOf(sol)[p] = PrevOf(now)[p] /\ PrevOf(sol)[p] \in Nat
               /\ (PrevOf(sol)[p] \in C /\ PrevOf(sol)[p] \in G[p])
                  \/ (PrevOf(sol)[p] \notin DOMAIN sol /\ PrevOf(sol)[p] \notin DOMAIN now)
    <2>1. /\ PrevOf(sol)[p] = sol[p].prev /\ PrevOf(now)[p] = now[p].prev
          /\ sol[p].prev \in Nat
          /\ sol[p].prev \in DOMAIN sol => sol[p].prev \in G[p]
          /\ NoPlan \notin DOMAIN sol /\ NoPlan \notin DOMAIN now
      BY PrevFacts
    <2> HIDE DEF G
    <2>2. QED BY <2>1
  <1> HIDE DEF G
  <1>3. PassSame(C, DOMAIN sol, DOMAIN now, G, PrevOf(sol), PrevOf(now), Appending(sol), Appending(now))
    <2>1. \A p \in C : Appending(sol)[p] = Appending(now)[p]
      BY DEF Appending
    <2>2. QED BY <1>2, <2>1 DEF PassSame
  <1>4. PassSame(C, DOMAIN sol, DOMAIN now, G, PrevOf(sol), PrevOf(now), Adding(sol), Adding(now))
    <2>1. \A p \in C : Adding(sol)[p] = Adding(now)[p]
      BY DEF Adding, CostOfStep
    <2>2. QED BY <1>2, <2>1 DEF PassSame
  <1>5. \A p \in C : PlanOf(sol)[p] = PlanOf(now)[p]
    BY <1>1, <1>3, PlanGoesBack, GoingBackSame
  <1>6. \A p \in C : CostOf(sol)[p] = CostOf(now)[p]
    BY <1>1, <1>4, CostGoesBack, GoingBackSame
  <1>7. QED BY <1>5, <1>6, PlanUnfolds
-----------------------------------------------------------------------------
(* What a node says of itself, for a heap h, solution steps sol and the    *)
(* record e of the node.                                                   *)

SearchNode == [unconstraint : SUBSET Address, state : SUBSET Fact, solution : Nat,
               contained : [Task -> Nat], modificationDepth : Nat,
               mixedModificationDepth : Nat, actionCosts : Nat, goalReachable : BOOLEAN]

NetworkIn(h, uc) == uc \union Descendants(h, uc)

CountIn(h, N, t) == Cardinality({x \in N : h[x].task = t})

NodeFits(h, sol, e) ==
  /\ IsNetwork(Pointers(h), e.unconstraint, NetworkIn(h, e.unconstraint))
  /\ \A t \in Task : e.contained[t] = CountIn(h, NetworkIn(h, e.unconstraint), t)
  /\ e.modificationDepth = Len(PlanOf(sol)[e.solution])
  /\ e.actionCosts = CostOf(sol)[e.solution]

\* The node as a value.
BeforeIn(h, N) == UNION {{p} \X Descendants(h, {p}) : p \in N}

ValueIn(h, sol, e) ==
  [task |-> [x \in NetworkIn(h, e.unconstraint) |-> h[x].task],
   before |-> BeforeIn(h, NetworkIn(h, e.unconstraint)),
   state |-> e.state,
   plan |-> PlanOf(sol)[e.solution]]

\* The progressions that a call has to make before it returns the node.
ApplicableTo(h, e) == {x \in Primitives(h, e.unconstraint) : isApplicable(e.state, h[x].task)}

EffectLessFor(h, e) == {x \in ApplicableTo(h, e) : EffectLess(h[x].task)}

AllPrimitive(h, e) == e.unconstraint # {} /\ Primitives(h, e.unconstraint) = e.unconstraint

Settled(h, e) ==
  /\ EffectLessFor(h, e) = {}
  /\ AllPrimitive(h, e) => Cardinality(ApplicableTo(h, e)) # 1
  /\ e.goalReachable <=> ~ (AllPrimitive(h, e) /\ ApplicableTo(h, e) = {})

\* The steps that both heaps have do not differ in task and successors, nor the solution
\* steps in what they record.
Agree(g, h) ==
  \A x \in DOMAIN g \intersect DOMAIN h :
    g[x].task = h[x].task /\ g[x].successorList = h[x].successorList

PlansAgree(now, sol) ==
  \A p \in DOMAIN now \intersect DOMAIN sol :
    now[p].task = sol[p].task /\ now[p].method = sol[p].method /\ now[p].prev = sol[p].prev

\* What the common steps lead to is common, and the same.
LEMMA AgreeingHeaps ==
  ASSUME NEW g, NEW h, IsGraph(Pointers(g)), IsGraph(Pointers(h)), Agree(g, h),
         NEW S, S \subseteq DOMAIN g \intersect DOMAIN h
  PROVE  /\ Descendants(g, S) = Descendants(h, S)
         /\ Descendants(g, S) \subseteq DOMAIN g \intersect DOMAIN h
         /\ NetworkIn(g, S) = NetworkIn(h, S)
         /\ NetworkIn(g, S) \subseteq DOMAIN g \intersect DOMAIN h
  <1> DEFINE C == DOMAIN g \intersect DOMAIN h
             G == Pointers(g)
             H == Pointers(h)
  <1>1. /\ DOMAIN G = DOMAIN g /\ (\A x \in DOMAIN g : G[x] = g[x].successorList)
        /\ DOMAIN H = DOMAIN h /\ (\A x \in DOMAIN h : H[x] = h[x].successorList)
    BY PointersOf
  <1>2. IsGraph(G) /\ IsGraph(H) /\ S \subseteq C
    OBVIOUS
  <1> HIDE DEF G, H
  <1>3. \A x \in C : x \in DOMAIN G /\ x \in DOMAIN H /\ G[x] = H[x] /\ G[x] \subseteq C
    BY <1>1, <1>2 DEF Agree, IsGraph
  <1> HIDE DEF C
  <1>4. ReachedFrom(G, S) = ReachedFrom(H, S) /\ ReachedFrom(G, S) \subseteq C
    BY <1>2, <1>3, ReachedSame
  <1>5. QED BY <1>2, <1>4 DEF Descendants, NetworkIn, G, H, C

\* A node whose steps and plan are the same in two memories is the same there.
LEMMA NodeStays ==
  ASSUME NEW g, NEW h, IsGraph(Pointers(g)), IsGraph(Pointers(h)), Agree(g, h),
         NEW now, NEW sol, AreChains(now), AreChains(sol), PlansAgree(now, sol),
         NEW e, e.unconstraint \subseteq DOMAIN g \intersect DOMAIN h,
         e.solution = NoPlan \/ e.solution \in DOMAIN now \intersect DOMAIN sol
  PROVE  /\ NodeFits(h, sol, e) => NodeFits(g, now, e)
         /\ ValueIn(g, now, e) = ValueIn(h, sol, e)
         /\ ApplicableTo(g, e) = ApplicableTo(h, e)
         /\ EffectLessFor(g, e) = EffectLessFor(h, e)
         /\ Primitives(g, e.unconstraint) = Primitives(h, e.unconstraint)
         /\ Settled(h, e) <=> Settled(g, e)
  <1> DEFINE uc == e.unconstraint
             C == DOMAIN g \intersect DOMAIN h
             N == NetworkIn(h, uc)
  <1>1. /\ NetworkIn(g, uc) = N /\ N \subseteq C
        /\ \A p \in N : Descendants(g, {p}) = Descendants(h, {p})
    <2>1. NetworkIn(g, uc) = N /\ N \subseteq C
      BY AgreeingHeaps
    <2>2. ASSUME NEW p \in N
          PROVE  Descendants(g, {p}) = Descendants(h, {p})
      <3>1. {p} \subseteq C
        BY <2>1
      <3>2. QED BY <3>1, AgreeingHeaps
    <2>3. QED BY <2>1, <2>2
  <1>2. \A x \in C : g[x].task = h[x].task
    BY DEF Agree
  <1>3. PlanOf(now)[e.solution] = PlanOf(sol)[e.solution] /\ CostOf(now)[e.solution] = CostOf(sol)[e.solution]
    <2> DEFINE D == DOMAIN now \intersect DOMAIN sol
    <2>1. ASSUME NEW p \in D
          PROVE  sol[p].prev = NoPlan \/ sol[p].prev \in D
      <3>1. now[p].prev = sol[p].prev
        BY DEF PlansAgree
      <3>2. QED BY <3>1, PrevFacts
    <2>2. \A p \in D : /\ now[p].task = sol[p].task /\ now[p].method = sol[p].method
                       /\ now[p].prev = sol[p].prev
                       /\ sol[p].prev = NoPlan \/ sol[p].prev \in D
      BY <2>1 DEF PlansAgree
    <2>3. D \subseteq DOMAIN sol /\ D \subseteq DOMAIN now /\ e.solution \in D \union {NoPlan}
      OBVIOUS
    <2> HIDE DEF D
    <2>4. \A p \in D \union {NoPlan} : PlanOf(now)[p] = PlanOf(sol)[p] /\ CostOf(now)[p] = CostOf(sol)[p]
      BY <2>2, <2>3, PlanStays
    <2>5. QED BY <2>3, <2>4
  <1>4. ASSUME NodeFits(h, sol, e)
        PROVE  NodeFits(g, now, e)
    <2>1. IsNetwork(Pointers(g), uc, N)
      <3>1. \A x \in N : x \in DOMAIN Pointers(g) /\ Pointers(g)[x] = Pointers(h)[x]
        BY <1>1, PointersOf DEF Agree
      <3>2. IsNetwork(Pointers(h), uc, N)
        BY <1>4 DEF NodeFits
      <3>3. QED BY <3>1, <3>2, NetworkStays
    <2>2. \A t : CountIn(g, N, t) = CountIn(h, N, t)
      <3>1. \A t : {x \in N : g[x].task = t} = {x \in N : h[x].task = t}
        BY <1>1, <1>2
      <3>2. QED BY <3>1 DEF CountIn
    <2>3. QED BY <1>1, <1>3, <1>4, <2>1, <2>2 DEF NodeFits
  <1>5. ValueIn(g, now, e) = ValueIn(h, sol, e)
    <2>1. BeforeIn(g, N) = BeforeIn(h, N)
      BY <1>1 DEF BeforeIn
    <2>2. [x \in N |-> g[x].task] = [x \in N |-> h[x].task]
      BY <1>1, <1>2
    <2>3. QED BY <1>1, <1>3, <2>1, <2>2 DEF ValueIn
  <1>6. Primitives(g, uc) = Primitives(h, uc) /\ Primitives(h, uc) \subseteq C
    BY <1>2 DEF Primitives
  <1>7. ApplicableTo(g, e) = ApplicableTo(h, e) /\ ApplicableTo(h, e) \subseteq C
    BY <1>2, <1>6 DEF ApplicableTo
  <1>8. EffectLessFor(g, e) = EffectLessFor(h, e)
    BY <1>2, <1>7 DEF EffectLessFor
  <1>9. Settled(h, e) <=> Settled(g, e)
    BY <1>6, <1>7, <1>8 DEF Settled, AllPrimitive
  <1>10. QED BY <1>4, <1>5, <1>6, <1>7, <1>8, <1>9

\* Caches that are not touched stay exact.
LEMMA CachesStay ==
  ASSUME NEW g, NEW h, IsGraph(Pointers(g)), IsGraph(Pointers(h)), Agree(g, h), CachesExact(h),
         \A x \in DOMAIN g : IF x \in DOMAIN h THEN g[x].reachableT = h[x].reachableT
                                               ELSE g[x].reachableT = NoReachability
  PROVE  CachesExact(g)
  <1>1. SUFFICES ASSUME NEW s \in DOMAIN g, g[s].reachableT # NoReachability
                 PROVE  g[s].reachableT = Below(g, s)
    BY DEF CachesExact
  <1>2. s \in DOMAIN h /\ g[s].reachableT = h[s].reachableT
    BY <1>1
  <1>3. h[s].reachableT = Below(h, s)
    BY <1>1, <1>2 DEF CachesExact
  <1> DEFINE D == {s} \union Descendants(h, {s})
  <1>4. {s} \union Descendants(g, {s}) = D /\ D \subseteq DOMAIN g \intersect DOMAIN h
    <2>1. {s} \subseteq DOMAIN g \intersect DOMAIN h
      BY <1>2
    <2>2. QED BY <2>1, AgreeingHeaps
  <1>5. \A x \in D : g[x].task = h[x].task
    BY <1>4 DEF Agree
  <1>6. Below(g, s) = Below(h, s)
    <2>1. {Reachable(g[x].task) : x \in D} = {Reachable(h[x].task) : x \in D}
      BY <1>5
    <2> HIDE DEF D
    <2>2. Below(g, s) = UNION {Reachable(g[x].task) : x \in D}
      BY <1>4 DEF Below
    <2>3. Below(h, s) = UNION {Reachable(h[x].task) : x \in D}
      BY DEF Below, D
    <2>4. QED BY <2>1, <2>2, <2>3
  <1>7. QED BY <1>2, <1>3, <1>6

\* New caches are exact.
LEMMA CachesUpdated ==
  ASSUME NEW h, IsHeap(h), IsGraph(Pointers(h)), Acyclic(Pointers(h)), CachesExact(h), NEW uc,
         NEW g, g = UpdateReachability(h, uc)
  PROVE  /\ IsHeap(g) /\ SameSteps(g, h) /\ Counts(g) = Counts(h)
         /\ CachesExact(g)
  <1>1. \A x \in DOMAIN h : ReachabilityOf(h)[x] = Below(h, x)
    BY ReachabilityIsBelow
  <1>2. \A x \in DOMAIN h : ReachabilityOf(h)[x] \in SUBSET Primitive
    BY <1>1, BelowIsPrimitive
  <1>3. /\ IsHeap(g) /\ SameSteps(g, h)
        /\ \A x \in DOMAIN h : /\ g[x].pointersToMe = h[x].pointersToMe
                               /\ g[x].reachableT \in {h[x].reachableT, ReachabilityOf(h)[x]}
    BY <1>2, UpdateReachabilityFacts
  <1>4. Counts(g) = Counts(h)
    BY <1>3 DEF Counts, SameSteps
  <1>5. ASSUME NEW x \in DOMAIN h
        PROVE  Below(g, x) = Below(h, x)
    <2> DEFINE D == {x} \union Descendants(h, {x})
    <2>1. {x} \union Descendants(g, {x}) = D
      BY <1>3, SamePointers
    <2>2. D \subseteq DOMAIN h
      <3>1. Descendants(h, {x}) \subseteq DOMAIN Pointers(h)
        BY ReachedIsLeast DEF Descendants
      <3>2. QED BY <3>1, PointersOf
    <2>3. {Reachable(g[y].task) : y \in D} = {Reachable(h[y].task) : y \in D}
      BY <1>3, <2>2 DEF SameSteps
    <2> HIDE DEF D
    <2>4. Below(g, x) = UNION {Reachable(g[y].task) : y \in D}
      BY <2>1 DEF Below
    <2>5. Below(h, x) = UNION {Reachable(h[y].task) : y \in D}
      BY DEF Below, D
    <2>6. QED BY <2>3, <2>4, <2>5
  <1>6. CachesExact(g)
    BY <1>1, <1>3, <1>5 DEF CachesExact, SameSteps
  <1>7. QED BY <1>3, <1>4, <1>6
-----------------------------------------------------------------------------
(* The child of an application.                                            *)

\* The unconstrained steps uc of the network N are T after s.
ListAfter(h, uc, s) ==
  (uc \ {s})
  \union (h[s].successorList \ Descendants(h, h[s].successorList \union (uc \ {s})))

CountsTasks(count, h, N) == count \in [Task -> Nat] /\ \A t \in Task : count[t] = CountIn(h, N, t)

PairsWithout(before, s) == {b \in before : b[1] # s}

BeforeApplying(h, uc, N, s, count, T) ==
  /\ N = NetworkIn(h, uc) /\ IsNetwork(Pointers(h), uc, N) /\ s \in uc
  /\ CountsTasks(count, h, N)
  /\ T = ListAfter(h, uc, s)

AfterApplying(h, N, s, count, T) ==
  /\ IsNetwork(Pointers(h), T, N \ {s}) /\ NetworkIn(h, T) = N \ {s}
  /\ CountsTasks(CounterA(count, h[s].task), h, N \ {s})
  /\ BeforeIn(h, N \ {s}) = PairsWithout(BeforeIn(h, N), s)

\* s leaves the network, with what it precedes.
LEMMA AppliedValue ==
  ASSUME NEW h, IsHeap(h), IsGraph(Pointers(h)), Acyclic(Pointers(h)),
         NEW uc, NEW N, NEW s, NEW count, NEW T, BeforeApplying(h, uc, N, s, count, T)
  PROVE  AfterApplying(h, N, s, count, T)
  <1> DEFINE G == Pointers(h)
             K == h[s].successorList \union (uc \ {s})
  <1>0. /\ N = NetworkIn(h, uc) /\ IsNetwork(Pointers(h), uc, N) /\ s \in uc
        /\ count \in [Task -> Nat] /\ \A t \in Task : count[t] = CountIn(h, N, t)
        /\ T = (uc \ {s}) \union (h[s].successorList \ Descendants(h, K))
    BY DEF BeforeApplying, CountsTasks, ListAfter
  <1> USE <1>0
  <1>1. s \in N /\ N \subseteq DOMAIN h /\ G[s] = h[s].successorList /\ IsFiniteSet(N)
    <2>1. s \in N /\ N \subseteq DOMAIN G
      BY DEF IsNetwork
    <2>2. IsFiniteSet(N)
      BY <2>1, FS_Subset DEF IsGraph
    <2>3. QED BY <2>1, <2>2, PointersOf
  <1>2. IsNetwork(G, T, N \ {s})
    <2>1. K = G[s] \union (uc \ {s}) /\ T = (uc \ {s}) \union (G[s] \ ReachedFrom(G, K))
      BY <1>1 DEF Descendants
    <2> HIDE DEF G, K
    <2>2. IsGraph(G) /\ Acyclic(G) /\ IsNetwork(G, uc, N) /\ s \in uc
      BY DEF G
    <2>3. QED BY ONLY <2>1, <2>2, AppliedNetwork
  <1>3. NetworkIn(h, T) = N \ {s}
    BY <1>2 DEF IsNetwork, NetworkIn, Descendants
  <1> DEFINE a == h[s].task
             With(t) == {x \in N : h[x].task = t}
  <1>4. a \in Task
    BY <1>1 DEF IsHeap, PlanStep
  <1>5. ASSUME NEW t \in Task
        PROVE  /\ CounterA(count, a)[t] = CountIn(h, N \ {s}, t)
               /\ CounterA(count, a)[t] \in Nat
    <2>1. IsFiniteSet(With(t)) /\ Cardinality(With(t)) = count[t]
      <3>1. IsFiniteSet(With(t))
        BY <1>1, FS_Subset
      <3>2. QED BY <3>1 DEF CountIn
    <2>2. CASE t = a
      <3>1. {x \in N \ {s} : h[x].task = t} = With(t) \ {s} /\ s \in With(t)
        BY <1>1, <2>2
      <3>2. IsFiniteSet(With(t) \ {s}) /\ Cardinality(With(t) \ {s}) = Cardinality(With(t)) - 1
        BY <2>1, <3>1, FS_RemoveElement
      <3>3. Cardinality(With(t) \ {s}) \in Nat
        BY <3>2, FS_CardinalityType
      <3>4. CounterA(count, a)[t] = count[t] - 1
        BY <2>2 DEF CounterA
      <3> HIDE DEF With
      <3>5. QED BY <2>1, <3>1, <3>2, <3>3, <3>4 DEF CountIn
    <2>3. CASE t # a
      <3>1. {x \in N \ {s} : h[x].task = t} = With(t)
        BY <2>3
      <3>2. CounterA(count, a)[t] = count[t]
        BY <2>3 DEF CounterA
      <3>3. QED BY <2>1, <3>1, <3>2 DEF CountIn
    <2>4. QED BY <2>2, <2>3
  <1>6. CounterA(count, a) \in [Task -> Nat]
    <2>1. CounterA(count, a) = [t \in Task |-> CounterA(count, a)[t]]
      BY DEF CounterA
    <2>2. QED BY <1>5, <2>1
  <1>7. BeforeIn(h, N \ {s}) = {b \in BeforeIn(h, N) : b[1] # s}
    <2>1. ASSUME NEW b
          PROVE  b \in BeforeIn(h, N \ {s}) <=> b \in BeforeIn(h, N) /\ b[1] # s
      <3> DEFINE Pairs(p) == {p} \X Descendants(h, {p})
      <3>1. \A M : b \in BeforeIn(h, M) <=> \E p \in M : b \in Pairs(p)
        BY DEF BeforeIn
      <3>2. \A p : b \in Pairs(p) => b[1] = p
        OBVIOUS
      <3> HIDE DEF Pairs
      <3>3. QED BY <3>1, <3>2
    <2>2. QED BY <2>1
  <1>8. QED BY <1>2, <1>3, <1>5, <1>6, <1>7 DEF AfterApplying, CountsTasks, PairsWithout
-----------------------------------------------------------------------------
(* The child of a decomposition.                                           *)

Orders(m) == Values!Before(m)

\* The closure of a method's ordering is the least transitive relation that holds it.
LEMMA BeforeIsLeast ==
  ASSUME NEW m \in Method
  PROVE  /\ Orders(m) \in SUBSET (Positions(m) \X Positions(m))
         /\ ordering[m] \subseteq Orders(m)
         /\ \A i, j, k : <<i, j>> \in Orders(m) /\ <<j, k>> \in Orders(m) => <<i, k>> \in Orders(m)
         /\ \A R \in SUBSET (Positions(m) \X Positions(m)) :
              /\ ordering[m] \subseteq R
              /\ \A i, j, k : <<i, j>> \in R /\ <<j, k>> \in R => <<i, k>> \in R
              => Orders(m) \subseteq R
  <1> DEFINE X == Positions(m) \X Positions(m)
             Joined(R) == {<<e[1][1], e[2][2]>> : e \in {d \in R \X R : d[1][2] = d[2][1]}}
             step == [R \in SUBSET X |-> Joined(R)]
             Next1(w) == [R \in SUBSET X |-> LET more == R \union Joined(R)
                                             IN  IF more = R THEN R ELSE w[more]]
             Close == CHOOSE w : w = Next1(w)
             Links(z, R) == \E i, j, k : <<i, j>> \in R /\ <<j, k>> \in R /\ z = <<i, k>>
  <1>1. IsFiniteSet(X)
    BY MethodFacts, FS_Product
  <1>2. \A R : \A i, j, k : <<i, j>> \in R /\ <<j, k>> \in R => <<i, k>> \in Joined(R)
    <2>1. SUFFICES ASSUME NEW R, NEW i, NEW j, NEW k, <<i, j>> \in R, <<j, k>> \in R
                   PROVE  <<i, k>> \in Joined(R)
      OBVIOUS
    <2> DEFINE e == <<<<i, j>>, <<j, k>>>>
    <2>2. e \in {d \in R \X R : d[1][2] = d[2][1]} /\ <<e[1][1], e[2][2]>> = <<i, k>>
      BY <2>1
    <2>3. QED BY <2>2
  <1>3. ASSUME NEW R \in SUBSET X, NEW z \in Joined(R)
        PROVE  Links(z, R) /\ z \in X
    <2>1. PICK e \in R \X R : e[1][2] = e[2][1] /\ z = <<e[1][1], e[2][2]>>
      BY <1>3
    <2>2. e[1] \in X /\ e[2] \in X /\ e[1] \in R /\ e[2] \in R
      BY <2>1
    <2> DEFINE i == e[1][1]
               j == e[1][2]
               k == e[2][2]
    <2>3. e[1] = <<i, j>> /\ e[2] = <<j, k>> /\ z = <<i, k>>
      BY <2>1, <2>2
    <2>4. i \in Positions(m) /\ k \in Positions(m)
      BY <2>2
    <2>5. <<i, j>> \in R /\ <<j, k>> \in R /\ z = <<i, k>> /\ z \in X
      BY <2>2, <2>3, <2>4
    <2> HIDE DEF i, j, k, X
    <2>6. Links(z, R)
      BY <2>5
    <2>7. QED BY <2>5, <2>6
  <1>4. ASSUME NEW A \in SUBSET X, NEW B \in SUBSET X, A \subseteq B
        PROVE  Joined(A) \subseteq Joined(B)
    <2>1. SUFFICES ASSUME NEW z \in Joined(A)
                   PROVE  z \in Joined(B)
      OBVIOUS
    <2> HIDE DEF Joined, X, Links
    <2>0. Links(z, A)
      BY <1>3
    <2>2. PICK i, j, k : <<i, j>> \in A /\ <<j, k>> \in A /\ z = <<i, k>>
      BY <2>0 DEF Links
    <2>3. <<i, j>> \in B /\ <<j, k>> \in B
      BY <1>4, <2>2
    <2>4. QED BY <1>2, <2>2, <2>3
  <1> HIDE DEF X, Joined
  <1>5. Monotone(X, step)
    <2>1. \A R \in SUBSET X : Joined(R) \in SUBSET X
      BY <1>3
    <2>2. QED BY <1>4, <2>1 DEF Monotone
  <1>6. \A w : Grows(X, step, w) <=> w = Next1(w)
    <2>1. ASSUME NEW w
          PROVE  [R \in SUBSET X |-> IF step[R] \subseteq R THEN R ELSE w[R \union step[R]]] = Next1(w)
      OBVIOUS
    <2>2. QED BY <2>1 DEF Grows
  <1>7. Grows(X, step, Close)
    <2>1. \E w : w = Next1(w)
      <3> HIDE DEF step, Next1
      <3>1. QED BY <1>5, <1>6, GrowingExists
    <2> HIDE DEF Next1
    <2>2. Close = Next1(Close)
      BY <2>1
    <2>3. QED BY <1>6, <2>2
  <1>8. Orders(m) = Close[ordering[m]]
    BY DEF Orders, Values!Before, Values!Positions, Positions, X, Joined
  <1>9. ordering[m] \in SUBSET X
    BY ModelAssumption DEF X
  <1> HIDE DEF Close, step
  <1>10. Orders(m) = LeastClosed(X, step, ordering[m])
    BY <1>1, <1>5, <1>7, <1>8, <1>9, GrowsToClosure
  <1> DEFINE O == Orders(m)
  <1>11. /\ O \in SUBSET X /\ ordering[m] \subseteq O /\ step[O] \subseteq O
         /\ \A R \in SUBSET X : ordering[m] \subseteq R /\ step[R] \subseteq R => O \subseteq R
    BY <1>5, <1>9, <1>10, ClosureIsLeast
  <1>12. \A R \in SUBSET X : step[R] = Joined(R)
    BY DEF step
  <1>13. \A i, j, k : <<i, j>> \in O /\ <<j, k>> \in O => <<i, k>> \in O
    BY <1>2, <1>11, <1>12
  <1>14. ASSUME NEW R \in SUBSET X, ordering[m] \subseteq R,
                \A i, j, k : <<i, j>> \in R /\ <<j, k>> \in R => <<i, k>> \in R
         PROVE  O \subseteq R
    <2>1. Joined(R) \subseteq R
      <3>1. SUFFICES ASSUME NEW z \in Joined(R)
                     PROVE  z \in R
        OBVIOUS
      <3>2. R \in SUBSET X
        BY DEF X
      <3> HIDE DEF Links
      <3>3. Links(z, R)
        BY <1>3, <3>2
      <3>4. QED BY <1>14, <3>3 DEF Links
    <2>2. QED BY <1>11, <1>12, <1>14, <2>1
  <1>15. QED BY <1>11, <1>13, <1>14 DEF X
-----------------------------------------------------------------------------
(* The new steps precede each other as the subtasks do, and all that s precedes. *)

BelowNew(g, h, s, m, inst, i) ==
  Descendants(g, {inst[i]}) = {inst[j] : j \in {k \in Positions(m) : <<i, k>> \in Orders(m)}}
                              \union Descendants(h, {s})

\* Below a subtask of the method are the subtasks after it and what was below the step.
LEMMA NewDescendants ==
  ASSUME NEW h, IsGraph(Pointers(h)), Acyclic(Pointers(h)), NEW s \in DOMAIN h,
         NEW m \in Method, NEW inst, IsAllocated(h, m, inst),
         NEW g, NEW New, HasMethod(g, h, s, m, inst, New), IsGraph(Pointers(g)),
         NEW i \in Positions(m)
  PROVE  BelowNew(g, h, s, m, inst, i)
  <1> DEFINE G == Pointers(h)
             H == Pointers(g)
             D == ReachedFrom(G, {s})
             E(k) == ReachedFrom(H, {inst[k]})
             Later == {k \in Positions(m) : <<i, k>> \in Orders(m)}
             C == {inst[j] : j \in Later} \union D
  <1>1. /\ DOMAIN G = DOMAIN h /\ DOMAIN H = DOMAIN g
        /\ \A x \in DOMAIN h : G[x] = h[x].successorList /\ x \in DOMAIN H /\ H[x] = G[x]
        /\ \A k \in Positions(m) : inst[k] \in DOMAIN H /\ H[inst[k]] = NextOf(h, s, m, inst, k)
    BY DEF HasMethod, Pointers
  <1>2. \A k \in Positions(m) :
          /\ k \in LastTasksOf(m) => H[inst[k]] = G[s]
          /\ \A j \in Successors(m, k) : inst[j] \in H[inst[k]] /\ k \notin LastTasksOf(m)
          /\ \A z \in H[inst[k]] : z \in G[s] \/ \E j \in Successors(m, k) : z = inst[j]
    <2>1. SUFFICES ASSUME NEW k \in Positions(m)
                   PROVE  /\ k \in LastTasksOf(m) => H[inst[k]] = G[s]
                          /\ \A j \in Successors(m, k) : inst[j] \in H[inst[k]] /\ k \notin LastTasksOf(m)
                          /\ \A z \in H[inst[k]] : z \in G[s] \/ \E j \in Successors(m, k) : z = inst[j]
      OBVIOUS
    <2>2. H[inst[k]] = NextOf(h, s, m, inst, k) /\ G[s] = h[s].successorList
      BY <1>1
    <2>3. k \in LastTasksOf(m) <=> Successors(m, k) = {}
      BY DEF LastTasksOf
    <2> HIDE DEF G, H
    <2>4. CASE k \in LastTasksOf(m)
      BY <2>2, <2>3, <2>4 DEF NextOf
    <2>5. CASE k \notin LastTasksOf(m)
      BY <2>2, <2>3, <2>5 DEF NextOf
    <2>6. QED BY <2>4, <2>5
  <1>3. /\ Orders(m) \in SUBSET (Positions(m) \X Positions(m))
        /\ ordering[m] \subseteq Orders(m)
        /\ \A a, b, c : <<a, b>> \in Orders(m) /\ <<b, c>> \in Orders(m) => <<a, c>> \in Orders(m)
    BY BeforeIsLeast
  <1>4. \A k, j \in Positions(m) : j \in Successors(m, k) <=> <<k, j>> \in ordering[m]
    BY DEF Successors
  <1>5. \A k : Successors(m, k) \subseteq Positions(m)
    BY DEF Successors
  <1>6. G[s] \subseteq D /\ D \subseteq DOMAIN G /\ (\A x \in D : G[x] \subseteq D)
    BY <1>1, ReachedIsLeast
  <1>7. \A k \in Positions(m) : /\ H[inst[k]] \subseteq E(k)
                                /\ \A x \in E(k) : H[x] \subseteq E(k)
    BY <1>1, ReachedIsLeast
  <1>8. E(i) \subseteq C
    <2>1. \A x \in {inst[i]} \intersect DOMAIN H : H[x] \subseteq C
      <3>1. SUFFICES ASSUME NEW z \in H[inst[i]]
                     PROVE  z \in C
        OBVIOUS
      <3>2. CASE z \in G[s]
        BY <1>6, <3>2
      <3>3. CASE \E j \in Successors(m, i) : z = inst[j]
        <4>1. PICK j \in Successors(m, i) : z = inst[j]
          BY <3>3
        <4>2. j \in Later
          BY <1>3, <1>4, <1>5, <4>1
        <4>3. QED BY <4>1, <4>2
      <3>4. QED BY <1>2, <3>2, <3>3
    <2>2. \A x \in C \intersect DOMAIN H : H[x] \subseteq C
      <3>1. SUFFICES ASSUME NEW x \in C, NEW z \in H[x]
                     PROVE  z \in C
        OBVIOUS
      <3>2. CASE x \in D
        BY <1>1, <1>6, <3>1, <3>2
      <3>3. CASE \E k \in Later : x = inst[k]
        <4>1. PICK k \in Later : x = inst[k]
          BY <3>3
        <4>2. CASE z \in G[s]
          BY <1>6, <4>2
        <4>3. CASE \E j \in Successors(m, k) : z = inst[j]
          <5>1. PICK j \in Successors(m, k) : z = inst[j]
            BY <4>3
          <5>2. <<k, j>> \in Orders(m) /\ <<i, k>> \in Orders(m)
            BY <1>3, <1>4, <1>5, <4>1, <5>1
          <5>3. j \in Later
            BY <1>3, <1>5, <5>1, <5>2
          <5>4. QED BY <5>1, <5>3
        <4>4. QED BY <1>2, <3>1, <4>1, <4>2, <4>3
      <3>4. QED BY <3>1, <3>2, <3>3
    <2> HIDE DEF C, H
    <2>3. QED BY <2>1, <2>2, ReachedIsLeast DEF H
  <1>9. D \subseteq E(i)
    <2> DEFINE S == {k \in Positions(m) : k = i \/ inst[k] \in E(i)}
    <2>1. PICK k \in S : Successors(m, k) \intersect S = {}
      <3>1. i \in S /\ S \in SUBSET Positions(m)
        OBVIOUS
      <3> HIDE DEF S
      <3>2. \E k \in S : Successors(m, k) \intersect S = {}
        BY <3>1, LastOfPositions
      <3>3. QED BY <3>2
    <2>2. H[inst[k]] \subseteq E(i)
      BY <1>7
    <2>3. k \in LastTasksOf(m)
      <3>1. SUFFICES ASSUME NEW j \in Successors(m, k)
                     PROVE  FALSE
        BY DEF LastTasksOf
      <3>2. inst[j] \in E(i)
        BY <1>2, <2>2
      <3>3. QED BY <1>5, <2>1, <3>2
    <2>4. G[s] \subseteq E(i)
      BY <1>2, <2>2, <2>3
    <2>5. \A x \in {s} \intersect DOMAIN G : G[x] \subseteq E(i)
      BY <2>4
    <2>6. \A x \in E(i) \intersect DOMAIN G : G[x] \subseteq E(i)
      BY <1>1, <1>7
    <2> DEFINE B == E(i)
    <2> HIDE DEF B, G, E
    <2>7. D \subseteq B
      BY <2>5, <2>6, ReachedIsLeast DEF B, G
    <2>8. QED BY <2>7 DEF B
  <1>10. \A j \in Later : inst[j] \in E(i)
    <2> DEFINE R == {e \in Positions(m) \X Positions(m) : inst[e[2]] \in E(e[1])}
    <2>1. \A a, b \in Positions(m) : <<a, b>> \in R <=> inst[b] \in E(a)
      OBVIOUS
    <2>2. ordering[m] \subseteq R
      <3>1. SUFFICES ASSUME NEW e \in ordering[m]
                     PROVE  e \in R
        OBVIOUS
      <3>2. PICK a, b \in Positions(m) : e = <<a, b>>
        BY <1>3
      <3>3. inst[b] \in E(a)
        BY <1>2, <1>4, <1>7, <3>1, <3>2
      <3>4. QED BY <2>1, <3>2, <3>3
    <2>3. ASSUME NEW a, NEW b, NEW c, <<a, b>> \in R, <<b, c>> \in R
          PROVE  <<a, c>> \in R
      <3>1. a \in Positions(m) /\ b \in Positions(m) /\ c \in Positions(m)
        BY <2>3
      <3>2. inst[b] \in E(a) /\ inst[c] \in E(b)
        BY <2>1, <2>3, <3>1
      <3>3. E(b) \subseteq E(a)
        <4>1. \A x \in {inst[b]} \intersect DOMAIN H : x \in {inst[a]} \/ x \in ReachedFrom(H, {inst[a]})
          BY <3>2
        <4>2. QED BY <4>1, ReachedMonotone
      <3>4. QED BY <2>1, <3>1, <3>2, <3>3
    <2>4. R \in SUBSET (Positions(m) \X Positions(m))
      OBVIOUS
    <2> HIDE DEF R, E
    <2>5. Orders(m) \subseteq R
      BY <2>2, <2>3, <2>4, BeforeIsLeast
    <2>6. QED BY <2>1, <2>5
  <1>11. QED BY <1>8, <1>9, <1>10 DEF BelowNew, Descendants

\* M is N with New in the place of s.
InPlaceOf(M, N, s, New) == M = (N \ {s}) \union New

\* The task counts after a decomposition are those of the new network.
LEMMA DecomposedCounts ==
  ASSUME NEW h, NEW N, IsFiniteSet(N), N \subseteq DOMAIN h, NEW s \in N,
         NEW m \in Method, h[s].task = decomposedTask[m], NEW inst, IsAllocated(h, m, inst),
         NEW g, NEW New, HasMethod(g, h, s, m, inst, New),
         NEW count, CountsTasks(count, h, N), NEW M, InPlaceOf(M, N, s, New)
  PROVE  CountsTasks(CounterM(count, m), g, M)
  <1> DEFINE a == decomposedTask[m]
             Old(t) == {x \in N : h[x].task = t}
             At(t) == {i \in Positions(m) : subTasks[m][i] = t}
             Added(t) == {inst[i] : i \in At(t)}
             With(t) == {x \in M : g[x].task = t}
  <1>0. /\ count \in [Task -> Nat] /\ \A t \in Task : count[t] = CountIn(h, N, t)
        /\ M = (N \ {s}) \union New
    BY DEF CountsTasks, InPlaceOf
  <1> USE <1>0
  <1>1. a \in Task
    BY MethodFacts
  <1>2. ASSUME NEW t \in Task
        PROVE  /\ IsFiniteSet(Added(t)) /\ Cardinality(Added(t)) = Occurrences(m, t)
               /\ Occurrences(m, t) \in Nat
               /\ Added(t) = {x \in New : g[x].task = t} /\ New \intersect DOMAIN h = {}
    <2>1. IsFiniteSet(At(t))
      BY MethodFacts, FS_Subset
    <2>2. \A i, j \in At(t) : inst[i] = inst[j] => i = j
      BY DEF IsAllocated
    <2> DEFINE P == At(t)
               I == {inst[i] : i \in P}
    <2>3. IsFiniteSet(I) /\ Cardinality(I) = Cardinality(P)
      <3>1. I = {inst[i] : i \in P}
        OBVIOUS
      <3>2. IsFiniteSet(P) /\ (\A i, j \in P : inst[i] = inst[j] => i = j)
        BY <2>1, <2>2
      <3> HIDE DEF P, I
      <3>3. QED BY <3>1, <3>2, ImageOfInjection
    <2>4. Cardinality(P) \in Nat
      BY <2>1, FS_CardinalityType
    <2>5. Added(t) = {x \in New : g[x].task = t}
      <3>1. \A i \in Positions(m) : g[inst[i]].task = subTasks[m][i]
        BY DEF HasMethod
      <3>2. New = {inst[i] : i \in Positions(m)}
        BY DEF HasMethod
      <3>3. QED BY <3>1, <3>2
    <2>6. New \intersect DOMAIN h = {}
      BY DEF HasMethod
    <2>7. QED BY <2>3, <2>4, <2>5, <2>6 DEF Occurrences
  <1>3. ASSUME NEW t \in Task
        PROVE  /\ CounterM(count, m)[t] \in Nat
               /\ CounterM(count, m)[t] = CountIn(g, M, t)
    <2> DEFINE Kept == {x \in N \ {s} : h[x].task = t}
    <2>1. IsFiniteSet(Old(t)) /\ Cardinality(Old(t)) = count[t]
      <3>1. IsFiniteSet(Old(t))
        BY FS_Subset
      <3>2. QED BY <3>1 DEF CountIn
    <2>2. With(t) = Kept \union Added(t) /\ Kept \intersect Added(t) = {}
      <3>1. \A x \in N : g[x] = h[x]
        BY DEF HasMethod
      <3> DEFINE A == Added(t)
      <3>2. A = {x \in New : g[x].task = t} /\ New \intersect DOMAIN h = {}
        BY <1>2
      <3> HIDE DEF A
      <3>3. With(t) = Kept \union A /\ Kept \intersect A = {}
        BY <3>1, <3>2
      <3>4. QED BY <3>3 DEF A
    <2>3. IsFiniteSet(Kept) /\ Cardinality(Kept) = count[t] - (IF t = a THEN 1 ELSE 0)
      <3>1. CASE t = a
        <4>1. Kept = Old(t) \ {s} /\ s \in Old(t)
          BY <3>1
        <4>2. IsFiniteSet(Old(t) \ {s}) /\ Cardinality(Old(t) \ {s}) = Cardinality(Old(t)) - 1
          BY <2>1, <4>1, FS_RemoveElement
        <4>3. QED BY <2>1, <3>1, <4>1, <4>2
      <3>2. CASE t # a
        <4>1. Kept = Old(t)
          BY <3>2
        <4>2. count[t] \in Nat
          OBVIOUS
        <4> HIDE DEF Kept, Old
        <4>3. QED BY <2>1, <3>2, <4>1, <4>2
      <3>3. QED BY <3>1, <3>2
    <2>4. Cardinality(Kept) \in Nat
      BY <2>3, FS_CardinalityType
    <2>5. CountIn(g, M, t) = Cardinality(Kept) + Occurrences(m, t)
      <3>1. Cardinality(With(t)) = Cardinality(Kept) + Cardinality(Added(t)) - Cardinality(Kept \intersect Added(t))
        <4> DEFINE A == Added(t)
        <4>1. IsFiniteSet(A)
          BY <1>2
        <4> HIDE DEF A, Kept
        <4>2. Cardinality(Kept \union A) = Cardinality(Kept) + Cardinality(A) - Cardinality(Kept \intersect A)
          BY <2>3, <4>1, FS_Union
        <4>3. QED BY <2>2, <4>2 DEF A
      <3>2. Cardinality(Kept \intersect Added(t)) = 0
        BY <2>2, FS_EmptySet
      <3>3. Cardinality(Added(t)) = Occurrences(m, t) /\ Occurrences(m, t) \in Nat
        BY <1>2
      <3>4. CountIn(g, M, t) = Cardinality(With(t))
        BY DEF CountIn
      <3> HIDE DEF Kept, Added, With
      <3>5. QED BY <2>4, <3>1, <3>2, <3>3, <3>4
    <2>6. CounterM(count, m)[t] = count[t] + Occurrences(m, t) - (IF t = a THEN 1 ELSE 0)
      <3>1. Occurrences(m, t) \in Nat /\ count[t] \in Nat
        BY <1>2
      <3> DEFINE sum == [u \in Task |-> count[u] + Occurrences(m, u)]
      <3>2. CounterM(count, m) = IF count[a] = 1 /\ Occurrences(m, a) = 0 THEN [sum EXCEPT ![a] = 0]
                                 ELSE [sum EXCEPT ![a] = sum[a] - 1]
        BY DEF CounterM
      <3>3. CASE t = a
        <4>1. CASE count[a] = 1 /\ Occurrences(m, a) = 0
          BY <3>1, <3>2, <3>3, <4>1, <1>1
        <4>2. CASE ~ (count[a] = 1 /\ Occurrences(m, a) = 0)
          <5>1. CounterM(count, m) = [sum EXCEPT ![a] = sum[a] - 1]
            BY <3>2, <4>2
          <5>2. CounterM(count, m)[a] = sum[a] - 1
            BY <5>1, <1>1
          <5>3. sum[a] = count[a] + Occurrences(m, a)
            BY <1>1
          <5>4. QED BY <3>1, <3>3, <5>2, <5>3
        <4>3. QED BY <4>1, <4>2
      <3>4. CASE t # a
        <4>1. CounterM(count, m)[t] = sum[t]
          BY <3>2, <3>4
        <4>2. QED BY <3>1, <3>4, <4>1
      <3>5. QED BY <3>3, <3>4
    <2>7. Occurrences(m, t) \in Nat /\ count[t] \in Nat
      BY <1>2
    <2> HIDE DEF Kept
    <2>8. QED BY <2>3, <2>4, <2>5, <2>6, <2>7
  <1>4. CounterM(count, m) = [t \in Task |-> CounterM(count, m)[t]]
    BY DEF CounterM
  <1>5. QED BY <1>3, <1>4 DEF CountsTasks

Pair(p, q) == <<p, q>>

\* The ordering of a network, pair by pair.
LEMMA BeforeInPairs ==
  ASSUME NEW h, NEW N
  PROVE  /\ \A p, q : Pair(p, q) \in BeforeIn(h, N) <=> p \in N /\ q \in Descendants(h, {p})
         /\ \A b \in BeforeIn(h, N) : b = Pair(b[1], b[2])
  <1> DEFINE Pairs(p) == {p} \X Descendants(h, {p})
  <1>1. \A b : b \in BeforeIn(h, N) <=> \E p \in N : b \in Pairs(p)
    BY DEF BeforeIn
  <1>2. \A p, r, q : Pair(p, q) \in Pairs(r) <=> p = r /\ q \in Descendants(h, {p})
    BY DEF Pair
  <1>3. \A r : \A b \in Pairs(r) : b = Pair(b[1], b[2])
    BY DEF Pair
  <1> HIDE DEF Pairs
  <1>4. QED BY <1>1, <1>2, <1>3

\* The steps of s in its network are replaced by those of the method.
DecomposedBefore(h, N, s, m, inst, New) ==
  {b \in BeforeIn(h, N) : b[1] # s}
  \union {<<inst[e[1]], inst[e[2]]>> : e \in Orders(m)}
  \union {<<xe[1], xe[2][2]>> : xe \in New \X {b \in BeforeIn(h, N) : b[1] = s}}

\* What is below the old steps, and below the new ones.
SameBelow(g, h, S) == \A x \in S : Descendants(g, {x}) = Descendants(h, {x})

NewBelow(g, h, s, m, inst) ==
  \A i \in Positions(m) : BelowNew(g, h, s, m, inst, i)

\* Its ordering after a decomposition, as TaskNetwork has it.
LEMMA DecomposedPairs ==
  ASSUME NEW h, NEW g, NEW N, N \subseteq DOMAIN h, NEW s \in N,
         NEW m \in Method, NEW inst, IsAllocated(h, m, inst),
         NEW New, HasMethod(g, h, s, m, inst, New), NEW M, InPlaceOf(M, N, s, New),
         SameBelow(g, h, N \ {s}), NewBelow(g, h, s, m, inst)
  PROVE  BeforeIn(g, M) = DecomposedBefore(h, N, s, m, inst, New)
  <1> DEFINE Later(i) == {inst[j] : j \in {k \in Positions(m) : <<i, k>> \in Orders(m)}}
             Old == {b \in BeforeIn(h, N) : b[1] # s}
             Between == {<<inst[e[1]], inst[e[2]]>> : e \in Orders(m)}
             Across == {<<xe[1], xe[2][2]>> : xe \in New \X {b \in BeforeIn(h, N) : b[1] = s}}
  <1>0. \A x : x \in M <=> x \in N \ {s} \/ x \in New
    BY DEF InPlaceOf
  <1>6. \A x \in N \ {s} : Descendants(g, {x}) = Descendants(h, {x})
    BY DEF SameBelow
  <1>7. \A i \in Positions(m) : Descendants(g, {inst[i]}) = Later(i) \union Descendants(h, {s})
    BY DEF NewBelow, BelowNew
  <1>8. New = {inst[i] : i \in Positions(m)} /\ New \intersect DOMAIN h = {}
    BY DEF HasMethod
  <1>9. \A p, q : /\ Pair(p, q) \in BeforeIn(h, N) <=> p \in N /\ q \in Descendants(h, {p})
                  /\ Pair(p, q) \in BeforeIn(g, M) <=> p \in M /\ q \in Descendants(g, {p})
    BY BeforeInPairs
  <1>10. (\A b \in BeforeIn(h, N) : b = Pair(b[1], b[2])) /\ (\A b \in BeforeIn(g, M) : b = Pair(b[1], b[2]))
    BY BeforeInPairs
  <1>13. \A q : Pair(s, q) \in BeforeIn(h, N) <=> q \in Descendants(h, {s})
    BY <1>9
  <1>14. \A p, q : Pair(p, q) \in Old <=> p \in N \ {s} /\ q \in Descendants(h, {p})
    <2>1. \A p, q : Pair(p, q)[1] = p
      BY DEF Pair
    <2>2. QED BY <1>9, <2>1
  <1>15. \A p, q : Pair(p, q) \in Between <=>
                     \E i, j \in Positions(m) : p = inst[i] /\ q = inst[j] /\ Pair(i, j) \in Orders(m)
    <2>1. Orders(m) \subseteq Positions(m) \X Positions(m)
      BY BeforeIsLeast
    <2>2. SUFFICES ASSUME NEW p, NEW q
                   PROVE  Pair(p, q) \in Between <=>
                            \E i, j \in Positions(m) : p = inst[i] /\ q = inst[j] /\ Pair(i, j) \in Orders(m)
      OBVIOUS
    <2>3. ASSUME Pair(p, q) \in Between
          PROVE  \E i, j \in Positions(m) : p = inst[i] /\ q = inst[j] /\ Pair(i, j) \in Orders(m)
      <3>1. PICK e \in Orders(m) : p = inst[e[1]] /\ q = inst[e[2]]
        BY <2>3 DEF Pair
      <3>2. e = <<e[1], e[2]>> /\ e[1] \in Positions(m) /\ e[2] \in Positions(m)
        BY <2>1
      <3>3. <<e[1], e[2]>> \in Orders(m)
        BY <3>2
      <3>4. QED BY <3>1, <3>2, <3>3 DEF Pair
    <2>4. ASSUME NEW i \in Positions(m), NEW j \in Positions(m), p = inst[i], q = inst[j],
                 Pair(i, j) \in Orders(m)
          PROVE  Pair(p, q) \in Between
      <3> DEFINE e == <<i, j>>
      <3>1. e \in Orders(m) /\ <<inst[e[1]], inst[e[2]]>> = Pair(p, q)
        BY <2>4 DEF Pair
      <3> HIDE DEF e
      <3>2. QED BY <3>1
    <2>5. QED BY <2>3, <2>4
  <1>16. \A p, q : Pair(p, q) \in Across <=> p \in New /\ q \in Descendants(h, {s})
    <2> DEFINE From == {b \in BeforeIn(h, N) : b[1] = s}
    <2>1. \A q : Pair(s, q) \in From <=> q \in Descendants(h, {s})
      BY <1>13 DEF Pair
    <2>2. \A b \in From : b = Pair(s, b[2])
      BY <1>10
    <2> HIDE DEF From
    <2>3. SUFFICES ASSUME NEW p, NEW q
                   PROVE  Pair(p, q) \in {<<xe[1], xe[2][2]>> : xe \in New \X From}
                            <=> p \in New /\ q \in Descendants(h, {s})
      BY DEF From
    <2>4. ASSUME Pair(p, q) \in {<<xe[1], xe[2][2]>> : xe \in New \X From}
          PROVE  p \in New /\ q \in Descendants(h, {s})
      <3>1. PICK xe \in New \X From : p = xe[1] /\ q = xe[2][2]
        BY <2>4 DEF Pair
      <3>2. xe[2] \in From /\ xe[1] \in New
        BY <3>1
      <3>3. QED BY <2>1, <2>2, <3>1, <3>2
    <2>5. ASSUME p \in New, q \in Descendants(h, {s})
          PROVE  Pair(p, q) \in {<<xe[1], xe[2][2]>> : xe \in New \X From}
      <3> DEFINE xe == <<p, <<s, q>>>>
      <3>1. xe \in New \X From /\ <<xe[1], xe[2][2]>> = Pair(p, q)
        BY <2>1, <2>5 DEF Pair
      <3> HIDE DEF xe
      <3>2. QED BY <3>1
    <2>6. QED BY <2>4, <2>5
  <1> HIDE DEF Old, Between, Across
  <1>17. \A p, q : Pair(p, q) \in BeforeIn(g, M) <=> Pair(p, q) \in Old \union Between \union Across
    <2>1. SUFFICES ASSUME NEW p, NEW q
                   PROVE  Pair(p, q) \in BeforeIn(g, M) <=> Pair(p, q) \in Old \union Between \union Across
      OBVIOUS
    <2>2. CASE p \in N \ {s}
      <3>1. p \notin New
        BY <1>8, <2>2
      <3>2. Pair(p, q) \notin Between /\ Pair(p, q) \notin Across
        <4>1. \A i \in Positions(m) : inst[i] \in New
          BY <1>8
        <4>2. Pair(p, q) \notin Across
          BY <1>16, <3>1
        <4>3. Pair(p, q) \notin Between
          <5>1. SUFFICES ASSUME Pair(p, q) \in Between
                         PROVE  FALSE
            OBVIOUS
          <5>2. PICK i \in Positions(m), j \in Positions(m) : p = inst[i] /\ q = inst[j]
            BY <1>15, <5>1
          <5>3. QED BY <3>1, <4>1, <5>2
        <4>4. QED BY <4>2, <4>3
      <3>3. QED BY <1>0, <1>6, <1>9, <1>14, <2>2, <3>2
    <2>3. CASE p \in New
      <3>1. PICK i \in Positions(m) : p = inst[i]
        BY <1>8, <2>3
      <3>2. p \notin N
        BY <1>8, <2>3
      <3>3. Pair(p, q) \in BeforeIn(g, M) <=> q \in Later(i) \/ q \in Descendants(h, {s})
        BY <1>0, <1>7, <1>9, <2>3, <3>1
      <3>4. q \in Later(i) <=> Pair(p, q) \in Between
        <4>1. \A k \in Positions(m) : p = inst[k] => k = i
          BY <3>1 DEF IsAllocated
        <4>2. q \in Later(i) <=> \E j \in Positions(m) : q = inst[j] /\ Pair(i, j) \in Orders(m)
          BY DEF Pair
        <4>3. QED BY <1>15, <3>1, <4>1, <4>2
      <3>5. QED BY <1>14, <1>16, <2>3, <3>2, <3>3, <3>4
    <2>4. CASE p \notin N \ {s} /\ p \notin New
      BY <1>0, <1>8, <1>9, <1>14, <1>15, <1>16, <2>4
    <2>5. QED BY <2>2, <2>3, <2>4
  <1>18. BeforeIn(g, M) = Old \union Between \union Across
    <2>1. \A b \in Old \union Between \union Across : b = Pair(b[1], b[2])
      BY <1>10 DEF Old, Between, Across, Pair
    <2>2. QED BY <1>10, <1>17, <2>1
  <1>19. QED BY <1>18 DEF DecomposedBefore, Old, Between, Across

\* uc are the unconstrained steps of N before and T those of M after.
BeforeDecomposing(h, uc, N, s, m, inst, New, T, M) ==
  /\ N = NetworkIn(h, uc) /\ IsNetwork(Pointers(h), uc, N) /\ s \in uc
  /\ T = (uc \ {s}) \union {inst[i] : i \in FirstTasksOf(m)}
  /\ InPlaceOf(M, N, s, New)

AfterDecomposing(g, h, N, s, m, inst, New, T, M) ==
  /\ IsGraph(Pointers(g)) /\ Acyclic(Pointers(g))
  /\ IsNetwork(Pointers(g), T, M) /\ NetworkIn(g, T) = M
  /\ BeforeIn(g, M) = DecomposedBefore(h, N, s, m, inst, New)

\* A decomposed network is the value that TaskNetwork decomposes to.
LEMMA DecomposedValue ==
  ASSUME NEW h, IsGraph(Pointers(h)), Acyclic(Pointers(h)), NEW m \in Method, NEW inst, IsAllocated(h, m, inst),
         NEW uc, NEW N, NEW s, NEW New, NEW T, NEW M, BeforeDecomposing(h, uc, N, s, m, inst, New, T, M),
         NEW g, HasMethod(g, h, s, m, inst, New)
  PROVE  AfterDecomposing(g, h, N, s, m, inst, New, T, M)
  <1> DEFINE G == Pointers(h)
             H == Pointers(g)
             Firsts == {inst[i] : i \in FirstTasksOf(m)}
  <1>0. /\ N = NetworkIn(h, uc) /\ IsNetwork(Pointers(h), uc, N) /\ s \in uc
        /\ T = (uc \ {s}) \union Firsts /\ InPlaceOf(M, N, s, New)
    BY DEF BeforeDecomposing
  <1> USE <1>0
  <1>1. N \subseteq DOMAIN h /\ s \in N /\ s \in DOMAIN h /\ DOMAIN G = DOMAIN h
    BY NetworkIsClosed DEF IsNetwork, Pointers
  <1>2. Replacing(G, H, New, Firsts, s)
    BY <1>1, MethodReplaces
  <1>3. IsGraph(H) /\ Acyclic(H)
    <2> HIDE DEF G, H
    <2>1. s \in DOMAIN G /\ IsGraph(G) /\ Acyclic(G)
      BY <1>1 DEF G
    <2>2. QED BY ONLY <1>2, <2>1, ReplacingIsGraph
  <1>4. IsNetwork(H, T, M)
    BY <1>2, DecomposedNetwork DEF InPlaceOf
  <1>5. NetworkIn(g, T) = M
    BY <1>4 DEF IsNetwork, NetworkIn, Descendants
  <1>6. SameBelow(g, h, N \ {s})
    <2>1. Agree(g, h)
      BY DEF HasMethod, Agree
    <2>2. \A x \in N : {x} \subseteq DOMAIN g \intersect DOMAIN h
      BY <1>1 DEF HasMethod
    <2>3. \A x \in N : Descendants(g, {x}) = Descendants(h, {x})
      BY <1>3, <2>1, <2>2, AgreeingHeaps
    <2>4. QED BY <2>3 DEF SameBelow
  <1>7. NewBelow(g, h, s, m, inst)
    <2> HIDE DEF G, H
    <2>1. \A i \in Positions(m) : BelowNew(g, h, s, m, inst, i)
      <3>1. SUFFICES ASSUME NEW i \in Positions(m)
                     PROVE  BelowNew(g, h, s, m, inst, i)
        OBVIOUS
      <3>2. /\ IsGraph(Pointers(h)) /\ Acyclic(Pointers(h)) /\ IsGraph(Pointers(g))
            /\ s \in DOMAIN h /\ m \in Method /\ IsAllocated(h, m, inst) /\ i \in Positions(m)
            /\ HasMethod(g, h, s, m, inst, New)
        BY <1>1, <1>3 DEF H
      <3>3. QED BY ONLY <3>2, NewDescendants
    <2>2. QED BY <2>1 DEF NewBelow
  <1>8. BeforeIn(g, M) = DecomposedBefore(h, N, s, m, inst, New)
    <2> HIDE DEF G, H
    <2>1. N \subseteq DOMAIN h /\ s \in N /\ m \in Method /\ IsAllocated(h, m, inst)
          /\ HasMethod(g, h, s, m, inst, New) /\ InPlaceOf(M, N, s, New)
      BY <1>1
    <2>2. QED BY ONLY <1>6, <1>7, <2>1, DecomposedPairs
  <1>9. QED BY <1>3, <1>4, <1>5, <1>8 DEF AfterDecomposing
-----------------------------------------------------------------------------
(* The inductive invariant, for a heap h, solution steps sol, nodes nd and a *)
(* call c.                                                                   *)

RootsOf(nd) == [n \in DOMAIN nd |-> nd[n].unconstraint]
EndsOf(nd) == [n \in DOMAIN nd |-> {nd[n].solution} \ {NoPlan}]

\* All pointers to plan steps are counted, and cached reachability is exact.
HeapShared(h, nd) ==
  /\ DOMAIN h \subseteq Address /\ IsHeap(h)
  /\ Shared(Pointers(h), Counts(h), RootsOf(nd))
  /\ CachesExact(h)

\* And all pointers to solution steps.
PlansShared(sol, nd) == IsPlans(sol) /\ Shared(PlanPointers(sol), Counts(sol), EndsOf(nd))

\* Every node describes its own network and plan.
NodesFit(h, sol, nd) ==
  /\ DOMAIN nd \subseteq NodeId
  /\ \A n \in DOMAIN nd : nd[n] \in SearchNode /\ NodeFits(h, sol, nd[n])

Memory(h, sol, nd) == HeapShared(h, nd) /\ PlansShared(sol, nd) /\ NodesFit(h, sol, nd)

\* A call works on a node of its own and knows what is left to progress.
CallFits(h, nd, c) ==
  c = Idle
  \/ /\ c \in [calling : {TRUE}, node : DOMAIN nd, results : Seq(DOMAIN nd),
               effectLess : SUBSET Address, returning : BOOLEAN]
     /\ \A i, j \in 1 .. Len(c.results) : c.results[i] = c.results[j] => i = j
     /\ \A i \in 1 .. Len(c.results) : c.results[i] # c.node
     /\ nd[c.node].solution # NoPlan
     /\ ~ c.returning => c.effectLess = EffectLessFor(h, nd[c.node])
     /\ c.returning => Settled(h, nd[c.node])

\* The nodes that a call has not finished.
InProgress(c) ==
  IF c.calling THEN {c.results[i] : i \in 1 .. Len(c.results)} \union {c.node} ELSE {}

\* The first node has nothing to progress; of the others, a search only has settled ones.
HeldFit(h, nd, c) ==
  \A n \in DOMAIN nd :
    IF nd[n].solution = NoPlan THEN Primitives(h, nd[n].unconstraint) = {}
    ELSE n \notin InProgress(c) => Settled(h, nd[n])

IInv == /\ Memory(heap, solutions, nodes)
        /\ CallFits(heap, nodes, call)
        /\ HeldFit(heap, nodes, call)
-----------------------------------------------------------------------------
(* A new node.                                                             *)

\* nd2 is nd with the node e at c.
WithNode(nd2, nd, c, e) ==
  /\ c \notin DOMAIN nd
  /\ nd2 = [x \in DOMAIN nd \union {c} |-> IF x # c THEN nd[x] ELSE e]

ExtendedBy(sol, p, t, m) ==
  LET new == FreshIn(DOMAIN sol)
  IN  [q \in DOMAIN sol \union {new} |->
         IF q = new
         THEN [task |-> t, method |-> m, prev |-> p, pointersToMe |-> 1]
         ELSE IF q = p
              THEN [sol[q] EXCEPT !.pointersToMe = @ + 1]
              ELSE sol[q]]

\* What a new solution step at new is, and what it leaves of the others.
IsExtended(sol2, sol, p, t, m, new) ==
  /\ new \in Nat \ {NoPlan} /\ new \notin DOMAIN sol
  /\ DOMAIN sol2 = DOMAIN sol \union {new}
  /\ sol2[new] = [task |-> t, method |-> m, prev |-> p, pointersToMe |-> 1]
  /\ \A q \in DOMAIN sol : /\ sol2[q] \in SolutionStep
                           /\ sol2[q].task = sol[q].task
                           /\ sol2[q].method = sol[q].method
                           /\ sol2[q].prev = sol[q].prev
                           /\ sol2[q].pointersToMe = sol[q].pointersToMe + (IF q = p THEN 1 ELSE 0)

\* A solution step at a free address extends the chain.
LEMMA ExtendedByFacts ==
  ASSUME NEW sol, IsPlans(sol), IsFiniteSet(DOMAIN sol), NEW p, NEW t, NEW m
  PROVE  IsExtended(ExtendedBy(sol, p, t, m), sol, p, t, m, FreshIn(DOMAIN sol))
  <1> DEFINE new == FreshIn(DOMAIN sol)
             sol2 == ExtendedBy(sol, p, t, m)
             e == [task |-> t, method |-> m, prev |-> p, pointersToMe |-> 1]
  <1>1. new \in Nat \ {NoPlan} /\ new \notin DOMAIN sol
    BY FreshIsFree
  <1> HIDE DEF new
  <1>2. sol2 = [q \in DOMAIN sol \union {new} |->
                  IF q = new THEN e
                  ELSE IF q = p THEN [sol[q] EXCEPT !.pointersToMe = @ + 1] ELSE sol[q]]
    BY DEF ExtendedBy, new
  <1> HIDE DEF sol2, e
  <1>3. DOMAIN sol2 = DOMAIN sol \union {new}
    BY <1>2
  <1>4. sol2[new] = e
    BY <1>2
  <1>5. ASSUME NEW q \in DOMAIN sol
        PROVE  /\ sol2[q] \in SolutionStep
               /\ sol2[q].task = sol[q].task
               /\ sol2[q].method = sol[q].method
               /\ sol2[q].prev = sol[q].prev
               /\ sol2[q].pointersToMe = sol[q].pointersToMe + (IF q = p THEN 1 ELSE 0)
    <2>1. sol[q] \in SolutionStep /\ q # new
      BY <1>1 DEF IsPlans
    <2>2. sol2[q] = IF q = p THEN [sol[q] EXCEPT !.pointersToMe = sol[q].pointersToMe + 1] ELSE sol[q]
      BY <1>2, <2>1
    <2>3. CASE q = p
      <3>1. sol2[q] = [sol[q] EXCEPT !.pointersToMe = sol[q].pointersToMe + 1]
        BY <2>2, <2>3
      <3>2. QED BY <2>1, <2>3, <3>1 DEF SolutionStep
    <2>4. CASE q # p
      <3>1. sol2[q] = sol[q]
        BY <2>2, <2>4
      <3>2. QED BY <2>1, <2>4, <3>1 DEF SolutionStep
    <2>5. QED BY <2>3, <2>4
  <1>6. QED BY <1>1, <1>3, <1>4, <1>5 DEF IsExtended, sol2, e, new

\* The counts stay exact: the child points to the new step, which points to its parent's.
LEMMA ExtendedShared ==
  ASSUME NEW sol, NEW nd, PlansShared(sol, nd), NEW n \in DOMAIN nd,
         nd[n].solution = NoPlan \/ nd[n].solution \in DOMAIN sol, nd[n].solution \in Nat,
         NEW t \in Task, NEW m \in Method \union {NoMethod}, m = NoMethod => t \in Primitive,
         NEW sol2, NEW new, IsExtended(sol2, sol, nd[n].solution, t, m, new),
         NEW c, NEW e, e.solution = new, NEW nd2, WithNode(nd2, nd, c, e)
  PROVE  /\ PlansShared(sol2, nd2)
         /\ AreChains(sol) /\ AreChains(sol2) /\ PlansAgree(sol2, sol)
  <1> DEFINE G == PlanPointers(sol)
             H == PlanPointers(sol2)
             p == nd[n].solution
             count == Counts(sol)
             after == Counts(sol2)
             roots == EndsOf(nd)
             more == EndsOf(nd2)
  <1>1. /\ new \in Nat \ {NoPlan} /\ new \notin DOMAIN sol
        /\ DOMAIN sol2 = DOMAIN sol \union {new}
        /\ sol2[new] = [task |-> t, method |-> m, prev |-> p, pointersToMe |-> 1]
        /\ \A q \in DOMAIN sol : /\ sol2[q] \in SolutionStep
                                 /\ sol2[q].task = sol[q].task
                                 /\ sol2[q].method = sol[q].method
                                 /\ sol2[q].prev = sol[q].prev
                                 /\ sol2[q].pointersToMe = sol[q].pointersToMe + (IF q = p THEN 1 ELSE 0)
    BY DEF IsExtended
  <1>2. IsPlans(sol) /\ Shared(G, count, roots)
    BY DEF PlansShared
  <1>3. AreChains(sol)
    BY <1>2 DEF AreChains, Shared
  <1>4. /\ DOMAIN G = DOMAIN sol /\ DOMAIN H = DOMAIN sol \union {new}
        /\ \A q \in DOMAIN sol : H[q] = G[q]
        /\ H[new] = {p} \ {NoPlan}
    BY <1>1 DEF PlanPointers
  <1>5. IsPlans(sol2)
    <2>1. sol2[new] \in SolutionStep /\ sol2[new].method = m /\ sol2[new].task = t
      BY <1>1 DEF SolutionStep
    <2>2. QED BY <1>1, <1>2, <2>1 DEF IsPlans
  <1>6. Shared(H, after, more)
    <2>1. IsGraph(G) /\ Acyclic(G)
      BY <1>2 DEF Shared
    <2>2. \A q \in DOMAIN sol : G[q] \subseteq DOMAIN sol
      BY <1>4, <2>1 DEF IsGraph
    <2>3. Acyclic(H)
      <3>1. SUFFICES ASSUME NEW S \in SUBSET DOMAIN H, S # {}
                     PROVE  \E x \in S : \A y \in S : x \notin H[y]
        BY DEF Acyclic
      <3>2. CASE new \in S
        <4>1. \A y \in DOMAIN H : new \notin H[y]
          BY <1>1, <1>4, <2>2
        <4>2. QED BY <3>2, <4>1
      <3>3. CASE new \notin S
        <4>1. S \in SUBSET DOMAIN G
          BY <1>4, <3>3
        <4>2. PICK x \in S : \A y \in S : x \notin G[y]
          BY <2>1, <3>1, <4>1 DEF Acyclic
        <4>3. QED BY <1>4, <4>1, <4>2
      <3>4. QED BY <3>2, <3>3
    <2>4. DOMAIN roots = DOMAIN nd /\ DOMAIN more = DOMAIN nd \union {c} /\ c \notin DOMAIN nd
      BY DEF WithNode, EndsOf
    <2>5. more[c] = {new} /\ (\A x \in DOMAIN nd : more[x] = roots[x])
      <3>1. nd2[c] = e /\ (\A x \in DOMAIN nd : nd2[x] = nd[x]) /\ DOMAIN nd2 = DOMAIN nd \union {c}
        BY DEF WithNode
      <3>2. QED BY <1>1, <3>1 DEF EndsOf
    <2>6. \A q \in DOMAIN sol : /\ after[q] = sol2[q].pointersToMe /\ count[q] = sol[q].pointersToMe
                                /\ count[q] \in Nat
      BY <1>1, <1>2 DEF Counts, IsPlans, SolutionStep
    <2>7. after[new] = 1
      BY <1>1 DEF Counts
    <2>8. ASSUME NEW x \in DOMAIN H
          PROVE  /\ Cardinality({y \in {new} : x \in H[y]}) = IF x = p THEN 1 ELSE 0
                 /\ x = new => x # p
      <3>1. x = new => x # p
        BY <1>1
      <3>2. CASE x = p
        <4>1. x # NoPlan
          BY <1>1, <1>3, <1>4, PrevFacts
        <4>2. {y \in {new} : x \in H[y]} = {new}
          BY <1>4, <3>2, <4>1
        <4>3. QED BY <3>1, <3>2, <4>2, FS_Singleton
      <3>3. CASE x # p
        <4>1. {y \in {new} : x \in H[y]} = {}
          BY <1>4, <3>3
        <4>2. QED BY <3>1, <3>3, <4>1, FS_EmptySet
      <3>4. QED BY <3>2, <3>3
    <2>9. \A x \in DOMAIN G : after[x] = count[x] + (IF x \in {new} THEN 1 ELSE 0)
                                         + Cardinality({y \in {new} : x \in H[y]})
      <3>1. SUFFICES ASSUME NEW x \in DOMAIN G
                     PROVE  after[x] = count[x] + (IF x \in {new} THEN 1 ELSE 0)
                                       + Cardinality({y \in {new} : x \in H[y]})
        OBVIOUS
      <3>2. x \in DOMAIN sol /\ x # new /\ x \in DOMAIN H
        BY <1>1, <1>4
      <3>3. Cardinality({y \in {new} : x \in H[y]}) = IF x = p THEN 1 ELSE 0
        BY <2>8, <3>2
      <3>4. after[x] = count[x] + (IF x = p THEN 1 ELSE 0) /\ count[x] \in Nat
        BY <1>1, <2>6, <3>2
      <3>5. QED BY <3>2, <3>3, <3>4
    <2>10. \A x \in {new} : /\ after[x] = (IF x \in {new} THEN 1 ELSE 0)
                                          + Cardinality({y \in {new} : x \in H[y]})
                            /\ after[x] # 0
      <3>1. Cardinality({y \in {new} : new \in H[y]}) = 0
        BY <1>4, <2>8
      <3>2. QED BY <2>7, <3>1
    <2>11. Widened(G, H, {new}, roots, more, c, {new})
      <3>1. H[new] \subseteq DOMAIN H
        BY <1>3, <1>4
      <3>2. IsFiniteSet({new})
        BY FS_Singleton
      <3> HIDE DEF G, H, roots, more
      <3>3. QED BY <1>1, <1>4, <2>4, <2>5, <3>1, <3>2 DEF Widened
    <2>12. CountsGrow(G, H, {new}, {new}, count, after)
      BY <2>9, <2>10 DEF CountsGrow
    <2>13. Shared(G, count, roots)
      BY <1>2
    <2> HIDE DEF G, H, count, after, roots, more
    <2>14. QED BY ONLY <2>3, <2>11, <2>12, <2>13, SharedAfterGrowth
  <1>7. AreChains(sol2)
    BY <1>5, <1>6 DEF AreChains, Shared
  <1>8. PlansAgree(sol2, sol)
    BY <1>1 DEF PlansAgree
  <1>9. QED BY <1>3, <1>5, <1>6, <1>7, <1>8 DEF PlansShared

\* Pointers are added to steps that stay what they are.
SameCaches(g, h) == /\ SameSteps(g, h)
                    /\ \A x \in DOMAIN h : g[x].reachableT = h[x].reachableT

\* Caches that were not touched are right as long as the steps are the same.
LEMMA SameCachesStay ==
  ASSUME NEW g, NEW h, SameCaches(g, h), IsGraph(Pointers(h)), CachesExact(h)
  PROVE  CachesExact(g) /\ Pointers(g) = Pointers(h)
  <1>1. Pointers(g) = Pointers(h)
    BY SamePointers DEF SameCaches
  <1>2. Agree(g, h)
    BY DEF Agree, SameCaches, SameSteps
  <1>3. \A x \in DOMAIN g : IF x \in DOMAIN h THEN g[x].reachableT = h[x].reachableT
                                              ELSE g[x].reachableT = NoReachability
    BY DEF SameCaches, SameSteps
  <1>4. IsGraph(Pointers(g))
    BY <1>1
  <1>5. CachesExact(g)
    BY <1>2, <1>3, <1>4, CachesStay
  <1>6. QED BY <1>1, <1>5

\* Progressing an action shares all steps with the parent.
AppliedHeap(h, T) == UpdateReachability(AddPointers(h, T, 1), T)

\* A child that shares all its steps with its parent leaves the heap exact.
LEMMA AppliedShared ==
  ASSUME NEW h, NEW nd, HeapShared(h, nd), NEW T, T \subseteq DOMAIN h,
         NEW c, NEW e, e.unconstraint = T, NEW nd2, WithNode(nd2, nd, c, e)
  PROVE  HeapShared(AppliedHeap(h, T), nd2) /\ SameSteps(AppliedHeap(h, T), h)
  <1> DEFINE h1 == AddPointers(h, T, 1)
             g == AppliedHeap(h, T)
             G == Pointers(h)
             count == Counts(h)
             after == Counts(g)
             roots == RootsOf(nd)
             more == RootsOf(nd2)
  <1>1. DOMAIN h \subseteq Address /\ IsHeap(h) /\ Shared(G, count, roots) /\ CachesExact(h)
    BY DEF HeapShared
  <1>2. IsGraph(G) /\ Acyclic(G)
    BY <1>1 DEF Shared
  <1>3. /\ IsHeap(h1) /\ SameCaches(h1, h)
        /\ \A x \in DOMAIN h : h1[x].pointersToMe = h[x].pointersToMe + (IF x \in T THEN 1 ELSE 0)
    BY <1>1, AddPointersFacts DEF SameCaches
  <1>4. CachesExact(h1) /\ Pointers(h1) = G
    <2> HIDE DEF h1
    <2>1. QED BY <1>1, <1>2, <1>3, SameCachesStay
  <1>5. IsHeap(g) /\ SameSteps(g, h1) /\ Counts(g) = Counts(h1) /\ CachesExact(g)
    <2>1. g = UpdateReachability(h1, T)
      BY DEF AppliedHeap
    <2>2. IsGraph(Pointers(h1)) /\ Acyclic(Pointers(h1))
      BY <1>2, <1>4
    <2> HIDE DEF g, h1
    <2>3. QED BY <1>3, <1>4, <2>1, <2>2, CachesUpdated
  <1>6. SameSteps(g, h) /\ Pointers(g) = G /\ DOMAIN g = DOMAIN h
    <2>1. SameSteps(g, h)
      BY <1>3, <1>5 DEF SameSteps, SameCaches
    <2> HIDE DEF g
    <2>2. QED BY <2>1, SamePointers DEF SameSteps
  <1>7. DOMAIN G = DOMAIN h /\ DOMAIN h1 = DOMAIN h
    BY <1>3 DEF Pointers, SameCaches, SameSteps
  <1>8. \A x \in DOMAIN G : after[x] = count[x] + (IF x \in T THEN 1 ELSE 0) /\ count[x] \in Nat
    <2> HIDE DEF h1, g
    <2>1. \A x \in DOMAIN h : after[x] = h1[x].pointersToMe /\ count[x] = h[x].pointersToMe
      BY <1>5, <1>7 DEF Counts
    <2>2. \A x \in DOMAIN h : h[x].pointersToMe \in Nat
      BY <1>1 DEF IsHeap, PlanStep
    <2>3. QED BY <1>3, <1>7, <2>1, <2>2
  <1>9. CountsGrow(G, G, {}, T, count, after)
    <2>1. \A x : Cardinality({y \in {} : x \in G[y]}) = 0
      <3>1. \A x : {y \in {} : x \in G[y]} = {}
        OBVIOUS
      <3>2. QED BY <3>1, FS_EmptySet
    <2> HIDE DEF G, after, count
    <2>2. QED BY <1>8, <2>1 DEF CountsGrow
  <1>10. Widened(G, G, {}, roots, more, c, T)
    <2>0. WithNode(nd2, nd, c, e) /\ e.unconstraint = T
      OBVIOUS
    <2>1. /\ DOMAIN roots = DOMAIN nd /\ DOMAIN more = DOMAIN nd \union {c} /\ c \notin DOMAIN nd
          /\ more[c] = T
          /\ \A n \in DOMAIN nd : more[n] = roots[n]
      BY ONLY <2>0 DEF WithNode, RootsOf
    <2>2. IsFiniteSet({})
      BY FS_EmptySet
    <2> HIDE DEF G, roots, more
    <2>3. QED BY <1>7, <2>1, <2>2 DEF Widened
  <1>11. Shared(G, after, more)
    <2> HIDE DEF G, count, after, roots, more
    <2>1. Acyclic(G) /\ Shared(G, count, roots)
      BY <1>1, <1>2
    <2>2. QED BY ONLY <1>9, <1>10, <2>1, SharedAfterGrowth
  <1>12. QED BY <1>1, <1>5, <1>6, <1>11 DEF HeapShared

\* A decomposition adds the steps of the method to them.
DecomposedHeap(h, s, m, inst, T) ==
  UpdateReachability(AddPointers(AddPointers(WithMethod(h, s, m, inst), T, 1),
                                 h[s].successorList, GainedPointers(m)), T)

WithMethodSteps(h1, g, h, s, m, inst, New, T) ==
  /\ h1 = WithMethod(h, s, m, inst) /\ HasMethod(h1, h, s, m, inst, New) /\ IsHeap(h1)
  /\ T \subseteq DOMAIN h1 /\ \A i \in FirstTasksOf(m) : inst[i] \in T
  /\ g = DecomposedHeap(h, s, m, inst, T)

\* So does a child with the steps of a method at new addresses.
LEMMA DecomposedShared ==
  ASSUME NEW h, NEW nd, HeapShared(h, nd), NEW s \in DOMAIN h, NEW m \in Method,
         NEW inst, IsAllocated(h, m, inst), NEW h1, NEW g, NEW New, NEW T,
         WithMethodSteps(h1, g, h, s, m, inst, New, T),
         NEW c, NEW e, e.unconstraint = T, NEW nd2, WithNode(nd2, nd, c, e)
  PROVE  HeapShared(g, nd2) /\ SameSteps(g, h1)
  <1> DEFINE S == h[s].successorList
             k == GainedPointers(m)
             h2 == AddPointers(h1, T, 1)
             h3 == AddPointers(h2, S, k)
             G == Pointers(h)
             H == Pointers(h1)
             count == Counts(h)
             after == Counts(g)
             roots == RootsOf(nd)
             more == RootsOf(nd2)
             Firsts == {inst[i] : i \in FirstTasksOf(m)}
             P(x) == Cardinality({y \in New : x \in H[y]})
  <1>00. /\ h1 = WithMethod(h, s, m, inst) /\ HasMethod(h1, h, s, m, inst, New) /\ IsHeap(h1)
         /\ T \subseteq DOMAIN h1 /\ \A i \in FirstTasksOf(m) : inst[i] \in T
         /\ g = DecomposedHeap(h, s, m, inst, T)
    BY DEF WithMethodSteps
  <1> USE <1>00
  <1>0. g = UpdateReachability(h3, T)
    BY DEF DecomposedHeap
  <1>1. DOMAIN h \subseteq Address /\ IsHeap(h) /\ Shared(G, count, roots) /\ CachesExact(h)
    BY DEF HeapShared
  <1>2. IsGraph(G) /\ Acyclic(G) /\ DOMAIN G = DOMAIN h /\ DOMAIN H = DOMAIN h1
    BY <1>1 DEF Shared, Pointers
  <1>3. /\ Replacing(G, H, New, Firsts, s)
        /\ \A x \in DOMAIN h : P(x) = IF x \in S THEN k ELSE 0
        /\ \A i \in Positions(m) : P(inst[i]) = Cardinality(Predecessors(m, i))
    <2>1. IsGraph(Pointers(h))
      BY <1>2
    <2> HIDE DEF G, H, Firsts
    <2>2. Firsts = {inst[i] : i \in FirstTasksOf(m)}
      BY DEF Firsts
    <2>3. s \in DOMAIN h /\ m \in Method /\ IsAllocated(h, m, inst) /\ HasMethod(h1, h, s, m, inst, New)
      OBVIOUS
    <2>4. /\ Replacing(Pointers(h), Pointers(h1), New, Firsts, s)
          /\ \A x \in DOMAIN h : Cardinality({y \in New : x \in Pointers(h1)[y]})
                                   = IF x \in h[s].successorList THEN GainedPointers(m) ELSE 0
          /\ \A i \in Positions(m) : Cardinality({y \in New : inst[i] \in Pointers(h1)[y]})
                                       = Cardinality(Predecessors(m, i))
      BY ONLY <2>1, <2>2, <2>3, MethodReplaces
    <2>5. QED BY <2>4 DEF G, H
  <1>4. IsGraph(H) /\ Acyclic(H)
    <2>1. s \in DOMAIN G
      BY <1>2
    <2> HIDE DEF G, H, Firsts
    <2>2. QED BY ONLY <1>2, <1>3, <2>1, ReplacingIsGraph
  <1>5. k \in Nat
    <2>1. IsFiniteSet(LastTasksOf(m))
      BY MethodFacts, FS_Subset DEF LastTasksOf
    <2>2. QED BY <2>1, FS_CardinalityType DEF GainedPointers
  <1>6. CachesExact(h1)
    <2>1. Agree(h1, h)
      BY DEF Agree, HasMethod
    <2>2. \A x \in DOMAIN h1 : IF x \in DOMAIN h THEN h1[x].reachableT = h[x].reachableT
                                                 ELSE h1[x].reachableT = NoReachability
      BY DEF HasMethod
    <2>3. IsGraph(Pointers(h)) /\ IsGraph(Pointers(h1))
      BY <1>2, <1>4
    <2>4. QED BY ONLY <1>1, <2>1, <2>2, <2>3, CachesStay
  <1>7. /\ IsHeap(h2) /\ SameCaches(h2, h1)
        /\ \A x \in DOMAIN h1 : h2[x].pointersToMe = h1[x].pointersToMe + (IF x \in T THEN 1 ELSE 0)
    BY AddPointersFacts DEF SameCaches
  <1>8. /\ IsHeap(h3) /\ SameCaches(h3, h2)
        /\ \A x \in DOMAIN h2 : h3[x].pointersToMe = h2[x].pointersToMe + (IF x \in S THEN k ELSE 0)
    <2> HIDE DEF h2, k, S
    <2>1. QED BY ONLY <1>5, <1>7, AddPointersFacts DEF SameCaches, h3
  <1>9. SameCaches(h3, h1) /\ DOMAIN h3 = DOMAIN h1 /\ DOMAIN h2 = DOMAIN h1
    BY ONLY <1>7, <1>8 DEF SameCaches, SameSteps
  <1>10. CachesExact(h3) /\ Pointers(h3) = H
    <2> HIDE DEF h3
    <2>1. QED BY <1>4, <1>6, <1>9, SameCachesStay
  <1>11. IsHeap(g) /\ SameSteps(g, h3) /\ Counts(g) = Counts(h3) /\ CachesExact(g)
    <2>1. IsGraph(Pointers(h3)) /\ Acyclic(Pointers(h3))
      BY <1>4, <1>10
    <2> HIDE DEF h3
    <2>2. QED BY ONLY <1>0, <1>8, <1>10, <2>1, CachesUpdated
  <1>12. SameSteps(g, h1) /\ Pointers(g) = H /\ DOMAIN g = DOMAIN h1
    <2>1. SameSteps(g, h1)
      BY ONLY <1>9, <1>11 DEF SameSteps, SameCaches
    <2>2. QED BY ONLY <2>1, SamePointers DEF SameSteps, H
  <1>13. \A x \in DOMAIN h1 : /\ after[x] = h1[x].pointersToMe + (IF x \in T THEN 1 ELSE 0)
                                            + (IF x \in S THEN k ELSE 0)
                              /\ h1[x].pointersToMe \in Nat
    <2> HIDE DEF h3, h2, k, S
    <2>1. \A x \in DOMAIN h1 : after[x] = h3[x].pointersToMe
      BY <1>9, <1>11 DEF Counts
    <2>2. \A x \in DOMAIN h1 : h1[x].pointersToMe \in Nat
      BY DEF IsHeap, PlanStep
    <2>3. QED BY <1>5, <1>7, <1>8, <1>9, <2>1, <2>2
  <1>14. DOMAIN h1 = DOMAIN h \union New /\ New \intersect DOMAIN h = {} /\ S \subseteq DOMAIN h
         /\ New \subseteq Address /\ New = {inst[i] : i \in Positions(m)}
         /\ (\A x \in DOMAIN h : h1[x] = h[x])
         /\ (\A i \in Positions(m) : h1[inst[i]].pointersToMe = Cardinality(Predecessors(m, i)))
    <2>1. S \subseteq DOMAIN h
      <3>1. G[s] = S
        BY DEF Pointers
      <3>2. QED BY <1>2, <3>1 DEF IsGraph
    <2>2. QED BY <2>1 DEF HasMethod
  <1>15. CountsGrow(G, H, New, T, count, after)
    <2>1. ASSUME NEW x \in DOMAIN G
          PROVE  after[x] = count[x] + (IF x \in T THEN 1 ELSE 0) + P(x)
      <3>1. x \in DOMAIN h /\ x \in DOMAIN h1 /\ h1[x] = h[x] /\ count[x] = h[x].pointersToMe
        BY <1>2, <1>14 DEF Counts
      <3>2. P(x) = IF x \in S THEN k ELSE 0
        BY <1>3, <3>1
      <3>3. /\ after[x] = h1[x].pointersToMe + (IF x \in T THEN 1 ELSE 0) + (IF x \in S THEN k ELSE 0)
            /\ h1[x].pointersToMe \in Nat
        BY <1>13, <3>1
      <3> HIDE DEF k, S, P, after, count
      <3>4. QED BY ONLY <1>5, <3>1, <3>2, <3>3
    <2>2. ASSUME NEW x \in New
          PROVE  after[x] = (IF x \in T THEN 1 ELSE 0) + P(x) /\ after[x] # 0
      <3>1. PICK i \in Positions(m) : x = inst[i]
        BY <1>14
      <3>2. x \in DOMAIN h1 /\ x \notin S
        BY <1>14
      <3>3. P(x) = Cardinality(Predecessors(m, i)) /\ h1[x].pointersToMe = Cardinality(Predecessors(m, i))
        BY <1>3, <1>14, <3>1
      <3>4. after[x] = h1[x].pointersToMe + (IF x \in T THEN 1 ELSE 0) /\ h1[x].pointersToMe \in Nat
        BY <1>13, <3>2
      <3>5. Predecessors(m, i) = {} => x \in T
        BY <3>1 DEF FirstTasksOf
      <3>6. Cardinality(Predecessors(m, i)) = 0 => Predecessors(m, i) = {}
        <4>1. IsFiniteSet(Predecessors(m, i))
          BY MethodFacts, FS_Subset DEF Predecessors
        <4>2. QED BY <4>1, FS_EmptySet
      <3> HIDE DEF P, after
      <3>7. QED BY ONLY <3>3, <3>4, <3>5, <3>6
    <2>3. QED BY <2>1, <2>2 DEF CountsGrow
  <1>16. Widened(G, H, New, roots, more, c, T)
    <2>0. WithNode(nd2, nd, c, e) /\ e.unconstraint = T
      OBVIOUS
    <2>1. /\ DOMAIN roots = DOMAIN nd /\ DOMAIN more = DOMAIN nd \union {c} /\ c \notin DOMAIN nd
          /\ more[c] = T
          /\ \A n \in DOMAIN nd : more[n] = roots[n]
      BY ONLY <2>0 DEF WithNode, RootsOf
    <2>2. /\ IsFiniteSet(New) /\ New \intersect DOMAIN G = {} /\ DOMAIN H = DOMAIN G \union New
          /\ \A x \in DOMAIN G : H[x] = G[x]
      BY <1>3 DEF Replacing
    <2>3. \A x \in New : H[x] \subseteq DOMAIN H
      BY <1>4, <2>2 DEF IsGraph
    <2>4. T \subseteq DOMAIN H
      BY <1>2
    <2> HIDE DEF G, H, roots, more
    <2>5. QED BY ONLY <2>1, <2>2, <2>3, <2>4 DEF Widened
  <1>17. Shared(H, after, more)
    <2> HIDE DEF G, H, count, after, roots, more
    <2>1. Acyclic(H) /\ Shared(G, count, roots)
      BY <1>1, <1>4
    <2>2. QED BY ONLY <1>15, <1>16, <2>1, SharedAfterGrowth
  <1>18. DOMAIN g \subseteq Address
    BY ONLY <1>1, <1>12, <1>14
  <1>19. Shared(Pointers(g), Counts(g), RootsOf(nd2))
    BY ONLY <1>12, <1>17
  <1>20. QED BY ONLY <1>11, <1>12, <1>18, <1>19 DEF HeapShared

\* What a node points to is allocated.
LEMMA NodeRefs ==
  ASSUME NEW h, NEW sol, NEW nd, HeapShared(h, nd), PlansShared(sol, nd), NEW n \in DOMAIN nd
  PROVE  /\ nd[n].unconstraint \subseteq DOMAIN h
         /\ nd[n].solution = NoPlan \/ nd[n].solution \in DOMAIN sol
         /\ IsHeap(h) /\ IsGraph(Pointers(h)) /\ Acyclic(Pointers(h)) /\ AreChains(sol)
         /\ CachesExact(h)
  <1>1. nd[n].unconstraint \subseteq DOMAIN h
    <2>1. RootsOf(nd)[n] \subseteq DOMAIN Pointers(h) /\ RootsOf(nd)[n] = nd[n].unconstraint
      BY DEF HeapShared, Shared, RootsOf
    <2>2. QED BY <2>1 DEF Pointers
  <1>2. nd[n].solution = NoPlan \/ nd[n].solution \in DOMAIN sol
    <2>1. EndsOf(nd)[n] \subseteq DOMAIN PlanPointers(sol) /\ EndsOf(nd)[n] = {nd[n].solution} \ {NoPlan}
      BY DEF PlansShared, Shared, EndsOf
    <2>2. QED BY <2>1 DEF PlanPointers
  <1>3. QED BY <1>1, <1>2 DEF HeapShared, PlansShared, Shared, AreChains

\* A node stays what it is when others come and go.
LEMMA NodeIsUndisturbed ==
  ASSUME NEW h, NEW sol, NEW nd, HeapShared(h, nd), PlansShared(sol, nd), NodesFit(h, sol, nd),
         NEW h2, NEW sol2, NEW nd2, HeapShared(h2, nd2), PlansShared(sol2, nd2),
         Agree(h2, h), PlansAgree(sol2, sol),
         NEW n, n \in DOMAIN nd /\ n \in DOMAIN nd2 /\ nd2[n] = nd[n]
  PROVE  /\ NodeFits(h2, sol2, nd[n])
         /\ ValueIn(h2, sol2, nd[n]) = ValueIn(h, sol, nd[n])
         /\ ApplicableTo(h2, nd[n]) = ApplicableTo(h, nd[n])
         /\ EffectLessFor(h2, nd[n]) = EffectLessFor(h, nd[n])
         /\ Primitives(h2, nd[n].unconstraint) = Primitives(h, nd[n].unconstraint)
         /\ Settled(h, nd[n]) <=> Settled(h2, nd[n])
  <1> DEFINE e == nd[n]
  <1>1. /\ e.unconstraint \subseteq DOMAIN h /\ IsGraph(Pointers(h)) /\ AreChains(sol)
        /\ e.solution = NoPlan \/ e.solution \in DOMAIN sol
    BY NodeRefs
  <1>2. /\ nd2[n].unconstraint \subseteq DOMAIN h2 /\ IsGraph(Pointers(h2)) /\ AreChains(sol2)
        /\ nd2[n].solution = NoPlan \/ nd2[n].solution \in DOMAIN sol2
    BY NodeRefs
  <1>3. /\ e.unconstraint \subseteq DOMAIN h2 \intersect DOMAIN h
        /\ e.solution = NoPlan \/ e.solution \in DOMAIN sol2 \intersect DOMAIN sol
    BY <1>1, <1>2
  <1>4. NodeFits(h, sol, e)
    BY DEF NodesFit
  <1>5. Agree(h2, h) /\ PlansAgree(sol2, sol)
    OBVIOUS
  <1> HIDE DEF e
  <1>6. /\ NodeFits(h2, sol2, e)
        /\ ValueIn(h2, sol2, e) = ValueIn(h, sol, e)
        /\ ApplicableTo(h2, e) = ApplicableTo(h, e)
        /\ EffectLessFor(h2, e) = EffectLessFor(h, e)
        /\ Primitives(h2, e.unconstraint) = Primitives(h, e.unconstraint)
        /\ Settled(h, e) <=> Settled(h2, e)
    BY ONLY <1>1, <1>2, <1>3, <1>4, <1>5, NodeStays
  <1>7. QED BY <1>6 DEF e

\* The plan of a child is its parent's and the new step.
LEMMA ExtendedPlan ==
  ASSUME NEW sol, NEW sol2, AreChains(sol), AreChains(sol2), PlansAgree(sol2, sol),
         NEW p, NEW t, NEW m, NEW new, IsExtended(sol2, sol, p, t, m, new),
         p = NoPlan \/ p \in DOMAIN sol
  PROVE  /\ PlanOf(sol2)[new] = Append(PlanOf(sol)[p], <<t, m>>)
         /\ Len(PlanOf(sol2)[new]) = Len(PlanOf(sol)[p]) + 1
         /\ Len(PlanOf(sol)[p]) \in Nat /\ CostOf(sol)[p] \in Nat
         /\ CostOf(sol2)[new] = CostOf(sol)[p] + (IF m = NoMethod THEN actionCosts[t] ELSE 0)
  <1>1. /\ DOMAIN sol2 = DOMAIN sol \union {new}
        /\ sol2[new] = [task |-> t, method |-> m, prev |-> p, pointersToMe |-> 1]
    BY DEF IsExtended
  <1>2. sol2[new].task = t /\ sol2[new].method = m /\ sol2[new].prev = p /\ new \in DOMAIN sol2
    BY <1>1
  <1>3. PlanOf(sol2)[p] = PlanOf(sol)[p] /\ CostOf(sol2)[p] = CostOf(sol)[p]
    <2> DEFINE C == DOMAIN sol
    <2>1. \A q \in C : sol[q].prev = NoPlan \/ sol[q].prev \in C
      BY PrevFacts
    <2>2. C \subseteq DOMAIN sol /\ C \subseteq DOMAIN sol2
      BY <1>1
    <2>3. \A q \in C : /\ sol2[q].task = sol[q].task /\ sol2[q].method = sol[q].method
                       /\ sol2[q].prev = sol[q].prev
                       /\ sol[q].prev = NoPlan \/ sol[q].prev \in C
      BY <2>1, <2>2 DEF PlansAgree
    <2>4. p \in C \union {NoPlan} /\ AreChains(sol) /\ AreChains(sol2)
      OBVIOUS
    <2> HIDE DEF C
    <2>5. \A q \in C \union {NoPlan} : PlanOf(sol2)[q] = PlanOf(sol)[q] /\ CostOf(sol2)[q] = CostOf(sol)[q]
      BY ONLY <2>2, <2>3, <2>4, PlanStays
    <2>6. QED BY <2>4, <2>5
  <1>4. /\ PlanOf(sol2)[new] = Append(PlanOf(sol)[p], <<t, m>>)
        /\ CostOf(sol2)[new] = CostOf(sol)[p] + CostOfStep(sol2[new])
    BY <1>2, <1>3, PlanUnfolds
  <1>5. PlanOf(sol)[p] \in Plans /\ CostOf(sol)[p] \in Nat
    BY PlanUnfolds, PrevFacts
  <1>6. Len(PlanOf(sol)[p]) \in Nat /\ Len(Append(PlanOf(sol)[p], <<t, m>>)) = Len(PlanOf(sol)[p]) + 1
    <2>1. <<t, m>> \in Task \X (Method \union {NoMethod})
      BY <1>2, PrevFacts
    <2>2. QED BY <1>5, <2>1 DEF Plans
  <1>7. CostOfStep(sol2[new]) = IF m = NoMethod THEN actionCosts[t] ELSE 0
    BY <1>2 DEF CostOfStep
  <1>8. QED BY <1>4, <1>5, <1>6, <1>7

\* A network and its counts are the same where the steps are.
LEMMA SameNetwork ==
  ASSUME NEW g, NEW h, SameSteps(g, h), NEW T, NEW M, IsNetwork(Pointers(h), T, M), NetworkIn(h, T) = M
  PROVE  /\ IsNetwork(Pointers(g), T, NetworkIn(g, T)) /\ NetworkIn(g, T) = M
         /\ \A x \in M : g[x].task = h[x].task
         /\ \A t : CountIn(g, M, t) = CountIn(h, M, t)
         /\ BeforeIn(g, M) = BeforeIn(h, M)
  <1>1. Pointers(g) = Pointers(h) /\ (\A S : Descendants(g, S) = Descendants(h, S))
    BY SamePointers
  <1>2. NetworkIn(g, T) = M
    BY <1>1 DEF NetworkIn
  <1>3. \A x \in M : g[x].task = h[x].task
    BY DEF SameSteps, IsNetwork, Pointers
  <1>4. \A t : CountIn(g, M, t) = CountIn(h, M, t)
    <2>1. \A t : {x \in M : g[x].task = t} = {x \in M : h[x].task = t}
      BY <1>3
    <2>2. QED BY <2>1 DEF CountIn
  <1>5. BeforeIn(g, M) = BeforeIn(h, M)
    BY <1>1 DEF BeforeIn
  <1>6. QED BY <1>1, <1>2, <1>3, <1>4, <1>5
-----------------------------------------------------------------------------
(* The child of an application: what its node and its plan say.            *)

AppliedChild(h, e, s, new) ==
  [unconstraint |-> ListAfter(h, e.unconstraint, s),
   state |-> Progressed(e.state, h[s].task),
   solution |-> new,
   contained |-> CounterA(e.contained, h[s].task),
   modificationDepth |-> e.modificationDepth + 1,
   mixedModificationDepth |-> e.mixedModificationDepth + actionCosts[h[s].task],
   actionCosts |-> e.actionCosts + actionCosts[h[s].task],
   goalReachable |-> TRUE]

IsAppliedChild(e, h, b, s, new) == e = AppliedChild(h, b, s, new)

IsApplied(w, v, s) == w = Values!Applied(v, s)

\* What the new solution step records: s and nothing else changes.
LEMMA AppliedFits ==
  ASSUME NEW h, NEW sol, NEW nd, Memory(h, sol, nd), NEW n \in DOMAIN nd,
         NEW s \in nd[n].unconstraint, h[s].task \in Primitive,
         NEW new, NEW sol2, IsExtended(sol2, sol, nd[n].solution, h[s].task, NoMethod, new),
         NEW e, IsAppliedChild(e, h, nd[n], s, new),
         NEW c \in NodeId, NEW nd2, WithNode(nd2, nd, c, e)
  PROVE  /\ Memory(AppliedHeap(h, e.unconstraint), sol2, nd2)
         /\ SameSteps(AppliedHeap(h, e.unconstraint), h) /\ PlansAgree(sol2, sol)
         /\ IsApplied(ValueIn(AppliedHeap(h, e.unconstraint), sol2, e), ValueIn(h, sol, nd[n]), s)
         /\ e.solution # NoPlan
  <1> DEFINE b == nd[n]
             a == h[s].task
             T == ListAfter(h, b.unconstraint, s)
             N == NetworkIn(h, b.unconstraint)
             M == N \ {s}
             g == AppliedHeap(h, T)
  <1>1. HeapShared(h, nd) /\ PlansShared(sol, nd) /\ NodesFit(h, sol, nd)
    BY DEF Memory
  <1>2. b \in SearchNode /\ NodeFits(h, sol, b) /\ DOMAIN nd \subseteq NodeId
    BY <1>1 DEF NodesFit
  <1>3. /\ b.unconstraint \subseteq DOMAIN h
        /\ b.solution = NoPlan \/ b.solution \in DOMAIN sol
        /\ IsHeap(h) /\ IsGraph(Pointers(h)) /\ Acyclic(Pointers(h)) /\ AreChains(sol)
    BY <1>1, NodeRefs
  <1>4. /\ e.unconstraint = T
        /\ e.state = Progressed(b.state, a)
        /\ e.solution = new
        /\ e.contained = CounterA(b.contained, a)
        /\ e.modificationDepth = b.modificationDepth + 1
        /\ e.mixedModificationDepth = b.mixedModificationDepth + actionCosts[a]
        /\ e.actionCosts = b.actionCosts + actionCosts[a]
        /\ e.goalReachable = TRUE
        /\ e = [unconstraint |-> e.unconstraint, state |-> e.state, solution |-> e.solution,
                contained |-> e.contained, modificationDepth |-> e.modificationDepth,
                mixedModificationDepth |-> e.mixedModificationDepth,
                actionCosts |-> e.actionCosts, goalReachable |-> e.goalReachable]
    BY DEF IsAppliedChild, AppliedChild
  <1>5. a \in Primitive /\ a \in Task /\ s \in DOMAIN h
    BY <1>3, ModelAssumption
  <1>6. /\ IsNetwork(Pointers(h), T, M) /\ NetworkIn(h, T) = M
        /\ CountsTasks(CounterA(b.contained, a), h, M)
        /\ BeforeIn(h, M) = PairsWithout(BeforeIn(h, N), s)
    <2> DEFINE uc == b.unconstraint
               count == b.contained
    <2>1. BeforeApplying(h, uc, N, s, count, T)
      BY <1>2 DEF BeforeApplying, CountsTasks, NodeFits, SearchNode
    <2> HIDE DEF uc, count, T, N, b
    <2>2. AfterApplying(h, N, s, count, T)
      BY ONLY <1>3, <2>1, AppliedValue
    <2>3. QED BY <2>2 DEF AfterApplying, count
  <1>7. T \subseteq DOMAIN h /\ M \subseteq DOMAIN h /\ N \subseteq DOMAIN h
    <2>1. DOMAIN Pointers(h) = DOMAIN h
      BY DEF Pointers
    <2>2. M \subseteq DOMAIN h /\ T \subseteq M
      BY <1>6, <2>1 DEF IsNetwork
    <2> HIDE DEF T, N, g
    <2>3. QED BY <1>5, <2>2
  <1>8. HeapShared(g, nd2) /\ SameSteps(g, h)
    <2> HIDE DEF T
    <2>1. WithNode(nd2, nd, c, e) /\ e.unconstraint = T
      BY <1>4
    <2>2. QED BY ONLY <1>1, <1>7, <2>1, AppliedShared DEF g
  <1>9. PlansShared(sol2, nd2) /\ AreChains(sol2) /\ PlansAgree(sol2, sol)
    <2>1. b.solution \in Nat
      BY <1>2 DEF SearchNode
    <2>2. /\ n \in DOMAIN nd /\ IsExtended(sol2, sol, nd[n].solution, a, NoMethod, new)
          /\ e.solution = new /\ WithNode(nd2, nd, c, e)
          /\ nd[n].solution = NoPlan \/ nd[n].solution \in DOMAIN sol
          /\ nd[n].solution \in Nat
          /\ NoMethod \in Method \union {NoMethod}
      BY <1>3, <1>4, <2>1
    <2> HIDE DEF a
    <2>3. QED BY ONLY <1>1, <1>5, <2>2, ExtendedShared
  <1>10. /\ IsNetwork(Pointers(g), T, NetworkIn(g, T)) /\ NetworkIn(g, T) = M
         /\ \A x \in M : g[x].task = h[x].task
         /\ \A t : CountIn(g, M, t) = CountIn(h, M, t)
         /\ BeforeIn(g, M) = BeforeIn(h, M)
    <2> HIDE DEF T, M, g
    <2>1. QED BY ONLY <1>6, <1>8, SameNetwork
  <1>11. /\ PlanOf(sol2)[new] = Append(PlanOf(sol)[b.solution], <<a, NoMethod>>)
         /\ Len(PlanOf(sol2)[new]) = Len(PlanOf(sol)[b.solution]) + 1
         /\ Len(PlanOf(sol)[b.solution]) \in Nat /\ CostOf(sol)[b.solution] \in Nat
         /\ CostOf(sol2)[new] = CostOf(sol)[b.solution] + actionCosts[a]
    <2> DEFINE p == b.solution
    <2>1. IsExtended(sol2, sol, p, a, NoMethod, new) /\ (p = NoPlan \/ p \in DOMAIN sol)
      BY <1>3
    <2> HIDE DEF p, a
    <2>2. /\ PlanOf(sol2)[new] = Append(PlanOf(sol)[p], <<a, NoMethod>>)
          /\ Len(PlanOf(sol2)[new]) = Len(PlanOf(sol)[p]) + 1
          /\ Len(PlanOf(sol)[p]) \in Nat /\ CostOf(sol)[p] \in Nat
          /\ CostOf(sol2)[new] = CostOf(sol)[p] + (IF NoMethod = NoMethod THEN actionCosts[a] ELSE 0)
      BY ONLY <1>3, <1>9, <2>1, ExtendedPlan
    <2>3. QED BY <2>2 DEF p
  <1>12. e \in SearchNode
    <2>1. T \in SUBSET Address
      BY <1>1, <1>7 DEF HeapShared
    <2>2. Progressed(b.state, a) \in SUBSET Fact
      <3>1. addLists[a] \in SUBSET Fact /\ b.state \in SUBSET Fact
        BY <1>2, <1>5, ModelAssumption DEF SearchNode
      <3>2. QED BY <3>1 DEF Progressed
    <2>3. new \in Nat
      BY DEF IsExtended
    <2>4. actionCosts[a] \in Nat
      BY <1>5, ModelAssumption
    <2>5. b.modificationDepth \in Nat /\ b.mixedModificationDepth \in Nat /\ b.actionCosts \in Nat
      BY <1>2 DEF SearchNode
    <2>6. b.modificationDepth + 1 \in Nat /\ b.mixedModificationDepth + actionCosts[a] \in Nat
          /\ b.actionCosts + actionCosts[a] \in Nat
      BY <2>4, <2>5
    <2> HIDE DEF T, M, a, b
    <2>7. QED BY ONLY <1>4, <1>6, <2>1, <2>2, <2>3, <2>6 DEF SearchNode, CountsTasks
  <1>13. NodeFits(g, sol2, e)
    <2>1. \A t \in Task : e.contained[t] = CountIn(g, NetworkIn(g, T), t)
      BY ONLY <1>4, <1>6, <1>10 DEF CountsTasks
    <2>2. e.modificationDepth = Len(PlanOf(sol2)[e.solution]) /\ e.actionCosts = CostOf(sol2)[e.solution]
      <3>1. b.modificationDepth = Len(PlanOf(sol)[b.solution]) /\ b.actionCosts = CostOf(sol)[b.solution]
        BY <1>2 DEF NodeFits
      <3> HIDE DEF T, g, a, b
      <3>2. QED BY ONLY <1>4, <1>11, <3>1
    <2>3. e.unconstraint = T
      BY <1>4
    <2> HIDE DEF T, g
    <2>4. QED BY ONLY <1>10, <2>1, <2>2, <2>3 DEF NodeFits
  <1>14. NodesFit(g, sol2, nd2)
    <2>1. nd2[c] = e /\ (\A x \in DOMAIN nd : nd2[x] = nd[x]) /\ DOMAIN nd2 = DOMAIN nd \union {c}
      BY DEF WithNode
    <2>2. ASSUME NEW x \in DOMAIN nd
          PROVE  nd2[x] \in SearchNode /\ NodeFits(g, sol2, nd2[x])
      <3>1. Agree(g, h)
        BY <1>8 DEF Agree, SameSteps
      <3>2. x \in DOMAIN nd /\ x \in DOMAIN nd2 /\ nd2[x] = nd[x]
        BY <2>1
      <3> HIDE DEF g
      <3>3. NodeFits(g, sol2, nd[x])
        BY ONLY <1>1, <1>8, <1>9, <3>1, <3>2, NodeIsUndisturbed
      <3>4. nd[x] \in SearchNode
        BY <1>1 DEF NodesFit
      <3>5. QED BY <3>2, <3>3, <3>4
    <2>3. DOMAIN nd2 \subseteq NodeId
      BY <1>2, <2>1
    <2> HIDE DEF g
    <2>4. QED BY ONLY <1>12, <1>13, <2>1, <2>2, <2>3 DEF NodesFit
  <1>15. IsApplied(ValueIn(g, sol2, e), ValueIn(h, sol, b), s)
    <2> DEFINE v == ValueIn(h, sol, b)
    <2>1. /\ v.task = [x \in N |-> h[x].task] /\ v.before = BeforeIn(h, N)
          /\ v.state = b.state /\ v.plan = PlanOf(sol)[b.solution]
      BY DEF ValueIn
    <2>2. DOMAIN v.task = N /\ s \in N /\ v.task[s] = a
      <3>1. s \in N
        BY DEF NetworkIn
      <3>2. QED BY <2>1, <3>1
    <2>3. [x \in NetworkIn(g, T) |-> g[x].task] = [x \in N \ {s} |-> v.task[x]]
      BY <1>10, <2>1
    <2>4. ValueIn(g, sol2, e) = [task |-> [x \in NetworkIn(g, T) |-> g[x].task],
                                 before |-> BeforeIn(g, M),
                                 state |-> Progressed(b.state, a),
                                 plan |-> PlanOf(sol2)[new]]
      BY <1>4, <1>10 DEF ValueIn
    <2>5. Values!Applied(v, s) = [task |-> [x \in N \ {s} |-> v.task[x]],
                                  before |-> PairsWithout(BeforeIn(h, N), s),
                                  state |-> Progressed(b.state, a),
                                  plan |-> Append(PlanOf(sol)[b.solution], <<a, NoMethod>>)]
      BY <2>1, <2>2 DEF Values!Applied, Values!Steps, Values!Progressed, Progressed,
                        Values!NoMethod, NoMethod, PairsWithout
    <2> HIDE DEF v, g, T, N, M, a, b
    <2>6. BeforeIn(g, M) = PairsWithout(BeforeIn(h, N), s)
      BY ONLY <1>6, <1>10
    <2>7. PlanOf(sol2)[new] = Append(PlanOf(sol)[b.solution], <<a, NoMethod>>)
      BY ONLY <1>11
    <2>8. ValueIn(g, sol2, e) = Values!Applied(v, s)
      BY ONLY <2>3, <2>4, <2>5, <2>6, <2>7
    <2>9. QED BY <2>8 DEF v, IsApplied
  <1>16. e.solution # NoPlan
    BY <1>4 DEF IsExtended
  <1>17. g = AppliedHeap(h, e.unconstraint)
    BY <1>4
  <1> HIDE DEF g, b
  <1>18. Memory(g, sol2, nd2)
    BY <1>8, <1>9, <1>14 DEF Memory
  <1>19. SameSteps(g, h) /\ PlansAgree(sol2, sol)
    BY <1>8, <1>9
  <1>20. QED BY ONLY <1>15, <1>16, <1>17, <1>18, <1>19 DEF b
-----------------------------------------------------------------------------
(* The child of a decomposition: what its node and its plan say.           *)

DecomposedChild(h, e, s, m, inst, new) ==
  [unconstraint |-> (e.unconstraint \ {s}) \union {inst[i] : i \in FirstTasksOf(m)},
   state |-> e.state,
   solution |-> new,
   contained |-> CounterM(e.contained, m),
   modificationDepth |-> e.modificationDepth + 1,
   mixedModificationDepth |-> e.mixedModificationDepth + 1,
   actionCosts |-> e.actionCosts,
   goalReachable |-> TRUE]

\* Its network as a value.
DecomposedParts(h, sol, b, s, N, m, inst, h1, New, M, g, T, sol2, new, e) ==
  /\ N = NetworkIn(h, b.unconstraint) /\ s \in N /\ N \subseteq DOMAIN h
  /\ HasMethod(h1, h, s, m, inst, New) /\ InPlaceOf(M, N, s, New)
  /\ \A x \in M : g[x].task = h1[x].task
  /\ NetworkIn(g, T) = M /\ BeforeIn(g, M) = DecomposedBefore(h, N, s, m, inst, New)
  /\ PlanOf(sol2)[new] = Append(PlanOf(sol)[b.solution], <<h[s].task, m>>)
  /\ e.unconstraint = T /\ e.state = b.state /\ e.solution = new

IsDecomposedChild(e, h, b, s, m, inst, new) == e = DecomposedChild(h, b, s, m, inst, new)

IsDecomposed(w, v, s, m, inst) == w = Values!Decomposed(v, s, m, inst)

\* The child of a decomposition is what TaskNetwork makes of the parent.
LEMMA DecomposedIsValue ==
  ASSUME NEW h, NEW sol, NEW b, NEW s, NEW N, NEW m \in Method, NEW inst, IsAllocated(h, m, inst),
         NEW h1, NEW New, NEW M, NEW g, NEW T, NEW sol2, NEW new, NEW e,
         DecomposedParts(h, sol, b, s, N, m, inst, h1, New, M, g, T, sol2, new, e)
  PROVE  IsDecomposed(ValueIn(g, sol2, e), ValueIn(h, sol, b), s, m, inst)
  <1> USE DEF DecomposedParts
  <1> DEFINE v == ValueIn(h, sol, b)
  <1>1. /\ v.task = [x \in N |-> h[x].task] /\ v.before = BeforeIn(h, N)
        /\ v.state = b.state /\ v.plan = PlanOf(sol)[b.solution]
    BY DEF ValueIn
  <1>2. DOMAIN v.task = N /\ v.task[s] = h[s].task
    BY <1>1
  <1>3. New = {inst[i] : i \in Positions(m)} /\ New \intersect DOMAIN h = {} /\ M = (N \ {s}) \union New
    BY DEF HasMethod, InPlaceOf
  <1> DEFINE task == [x \in (N \ {s}) \union New |->
                        IF x \in New THEN subTasks[m][CHOOSE i \in Positions(m) : inst[i] = x]
                        ELSE v.task[x]]
  <1>4. [x \in NetworkIn(g, T) |-> g[x].task] = task
    <2>1. ASSUME NEW x \in M
          PROVE  g[x].task = task[x]
      <3>1. CASE x \in New
        <4>1. PICK i \in Positions(m) : x = inst[i]
          BY <1>3, <3>1
        <4> DEFINE k == CHOOSE j \in Positions(m) : inst[j] = x
        <4>2. k \in Positions(m) /\ inst[k] = x
          BY <4>1
        <4>3. k = i
          BY <4>1, <4>2 DEF IsAllocated
        <4>4. h1[x].task = subTasks[m][i]
          BY <4>1 DEF HasMethod
        <4>5. task[x] = subTasks[m][k]
          BY <3>1
        <4>6. QED BY <2>1, <4>3, <4>4, <4>5
      <3>2. CASE x \notin New
        <4>1. x \in N \ {s} /\ x \in DOMAIN h
          BY <1>3, <2>1, <3>2
        <4>2. h1[x] = h[x]
          BY <4>1 DEF HasMethod
        <4>3. QED BY <1>1, <2>1, <3>2, <4>1, <4>2
      <3>3. QED BY <3>1, <3>2
    <2>2. task = [x \in M |-> task[x]]
      BY <1>3
    <2> HIDE DEF task
    <2>3. QED BY <2>1, <2>2
  <1>5. Values!Decomposed(v, s, m, inst) = [task |-> task,
                                            before |-> DecomposedBefore(h, N, s, m, inst, New),
                                            state |-> b.state,
                                            plan |-> Append(PlanOf(sol)[b.solution], <<h[s].task, m>>)]
    <2> DEFINE P == {inst[i] : i \in Positions(m)}
    <2>1. Values!Positions(m) = Positions(m)
      BY DEF Values!Positions, Positions
    <2>2. Values!Decomposed(v, s, m, inst)
            = [task |-> [x \in (DOMAIN v.task \ {s}) \union P |->
                           IF x \in P THEN subTasks[m][CHOOSE i \in Positions(m) : inst[i] = x]
                           ELSE v.task[x]],
               before |-> {d \in v.before : d[1] # s}
                          \union {<<inst[d[1]], inst[d[2]]>> : d \in Orders(m)}
                          \union {<<xe[1], xe[2][2]>> : xe \in P \X {d \in v.before : d[1] = s}},
               state |-> v.state,
               plan |-> Append(v.plan, <<v.task[s], m>>)]
      BY <2>1 DEF Values!Decomposed, Values!Steps, Orders
    <2>3. P = New
      BY <1>3
    <2> HIDE DEF v, P
    <2>4. QED BY <1>1, <1>2, <2>2, <2>3 DEF DecomposedBefore
  <1>6. ValueIn(g, sol2, e) = [task |-> [x \in NetworkIn(g, T) |-> g[x].task],
                               before |-> BeforeIn(g, M), state |-> b.state, plan |-> PlanOf(sol2)[new]]
    BY DEF ValueIn
  <1> HIDE DEF task, v
  <1>7. ValueIn(g, sol2, e) = Values!Decomposed(v, s, m, inst)
    BY <1>4, <1>5, <1>6
  <1>8. QED BY <1>7 DEF v, IsDecomposed

\* What the new solution step records: m replaces s and nothing else changes.
LEMMA DecomposedFits ==
  ASSUME NEW h, NEW sol, NEW nd, Memory(h, sol, nd), NEW n \in DOMAIN nd,
         NEW s \in nd[n].unconstraint, NEW m \in Method, h[s].task = decomposedTask[m],
         NEW inst, IsAllocated(h, m, inst),
         NEW new, NEW sol2, IsExtended(sol2, sol, nd[n].solution, h[s].task, m, new),
         NEW e, IsDecomposedChild(e, h, nd[n], s, m, inst, new),
         NEW c \in NodeId, NEW nd2, WithNode(nd2, nd, c, e)
  PROVE  /\ Memory(DecomposedHeap(h, s, m, inst, e.unconstraint), sol2, nd2)
         /\ Agree(DecomposedHeap(h, s, m, inst, e.unconstraint), h) /\ PlansAgree(sol2, sol)
         /\ SameSteps(DecomposedHeap(h, s, m, inst, e.unconstraint), WithMethod(h, s, m, inst))
         /\ IsDecomposed(ValueIn(DecomposedHeap(h, s, m, inst, e.unconstraint), sol2, e),
                         ValueIn(h, sol, nd[n]), s, m, inst)
         /\ e.solution # NoPlan
  <1> DEFINE b == nd[n]
             t == h[s].task
             New == {inst[i] : i \in Positions(m)}
             T == (b.unconstraint \ {s}) \union {inst[i] : i \in FirstTasksOf(m)}
             N == NetworkIn(h, b.unconstraint)
             M == (N \ {s}) \union New
             h1 == WithMethod(h, s, m, inst)
             g == DecomposedHeap(h, s, m, inst, T)
  <1>1. HeapShared(h, nd) /\ PlansShared(sol, nd) /\ NodesFit(h, sol, nd)
    BY DEF Memory
  <1>2. b \in SearchNode /\ NodeFits(h, sol, b) /\ DOMAIN nd \subseteq NodeId
    BY <1>1 DEF NodesFit
  <1>3. /\ b.unconstraint \subseteq DOMAIN h
        /\ b.solution = NoPlan \/ b.solution \in DOMAIN sol
        /\ IsHeap(h) /\ IsGraph(Pointers(h)) /\ Acyclic(Pointers(h)) /\ AreChains(sol)
    BY <1>1, NodeRefs
  <1>4. /\ e.unconstraint = T
        /\ e.state = b.state
        /\ e.solution = new
        /\ e.contained = CounterM(b.contained, m)
        /\ e.modificationDepth = b.modificationDepth + 1
        /\ e.mixedModificationDepth = b.mixedModificationDepth + 1
        /\ e.actionCosts = b.actionCosts
        /\ e.goalReachable = TRUE
        /\ e = [unconstraint |-> e.unconstraint, state |-> e.state, solution |-> e.solution,
                contained |-> e.contained, modificationDepth |-> e.modificationDepth,
                mixedModificationDepth |-> e.mixedModificationDepth,
                actionCosts |-> e.actionCosts, goalReachable |-> e.goalReachable]
    BY DEF IsDecomposedChild, DecomposedChild
  <1>5. t \in Task /\ s \in DOMAIN h /\ m # NoMethod
    BY <1>3, MethodFacts, MemoryAssumption
  <1>6. HasMethod(h1, h, s, m, inst, New) /\ IsHeap(h1)
    <2>1. s \in DOMAIN h
      BY <1>5
    <2>2. QED BY <1>3, <2>1, WithMethodFacts
  <1>7. BeforeDecomposing(h, b.unconstraint, N, s, m, inst, New, T, M)
    BY <1>2 DEF BeforeDecomposing, NodeFits, InPlaceOf
  <1>8. AfterDecomposing(h1, h, N, s, m, inst, New, T, M)
    <2> DEFINE uc == b.unconstraint
    <2> HIDE DEF uc, N, New, T, M, h1
    <2>1. BeforeDecomposing(h, uc, N, s, m, inst, New, T, M)
      BY <1>7 DEF uc
    <2>2. m \in Method /\ IsAllocated(h, m, inst)
      OBVIOUS
    <2>3. QED BY ONLY <1>3, <1>6, <2>1, <2>2, DecomposedValue
  <1>9. /\ N \subseteq DOMAIN h /\ IsFiniteSet(N) /\ s \in N /\ InPlaceOf(M, N, s, New)
        /\ T \subseteq M /\ M \subseteq DOMAIN h1 /\ DOMAIN h \subseteq DOMAIN h1
    <2>1. N \subseteq DOMAIN h /\ s \in N
      BY <1>2, PointersOf DEF NodeFits, IsNetwork, NetworkIn
    <2>2. IsFiniteSet(N)
      BY <1>3, <2>1, PointersOf, FS_Subset DEF IsGraph
    <2>3. T \subseteq M /\ M \subseteq DOMAIN h1
      <3> HIDE DEF T, M, h1, New
      <3>1. QED BY <1>8, PointersOf DEF AfterDecomposing, IsNetwork
    <2>4. DOMAIN h \subseteq DOMAIN h1
      BY <1>6 DEF HasMethod
    <2> HIDE DEF T, N, New, h1
    <2>5. QED BY <2>1, <2>2, <2>3, <2>4 DEF InPlaceOf
  <1>10. WithMethodSteps(h1, g, h, s, m, inst, New, T)
    <2>1. T \subseteq DOMAIN h1 /\ \A i \in FirstTasksOf(m) : inst[i] \in T
      <3>1. \A i \in FirstTasksOf(m) : inst[i] \in T
        OBVIOUS
      <3> HIDE DEF T, M, h1
      <3>2. QED BY <1>9, <3>1
    <2>2. h1 = WithMethod(h, s, m, inst) /\ g = DecomposedHeap(h, s, m, inst, T)
      OBVIOUS
    <2> HIDE DEF T, M, h1, New, g
    <2>3. QED BY <1>6, <2>1, <2>2 DEF WithMethodSteps
  <1>11. HeapShared(g, nd2) /\ SameSteps(g, h1)
    <2> HIDE DEF T, h1, New, g
    <2>1. WithNode(nd2, nd, c, e) /\ e.unconstraint = T /\ m \in Method /\ IsAllocated(h, m, inst)
      BY <1>4
    <2>2. QED BY ONLY <1>1, <1>5, <1>10, <2>1, DecomposedShared
  <1>12. PlansShared(sol2, nd2) /\ AreChains(sol2) /\ PlansAgree(sol2, sol)
    <2>1. b.solution \in Nat
      BY <1>2 DEF SearchNode
    <2>2. /\ n \in DOMAIN nd /\ IsExtended(sol2, sol, nd[n].solution, t, m, new)
          /\ e.solution = new /\ WithNode(nd2, nd, c, e)
          /\ nd[n].solution = NoPlan \/ nd[n].solution \in DOMAIN sol
          /\ nd[n].solution \in Nat
          /\ m \in Method \union {NoMethod}
          /\ m = NoMethod => t \in Primitive
      BY <1>3, <1>4, <1>5, <2>1
    <2> HIDE DEF t
    <2>3. QED BY ONLY <1>1, <1>5, <2>2, ExtendedShared
  <1>13. /\ IsNetwork(Pointers(g), T, NetworkIn(g, T)) /\ NetworkIn(g, T) = M
         /\ \A x \in M : g[x].task = h1[x].task
         /\ \A y : CountIn(g, M, y) = CountIn(h1, M, y)
         /\ BeforeIn(g, M) = BeforeIn(h1, M)
    <2> HIDE DEF T, M, g, h1, New, N
    <2>1. IsNetwork(Pointers(h1), T, M) /\ NetworkIn(h1, T) = M
      BY <1>8 DEF AfterDecomposing
    <2>2. QED BY ONLY <1>11, <2>1, SameNetwork
  <1>14. CountsTasks(CounterM(b.contained, m), h1, M)
    <2> DEFINE count == b.contained
    <2>1. CountsTasks(count, h, N)
      BY <1>2 DEF CountsTasks, NodeFits, SearchNode
    <2>2. m \in Method /\ IsAllocated(h, m, inst) /\ h[s].task = decomposedTask[m]
      OBVIOUS
    <2> HIDE DEF count, N, M, New, h1
    <2>3. CountsTasks(CounterM(count, m), h1, M)
      BY ONLY <1>6, <1>9, <2>1, <2>2, DecomposedCounts
    <2>4. QED BY <2>3 DEF count
  <1>15. /\ PlanOf(sol2)[new] = Append(PlanOf(sol)[b.solution], <<t, m>>)
         /\ Len(PlanOf(sol2)[new]) = Len(PlanOf(sol)[b.solution]) + 1
         /\ Len(PlanOf(sol)[b.solution]) \in Nat /\ CostOf(sol)[b.solution] \in Nat
         /\ CostOf(sol2)[new] = CostOf(sol)[b.solution]
    <2> DEFINE p == b.solution
    <2>1. IsExtended(sol2, sol, p, t, m, new) /\ (p = NoPlan \/ p \in DOMAIN sol)
      BY <1>3
    <2> HIDE DEF p, t
    <2>2. /\ PlanOf(sol2)[new] = Append(PlanOf(sol)[p], <<t, m>>)
          /\ Len(PlanOf(sol2)[new]) = Len(PlanOf(sol)[p]) + 1
          /\ Len(PlanOf(sol)[p]) \in Nat /\ CostOf(sol)[p] \in Nat
          /\ CostOf(sol2)[new] = CostOf(sol)[p] + (IF m = NoMethod THEN actionCosts[t] ELSE 0)
      BY ONLY <1>3, <1>12, <2>1, ExtendedPlan
    <2>3. QED BY <1>5, <2>2 DEF p
  <1>16. e \in SearchNode
    <2>1. T \in SUBSET Address
      <3>1. DOMAIN g \subseteq Address /\ DOMAIN g = DOMAIN h1
        BY <1>11 DEF HeapShared, SameSteps
      <3> HIDE DEF T, M, g, h1
      <3>2. QED BY <1>9, <3>1
    <2>2. b.state \in SUBSET Fact /\ b.actionCosts \in Nat
          /\ b.modificationDepth \in Nat /\ b.mixedModificationDepth \in Nat
      BY <1>2 DEF SearchNode
    <2>3. new \in Nat
      BY DEF IsExtended
    <2>4. b.modificationDepth + 1 \in Nat /\ b.mixedModificationDepth + 1 \in Nat
      BY <2>2
    <2> HIDE DEF T, M, b, h1, g, New, N
    <2>5. CounterM(b.contained, m) \in [Task -> Nat]
      BY <1>14 DEF CountsTasks
    <2>6. QED BY ONLY <1>4, <2>1, <2>2, <2>3, <2>4, <2>5 DEF SearchNode
  <1>17. NodeFits(g, sol2, e)
    <2> HIDE DEF T, g, t, b, N, M, New, h1
    <2>1. \A y \in Task : e.contained[y] = CountIn(g, NetworkIn(g, T), y)
      BY ONLY <1>4, <1>13, <1>14 DEF CountsTasks
    <2>2. e.modificationDepth = Len(PlanOf(sol2)[e.solution]) /\ e.actionCosts = CostOf(sol2)[e.solution]
      <3>1. b.modificationDepth = Len(PlanOf(sol)[b.solution]) /\ b.actionCosts = CostOf(sol)[b.solution]
        BY <1>2 DEF NodeFits
      <3>2. QED BY ONLY <1>4, <1>15, <3>1
    <2>3. e.unconstraint = T
      BY <1>4
    <2>4. QED BY ONLY <1>13, <2>1, <2>2, <2>3 DEF NodeFits
  <1>18. Agree(g, h)
    <2> HIDE DEF g, h1, New
    <2>1. QED BY <1>6, <1>11 DEF Agree, SameSteps, HasMethod
  <1>19. NodesFit(g, sol2, nd2)
    <2>1. nd2[c] = e /\ (\A x \in DOMAIN nd : nd2[x] = nd[x]) /\ DOMAIN nd2 = DOMAIN nd \union {c}
      BY DEF WithNode
    <2>2. ASSUME NEW x \in DOMAIN nd
          PROVE  nd2[x] \in SearchNode /\ NodeFits(g, sol2, nd2[x])
      <3>1. x \in DOMAIN nd /\ x \in DOMAIN nd2 /\ nd2[x] = nd[x]
        BY <2>1
      <3> HIDE DEF g
      <3>2. NodeFits(g, sol2, nd[x])
        BY ONLY <1>1, <1>11, <1>12, <1>18, <3>1, NodeIsUndisturbed
      <3>3. nd[x] \in SearchNode
        BY <1>1 DEF NodesFit
      <3>4. QED BY <3>1, <3>2, <3>3
    <2>3. DOMAIN nd2 \subseteq NodeId
      BY <1>2, <2>1
    <2> HIDE DEF g
    <2>4. QED BY ONLY <1>16, <1>17, <2>1, <2>2, <2>3 DEF NodesFit
  <1>20. IsDecomposed(ValueIn(g, sol2, e), ValueIn(h, sol, b), s, m, inst)
    <2>1. N = NetworkIn(h, b.unconstraint)
      OBVIOUS
    <2>2. PlanOf(sol2)[new] = Append(PlanOf(sol)[b.solution], <<h[s].task, m>>)
      BY <1>15
    <2>3. m \in Method /\ IsAllocated(h, m, inst)
      OBVIOUS
    <2> HIDE DEF b, t, New, T, N, M, h1, g
    <2>4. BeforeIn(g, M) = DecomposedBefore(h, N, s, m, inst, New)
      BY ONLY <1>8, <1>13 DEF AfterDecomposing
    <2>5. DecomposedParts(h, sol, b, s, N, m, inst, h1, New, M, g, T, sol2, new, e)
      BY ONLY <1>4, <1>6, <1>9, <1>13, <2>1, <2>2, <2>4 DEF DecomposedParts
    <2>6. QED BY ONLY <2>3, <2>5, DecomposedIsValue
  <1>21. e.solution # NoPlan
    BY <1>4 DEF IsExtended
  <1>22. g = DecomposedHeap(h, s, m, inst, e.unconstraint)
    BY <1>4
  <1>23. h1 = WithMethod(h, s, m, inst)
    OBVIOUS
  <1> HIDE DEF g, b, h1
  <1>24. Memory(g, sol2, nd2)
    BY <1>11, <1>12, <1>19 DEF Memory
  <1>25. Agree(g, h) /\ PlansAgree(sol2, sol) /\ SameSteps(g, h1)
    BY <1>11, <1>12, <1>18
  <1>26. QED BY ONLY <1>20, <1>21, <1>22, <1>23, <1>24, <1>25 DEF b
-----------------------------------------------------------------------------
(* A node that goes.                                                       *)

IsDropped(h2, h, sol2, sol, nd2, nd, n) ==
  /\ h2 = Release(h, nd[n].unconstraint)
  /\ sol2 = ReleasePlan(sol, {nd[n].solution} \ {NoPlan})
  /\ nd2 = Without(nd, {n})

\* What is left is exact, and no other node loses anything.
LEMMA DroppedFits ==
  ASSUME NEW h, NEW sol, NEW nd, Memory(h, sol, nd), NEW n \in DOMAIN nd,
         NEW h2, NEW sol2, NEW nd2, IsDropped(h2, h, sol2, sol, nd2, nd, n)
  PROVE  Memory(h2, sol2, nd2) /\ Agree(h2, h) /\ PlansAgree(sol2, sol)
  <1>1. HeapShared(h, nd) /\ PlansShared(sol, nd) /\ NodesFit(h, sol, nd)
    BY DEF Memory
  <1>2. /\ h2 = Release(h, RootsOf(nd)[n]) /\ n \in DOMAIN RootsOf(nd)
        /\ sol2 = ReleasePlan(sol, EndsOf(nd)[n]) /\ n \in DOMAIN EndsOf(nd)
    BY DEF IsDropped, RootsOf, EndsOf
  <1>3. DOMAIN nd2 = DOMAIN nd \ {n} /\ \A x \in DOMAIN nd2 : nd2[x] = nd[x]
    BY DEF IsDropped, Without
  <1>4. Dropped(RootsOf(nd), {n}) = RootsOf(nd2) /\ Dropped(EndsOf(nd), {n}) = EndsOf(nd2)
    <2>1. Dropped(RootsOf(nd), {n}) = [x \in DOMAIN nd2 |-> nd[x].unconstraint]
      BY <1>3 DEF Dropped, RootsOf
    <2>2. Dropped(EndsOf(nd), {n}) = [x \in DOMAIN nd2 |-> {nd[x].solution} \ {NoPlan}]
      BY <1>3 DEF Dropped, EndsOf
    <2>3. QED BY <1>3, <2>1, <2>2 DEF RootsOf, EndsOf
  <1>5. /\ DOMAIN h2 \subseteq DOMAIN h
        /\ IsHeap(h2)
        /\ \A x \in DOMAIN h2 : /\ h2[x].task = h[x].task
                                /\ h2[x].successorList = h[x].successorList
                                /\ h2[x].reachableT = h[x].reachableT
        /\ Shared(Pointers(h2), Counts(h2), RootsOf(nd2))
    <2> DEFINE roots == RootsOf(nd)
    <2>1. IsHeap(h) /\ Shared(Pointers(h), Counts(h), roots) /\ n \in DOMAIN roots
          /\ h2 = Release(h, roots[n])
      BY <1>1, <1>2 DEF HeapShared
    <2> HIDE DEF roots
    <2>2. /\ DOMAIN h2 \subseteq DOMAIN h
          /\ IsHeap(h2)
          /\ \A x \in DOMAIN h2 : /\ h2[x].task = h[x].task
                                  /\ h2[x].successorList = h[x].successorList
                                  /\ h2[x].reachableT = h[x].reachableT
          /\ Shared(Pointers(h2), Counts(h2), Dropped(roots, {n}))
      BY ONLY <2>1, ReleaseFacts
    <2>3. Dropped(roots, {n}) = RootsOf(nd2)
      BY <1>4 DEF roots
    <2>4. QED BY ONLY <2>2, <2>3
  <1>6. /\ DOMAIN sol2 \subseteq DOMAIN sol
        /\ IsPlans(sol2)
        /\ \A p \in DOMAIN sol2 : /\ sol2[p].task = sol[p].task
                                  /\ sol2[p].method = sol[p].method
                                  /\ sol2[p].prev = sol[p].prev
        /\ Shared(PlanPointers(sol2), Counts(sol2), EndsOf(nd2))
    <2> DEFINE roots == EndsOf(nd)
    <2>1. IsPlans(sol) /\ Shared(PlanPointers(sol), Counts(sol), roots) /\ n \in DOMAIN roots
          /\ sol2 = ReleasePlan(sol, roots[n])
      BY <1>1, <1>2 DEF PlansShared
    <2> HIDE DEF roots
    <2>2. /\ DOMAIN sol2 \subseteq DOMAIN sol
          /\ IsPlans(sol2)
          /\ \A p \in DOMAIN sol2 : /\ sol2[p].task = sol[p].task
                                    /\ sol2[p].method = sol[p].method
                                    /\ sol2[p].prev = sol[p].prev
          /\ Shared(PlanPointers(sol2), Counts(sol2), Dropped(roots, {n}))
      BY ONLY <2>1, ReleasePlanFacts
    <2>3. Dropped(roots, {n}) = EndsOf(nd2)
      BY <1>4 DEF roots
    <2>4. QED BY ONLY <2>2, <2>3
  <1>7. Agree(h2, h) /\ PlansAgree(sol2, sol)
    BY <1>5, <1>6 DEF Agree, PlansAgree
  <1>8. HeapShared(h2, nd2)
    <2>1. IsGraph(Pointers(h2)) /\ IsGraph(Pointers(h)) /\ CachesExact(h)
      BY <1>1, <1>5 DEF HeapShared, Shared
    <2>2. \A x \in DOMAIN h2 : IF x \in DOMAIN h THEN h2[x].reachableT = h[x].reachableT
                                                 ELSE h2[x].reachableT = NoReachability
      BY <1>5
    <2>3. CachesExact(h2)
      BY ONLY <1>7, <2>1, <2>2, CachesStay
    <2>4. DOMAIN h2 \subseteq Address
      BY <1>1, <1>5 DEF HeapShared
    <2>5. QED BY ONLY <1>5, <2>3, <2>4 DEF HeapShared
  <1>9. PlansShared(sol2, nd2)
    BY <1>6 DEF PlansShared
  <1>10. NodesFit(h2, sol2, nd2)
    <2>1. ASSUME NEW x \in DOMAIN nd2
          PROVE  nd2[x] \in SearchNode /\ NodeFits(h2, sol2, nd2[x])
      <3>1. x \in DOMAIN nd /\ x \in DOMAIN nd2 /\ nd2[x] = nd[x]
        BY <1>3
      <3>2. NodeFits(h2, sol2, nd[x])
        BY ONLY <1>1, <1>7, <1>8, <1>9, <3>1, NodeIsUndisturbed
      <3>3. nd[x] \in SearchNode
        BY <1>1, <3>1 DEF NodesFit
      <3>4. QED BY <3>1, <3>2, <3>3
    <2>2. DOMAIN nd2 \subseteq NodeId
      BY <1>1, <1>3 DEF NodesFit
    <2>3. QED BY <2>1, <2>2 DEF NodesFit
  <1>11. QED BY <1>7, <1>8, <1>9, <1>10 DEF Memory
-----------------------------------------------------------------------------
(* The call that a new child starts or goes on with.                       *)

NextCall(k, n, c, eff) ==
  [calling |-> TRUE, node |-> c,
   results |-> IF k.calling THEN Append(k.results, n) ELSE <<>>,
   effectLess |-> eff, returning |-> FALSE]

\* The child e of n is at c, and all that is left to do for it is known.
NewChild(h2, sol2, nd2, h, sol, nd, n, c, e) ==
  /\ Memory(h, sol, nd) /\ Memory(h2, sol2, nd2) /\ Agree(h2, h) /\ PlansAgree(sol2, sol)
  /\ WithNode(nd2, nd, c, e) /\ n \in DOMAIN nd /\ e.solution # NoPlan

\* Nodes that a call does not work on are as they were.
LEMMA OthersHeld ==
  ASSUME NEW h, NEW sol, NEW nd, Memory(h, sol, nd), NEW h2, NEW sol2, NEW nd2, Memory(h2, sol2, nd2),
         Agree(h2, h), PlansAgree(sol2, sol),
         NEW x, x \in DOMAIN nd /\ x \in DOMAIN nd2 /\ nd2[x] = nd[x]
  PROVE  /\ ValueIn(h2, sol2, nd[x]) = ValueIn(h, sol, nd[x])
         /\ EffectLessFor(h2, nd[x]) = EffectLessFor(h, nd[x])
         /\ Primitives(h2, nd[x].unconstraint) = Primitives(h, nd[x].unconstraint)
         /\ Settled(h, nd[x]) <=> Settled(h2, nd[x])
  <1>1. /\ HeapShared(h, nd) /\ PlansShared(sol, nd) /\ NodesFit(h, sol, nd)
        /\ HeapShared(h2, nd2) /\ PlansShared(sol2, nd2)
    BY DEF Memory
  <1>2. QED BY ONLY <1>1, Agree(h2, h), PlansAgree(sol2, sol),
                    x \in DOMAIN nd /\ x \in DOMAIN nd2 /\ nd2[x] = nd[x], NodeIsUndisturbed

\* A call of apply on a new node starts with the actions without effects among its first steps.
LEMMA CallStarts ==
  ASSUME NEW h, NEW sol, NEW nd, NEW h2, NEW sol2, NEW nd2, NEW n, NEW c, NEW e,
         NewChild(h2, sol2, nd2, h, sol, nd, n, c, e),
         NEW k, CallFits(h, nd, k), HeldFit(h, nd, k), k.calling => n = k.node,
         NEW eff, eff = EffectLessFor(h2, e)
  PROVE  CallFits(h2, nd2, NextCall(k, n, c, eff)) /\ HeldFit(h2, nd2, NextCall(k, n, c, eff))
  <1> DEFINE k2 == NextCall(k, n, c, eff)
  <1>1. /\ DOMAIN nd2 = DOMAIN nd \union {c} /\ c \notin DOMAIN nd /\ n \in DOMAIN nd
        /\ nd2[c] = e /\ e.solution # NoPlan
        /\ \A x \in DOMAIN nd : nd2[x] = nd[x]
    BY DEF NewChild, WithNode
  <1>2. /\ k2.calling = TRUE /\ k2.node = c /\ k2.effectLess = eff /\ k2.returning = FALSE
        /\ k2.results = IF k.calling THEN Append(k.results, n) ELSE <<>>
        /\ k2 = [calling |-> k2.calling, node |-> k2.node, results |-> k2.results,
                 effectLess |-> k2.effectLess, returning |-> k2.returning]
    BY DEF NextCall
  <1> HIDE DEF k2
  <1>3. /\ k2.results \in Seq(DOMAIN nd)
        /\ \A i, j \in 1 .. Len(k2.results) : k2.results[i] = k2.results[j] => i = j
        /\ {k2.results[i] : i \in 1 .. Len(k2.results)} = InProgress(k)
    <2>1. CASE k.calling
      <3>0. k # Idle
        BY <2>1 DEF Idle
      <3>1. /\ k.results \in Seq(DOMAIN nd) /\ n = k.node
            /\ \A i, j \in 1 .. Len(k.results) : k.results[i] = k.results[j] => i = j
            /\ \A i \in 1 .. Len(k.results) : k.results[i] # n
        <4>1. n = k.node
          BY <2>1
        <4>2. k.results \in Seq(DOMAIN nd)
          BY <3>0 DEF CallFits
        <4>3. /\ \A i, j \in 1 .. Len(k.results) : k.results[i] = k.results[j] => i = j
              /\ \A i \in 1 .. Len(k.results) : k.results[i] # k.node
          BY <3>0 DEF CallFits
        <4>4. QED BY <4>1, <4>2, <4>3
      <3> DEFINE l == Len(k.results)
                 r == Append(k.results, n)
      <3>2. l \in Nat
        BY <3>1, LenProperties
      <3>3. /\ r \in Seq(DOMAIN nd) /\ Len(r) = l + 1 /\ r[l + 1] = n
            /\ \A i \in 1 .. l : r[i] = k.results[i]
        BY <1>1, <3>1, AppendProperties
      <3>4. k2.results = r
        BY <1>2, <2>1
      <3> HIDE DEF l, r
      <3>5. \A i \in 1 .. Len(r) : i \in 1 .. l \/ i = l + 1
        BY <3>2, <3>3
      <3>6. l + 1 \in 1 .. Len(r) /\ \A i \in 1 .. l : i \in 1 .. Len(r)
        BY <3>2, <3>3
      <3>7. \A i, j \in 1 .. Len(r) : r[i] = r[j] => i = j
        BY <3>1, <3>3, <3>5 DEF l
      <3>8. {r[i] : i \in 1 .. Len(r)} = {k.results[i] : i \in 1 .. l} \union {n}
        BY ONLY <3>3, <3>5, <3>6
      <3>9. InProgress(k) = {k.results[i] : i \in 1 .. l} \union {n}
        <4>1. InProgress(k) = {k.results[i] : i \in 1 .. Len(k.results)} \union {k.node}
          BY <2>1, Zenon DEF InProgress
        <4>2. QED BY <3>1, <4>1 DEF l
      <3>10. {k2.results[i] : i \in 1 .. Len(k2.results)} = InProgress(k)
        BY ONLY <3>4, <3>8, <3>9
      <3>11. k2.results \in Seq(DOMAIN nd)
        BY ONLY <3>3, <3>4
      <3>12. \A i, j \in 1 .. Len(k2.results) : k2.results[i] = k2.results[j] => i = j
        BY ONLY <3>4, <3>7
      <3>13. QED BY <3>10, <3>11, <3>12
    <2>2. CASE ~ k.calling
      <3>1. k2.results = <<>> /\ InProgress(k) = {}
        BY <1>2, <2>2 DEF InProgress
      <3>2. Len(<<>>) = 0 /\ <<>> \in Seq(DOMAIN nd) /\ 1 .. 0 = {}
        BY EmptySeq
      <3>3. QED BY <3>1, <3>2
    <2>3. QED BY <2>1, <2>2
  <1>4. k2.results \in Seq(DOMAIN nd2) /\ \A i \in 1 .. Len(k2.results) : k2.results[i] # c
    <2>1. \A i \in 1 .. Len(k2.results) : k2.results[i] \in DOMAIN nd
      BY <1>3, ElementOfSeq
    <2>2. DOMAIN nd \subseteq DOMAIN nd2
      BY <1>1
    <2>3. QED BY <1>1, <1>3, <2>1, <2>2, SeqMonotonic
  <1>5. eff \subseteq Address
    <2>1. e.unconstraint \subseteq Address
      BY <1>1 DEF NewChild, Memory, NodesFit, SearchNode
    <2>2. QED BY <2>1 DEF EffectLessFor, ApplicableTo, Primitives
  <1>6. CallFits(h2, nd2, k2)
    <2>1. nd2[k2.node].solution # NoPlan /\ k2.effectLess = EffectLessFor(h2, nd2[k2.node])
      BY <1>1, <1>2
    <2>2. k2 \in [calling : {TRUE}, node : DOMAIN nd2, results : Seq(DOMAIN nd2),
                  effectLess : SUBSET Address, returning : BOOLEAN]
      BY <1>1, <1>2, <1>4, <1>5
    <2>3. QED BY <1>2, <1>3, <1>4, <2>1, <2>2 DEF CallFits
  <1>7. InProgress(k2) = InProgress(k) \union {c}
    BY <1>2, <1>3 DEF InProgress
  <1>8. HeldFit(h2, nd2, k2)
    <2>1. SUFFICES ASSUME NEW x \in DOMAIN nd2
                   PROVE  IF nd2[x].solution = NoPlan THEN Primitives(h2, nd2[x].unconstraint) = {}
                          ELSE x \notin InProgress(k2) => Settled(h2, nd2[x])
      BY DEF HeldFit
    <2>2. CASE x = c
      BY <1>1, <1>7, <2>2
    <2>3. CASE x # c
      <3>1. x \in DOMAIN nd /\ x \in DOMAIN nd2 /\ nd2[x] = nd[x]
        BY <1>1, <2>3
      <3>2. Memory(h, sol, nd) /\ Memory(h2, sol2, nd2) /\ Agree(h2, h) /\ PlansAgree(sol2, sol)
        BY DEF NewChild
      <3>3. /\ Primitives(h2, nd[x].unconstraint) = Primitives(h, nd[x].unconstraint)
            /\ Settled(h, nd[x]) <=> Settled(h2, nd[x])
        BY ONLY <3>1, <3>2, OthersHeld
      <3>4. IF nd[x].solution = NoPlan THEN Primitives(h, nd[x].unconstraint) = {}
            ELSE x \notin InProgress(k) => Settled(h, nd[x])
        BY <3>1 DEF HeldFit
      <3>5. QED BY <1>7, <3>1, <3>3, <3>4
    <2>4. QED BY <2>2, <2>3
  <1>9. QED BY <1>6, <1>8 DEF k2

\* What the nodes mean, in terms of a heap and solution steps.
LEMMA NetworksAreValues ==
  /\ Networks = [n \in DOMAIN nodes |-> ValueIn(heap, solutions, nodes[n])]
  /\ Networks' = [n \in DOMAIN nodes' |-> ValueIn(heap', solutions', nodes'[n])]
  <1>1. \A n \in DOMAIN nodes :
          ValueIn(heap, solutions, nodes[n])
            = [task |-> [s \in NetworkOf(n) |-> Label(s)],
               before |-> UNION {{p} \X Descendants(heap, {p}) : p \in NetworkOf(n)},
               state |-> nodes[n].state, plan |-> Plan[nodes[n].solution]]
    BY PlanIsPlanOf DEF ValueIn, NetworkOf, NetworkIn, BeforeIn, Label
  <1>2. Plan' = PlanOf(solutions')
    BY DEF Plan, PlanOf
  <1>3. \A n \in DOMAIN nodes' :
          ValueIn(heap', solutions', nodes'[n])
            = [task |-> [s \in NetworkOf(n)' |-> Label(s)'],
               before |-> UNION {{p} \X Descendants(heap', {p}) : p \in NetworkOf(n)'},
               state |-> nodes'[n].state, plan |-> Plan'[nodes'[n].solution]]
    BY <1>2 DEF ValueIn, NetworkOf, NetworkIn, BeforeIn, Label
  <1>4. QED BY <1>1, <1>3 DEF Networks

\* A new child is a new value, whatever else happens to the heap.
LEMMA NewChildIsNewNode ==
  ASSUME NEW n, NEW c, NEW e, NewChild(heap', solutions', nodes', heap, solutions, nodes, n, c, e),
         NEW v, ValueIn(heap', solutions', e) = v
  PROVE  Values!NewNode(c, v)
  <1>1. /\ DOMAIN nodes' = DOMAIN nodes \union {c} /\ c \notin DOMAIN nodes
        /\ nodes'[c] = e /\ \A x \in DOMAIN nodes : nodes'[x] = nodes[x]
    BY DEF NewChild, WithNode
  <1>2. ASSUME NEW x \in DOMAIN nodes
        PROVE  ValueIn(heap', solutions', nodes'[x]) = ValueIn(heap, solutions, nodes[x])
    <2>1. x \in DOMAIN nodes /\ x \in DOMAIN nodes' /\ nodes'[x] = nodes[x]
      BY <1>1
    <2>2. /\ Memory(heap, solutions, nodes) /\ Memory(heap', solutions', nodes')
          /\ Agree(heap', heap) /\ PlansAgree(solutions', solutions)
      BY DEF NewChild
    <2>3. ValueIn(heap', solutions', nodes[x]) = ValueIn(heap, solutions, nodes[x])
      BY ONLY <2>1, <2>2, OthersHeld
    <2>4. QED BY <2>1, <2>3
  <1>3. DOMAIN Networks = DOMAIN nodes
    BY NetworksAreValues
  <1>4. Networks' = [x \in DOMAIN Networks \union {c} |-> IF x = c THEN v ELSE Networks[x]]
    BY <1>1, <1>2, NetworksAreValues
  <1>5. QED BY <1>1, <1>3, <1>4 DEF Values!NewNode

\* The record of a child, as the code changes a copy and as a whole.
ChangedNode(b, uc, st, sol, ct, md, mm, ac) ==
  [b EXCEPT !.unconstraint = uc, !.state = st, !.solution = sol, !.contained = ct,
            !.modificationDepth = md, !.mixedModificationDepth = mm, !.actionCosts = ac,
            !.goalReachable = TRUE]

NodeRecord(uc, st, sol, ct, md, mm, ac) ==
  [unconstraint |-> uc, state |-> st, solution |-> sol, contained |-> ct,
   modificationDepth |-> md, mixedModificationDepth |-> mm, actionCosts |-> ac,
   goalReachable |-> TRUE]

\* A changed node, field by field.
LEMMA ChangedNodeIsRecord ==
  ASSUME NEW b \in SearchNode, NEW uc, NEW st, NEW sol, NEW ct, NEW md, NEW mm, NEW ac
  PROVE  ChangedNode(b, uc, st, sol, ct, md, mm, ac) = NodeRecord(uc, st, sol, ct, md, mm, ac)
  <1> DEFINE D == {"unconstraint", "state", "solution", "contained", "modificationDepth",
                   "mixedModificationDepth", "actionCosts", "goalReachable"}
             r == [b EXCEPT !.unconstraint = uc, !.state = st, !.solution = sol, !.contained = ct,
                            !.modificationDepth = md, !.mixedModificationDepth = mm, !.actionCosts = ac,
                            !.goalReachable = TRUE]
  <1>1. b = [f \in D |-> b[f]]
    BY DEF SearchNode
  <1>2. /\ r.unconstraint = uc /\ r.state = st /\ r.solution = sol /\ r.contained = ct
        /\ r.modificationDepth = md /\ r.mixedModificationDepth = mm /\ r.actionCosts = ac
        /\ r.goalReachable = TRUE
    BY <1>1
  <1>3. r = [f \in D |-> r[f]]
    BY <1>1
  <1> HIDE DEF r
  <1>4. r = NodeRecord(uc, st, sol, ct, md, mm, ac)
    BY ONLY <1>2, <1>3 DEF NodeRecord
  <1>5. QED BY <1>4 DEF r, ChangedNode

\* MakeApplied keeps the invariant and does what applying an action to the value does.
LEMMA MakeAppliedStep ==
  ASSUME IInv, NEW n \in DOMAIN nodes, NEW s \in nodes[n].unconstraint, heap[s].task \in Primitive,
         call.calling => n = call.node, NEW c, MakeApplied(n, s, c)
  PROVE  IInv' /\ Values!NewNode(c, Values!Applied(Networks[n], s)) /\ c \in NodeId
  <1> DEFINE a == heap[s].task
             b == nodes[n]
             new == FreshIn(DOMAIN solutions)
             e == AppliedChild(heap, b, s, new)
             T == e.unconstraint
  <1>1. Memory(heap, solutions, nodes) /\ CallFits(heap, nodes, call) /\ HeldFit(heap, nodes, call)
    BY DEF IInv
  <1>2. HeapShared(heap, nodes) /\ PlansShared(solutions, nodes) /\ NodesFit(heap, solutions, nodes)
    BY <1>1 DEF Memory
  <1>3. T = (b.unconstraint \ {s}) \union NewFirstTasks(n, s)
    BY DEF AppliedChild, ListAfter, NewFirstTasks
  <1>4. /\ c \in NodeId \ DOMAIN nodes
        /\ heap' = AppliedHeap(heap, T)
        /\ solutions' = ExtendedBy(solutions, b.solution, a, NoMethod)
    BY <1>3 DEF MakeApplied, AppliedHeap, Extended, ExtendedBy, Label
  <1>5. b \in SearchNode
    BY <1>2 DEF NodesFit
  <1>6. WithNode(nodes', nodes, c, e)
    <2> DEFINE r == [b EXCEPT !.unconstraint = T,
                              !.state = Progressed(b.state, a),
                              !.solution = new,
                              !.contained = CounterA(@, a),
                              !.modificationDepth = @ + 1,
                              !.mixedModificationDepth = @ + actionCosts[a],
                              !.actionCosts = CostAfter(n, a),
                              !.goalReachable = TRUE]
    <2>1. nodes' = [x \in DOMAIN nodes \union {c} |-> IF x # c THEN nodes[x] ELSE r]
      BY <1>3 DEF MakeApplied, Label
    <2>2. r = e
      <3>1. r = ChangedNode(b, T, Progressed(b.state, a), new, CounterA(b.contained, a),
                            b.modificationDepth + 1, b.mixedModificationDepth + actionCosts[a],
                            b.actionCosts + actionCosts[a])
        BY <1>5 DEF SearchNode, CostAfter, ChangedNode
      <3>2. e = NodeRecord(T, Progressed(b.state, a), new, CounterA(b.contained, a),
                           b.modificationDepth + 1, b.mixedModificationDepth + actionCosts[a],
                           b.actionCosts + actionCosts[a])
        BY DEF AppliedChild, NodeRecord
      <3> HIDE DEF r, e, T, a, b, new
      <3>3. QED BY ONLY <1>5, <3>1, <3>2, ChangedNodeIsRecord
    <2> HIDE DEF r, e
    <2>3. QED BY <1>4, <2>1, <2>2 DEF WithNode
  <1>7. IsExtended(solutions', solutions, b.solution, a, NoMethod, new)
    <2>1. IsPlans(solutions) /\ IsFiniteSet(DOMAIN solutions)
      BY <1>2 DEF PlansShared, Shared, IsGraph, PlanPointers
    <2>2. QED BY ONLY <1>4, <2>1, ExtendedByFacts
  <1>8. /\ Memory(heap', solutions', nodes')
        /\ SameSteps(heap', heap) /\ PlansAgree(solutions', solutions)
        /\ IsApplied(ValueIn(heap', solutions', e), ValueIn(heap, solutions, b), s)
        /\ e.solution # NoPlan
    <2>1. n \in DOMAIN nodes /\ s \in nodes[n].unconstraint /\ heap[s].task \in Primitive
          /\ IsAppliedChild(e, heap, nodes[n], s, new) /\ c \in NodeId
          /\ IsExtended(solutions', solutions, nodes[n].solution, heap[s].task, NoMethod, new)
      BY <1>4, <1>7 DEF IsAppliedChild
    <2> HIDE DEF e, new, a, b
    <2>2. /\ Memory(AppliedHeap(heap, e.unconstraint), solutions', nodes')
          /\ SameSteps(AppliedHeap(heap, e.unconstraint), heap) /\ PlansAgree(solutions', solutions)
          /\ IsApplied(ValueIn(AppliedHeap(heap, e.unconstraint), solutions', e),
                       ValueIn(heap, solutions, nodes[n]), s)
          /\ e.solution # NoPlan
      BY ONLY <1>1, <1>6, <2>1, AppliedFits
    <2>3. QED BY ONLY <1>4, <2>2 DEF b
  <1>9. NewChild(heap', solutions', nodes', heap, solutions, nodes, n, c, e)
    <2>1. Agree(heap', heap)
      BY <1>8 DEF Agree, SameSteps
    <2> HIDE DEF e
    <2>2. QED BY <1>1, <1>6, <1>8, <2>1 DEF NewChild
  <1>10. EffectLessAfterApply(T, NewFirstTasks(n, s), Progressed(b.state, a)) = EffectLessFor(heap', e)
    <2>1. T \subseteq DOMAIN heap
      <3>1. nodes'[c] = e /\ c \in DOMAIN nodes'
        BY <1>6 DEF WithNode
      <3>2. HeapShared(heap', nodes') /\ PlansShared(solutions', nodes')
        BY <1>8 DEF Memory
      <3>3. nodes'[c].unconstraint \subseteq DOMAIN heap'
        BY <3>1, <3>2, NodeRefs
      <3>4. QED BY <1>8, <3>1, <3>3 DEF SameSteps
    <2>2. e.state = Progressed(b.state, a)
      BY DEF AppliedChild
    <2>3. \A x \in T : heap'[x].task = heap[x].task
      BY <1>8, <2>1 DEF SameSteps
    <2> HIDE DEF e, a, b
    <2>4. QED BY <2>2, <2>3 DEF EffectLessAfterApply, EffectLessFor, ApplicableTo, Primitives, Label, T
  <1>11. call' = NextCall(call, n, c, EffectLessFor(heap', e))
    <2>1. call' = [calling |-> TRUE, node |-> c,
                   results |-> IF call.calling THEN Append(call.results, n) ELSE <<>>,
                   effectLess |-> EffectLessAfterApply(T, NewFirstTasks(n, s), Progressed(b.state, a)),
                   returning |-> FALSE]
      BY <1>3 DEF MakeApplied, Label
    <2> HIDE DEF e, T, a, b
    <2>2. QED BY <1>10, <2>1 DEF NextCall
  <1>12. CallFits(heap', nodes', call') /\ HeldFit(heap', nodes', call')
    <2> DEFINE eff == EffectLessFor(heap', e)
    <2>1. eff = EffectLessFor(heap', e)
      OBVIOUS
    <2>2. call.calling => n = call.node
      OBVIOUS
    <2> HIDE DEF e, eff
    <2>3. CallFits(heap', nodes', NextCall(call, n, c, eff)) /\ HeldFit(heap', nodes', NextCall(call, n, c, eff))
      BY ONLY <1>1, <1>9, <2>1, <2>2, CallStarts
    <2>4. QED BY ONLY <1>11, <2>1, <2>3
  <1>13. IInv'
    BY <1>8, <1>12 DEF IInv
  <1>14. Values!NewNode(c, Values!Applied(Networks[n], s))
    <2>1. Networks[n] = ValueIn(heap, solutions, b)
      BY NetworksAreValues
    <2> HIDE DEF e
    <2>2. QED BY <1>8, <1>9, <2>1, NewChildIsNewNode DEF IsApplied
  <1>15. QED BY <1>4, <1>13, <1>14

\* MakeDecomposed keeps the invariant and does what decomposing a task of the value does.
LEMMA MakeDecomposedStep ==
  ASSUME IInv, NEW n \in DOMAIN nodes, NEW s \in nodes[n].unconstraint,
         NEW m \in Method, heap[s].task = decomposedTask[m],
         ~ call.calling, NEW c, MakeDecomposed(n, s, m, c)
  PROVE  /\ IInv' /\ c \in NodeId
         /\ \E inst : IsAllocated(heap, m, inst)
                      /\ Values!NewNode(c, Values!Decomposed(Networks[n], s, m, inst))
  <1> DEFINE inst == CHOOSE f \in [Positions(m) -> Address \ DOMAIN heap] :
                       \A i, j \in Positions(m) : f[i] = f[j] => i = j
             b == nodes[n]
             new == FreshIn(DOMAIN solutions)
             firsts == {inst[i] : i \in FirstTasksOf(m)}
             New == {inst[i] : i \in Positions(m)}
             e == DecomposedChild(heap, b, s, m, inst, new)
             T == (b.unconstraint \ {s}) \union firsts
             h1 == WithMethod(heap, s, m, inst)
  <1>1. Memory(heap, solutions, nodes) /\ CallFits(heap, nodes, call) /\ HeldFit(heap, nodes, call)
    BY DEF IInv
  <1>2. HeapShared(heap, nodes) /\ PlansShared(solutions, nodes) /\ NodesFit(heap, solutions, nodes)
    BY <1>1 DEF Memory
  <1>3. IsAllocated(heap, m, inst)
    <2>1. Cardinality(Address \ DOMAIN heap) >= Len(subTasks[m])
      BY DEF MakeDecomposed
    <2>2. \E f : IsAllocated(heap, m, f)
      BY <2>1, AllocationExists
    <2>3. \E f \in [Positions(m) -> Address \ DOMAIN heap] :
            \A i, j \in Positions(m) : f[i] = f[j] => i = j
      BY <2>2 DEF IsAllocated
    <2>4. QED BY <2>3, Zenon DEF IsAllocated
  <1>4. /\ c \in NodeId \ DOMAIN nodes
        /\ heap' = DecomposedHeap(heap, s, m, inst, T)
        /\ solutions' = ExtendedBy(solutions, b.solution, heap[s].task, m)
    BY DEF MakeDecomposed, DecomposedHeap, Extended, ExtendedBy, Label
  <1>5. b \in SearchNode
    BY <1>2 DEF NodesFit
  <1>6. call' = [calling |-> TRUE, node |-> c,
                 results |-> IF call.calling THEN Append(call.results, n) ELSE <<>>,
                 effectLess |-> {x \in Primitives(h1, firsts) :
                                   /\ EffectLess(h1[x].task)
                                   /\ isApplicable(b.state, h1[x].task)},
                 returning |-> FALSE]
    BY DEF MakeDecomposed
  <1>7. WithNode(nodes', nodes, c, e)
    <2> DEFINE r == [b EXCEPT !.unconstraint = T,
                              !.solution = new,
                              !.contained = CounterM(@, m),
                              !.modificationDepth = @ + 1,
                              !.mixedModificationDepth = @ + 1,
                              !.goalReachable = TRUE]
    <2>1. nodes' = [x \in DOMAIN nodes \union {c} |-> IF x # c THEN nodes[x] ELSE r]
      BY DEF MakeDecomposed
    <2>2. r = e
      <3>1. r = ChangedNode(b, T, b.state, new, CounterM(b.contained, m), b.modificationDepth + 1,
                            b.mixedModificationDepth + 1, b.actionCosts)
        BY <1>5 DEF SearchNode, ChangedNode
      <3>2. e = NodeRecord(T, b.state, new, CounterM(b.contained, m), b.modificationDepth + 1,
                           b.mixedModificationDepth + 1, b.actionCosts)
        BY DEF DecomposedChild, NodeRecord
      <3> HIDE DEF r, e, T, b, new, inst
      <3>3. QED BY ONLY <1>5, <3>1, <3>2, ChangedNodeIsRecord
    <2> HIDE DEF r, e
    <2>3. QED BY <1>4, <2>1, <2>2 DEF WithNode
  <1> HIDE DEF inst
  <1>8. e.unconstraint = T /\ e.state = b.state
    BY DEF DecomposedChild
  <1>9. IsExtended(solutions', solutions, b.solution, heap[s].task, m, new)
    <2>1. IsPlans(solutions) /\ IsFiniteSet(DOMAIN solutions)
      BY <1>2 DEF PlansShared, Shared, IsGraph, PlanPointers
    <2>2. QED BY ONLY <1>4, <2>1, ExtendedByFacts
  <1>10. /\ Memory(heap', solutions', nodes')
         /\ Agree(heap', heap) /\ PlansAgree(solutions', solutions) /\ SameSteps(heap', h1)
         /\ IsDecomposed(ValueIn(heap', solutions', e), ValueIn(heap, solutions, b), s, m, inst)
         /\ e.solution # NoPlan
    <2>1. n \in DOMAIN nodes /\ s \in nodes[n].unconstraint /\ m \in Method
          /\ heap[s].task = decomposedTask[m] /\ IsAllocated(heap, m, inst)
          /\ IsDecomposedChild(e, heap, nodes[n], s, m, inst, new) /\ c \in NodeId
          /\ IsExtended(solutions', solutions, nodes[n].solution, heap[s].task, m, new)
      BY <1>3, <1>4, <1>9 DEF IsDecomposedChild
    <2> HIDE DEF e, new, b, T
    <2>2. /\ Memory(DecomposedHeap(heap, s, m, inst, e.unconstraint), solutions', nodes')
          /\ Agree(DecomposedHeap(heap, s, m, inst, e.unconstraint), heap)
          /\ PlansAgree(solutions', solutions)
          /\ SameSteps(DecomposedHeap(heap, s, m, inst, e.unconstraint), WithMethod(heap, s, m, inst))
          /\ IsDecomposed(ValueIn(DecomposedHeap(heap, s, m, inst, e.unconstraint), solutions', e),
                          ValueIn(heap, solutions, nodes[n]), s, m, inst)
          /\ e.solution # NoPlan
      BY ONLY <1>1, <1>7, <2>1, DecomposedFits
    <2>3. QED BY ONLY <1>4, <1>8, <2>2 DEF b, h1
  <1>11. NewChild(heap', solutions', nodes', heap, solutions, nodes, n, c, e)
    <2> HIDE DEF e
    <2>1. QED BY <1>1, <1>7, <1>10 DEF NewChild
  <1>12. EffectLessFor(heap, b) = {}
    <2>1. InProgress(call) = {}
      BY DEF InProgress
    <2>2. IF b.solution = NoPlan THEN Primitives(heap, b.unconstraint) = {} ELSE Settled(heap, b)
      BY <1>1, <2>1 DEF HeldFit
    <2> HIDE DEF b
    <2>3. QED BY <2>2 DEF Settled, EffectLessFor, ApplicableTo
  <1>13. {x \in Primitives(h1, firsts) : EffectLess(h1[x].task) /\ isApplicable(b.state, h1[x].task)}
           = EffectLessFor(heap', e)
    <2>1. /\ nodes'[c] = e /\ c \in DOMAIN nodes'
          /\ HeapShared(heap', nodes') /\ PlansShared(solutions', nodes')
      BY <1>7, <1>10 DEF WithNode, Memory
    <2>2. T \subseteq DOMAIN heap'
      <3>1. nodes'[c].unconstraint \subseteq DOMAIN heap'
        BY <2>1, NodeRefs
      <3>2. QED BY <1>8, <2>1, <3>1
    <2>3. \A x \in T : heap'[x].task = h1[x].task
      BY <1>10, <2>2 DEF SameSteps
    <2>4. \A x \in b.unconstraint \ {s} : heap'[x].task = heap[x].task
      <3>1. b.unconstraint \subseteq DOMAIN heap
        BY <1>2, NodeRefs
      <3>2. QED BY <1>10, <2>2, <3>1 DEF Agree
    <2> HIDE DEF e, b, h1, firsts
    <2>5. T = (b.unconstraint \ {s}) \union firsts
      OBVIOUS
    <2> HIDE DEF T
    <2>6. ASSUME NEW x \in T
          PROVE  (x \in firsts /\ h1[x].task \in Primitive
                  /\ EffectLess(h1[x].task) /\ isApplicable(b.state, h1[x].task))
                 <=> (heap'[x].task \in Primitive
                      /\ isApplicable(b.state, heap'[x].task) /\ EffectLess(heap'[x].task))
      <3>1. CASE x \in firsts
        BY <2>3, <3>1
      <3>2. CASE x \notin firsts
        <4>1. x \in b.unconstraint /\ heap'[x].task = heap[x].task
          BY <2>4, <2>5, <3>2
        <4>2. x \notin EffectLessFor(heap, b)
          BY <1>12
        <4>3. ~ (heap[x].task \in Primitive
                 /\ isApplicable(b.state, heap[x].task) /\ EffectLess(heap[x].task))
          BY <4>1, <4>2 DEF EffectLessFor, ApplicableTo, Primitives
        <4>4. QED BY <3>2, <4>1, <4>3
      <3>3. QED BY <3>1, <3>2
    <2>7. EffectLessFor(heap', e)
            = {x \in T : heap'[x].task \in Primitive
                         /\ isApplicable(b.state, heap'[x].task) /\ EffectLess(heap'[x].task)}
      BY <1>8 DEF EffectLessFor, ApplicableTo, Primitives
    <2>8. {x \in Primitives(h1, firsts) : EffectLess(h1[x].task) /\ isApplicable(b.state, h1[x].task)}
            = {x \in T : x \in firsts /\ h1[x].task \in Primitive
                         /\ EffectLess(h1[x].task) /\ isApplicable(b.state, h1[x].task)}
      BY <2>5 DEF Primitives
    <2>9. QED BY <2>6, <2>7, <2>8
  <1>14. call' = NextCall(call, n, c, EffectLessFor(heap', e))
    <2> HIDE DEF e, T, b, h1, firsts
    <2>1. QED BY <1>6, <1>13 DEF NextCall
  <1>15. CallFits(heap', nodes', call') /\ HeldFit(heap', nodes', call')
    <2> DEFINE eff == EffectLessFor(heap', e)
    <2>1. eff = EffectLessFor(heap', e)
      OBVIOUS
    <2>2. call.calling => n = call.node
      OBVIOUS
    <2> HIDE DEF e, eff
    <2>3. CallFits(heap', nodes', NextCall(call, n, c, eff)) /\ HeldFit(heap', nodes', NextCall(call, n, c, eff))
      BY ONLY <1>1, <1>11, <2>1, <2>2, CallStarts
    <2>4. QED BY ONLY <1>14, <2>1, <2>3
  <1>16. IInv'
    BY <1>10, <1>15 DEF IInv
  <1>17. Values!NewNode(c, Values!Decomposed(Networks[n], s, m, inst))
    <2>1. Networks[n] = ValueIn(heap, solutions, b)
      BY NetworksAreValues
    <2> HIDE DEF e, b
    <2>2. ValueIn(heap', solutions', e) = Values!Decomposed(Networks[n], s, m, inst)
      BY ONLY <1>10, <2>1 DEF IsDecomposed
    <2>3. QED BY <1>11, <2>2, NewChildIsNewNode
  <1>18. QED BY <1>3, <1>4, <1>16, <1>17
-----------------------------------------------------------------------------
(* The steps of a call and of a search.                                    *)

\* What is known of the call under way.
LEMMA CallIsUnderWay ==
  ASSUME IInv, call.calling
  PROVE  /\ call \in [calling : {TRUE}, node : DOMAIN nodes, results : Seq(DOMAIN nodes),
                      effectLess : SUBSET Address, returning : BOOLEAN]
         /\ \A i, j \in 1 .. Len(call.results) : call.results[i] = call.results[j] => i = j
         /\ \A i \in 1 .. Len(call.results) : call.results[i] # call.node
         /\ nodes[call.node].solution # NoPlan
         /\ ~ call.returning => call.effectLess = EffectLessFor(heap, nodes[call.node])
         /\ call.returning => Settled(heap, nodes[call.node])
  <1>1. call # Idle /\ CallFits(heap, nodes, call)
    BY DEF Idle, IInv
  <1>2. QED BY <1>1, Zenon DEF CallFits

\* Progressing an action inside a call.
LEMMA ProgressStep ==
  ASSUME IInv, NEW s \in Address, ProgressEffectLess(s) \/ ProgressOnlyAction(s)
  PROVE  /\ IInv'
         /\ \E n \in DOMAIN nodes : \E c \in NodeId :
              /\ s \in nodes[n].unconstraint /\ heap[s].task \in Primitive
              /\ isApplicable(nodes[n].state, heap[s].task)
              /\ Values!NewNode(c, Values!Applied(Networks[n], s))
  <1> DEFINE n == call.node
             c == FreshNode
  <1>1. call.calling /\ ~ call.returning /\ MakeApplied(n, s, c)
    BY DEF ProgressEffectLess, ProgressOnlyAction
  <1>2. n \in DOMAIN nodes /\ call.effectLess = EffectLessFor(heap, nodes[n])
    BY <1>1, CallIsUnderWay
  <1>3. s \in ApplicableTo(heap, nodes[n])
    <2>1. CASE ProgressEffectLess(s)
      BY <1>2, <2>1 DEF ProgressEffectLess, EffectLessFor
    <2>2. CASE ProgressOnlyAction(s)
      BY <2>2 DEF ProgressOnlyAction, ApplicableIn, ApplicableTo, Label
    <2>3. QED BY <2>1, <2>2
  <1>4. /\ s \in nodes[n].unconstraint /\ heap[s].task \in Primitive
        /\ isApplicable(nodes[n].state, heap[s].task)
    BY <1>3 DEF ApplicableTo, Primitives
  <1>5. call.calling => n = call.node
    OBVIOUS
  <1> HIDE DEF n, c
  <1>6. IInv' /\ Values!NewNode(c, Values!Applied(Networks[n], s)) /\ c \in NodeId
    BY <1>1, <1>2, <1>4, <1>5, MakeAppliedStep
  <1>7. QED BY <1>2, <1>4, <1>6

\* Apply leaves the invariant and progresses the network that the node stands for.
LEMMA ApplyStep ==
  ASSUME IInv, NEW n \in DOMAIN nodes, NEW s \in nodes[n].unconstraint, Apply(n, s)
  PROVE  /\ IInv'
         /\ \E c \in NodeId :
              /\ heap[s].task \in Primitive
              /\ isApplicable(nodes[n].state, heap[s].task)
              /\ Values!NewNode(c, Values!Applied(Networks[n], s))
  <1> DEFINE c == FreshNode
  <1>1. /\ ~ call.calling /\ heap[s].task \in Primitive
        /\ isApplicable(nodes[n].state, heap[s].task)
        /\ MakeApplied(n, s, c)
    BY DEF Apply, Primitives, Label
  <1> HIDE DEF c
  <1>2. IInv' /\ Values!NewNode(c, Values!Applied(Networks[n], s)) /\ c \in NodeId
    BY <1>1, MakeAppliedStep
  <1>3. QED BY <1>1, <1>2

\* Decompose leaves the invariant and decomposes the network that the node stands for.
LEMMA DecomposeStep ==
  ASSUME IInv, NEW n \in DOMAIN nodes, NEW s \in nodes[n].unconstraint,
         NEW m \in Method, Decompose(n, s, m)
  PROVE  /\ IInv'
         /\ \E c \in NodeId : \E inst :
              /\ heap[s].task = decomposedTask[m]
              /\ IsAllocated(heap, m, inst)
              /\ Values!NewNode(c, Values!Decomposed(Networks[n], s, m, inst))
  <1> DEFINE c == FreshNode
  <1>1. /\ ~ call.calling /\ heap[s].task = decomposedTask[m] /\ MakeDecomposed(n, s, m, c)
    BY DEF Decompose, MethodsFor, Label
  <1> HIDE DEF c
  <1>2. /\ IInv' /\ c \in NodeId
        /\ \E inst : IsAllocated(heap, m, inst)
                     /\ Values!NewNode(c, Values!Decomposed(Networks[n], s, m, inst))
    BY <1>1, MakeDecomposedStep
  <1>3. QED BY <1>1, <1>2

\* The check at the end of a call changes no more than what the node says of its goal.
Marked(nd2, nd, n, v) ==
  /\ DOMAIN nd2 = DOMAIN nd
  /\ \A x \in DOMAIN nd \ {n} : nd2[x] = nd[x]
  /\ nd2[n] \in SearchNode
  /\ nd2[n].unconstraint = nd[n].unconstraint /\ nd2[n].state = nd[n].state
  /\ nd2[n].solution = nd[n].solution /\ nd2[n].contained = nd[n].contained
  /\ nd2[n].modificationDepth = nd[n].modificationDepth
  /\ nd2[n].actionCosts = nd[n].actionCosts
  /\ nd2[n].goalReachable = v

\* A mark on a node that has settled does not change what it stands for.
LEMMA MarkedFits ==
  ASSUME NEW h, NEW sol, NEW nd, Memory(h, sol, nd), NEW n \in DOMAIN nd,
         NEW nd2, NEW v, Marked(nd2, nd, n, v)
  PROVE  /\ Memory(h, sol, nd2)
         /\ \A x \in DOMAIN nd : ValueIn(h, sol, nd2[x]) = ValueIn(h, sol, nd[x])
         /\ ApplicableTo(h, nd2[n]) = ApplicableTo(h, nd[n])
         /\ EffectLessFor(h, nd2[n]) = EffectLessFor(h, nd[n])
         /\ AllPrimitive(h, nd2[n]) <=> AllPrimitive(h, nd[n])
  <1>1. \A x \in DOMAIN nd :
          /\ nd2[x].unconstraint = nd[x].unconstraint /\ nd2[x].state = nd[x].state
          /\ nd2[x].solution = nd[x].solution /\ nd2[x].contained = nd[x].contained
          /\ nd2[x].modificationDepth = nd[x].modificationDepth
          /\ nd2[x].actionCosts = nd[x].actionCosts
    BY DEF Marked
  <1>2. DOMAIN nd2 = DOMAIN nd
    BY DEF Marked
  <1>3. RootsOf(nd2) = RootsOf(nd) /\ EndsOf(nd2) = EndsOf(nd)
    BY <1>1, <1>2 DEF RootsOf, EndsOf
  <1>4. HeapShared(h, nd2) /\ PlansShared(sol, nd2)
    BY <1>3 DEF Memory, HeapShared, PlansShared
  <1>5. NodesFit(h, sol, nd2)
    <2>1. DOMAIN nd \subseteq NodeId /\ \A x \in DOMAIN nd : nd[x] \in SearchNode /\ NodeFits(h, sol, nd[x])
      BY DEF Memory, NodesFit
    <2>2. \A x \in DOMAIN nd : NodeFits(h, sol, nd2[x])
      BY <1>1, <2>1 DEF NodeFits
    <2>3. \A x \in DOMAIN nd : nd2[x] \in SearchNode
      BY <2>1 DEF Marked
    <2>4. QED BY <1>2, <2>1, <2>2, <2>3 DEF NodesFit
  <1>6. \A x \in DOMAIN nd : ValueIn(h, sol, nd2[x]) = ValueIn(h, sol, nd[x])
    BY <1>1 DEF ValueIn
  <1>7. ApplicableTo(h, nd2[n]) = ApplicableTo(h, nd[n])
    BY <1>1 DEF ApplicableTo
  <1>8. EffectLessFor(h, nd2[n]) = EffectLessFor(h, nd[n])
    BY <1>7 DEF EffectLessFor
  <1>9. AllPrimitive(h, nd2[n]) <=> AllPrimitive(h, nd[n])
    BY <1>1 DEF AllPrimitive
  <1>10. QED BY <1>4, <1>5, <1>6, <1>7, <1>8, <1>9 DEF Memory

\* A result without actions left to apply is settled: nobody sees a change.
LEMMA SettleStep ==
  ASSUME IInv, Settle
  PROVE  IInv' /\ Networks' = Networks
  <1> DEFINE n == call.node
             dead == OnlyPrimitive(n) /\ ApplicableIn(n) = {}
  <1>1. /\ call.calling /\ ~ call.returning /\ call.effectLess = {}
        /\ OnlyPrimitive(n) => Cardinality(ApplicableIn(n)) # 1
        /\ call' = [call EXCEPT !.returning = TRUE]
        /\ nodes' = [nodes EXCEPT ![n].goalReachable = ~ dead]
        /\ heap' = heap /\ solutions' = solutions
    BY DEF Settle, Returning
  <1>2. Memory(heap, solutions, nodes) /\ CallFits(heap, nodes, call) /\ HeldFit(heap, nodes, call)
    BY DEF IInv
  <1>3. /\ call \in [calling : {TRUE}, node : DOMAIN nodes, results : Seq(DOMAIN nodes),
                     effectLess : SUBSET Address, returning : BOOLEAN]
        /\ \A i, j \in 1 .. Len(call.results) : call.results[i] = call.results[j] => i = j
        /\ \A i \in 1 .. Len(call.results) : call.results[i] # n
        /\ nodes[n].solution # NoPlan
        /\ call.effectLess = EffectLessFor(heap, nodes[n])
    BY <1>1, CallIsUnderWay
  <1>4. n \in DOMAIN nodes /\ nodes[n] \in SearchNode
    BY <1>2, <1>3 DEF Memory, NodesFit
  <1>5. dead \in BOOLEAN /\ (dead <=> AllPrimitive(heap, nodes[n]) /\ ApplicableTo(heap, nodes[n]) = {})
        /\ (OnlyPrimitive(n) <=> AllPrimitive(heap, nodes[n])) /\ ApplicableIn(n) = ApplicableTo(heap, nodes[n])
    BY DEF OnlyPrimitive, ApplicableIn, AllPrimitive, ApplicableTo, Label
  <1>6. Marked(nodes', nodes, n, ~ dead)
    <2> DEFINE v == ~ dead
    <2>1. v \in BOOLEAN
      OBVIOUS
    <2>2. nodes' = [nodes EXCEPT ![n].goalReachable = v]
      BY <1>1
    <2> HIDE DEF v, n
    <2>3. nodes'[n] = [nodes[n] EXCEPT !.goalReachable = v] /\ DOMAIN nodes' = DOMAIN nodes
          /\ \A x \in DOMAIN nodes \ {n} : nodes'[x] = nodes[x]
      BY <1>4, <2>2
    <2>4. /\ nodes'[n] \in SearchNode
          /\ nodes'[n].unconstraint = nodes[n].unconstraint /\ nodes'[n].state = nodes[n].state
          /\ nodes'[n].solution = nodes[n].solution /\ nodes'[n].contained = nodes[n].contained
          /\ nodes'[n].modificationDepth = nodes[n].modificationDepth
          /\ nodes'[n].actionCosts = nodes[n].actionCosts
          /\ nodes'[n].goalReachable = v
      BY <1>4, <2>1, <2>3 DEF SearchNode
    <2>5. Marked(nodes', nodes, n, v)
      BY <2>3, <2>4 DEF Marked
    <2>6. QED BY <2>5 DEF v
  <1>7. /\ Memory(heap, solutions, nodes')
        /\ \A x \in DOMAIN nodes : ValueIn(heap, solutions, nodes'[x]) = ValueIn(heap, solutions, nodes[x])
        /\ ApplicableTo(heap, nodes'[n]) = ApplicableTo(heap, nodes[n])
        /\ EffectLessFor(heap, nodes'[n]) = EffectLessFor(heap, nodes[n])
        /\ AllPrimitive(heap, nodes'[n]) <=> AllPrimitive(heap, nodes[n])
    <2> HIDE DEF dead, n
    <2>1. QED BY ONLY <1>2, <1>4, <1>6, MarkedFits
  <1>8. /\ DOMAIN nodes' = DOMAIN nodes /\ nodes'[n].solution = nodes[n].solution
        /\ nodes'[n].goalReachable = ~ dead
        /\ \A x \in DOMAIN nodes \ {n} : nodes'[x] = nodes[x]
    BY <1>6 DEF Marked
  <1>9. Settled(heap, nodes'[n])
    BY <1>1, <1>3, <1>5, <1>7, <1>8 DEF Settled
  <1>10. /\ call'.calling /\ call'.node = n /\ call'.results = call.results /\ call'.returning
         /\ call' \in [calling : {TRUE}, node : DOMAIN nodes', results : Seq(DOMAIN nodes'),
                       effectLess : SUBSET Address, returning : BOOLEAN]
    BY <1>1, <1>3, <1>8
  <1> HIDE DEF n, dead
  <1>11. CallFits(heap', nodes', call')
    BY <1>1, <1>3, <1>8, <1>9, <1>10 DEF CallFits
  <1>12. InProgress(call') = InProgress(call) /\ n \in InProgress(call)
    BY <1>1, <1>10 DEF InProgress, n
  <1>13. HeldFit(heap', nodes', call')
    <2>1. SUFFICES ASSUME NEW x \in DOMAIN nodes
                   PROVE  IF nodes'[x].solution = NoPlan THEN Primitives(heap, nodes'[x].unconstraint) = {}
                          ELSE x \notin InProgress(call) => Settled(heap, nodes'[x])
      BY <1>1, <1>8, <1>12 DEF HeldFit
    <2>2. CASE x = n
      BY <1>3, <1>8, <1>12, <2>2
    <2>3. CASE x # n
      BY <1>2, <1>8, <2>3 DEF HeldFit
    <2>4. QED BY <2>2, <2>3
  <1>14. Networks' = Networks
    BY <1>1, <1>7, <1>8, NetworksAreValues
  <1>15. QED BY <1>1, <1>7, <1>11, <1>13, <1>14 DEF IInv

\* Deleting a node keeps what the others rest on and drops its value.
LEMMA DeletedStep ==
  ASSUME IInv, NEW n \in DOMAIN nodes, Deleted(n)
  PROVE  /\ Memory(heap', solutions', nodes')
         /\ DOMAIN nodes' = DOMAIN nodes \ {n}
         /\ \A x \in DOMAIN nodes' :
              /\ nodes'[x] = nodes[x]
              /\ EffectLessFor(heap', nodes'[x]) = EffectLessFor(heap, nodes[x])
              /\ Primitives(heap', nodes'[x].unconstraint) = Primitives(heap, nodes[x].unconstraint)
              /\ Settled(heap, nodes[x]) <=> Settled(heap', nodes'[x])
         /\ Values!Drop(n)
  <1>1. Memory(heap, solutions, nodes)
    BY DEF IInv
  <1>2. IsDropped(heap', heap, solutions', solutions, nodes', nodes, n)
    BY DEF Deleted, IsDropped, SolutionOf
  <1>3. Memory(heap', solutions', nodes') /\ Agree(heap', heap) /\ PlansAgree(solutions', solutions)
    <2>1. n \in DOMAIN nodes
      OBVIOUS
    <2>2. QED BY ONLY <1>1, <1>2, <2>1, DroppedFits
  <1>4. DOMAIN nodes' = DOMAIN nodes \ {n} /\ \A x \in DOMAIN nodes' : nodes'[x] = nodes[x]
    BY <1>2 DEF IsDropped, Without
  <1>5. ASSUME NEW x \in DOMAIN nodes'
        PROVE  /\ ValueIn(heap', solutions', nodes'[x]) = ValueIn(heap, solutions, nodes[x])
               /\ EffectLessFor(heap', nodes'[x]) = EffectLessFor(heap, nodes[x])
               /\ Primitives(heap', nodes'[x].unconstraint) = Primitives(heap, nodes[x].unconstraint)
               /\ Settled(heap, nodes[x]) <=> Settled(heap', nodes'[x])
    <2>1. x \in DOMAIN nodes /\ x \in DOMAIN nodes' /\ nodes'[x] = nodes[x]
      BY <1>4
    <2>2. /\ ValueIn(heap', solutions', nodes[x]) = ValueIn(heap, solutions, nodes[x])
          /\ EffectLessFor(heap', nodes[x]) = EffectLessFor(heap, nodes[x])
          /\ Primitives(heap', nodes[x].unconstraint) = Primitives(heap, nodes[x].unconstraint)
          /\ Settled(heap, nodes[x]) <=> Settled(heap', nodes[x])
      BY ONLY <1>1, <1>3, <2>1, OthersHeld
    <2>3. QED BY <2>1, <2>2
  <1>6. Values!Drop(n)
    BY <1>4, <1>5, NetworksAreValues DEF Values!Drop
  <1>7. QED BY <1>3, <1>4, <1>5, <1>6

\* An intermediate result that is deleted takes with it just what nobody else reaches.
LEMMA DeleteIntermediateStep ==
  ASSUME IInv, DeleteIntermediate
  PROVE  IInv' /\ \E n \in DOMAIN nodes : Values!Drop(n)
  <1> DEFINE last == Len(call.results)
             n == call.results[last]
             rest == SubSeq(call.results, 1, last - 1)
  <1>1. /\ call.calling /\ call.returning /\ call.results # <<>>
        /\ Deleted(n) /\ call' = [call EXCEPT !.results = rest]
    BY DEF DeleteIntermediate
  <1>2. /\ call \in [calling : {TRUE}, node : DOMAIN nodes, results : Seq(DOMAIN nodes),
                     effectLess : SUBSET Address, returning : BOOLEAN]
        /\ \A i, j \in 1 .. Len(call.results) : call.results[i] = call.results[j] => i = j
        /\ \A i \in 1 .. Len(call.results) : call.results[i] # call.node
        /\ nodes[call.node].solution # NoPlan
        /\ Settled(heap, nodes[call.node])
    BY <1>1, CallIsUnderWay
  <1>3. last \in Nat \ {0} /\ last \in 1 .. last
    <2>1. last \in Nat \ {0}
      BY <1>1, <1>2, EmptySeq
    <2>2. QED BY <2>1
  <1>4. n \in DOMAIN nodes /\ n # call.node
    <2>1. n \in DOMAIN nodes
      BY <1>2, <1>3, ElementOfSeq
    <2>2. QED BY <1>2, <1>3, <2>1
  <1> DEFINE fits == /\ Memory(heap', solutions', nodes')
                     /\ DOMAIN nodes' = DOMAIN nodes \ {n}
                     /\ \A x \in DOMAIN nodes' :
                          /\ nodes'[x] = nodes[x]
                          /\ Primitives(heap', nodes'[x].unconstraint) = Primitives(heap, nodes[x].unconstraint)
                          /\ Settled(heap, nodes[x]) <=> Settled(heap', nodes'[x])
                     /\ Values!Drop(n)
  <1>5. fits
    <2> HIDE DEF n
    <2>1. QED BY <1>1, <1>4, DeletedStep
  <1>6. /\ rest \in Seq(DOMAIN nodes') /\ Len(rest) = last - 1
        /\ \A i \in 1 .. last - 1 : rest[i] = call.results[i]
    <2>1. \A i \in 1 .. last - 1 : i \in 1 .. last /\ i # last
      BY <1>3
    <2>2. \A i \in 1 .. last - 1 : call.results[i] \in DOMAIN nodes'
      <3>1. ASSUME NEW i \in 1 .. last - 1
            PROVE  call.results[i] \in DOMAIN nodes'
        <4>1. call.results[i] \in DOMAIN nodes
          BY <1>2, <2>1, ElementOfSeq
        <4>2. call.results[i] # n
          BY <1>2, <1>3, <2>1
        <4>3. QED BY <1>5, <4>1, <4>2
      <3>2. QED BY <3>1
    <2>3. 1 \in Int /\ last - 1 \in Int /\ last - 1 >= 0
      BY <1>3
    <2> HIDE DEF last, n
    <2>4. /\ rest \in Seq(DOMAIN nodes')
          /\ Len(rest) = IF 1 <= last - 1 THEN (last - 1) - 1 + 1 ELSE 0
          /\ \A i \in 1 .. (last - 1) - 1 + 1 : rest[i] = call.results[1 + i - 1]
      BY <2>2, <2>3, SubSeqProperties
    <2>5. QED BY <2>3, <2>4
  <1>7. /\ call'.calling /\ call'.returning /\ call'.node = call.node /\ call'.results = rest
        /\ call' \in [calling : {TRUE}, node : DOMAIN nodes', results : Seq(DOMAIN nodes'),
                      effectLess : SUBSET Address, returning : BOOLEAN]
    <2> HIDE DEF rest, n
    <2>1. call.node \in DOMAIN nodes'
      BY <1>2, <1>4, <1>5
    <2>2. QED BY <1>1, <1>2, <1>6, <2>1
  <1> HIDE DEF rest, n, last, fits
  <1>8. CallFits(heap', nodes', call')
    <2>1. /\ \A i, j \in 1 .. Len(rest) : rest[i] = rest[j] => i = j
          /\ \A i \in 1 .. Len(rest) : rest[i] # call.node
      <3>1. \A i \in 1 .. Len(rest) : i \in 1 .. last - 1 /\ i \in 1 .. Len(call.results)
        BY <1>3, <1>6 DEF last
      <3>2. QED BY <1>2, <1>6, <3>1
    <2>2. nodes'[call.node] = nodes[call.node] /\ Settled(heap', nodes'[call.node])
      BY <1>2, <1>5, <1>7 DEF fits
    <2>3. QED BY <1>2, <1>7, <2>1, <2>2 DEF CallFits
  <1>9. \A x \in InProgress(call) : x = n \/ x \in InProgress(call')
    <2>1. InProgress(call) = {call.results[i] : i \in 1 .. Len(call.results)} \union {call.node}
      BY <1>1, Zenon DEF InProgress
    <2>2. InProgress(call') = {rest[i] : i \in 1 .. Len(rest)} \union {call.node}
      BY <1>7 DEF InProgress
    <2>3. ASSUME NEW i \in 1 .. Len(call.results)
          PROVE  call.results[i] = n \/ call.results[i] \in InProgress(call')
      <3>1. i = last \/ i \in 1 .. last - 1
        BY <1>3 DEF last
      <3>2. CASE i = last
        BY <3>2 DEF n
      <3>3. CASE i \in 1 .. last - 1
        BY <1>6, <2>2, <3>3
      <3>4. QED BY <3>1, <3>2, <3>3
    <2>4. QED BY <2>1, <2>2, <2>3
  <1>10. HeldFit(heap', nodes', call')
    <2>1. SUFFICES ASSUME NEW x \in DOMAIN nodes'
                   PROVE  IF nodes'[x].solution = NoPlan THEN Primitives(heap', nodes'[x].unconstraint) = {}
                          ELSE x \notin InProgress(call') => Settled(heap', nodes'[x])
      BY DEF HeldFit
    <2>2. /\ x \in DOMAIN nodes /\ x # n /\ nodes'[x] = nodes[x]
          /\ Primitives(heap', nodes'[x].unconstraint) = Primitives(heap, nodes[x].unconstraint)
          /\ Settled(heap, nodes[x]) <=> Settled(heap', nodes'[x])
      BY <1>5 DEF fits
    <2>3. IF nodes[x].solution = NoPlan THEN Primitives(heap, nodes[x].unconstraint) = {}
          ELSE x \notin InProgress(call) => Settled(heap, nodes[x])
      BY <2>2 DEF IInv, HeldFit
    <2>4. QED BY <1>9, <2>2, <2>3
  <1>11. QED BY <1>4, <1>5, <1>8, <1>10 DEF IInv, fits

\* The caller deletes a node: it takes with it just what nobody else reaches.
LEMMA DeleteStep ==
  ASSUME IInv, NEW n \in DOMAIN nodes, Delete(n)
  PROVE  IInv' /\ Values!Drop(n)
  <1>1. ~ call.calling /\ Deleted(n) /\ call' = call
    BY DEF Delete
  <1>2. /\ Memory(heap', solutions', nodes')
        /\ DOMAIN nodes' = DOMAIN nodes \ {n}
        /\ \A x \in DOMAIN nodes' :
             /\ nodes'[x] = nodes[x]
             /\ Primitives(heap', nodes'[x].unconstraint) = Primitives(heap, nodes[x].unconstraint)
             /\ Settled(heap, nodes[x]) <=> Settled(heap', nodes'[x])
        /\ Values!Drop(n)
    BY <1>1, DeletedStep
  <1>3. call = Idle
    <2>1. CallFits(heap, nodes, call)
      BY DEF IInv
    <2>2. ASSUME call \in [calling : {TRUE}, node : DOMAIN nodes, results : Seq(DOMAIN nodes),
                           effectLess : SUBSET Address, returning : BOOLEAN]
          PROVE  FALSE
      BY <1>1, <2>2
    <2>3. QED BY <2>1, <2>2, Zenon DEF CallFits
  <1>4. CallFits(heap', nodes', call')
    BY <1>1, <1>3 DEF CallFits
  <1>5. InProgress(call) = {} /\ InProgress(call') = {}
    BY <1>1 DEF InProgress
  <1>6. HeldFit(heap', nodes', call')
    <2>1. HeldFit(heap, nodes, call)
      BY DEF IInv
    <2>2. QED BY <1>2, <1>5, <2>1 DEF HeldFit
  <1>7. QED BY <1>2, <1>4, <1>6 DEF IInv

\* A call that returns leaves its results to the caller.
LEMMA ReturnStep ==
  ASSUME IInv, Return
  PROVE  IInv' /\ Networks' = Networks
  <1>1. /\ call.calling /\ call.returning /\ call.results = <<>> /\ call' = Idle
        /\ heap' = heap /\ solutions' = solutions /\ nodes' = nodes
    BY DEF Return
  <1>2. Settled(heap, nodes[call.node])
    BY <1>1, CallIsUnderWay
  <1>3. InProgress(call) \subseteq {call.node}
    <2>1. InProgress(call) = {call.results[i] : i \in 1 .. Len(call.results)} \union {call.node}
      BY <1>1, Zenon DEF InProgress
    <2>2. 1 .. Len(call.results) = {}
      BY <1>1, EmptySeq
    <2>3. QED BY <2>1, <2>2
  <1>4. HeldFit(heap, nodes, Idle)
    <2>1. HeldFit(heap, nodes, call)
      BY DEF IInv
    <2>2. QED BY <1>2, <1>3, <2>1 DEF HeldFit
  <1>5. CallFits(heap, nodes, Idle)
    BY DEF CallFits
  <1>6. Networks' = Networks
    BY <1>1, NetworksAreValues
  <1>7. QED BY <1>1, <1>4, <1>5, <1>6 DEF IInv

\* The first node: one step that nothing shares, and no plan yet.
LEMMA InitFits ==
  ASSUME Init
  PROVE  IInv /\ Values!Init
  <1> DEFINE a == CHOOSE x \in Address : TRUE
             n == CHOOSE x \in NodeId : TRUE
             e == [unconstraint |-> {a}, state |-> s0, solution |-> NoPlan,
                   contained |-> [t \in Task |-> IF t = initialTask THEN 1 ELSE 0],
                   modificationDepth |-> 0, mixedModificationDepth |-> 0,
                   actionCosts |-> 0, goalReachable |-> TRUE]
  <1>1. a \in Address /\ n \in NodeId /\ initialTask \in Task /\ initialTask \notin Primitive
        /\ s0 \in SUBSET Fact
    BY MemoryAssumption, ModelAssumption
  <1>2. /\ heap = [x \in {a} |-> [task |-> initialTask, successorList |-> {},
                                  pointersToMe |-> 1, reachableT |-> NoReachability]]
        /\ solutions = [p \in {} |-> NoPlan]
        /\ nodes = [x \in {n} |-> e] /\ call = Idle
    BY DEF Init
  <1>3. /\ e.unconstraint = {a} /\ e.state = s0 /\ e.solution = NoPlan
        /\ \A t \in Task : e.contained[t] = IF t = initialTask THEN 1 ELSE 0
        /\ e.modificationDepth = 0 /\ e.actionCosts = 0 /\ e \in SearchNode
    <2>1. [t \in Task |-> IF t = initialTask THEN 1 ELSE 0] \in [Task -> Nat]
      OBVIOUS
    <2>2. QED BY <1>1, <2>1 DEF SearchNode, NoPlan
  <1> HIDE DEF a, n, e
  <1>4. /\ DOMAIN heap = {a} /\ heap[a].task = initialTask /\ heap[a].successorList = {}
        /\ heap[a].pointersToMe = 1 /\ heap[a].reachableT = NoReachability /\ heap[a] \in PlanStep
    BY <1>1, <1>2 DEF PlanStep
  <1>5. DOMAIN nodes = {n} /\ nodes[n] = e /\ DOMAIN solutions = {}
    BY <1>2
  <1> DEFINE G == Pointers(heap)
  <1>6. DOMAIN G = {a} /\ G[a] = {} /\ IsFiniteSet({a}) /\ IsFiniteSet({n}) /\ IsFiniteSet({})
        /\ Cardinality({n}) = 1 /\ Cardinality({a}) = 1 /\ Cardinality({}) = 0
    BY <1>4, PointersOf, FS_Singleton, FS_EmptySet
  <1> HIDE DEF G
  <1>7. Shared(G, Counts(heap), RootsOf(nodes))
    <2>1. IsGraph(G)
      BY <1>6 DEF IsGraph
    <2>2. Acyclic(G)
      BY <1>6 DEF Acyclic
    <2>3. DOMAIN RootsOf(nodes) = {n} /\ RootsOf(nodes)[n] = {a}
      BY <1>3, <1>5 DEF RootsOf
    <2>4. Holding(RootsOf(nodes), a) = {n} /\ Pointing(G, a) = {}
      BY <1>6, <2>3 DEF Holding, Pointing
    <2>5. Counts(heap)[a] = 1
      BY <1>4 DEF Counts
    <2>6. Counts(heap)[a] = Cardinality(Holding(RootsOf(nodes), a)) + Cardinality(Pointing(G, a))
      BY <1>6, <2>4, <2>5
    <2>7. QED BY <1>6, <2>1, <2>2, <2>3, <2>5, <2>6 DEF Shared
  <1>8. HeapShared(heap, nodes)
    BY <1>1, <1>4, <1>7 DEF HeapShared, IsHeap, CachesExact, G
  <1>9. PlansShared(solutions, nodes)
    <2> DEFINE H == PlanPointers(solutions)
    <2>1. DOMAIN H = {} /\ DOMAIN EndsOf(nodes) = {n} /\ EndsOf(nodes)[n] = {}
      BY <1>3, <1>5 DEF PlanPointers, EndsOf
    <2> HIDE DEF H
    <2>2. IsGraph(H) /\ Acyclic(H)
      BY <1>6, <2>1 DEF IsGraph, Acyclic
    <2>3. Shared(H, Counts(solutions), EndsOf(nodes))
      BY <1>6, <2>1, <2>2 DEF Shared
    <2>4. IsPlans(solutions)
      BY <1>5 DEF IsPlans
    <2>5. QED BY <2>3, <2>4 DEF PlansShared, H
  <1>10. PlanOf(solutions)[NoPlan] = <<>> /\ CostOf(solutions)[NoPlan] = 0
    <2>1. AreChains(solutions)
      BY <1>9 DEF PlansShared, AreChains, Shared
    <2>2. QED BY <2>1, PlanUnfolds
  <1>11. Descendants(heap, {a}) = {} /\ NetworkIn(heap, {a}) = {a}
    <2>1. IsGraph(G)
      BY <1>7 DEF Shared
    <2>2. ReachedFrom(G, {a}) \subseteq {}
      BY <1>6, <2>1, ReachedIsLeast
    <2>3. QED BY <2>2 DEF Descendants, NetworkIn, G
  <1>12. IsNetwork(G, {a}, {a})
    BY <1>6, <1>11 DEF IsNetwork, Descendants, G
  <1>13. NodeFits(heap, solutions, e)
    <2>1. \A t \in Task : e.contained[t] = CountIn(heap, {a}, t)
      <3>1. ASSUME NEW t \in Task
            PROVE  e.contained[t] = CountIn(heap, {a}, t)
        <4>1. CASE t = initialTask
          <5>1. {x \in {a} : heap[x].task = t} = {a}
            BY <1>4, <4>1
          <5>2. QED BY <1>3, <1>6, <4>1, <5>1 DEF CountIn
        <4>2. CASE t # initialTask
          <5>1. {x \in {a} : heap[x].task = t} = {}
            BY <1>4, <4>2
          <5>2. QED BY <1>3, <1>6, <4>2, <5>1 DEF CountIn
        <4>3. QED BY <4>1, <4>2
      <3>2. QED BY <3>1
    <2>2. Len(<<>>) = 0
      OBVIOUS
    <2>3. QED BY <1>3, <1>10, <1>11, <1>12, <2>1, <2>2 DEF NodeFits, G
  <1>14. NodesFit(heap, solutions, nodes)
    BY <1>1, <1>3, <1>5, <1>13 DEF NodesFit
  <1>15. HeldFit(heap, nodes, call)
    <2>1. Primitives(heap, {a}) = {}
      BY <1>1, <1>4 DEF Primitives
    <2>2. QED BY <1>3, <1>5, <2>1 DEF HeldFit
  <1>16. IInv
    BY <1>2, <1>8, <1>9, <1>14, <1>15 DEF IInv, Memory, CallFits
  <1>17. Values!Init
    <2>1. ValueIn(heap, solutions, e) = [task |-> [x \in {a} |-> heap[x].task], before |-> BeforeIn(heap, {a}),
                                         state |-> s0, plan |-> <<>>]
      BY <1>3, <1>10, <1>11 DEF ValueIn
    <2>2. [x \in {a} |-> heap[x].task] = [x \in {a} |-> initialTask]
      BY <1>4
    <2>3. BeforeIn(heap, {a}) = {}
      BY <1>11 DEF BeforeIn
    <2>4. ValueIn(heap, solutions, e) = Values!InitialNetwork(a)
      BY <2>1, <2>2, <2>3 DEF Values!InitialNetwork
    <2>5. Networks = [x \in {n} |-> Values!InitialNetwork(a)]
      BY <1>5, <2>4, NetworksAreValues
    <2>6. QED BY <1>1, <2>5 DEF Values!Init
  <1>18. QED BY <1>16, <1>17
-----------------------------------------------------------------------------
(* Every step keeps the invariant and is a step of the values, or none.    *)

\* What the value of a node says of an unconstrained step.
LEMMA ValueOfStep ==
  ASSUME IInv, NEW n \in DOMAIN nodes, NEW s \in nodes[n].unconstraint
  PROVE  /\ n \in DOMAIN Networks /\ s \in Values!Steps(Networks[n])
         /\ s \in Values!Unconstrained(Networks[n])
         /\ Networks[n].task[s] = heap[s].task /\ Networks[n].state = nodes[n].state
         /\ Values!Steps(Networks[n]) \subseteq DOMAIN heap
  <1> DEFINE uc == nodes[n].unconstraint
             N == NetworkIn(heap, uc)
             G == Pointers(heap)
  <1>1. HeapShared(heap, nodes) /\ NodesFit(heap, solutions, nodes)
    BY DEF IInv, Memory
  <1>2. IsNetwork(G, uc, N) /\ IsGraph(G) /\ DOMAIN G = DOMAIN heap
    BY <1>1, PointersOf DEF HeapShared, Shared, NodesFit, NodeFits
  <1>3. /\ n \in DOMAIN Networks /\ Networks[n] = ValueIn(heap, solutions, nodes[n])
    BY NetworksAreValues
  <1>4. /\ Networks[n].task = [x \in N |-> heap[x].task] /\ Networks[n].before = BeforeIn(heap, N)
        /\ Networks[n].state = nodes[n].state
    BY <1>3 DEF ValueIn
  <1>5. Values!Steps(Networks[n]) = N
    BY <1>4 DEF Values!Steps
  <1>6. s \in N /\ N \subseteq DOMAIN heap
    BY <1>2 DEF IsNetwork
  <1> HIDE DEF N, G
  <1>7. ASSUME NEW p \in N
        PROVE  Pair(p, s) \notin BeforeIn(heap, N)
    <2>1. SUFFICES ASSUME s \in ReachedFrom(G, {p})
                   PROVE  FALSE
      BY BeforeInPairs DEF Descendants, G
    <2>2. PICK x \in DOMAIN G : (x \in {p} \/ x \in ReachedFrom(G, {p})) /\ s \in G[x]
      BY <1>2, <2>1, ReachedHasPred
    <2>3. \A y \in N : y \in DOMAIN G /\ G[y] \subseteq N
      <3> HIDE DEF uc
      <3>1. (\A y \in N : G[y] \subseteq N) /\ N \subseteq DOMAIN G
        BY ONLY <1>2, NetworkIsClosed DEF IsNetwork
      <3>2. QED BY <3>1
    <2>4. ReachedFrom(G, {p}) \subseteq N
      BY <1>2, <2>3, ReachedIsLeast
    <2>5. x \in N
      BY <2>2, <2>4
    <2>6. QED BY <1>2, <2>2, <2>5 DEF IsNetwork
  <1>8. s \in Values!Unconstrained(Networks[n])
    BY <1>4, <1>5, <1>6, <1>7 DEF Values!Unconstrained, Pair
  <1>9. QED BY <1>3, <1>4, <1>5, <1>6, <1>8

\* Progressing a network is a step of TaskNetwork.
LEMMA ValueApplied ==
  ASSUME IInv, NEW n \in DOMAIN nodes, NEW s \in nodes[n].unconstraint, NEW c \in NodeId,
         heap[s].task \in Primitive, isApplicable(nodes[n].state, heap[s].task),
         Values!NewNode(c, Values!Applied(Networks[n], s))
  PROVE  Values!Next
  <1>1. n \in DOMAIN Networks /\ s \in Values!Steps(Networks[n])
    BY ValueOfStep
  <1>2. Values!Apply(n, s, c)
    BY ValueOfStep DEF Values!Apply, Values!isApplicable, isApplicable
  <1>3. QED BY <1>1, <1>2 DEF Values!Next

\* Decomposing one is a step of TaskNetwork.
LEMMA ValueDecomposed ==
  ASSUME IInv, NEW n \in DOMAIN nodes, NEW s \in nodes[n].unconstraint, NEW c \in NodeId,
         NEW m \in Method, heap[s].task = decomposedTask[m], NEW inst, IsAllocated(heap, m, inst),
         Values!NewNode(c, Values!Decomposed(Networks[n], s, m, inst))
  PROVE  Values!Next
  <1>1. n \in DOMAIN Networks /\ s \in Values!Steps(Networks[n])
    BY ValueOfStep
  <1>2. m \in Values!MethodsFor(Networks[n].task[s])
    BY ValueOfStep DEF Values!MethodsFor
  <1>3. inst \in [Values!Positions(m) -> Address \ Values!Steps(Networks[n])]
    <2>1. Values!Positions(m) = Positions(m)
      BY DEF Values!Positions, Positions
    <2>2. inst \in [Positions(m) -> Address \ DOMAIN heap] /\ Values!Steps(Networks[n]) \subseteq DOMAIN heap
      BY ValueOfStep DEF IsAllocated
    <2>3. QED BY <2>1, <2>2
  <1>4. \A i, j \in Values!Positions(m) : inst[i] = inst[j] => i = j
    BY DEF IsAllocated, Values!Positions, Positions
  <1>5. Values!Decompose(n, s, m, c)
    BY <1>2, <1>3, <1>4, ValueOfStep DEF Values!Decompose
  <1>6. QED BY <1>1, <1>5 DEF Values!Next

\* Dropping one is a step of TaskNetwork.
LEMMA ValueDropped ==
  ASSUME NEW n \in DOMAIN nodes, Values!Drop(n)
  PROVE  Values!Next
  <1>1. n \in DOMAIN Networks
    BY NetworksAreValues
  <1>2. QED BY <1>1 DEF Values!Next

\* Every step leaves the invariant, and is one of TaskNetwork or changes no network.
LEMMA StepFits ==
  ASSUME IInv, [Next]_vars
  PROVE  IInv' /\ [Values!Next]_Networks
  <1>1. ASSUME NEW n \in DOMAIN nodes, NEW s \in nodes[n].unconstraint, Apply(n, s)
        PROVE  IInv' /\ [Values!Next]_Networks
    BY <1>1, ApplyStep, ValueApplied
  <1>2. ASSUME NEW n \in DOMAIN nodes, NEW s \in nodes[n].unconstraint, NEW m \in Method, Decompose(n, s, m)
        PROVE  IInv' /\ [Values!Next]_Networks
    BY <1>2, DecomposeStep, ValueDecomposed
  <1>3. ASSUME NEW n \in DOMAIN nodes, Delete(n)
        PROVE  IInv' /\ [Values!Next]_Networks
    BY <1>3, DeleteStep, ValueDropped
  <1>4. ASSUME NEW s \in Address, ProgressEffectLess(s) \/ ProgressOnlyAction(s)
        PROVE  IInv' /\ [Values!Next]_Networks
    BY <1>4, ProgressStep, ValueApplied
  <1>5. CASE Settle
    BY <1>5, SettleStep
  <1>6. CASE DeleteIntermediate
    BY <1>6, DeleteIntermediateStep, ValueDropped
  <1>7. CASE Return
    BY <1>7, ReturnStep
  <1>8. CASE UNCHANGED vars
    <2>1. heap' = heap /\ solutions' = solutions /\ nodes' = nodes /\ call' = call
      BY <1>8 DEF vars
    <2>2. Networks' = Networks
      BY <2>1, NetworksAreValues
    <2>3. QED BY <2>1, <2>2 DEF IInv
  <1>9. CASE InCall
    BY <1>4, <1>5, <1>6, <1>7, <1>9 DEF InCall
  <1>10. CASE Exhausted
    BY <1>8, <1>10 DEF Exhausted
  <1>11. QED BY <1>1, <1>2, <1>3, <1>8, <1>9, <1>10 DEF Next
-----------------------------------------------------------------------------
(* What the invariant says of the model's own properties.                  *)

\* The invariant says what values variables have.
LEMMA TypeFollows ==
  ASSUME IInv
  PROVE  TypeOK
  <1>1. HeapShared(heap, nodes) /\ PlansShared(solutions, nodes) /\ NodesFit(heap, solutions, nodes)
    BY DEF IInv, Memory
  <1>2. ASSUME NEW s \in DOMAIN heap
        PROVE  heap[s] \in [task : Task, successorList : SUBSET Address, pointersToMe : Nat \ {0},
                            reachableT : (SUBSET Primitive) \union {NoReachability}]
    <2>1. heap[s] \in PlanStep
      BY <1>1 DEF HeapShared, IsHeap
    <2>2. heap[s].pointersToMe # 0
      <3>1. s \in DOMAIN Pointers(heap) /\ Counts(heap)[s] = heap[s].pointersToMe
        BY DEF Pointers, Counts
      <3>2. QED BY <1>1, <3>1 DEF HeapShared, Shared
    <2>3. QED BY <2>1, <2>2 DEF PlanStep
  <1>3. ASSUME NEW p \in DOMAIN solutions
        PROVE  solutions[p] \in [task : Task, method : Method \union {NoMethod}, prev : Nat,
                                 pointersToMe : Nat \ {0}]
    <2>1. solutions[p] \in SolutionStep
      BY <1>1 DEF PlansShared, IsPlans
    <2>2. solutions[p].pointersToMe # 0
      <3>1. p \in DOMAIN PlanPointers(solutions) /\ Counts(solutions)[p] = solutions[p].pointersToMe
        BY DEF PlanPointers, Counts
      <3>2. QED BY <1>1, <3>1 DEF PlansShared, Shared
    <2>3. QED BY <2>1, <2>2 DEF SolutionStep
  <1>4. call.calling => /\ call.node \in DOMAIN nodes
                        /\ \A i \in 1 .. Len(call.results) : call.results[i] \in DOMAIN nodes
    <2>1. SUFFICES ASSUME call.calling
                   PROVE  /\ call.node \in DOMAIN nodes
                          /\ \A i \in 1 .. Len(call.results) : call.results[i] \in DOMAIN nodes
      OBVIOUS
    <2>2. call.node \in DOMAIN nodes /\ call.results \in Seq(DOMAIN nodes)
      BY <2>1, CallIsUnderWay
    <2>3. QED BY <2>2, ElementOfSeq
  <1>5. DOMAIN heap \subseteq Address /\ DOMAIN nodes \subseteq NodeId
        /\ \A n \in DOMAIN nodes : nodes[n] \in SearchNode
    BY <1>1 DEF HeapShared, NodesFit
  <1>6. QED BY <1>2, <1>3, <1>4, <1>5 DEF TypeOK, SearchNode

\* It says that counts are exact and that just what nodes reach is allocated.
LEMMA HeapExactFollows ==
  ASSUME IInv
  PROVE  HeapExact
  <1>1. /\ Shared(Pointers(heap), Counts(heap), RootsOf(nodes))
        /\ Shared(PlanPointers(solutions), Counts(solutions), EndsOf(nodes))
        /\ IsPlans(solutions)
    BY DEF IInv, Memory, HeapShared, PlansShared
  <1>2. ASSUME NEW s \in DOMAIN heap
        PROVE  heap[s].pointersToMe = Cardinality({n \in DOMAIN nodes : s \in nodes[n].unconstraint})
                                      + Cardinality({x \in DOMAIN heap : s \in heap[x].successorList})
    <2>1. s \in DOMAIN Pointers(heap) /\ Counts(heap)[s] = heap[s].pointersToMe
      BY DEF Pointers, Counts
    <2>2. Holding(RootsOf(nodes), s) = {n \in DOMAIN nodes : s \in nodes[n].unconstraint}
      BY DEF Holding, RootsOf
    <2>3. Pointing(Pointers(heap), s) = {x \in DOMAIN heap : s \in heap[x].successorList}
      BY DEF Pointing, Pointers
    <2>4. Counts(heap)[s] = Cardinality(Holding(RootsOf(nodes), s)) + Cardinality(Pointing(Pointers(heap), s))
      BY <1>1, <2>1 DEF Shared
    <2>5. QED BY ONLY <2>1, <2>2, <2>3, <2>4
  <1>3. ASSUME NEW p \in DOMAIN solutions
        PROVE  solutions[p].pointersToMe = Cardinality({n \in DOMAIN nodes : nodes[n].solution = p})
                                           + Cardinality({q \in DOMAIN solutions : solutions[q].prev = p})
    <2>1. p \in DOMAIN PlanPointers(solutions) /\ Counts(solutions)[p] = solutions[p].pointersToMe
          /\ p # NoPlan
      BY <1>1 DEF PlanPointers, Counts, IsPlans
    <2>2. Holding(EndsOf(nodes), p) = {n \in DOMAIN nodes : nodes[n].solution = p}
      BY <2>1 DEF Holding, EndsOf
    <2>3. Pointing(PlanPointers(solutions), p) = {q \in DOMAIN solutions : solutions[q].prev = p}
      BY <2>1 DEF Pointing, PlanPointers
    <2>4. Counts(solutions)[p] = Cardinality(Holding(EndsOf(nodes), p))
                                 + Cardinality(Pointing(PlanPointers(solutions), p))
      BY <1>1, <2>1 DEF Shared
    <2>5. QED BY ONLY <2>1, <2>2, <2>3, <2>4
  <1>4. DOMAIN heap = UNION {NetworkOf(n) : n \in DOMAIN nodes}
    <2>1. JustReached(Pointers(heap), RootsOf(nodes))
      BY <1>1, AllIsReached
    <2>2. DOMAIN RootsOf(nodes) = DOMAIN nodes
          /\ \A n \in DOMAIN nodes : RootsOf(nodes)[n] \union ReachedFrom(Pointers(heap), RootsOf(nodes)[n])
                                       = NetworkOf(n)
      BY DEF RootsOf, NetworkOf, Descendants
    <2>3. DOMAIN Pointers(heap) = DOMAIN heap
      BY PointersOf
    <2> DEFINE All == {RootsOf(nodes)[n] \union ReachedFrom(Pointers(heap), RootsOf(nodes)[n]) : n \in DOMAIN nodes}
    <2>4. All = {NetworkOf(n) : n \in DOMAIN nodes}
      BY ONLY <2>2
    <2>5. DOMAIN heap = UNION All
      BY ONLY <2>1, <2>2, <2>3 DEF JustReached
    <2> HIDE DEF All
    <2>6. QED BY ONLY <2>4, <2>5
  <1>5. DOMAIN solutions
          = UNION {SolutionOf(n) \union ReachedFrom(PlanPointers(solutions), SolutionOf(n)) : n \in DOMAIN nodes}
    <2> DEFINE Reach(S) == S \union ReachedFrom(PlanPointers(solutions), S)
    <2>1. JustReached(PlanPointers(solutions), EndsOf(nodes))
      BY <1>1, AllIsReached
    <2>2. DOMAIN EndsOf(nodes) = DOMAIN nodes /\ \A n \in DOMAIN nodes : EndsOf(nodes)[n] = SolutionOf(n)
      BY DEF EndsOf, SolutionOf
    <2>3. DOMAIN PlanPointers(solutions) = DOMAIN solutions
      BY DEF PlanPointers
    <2>4. DOMAIN solutions = UNION {Reach(EndsOf(nodes)[n]) : n \in DOMAIN nodes}
      BY ONLY <2>1, <2>2, <2>3 DEF JustReached
    <2> HIDE DEF Reach
    <2>5. {Reach(EndsOf(nodes)[n]) : n \in DOMAIN nodes} = {Reach(SolutionOf(n)) : n \in DOMAIN nodes}
      BY ONLY <2>2
    <2>6. QED BY ONLY <2>4, <2>5 DEF Reach
  <1>6. QED BY <1>2, <1>3, <1>4, <1>5 DEF HeapExact, PointerCountsExact, HeapIsWhatNodesReach

\* It says that lists, counts, results and costs of nodes are right.
LEMMA NodesExactFollows ==
  ASSUME IInv
  PROVE  NodesExact
  <1>1. NodesFit(heap, solutions, nodes) /\ HeldFit(heap, nodes, call)
    BY DEF IInv, Memory
  <1>2. \A n \in DOMAIN nodes : NetworkOf(n) = NetworkIn(heap, nodes[n].unconstraint)
    BY DEF NetworkOf, NetworkIn
  <1>3. \A n \in DOMAIN nodes : NodeFits(heap, solutions, nodes[n])
    BY <1>1 DEF NodesFit
  <1>4. ListsHoldFirstTasks
    <2>1. SUFFICES ASSUME NEW n \in DOMAIN nodes
                   PROVE  nodes[n].unconstraint
                            = {s \in NetworkOf(n) : \A p \in NetworkOf(n) : s \notin heap[p].successorList}
      BY DEF ListsHoldFirstTasks
    <2>2. IsNetwork(Pointers(heap), nodes[n].unconstraint, NetworkOf(n))
      BY <1>2, <1>3 DEF NodeFits
    <2>3. \A p \in NetworkOf(n) : Pointers(heap)[p] = heap[p].successorList
      BY <2>2, PointersOf DEF IsNetwork
    <2>4. nodes[n].unconstraint = {s \in NetworkOf(n) : \A p \in NetworkOf(n) : s \notin Pointers(heap)[p]}
      BY <2>2 DEF IsNetwork
    <2>5. QED BY <2>3, <2>4
  <1>5. ContainedTasksExact
    BY <1>2, <1>3 DEF ContainedTasksExact, NodeFits, CountIn, Label
  <1>6. ResultsAreSettled
    <2>1. SUFFICES ASSUME NEW n \in DOMAIN nodes, ~ call.calling, nodes[n].solution # NoPlan
                   PROVE  /\ \A s \in ApplicableIn(n) : ~ EffectLess(Label(s))
                          /\ OnlyPrimitive(n) => Cardinality(ApplicableIn(n)) # 1
                          /\ nodes[n].goalReachable <=> ~ (OnlyPrimitive(n) /\ ApplicableIn(n) = {})
      BY DEF ResultsAreSettled
    <2>2. Settled(heap, nodes[n])
      BY <1>1, <2>1 DEF HeldFit, InProgress
    <2>3. ApplicableIn(n) = ApplicableTo(heap, nodes[n]) /\ (OnlyPrimitive(n) <=> AllPrimitive(heap, nodes[n]))
      BY DEF ApplicableIn, ApplicableTo, Label, OnlyPrimitive, AllPrimitive
    <2>4. \A s \in ApplicableIn(n) : ~ EffectLess(Label(s))
      BY <2>2, <2>3 DEF Settled, EffectLessFor, Label
    <2>5. QED BY <2>2, <2>3, <2>4 DEF Settled
  <1>7. CostsMatchPlan
    BY <1>3, PlanIsPlanOf DEF CostsMatchPlan, NodeFits
  <1>8. QED BY <1>4, <1>5, <1>6, <1>7, TypeFollows DEF NodesExact

\* It says that cached reachability is that of the steps below.
LEMMA CachesFollow ==
  ASSUME IInv
  PROVE  ReachabilityNotStale
  <1>1. CachesExact(heap) /\ \A n \in DOMAIN nodes : nodes[n].unconstraint \subseteq DOMAIN heap
    BY NodeRefs DEF IInv, Memory, HeapShared
  <1>2. QED BY <1>1 DEF ReachabilityNotStale, CachesExact, Below, Label
-----------------------------------------------------------------------------
(* The theorems.                                                           *)

\* The inductive invariant holds of every sequence of decompositions, applications, calls
\* inside them and deletions.
THEOREM SharingIsSound == Spec => []IInv
  <1>1. Init => IInv
    BY InitFits
  <1>2. IInv /\ [Next]_vars => IInv'
    BY StepFits
  <1>3. QED BY <1>1, <1>2, PTL DEF Spec

\* Pointers to plan steps, solution steps and nodes stay of their types, and a call works
\* on nodes that are allocated.
THEOREM TypeCorrect == Spec => []TypeOK
  <1>1. IInv => TypeOK
    BY TypeFollows
  <1>2. QED BY <1>1, SharingIsSound, PTL

\* pointersToMe of every plan step and solution step is the number of pointers to it, and
\* what is allocated is what the live nodes reach: ~searchNode frees nothing that another
\* node uses, and leaks nothing.
THEOREM HeapStaysExact == Spec => []HeapExact
  <1>1. IInv => HeapExact
    BY HeapExactFollows
  <1>2. QED BY <1>1, SharingIsSound, PTL

\* The lists, task counts, costs and depths of a node are those of the network and the plan
\* that its shared steps make up, and the search is given no unfinished node.
THEOREM NodesStayExact == Spec => []NodesExact
  <1>1. IInv => NodesExact
    BY NodesExactFollows
  <1>2. QED BY <1>1, SharingIsSound, PTL

\* The reachableT a step was given when it became unconstrained stays right while steps
\* below it are shared, replaced in other nodes and freed.
THEOREM ReachabilityStaysExact == Spec => []ReachabilityNotStale
  <1>1. IInv => ReachabilityNotStale
    BY CachesFollow
  <1>2. QED BY <1>1, SharingIsSound, PTL

\* decompose(), apply() and ~searchNode on shared steps do what they do on independent
\* task networks.
THEOREM Refinement == Spec => ImplementsTaskNetwork
  <1>1. Init => Values!Init
    BY InitFits
  <1>2. IInv /\ [Next]_vars => [Values!Next]_Networks
    BY StepFits
  <1>3. QED BY <1>1, <1>2, SharingIsSound, PTL DEF Spec, ImplementsTaskNetwork, Values!Spec
=============================================================================
