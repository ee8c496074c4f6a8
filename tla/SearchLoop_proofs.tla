------------------------- MODULE SearchLoop_proofs -------------------------
(***************************************************************************)
(* Proofs about SearchLoop, for every set of search spaces: no pointer to  *)
(* a deleted node is kept, early checking leaks nothing, pruning never     *)
(* cuts off all solutions, and A* search ends with a cheapest one.         *)
(***************************************************************************)
EXTENDS SearchLoop, FiniteSetTheorems, TLAPS

\* What the four deletes rest on, besides that pointers are alive.
Structure ==
  /\ IsFiniteSet(Nodes)
  /\ cur \notin fringe
  /\ CanDelete => stored = {}
  /\ ~Suboptimal => fringe \intersect stored = {}
  /\ cur = Nil => todo = <<>>
  /\ status = "search" => tnSol = Nil
  /\ \A a \in fringe : node[a].f \in Nat

Inv1 == TypeOK /\ PointersAreAlive /\ Structure /\ NothingLeaks

\* An address for a new node exists, and is not in use.
LEMMA FreshAddress ==
  ASSUME IsFiniteSet(Nodes)
  PROVE  Address \in Nat \ {Nil} /\ Address \notin Nodes
  <1> DEFINE n == Cardinality(Nodes)
  <1>1. n \in Nat
    BY FS_CardinalityType
  <1>2. \E a \in 1 .. n + 1 : a \notin Nodes
    <2>1. SUFFICES ASSUME 1 .. n + 1 \subseteq Nodes
                   PROVE  FALSE
      OBVIOUS
    <2>2. Cardinality(1 .. n + 1) = n + 1
      BY <1>1, FS_Interval
    <2>3. Cardinality(1 .. n + 1) <= n
      BY <2>1, FS_Subset
    <2>4. QED BY <1>1, <2>2, <2>3
  <1>3. Address \in 1 .. n + 1 /\ Address \notin Nodes
    BY <1>2 DEF Address, Nodes
  <1>4. QED BY <1>1, <1>3 DEF Nil

\* The child that comes next is a child, and so are those after it.
LEMMA FirstChild ==
  ASSUME todo \in Seq(Child), todo # <<>>
  PROVE  /\ Next1 \in Child
         /\ Tail(todo) \in Seq(Child)
  BY DEF Next1
-----------------------------------------------------------------------------
\* The search starts with the initial node in the fringe.
LEMMA TypeInit == Init => Inv1
  <1>1. SUFFICES ASSUME Init
                 PROVE  Inv1
    OBVIOUS
  <1>2. IsSpace(space) /\ Initial \in Network
    BY <1>1, SpacesAssumption DEF Init, IsSpace
  <1>3. Nodes = {1} /\ node[1] = [net |-> Initial, g |-> 0, f |-> 0]
    BY <1>1 DEF Init, Nodes
  <1>4. IsFiniteSet(Nodes)
    BY <1>3, FS_Singleton
  <1>5. TypeOK
    <2>1. \A a \in Nodes : a \in Nat \ {Nil} /\ node[a] \in [net : Network, g : Nat, f : Int]
      BY <1>2, <1>3 DEF Nil
    <2>2. todo \in Seq(Child)
      BY <1>1 DEF Init
    <2>3. /\ fringe \subseteq Nat /\ cur \in Nat /\ tnSol \in Nat
          /\ payload \in [Network -> Nat] /\ accepted \in [Network -> Nat]
          /\ status \in {"search", "stop", "Solved", "Timeout", "Proven unsolvable"}
      BY <1>1 DEF Init, Nil
    <2>4. late \in BOOLEAN /\ reachedTimeLimit \in BOOLEAN
      BY <1>1 DEF Init
    <2>5. QED BY <1>2, <2>1, <2>2, <2>3, <2>4, Zenon DEF TypeOK
  <1>6. PointersAreAlive /\ Structure /\ NothingLeaks
    BY <1>1, <1>3, <1>4 DEF Init, PointersAreAlive, Structure, NothingLeaks, Nil
  <1>7. QED BY <1>5, <1>6 DEF Inv1

\* The values in the queue are natural numbers.
LEMMA FValueType ==
  ASSUME TypeOK, NEW w \in Network, NEW g \in Nat
  PROVE  FValue(w, g) \in Nat
  <1>1. space.h[w] \in Nat /\ space.options.weight \in Nat
    BY DEF TypeOK, IsSpace, Options
  <1>2. space.h[w] * space.options.weight \in Nat
    BY <1>1
  <1>3. QED BY <1>2 DEF FValue

NodeRecord == [net : Network, g : Nat, f : Int]

NodesTyped == \A a \in Nodes : a \in Nat \ {Nil} /\ node[a] \in NodeRecord

\* The parts of TypeOK, before and after a step.
LEMMA TypeFromParts ==
  ASSUME NodesTyped', IsSpace(space'), fringe' \subseteq Nat, cur' \in Nat, tnSol' \in Nat,
         todo' \in Seq(Child), payload' \in [Network -> Nat], accepted' \in [Network -> Nat],
         late' \in BOOLEAN, reachedTimeLimit' \in BOOLEAN,
         status' \in {"search", "stop", "Solved", "Timeout", "Proven unsolvable"}
  PROVE  TypeOK'
  BY Zenon DEF TypeOK, NodesTyped, NodeRecord

\* What the type invariant says, part by part.
LEMMA PartsOfType ==
  ASSUME TypeOK
  PROVE  /\ NodesTyped /\ IsSpace(space) /\ fringe \subseteq Nat /\ cur \in Nat /\ tnSol \in Nat
         /\ todo \in Seq(Child) /\ payload \in [Network -> Nat] /\ accepted \in [Network -> Nat]
         /\ late \in BOOLEAN /\ reachedTimeLimit \in BOOLEAN
         /\ status \in {"search", "stop", "Solved", "Timeout", "Proven unsolvable"}
  BY Zenon DEF TypeOK, NodesTyped, NodeRecord
\* No node is at the null pointer.
LEMMA NilIsNoNode == TypeOK => Nil \notin Nodes
  BY DEF TypeOK

\* A new node has the address that was free.
LEMMA NodeAdded ==
  ASSUME TypeOK, Structure, NEW n \in NodeRecord, node' = With(Address, n)
  PROVE  /\ Address \in Nat \ {Nil} /\ Address \notin Nodes
         /\ Nodes' = Nodes \union {Address}
         /\ node'[Address] = n
         /\ \A b \in Nodes : node'[b] = node[b]
         /\ NodesTyped' /\ IsFiniteSet(Nodes')
  <1>1. IsFiniteSet(Nodes)
    BY DEF Structure
  <1>2. Address \in Nat \ {Nil} /\ Address \notin Nodes
    BY <1>1, FreshAddress
  <1>3. Nodes' = Nodes \union {Address} /\ node'[Address] = n /\ \A b \in Nodes : node'[b] = node[b]
    <2> DEFINE m == With(Address, n)
    <2>1. DOMAIN m = Nodes \union {Address} /\ m[Address] = n /\ \A b \in Nodes : b # Address => m[b] = node[b]
      BY DEF With, Nodes
    <2>2. node' = m
      OBVIOUS
    <2> HIDE DEF m
    <2>3. Nodes' = DOMAIN m
      BY <2>2 DEF Nodes
    <2>4. \A b \in Nodes : m[b] = node[b]
      BY <1>2, <2>1
    <2>5. node'[Address] = n /\ \A b \in Nodes : node'[b] = node[b]
      BY <2>1, <2>2, <2>4
    <2>6. QED BY <2>1, <2>3, <2>5
  <1>4. NodesTyped'
    BY <1>2, <1>3, PartsOfType DEF NodesTyped
  <1>5. IsFiniteSet(Nodes')
    BY <1>1, <1>3, FS_AddElement
  <1>6. QED BY <1>2, <1>3, <1>4, <1>5

\* Deleting a node leaves the others as they were.
LEMMA NodeRemoved ==
  ASSUME TypeOK, Structure, NEW a, node' = Without(a)
  PROVE  /\ Nodes' = Nodes \ {a}
         /\ \A b \in Nodes' : node'[b] = node[b]
         /\ NodesTyped' /\ IsFiniteSet(Nodes')
  <1>1. Nodes' = Nodes \ {a} /\ \A b \in Nodes' : node'[b] = node[b]
    <2> DEFINE m == Without(a)
    <2>1. DOMAIN m = Nodes \ {a} /\ \A b \in Nodes : b # a => m[b] = node[b]
      BY DEF Without, Nodes
    <2>2. node' = m
      OBVIOUS
    <2> HIDE DEF m
    <2>3. Nodes' = DOMAIN m
      BY <2>2 DEF Nodes
    <2>4. QED BY <2>1, <2>2, <2>3
  <1>2. NodesTyped'
    BY <1>1, PartsOfType DEF NodesTyped
  <1>3. IsFiniteSet(Nodes')
    BY <1>1, FS_RemoveElement DEF Structure
  <1>4. QED BY <1>1, <1>2, <1>3

\* What the visited list keeps of a node that is called new.
LEMMA Remembered ==
  ASSUME TypeOK, NEW w \in Network, NEW f \in Int, Suboptimal \/ f \in Nat, NEW a, Remember(w, f, a)
  PROVE  /\ payload' \in [Network -> Nat]
         /\ accepted' \in [Network -> Nat]
         /\ stored' \subseteq stored \union {a}
         /\ VisitedMode # "nodes" => stored' = stored
  <1>1. Entry(f) \in Nat
    BY DEF Entry
  <1>2. payload' \in [Network -> Nat]
    BY <1>1 DEF Remember, TypeOK
  <1>3. accepted' \in [Network -> Nat]
    <2>1. accepted \in [Network -> Nat] /\ accepted' = [accepted EXCEPT ![w] = accepted[w] + 1]
      BY PartsOfType DEF Remember
    <2>2. QED BY <2>1
  <1>4. /\ VisitedMode = "nodes" => stored' = {b \in stored : node[b].net # w} \union {a}
        /\ VisitedMode # "nodes" => stored' = stored
    BY Zenon DEF Remember
  <1>5. QED BY <1>2, <1>3, <1>4

-----------------------------------------------------------------------------
\* What a step finds: a node that is popped, and a child of the node being expanded.
LEMMA Popped ==
  ASSUME Inv1, Idle, NEW a \in BestOf(fringe)
  PROVE  /\ a \in fringe /\ a \in Nodes /\ a \in Nat \ {Nil}
         /\ node[a].net \in Network /\ node[a].g \in Nat /\ node[a].f \in Nat
         /\ cur = Nil /\ tnSol = Nil /\ todo = <<>> /\ status = "search"
  <1>1. a \in fringe /\ a \in Nodes
    BY DEF BestOf, Inv1, PointersAreAlive
  <1>2. node[a] \in NodeRecord /\ a \in Nat \ {Nil}
    BY <1>1, PartsOfType DEF Inv1, NodesTyped
  <1>3. QED BY <1>1, <1>2 DEF Inv1, Structure, Idle, NodeRecord

\* While children are generated, there is a node that is expanded and a next child.
LEMMA ChildOfCurrent ==
  ASSUME Inv1, MayGenerate
  PROVE  /\ cur \in Nodes /\ cur # Nil /\ tnSol = Nil /\ status = "search"
         /\ node[cur].net \in Network /\ node[cur].g \in Nat
         /\ Next1 \in Child /\ Tail(todo) \in Seq(Child) /\ GOfChild \in Nat
  <1>1. cur # Nil /\ status = "search" /\ todo # <<>>
    BY DEF MayGenerate, Expanding
  <1>2. cur \in Nodes /\ tnSol = Nil
    BY <1>1 DEF Inv1, PointersAreAlive, Structure
  <1>3. node[cur] \in NodeRecord
    BY <1>2, PartsOfType DEF Inv1, NodesTyped
  <1>4. node[cur].net \in Network /\ node[cur].g \in Nat
    BY <1>3 DEF NodeRecord
  <1>5. todo \in Seq(Child)
    BY PartsOfType DEF Inv1
  <1>6. Next1 \in Child /\ Tail(todo) \in Seq(Child)
    BY <1>1, <1>5, FirstChild
  <1>7. GOfChild \in Nat
    BY <1>4, <1>6 DEF GOfChild, Child
  <1>8. QED BY <1>1, <1>2, <1>4, <1>6, <1>7

\* The expansions of a network are sequences of children.
LEMMA ExpansionType ==
  ASSUME IsSpace(space), NEW w \in Network, NEW x \in space.expansions[w]
  PROVE  x \in Seq(Child)
  <1>1. space.expansions \in [Network -> SUBSET Seq(Child)]
    BY DEF IsSpace
  <1>2. space.expansions[w] \in SUBSET Seq(Child)
    BY <1>1
  <1>3. QED BY <1>2

\* A step that leaves the nodes alone.
LEMMA NodesKept ==
  ASSUME TypeOK, Structure, node' = node
  PROVE  Nodes' = Nodes /\ NodesTyped' /\ IsFiniteSet(Nodes')
  <1>1. Nodes' = Nodes /\ IsFiniteSet(Nodes)
    BY DEF Nodes, Structure
  <1>2. NodesTyped'
    BY <1>1, PartsOfType DEF NodesTyped
  <1>3. QED BY <1>1, <1>2

\* What the early check does to the visited list.
LEMMA AcceptedChild ==
  ASSUME Inv1, Next1.to \in Network, NEW f \in Garbage, Accepted(Address, f)
  PROVE  /\ payload' \in [Network -> Nat] /\ accepted' \in [Network -> Nat]
         /\ stored' \subseteq stored \union {Address}
         /\ CanDelete \/ ~Suboptimal => stored' = stored
  <1>1. CASE Suboptimal
    <2>1. Remember(Next1.to, f, Address) /\ f \in Int
      BY <1>1, GarbageAssumption DEF Accepted
    <2>2. /\ payload' \in [Network -> Nat] /\ accepted' \in [Network -> Nat]
          /\ stored' \subseteq stored \union {Address}
          /\ VisitedMode # "nodes" => stored' = stored
      BY <1>1, <2>1, Remembered DEF Inv1
    <2>3. CanDelete => VisitedMode # "nodes"
      BY DEF CanDelete
    <2>4. QED BY <1>1, <2>2, <2>3
  <1>2. CASE ~Suboptimal
    BY <1>2, PartsOfType DEF Accepted, SeenUnchanged, Inv1
  <1>3. QED BY <1>1, <1>2

\* Every step of the search leaves types, pointers and deletes in order.
LEMMA Step1 == Inv1 /\ [Next]_vars => Inv1'
  <1> SUFFICES ASSUME Inv1, [Next]_vars
               PROVE  Inv1'
    OBVIOUS
  <1> USE DEF Inv1
  <1>0. space' = space /\ Suboptimal' = Suboptimal /\ VisitedMode' = VisitedMode /\ CanDelete' = CanDelete
    BY DEF Next, Search, vars, PopSeen, PopGoal, PopToExpand, ChildDead, ChildSeen, ChildUnreachable,
           ChildGoal, ChildPushed, BreakOffMethods, Finish, TimeOut, Report, Tick,
           Suboptimal, VisitedMode, CanDelete
  <1>1. CASE PopSeen
    <2>1. PICK a \in BestOf(fringe) : node' = Without(a) /\ fringe' = fringe \ {a}
      BY <1>1 DEF PopSeen
    <2>2. /\ cur' = cur /\ cur = Nil /\ todo' = todo /\ tnSol' = tnSol /\ status' = status /\ late' = late
          /\ reachedTimeLimit' = reachedTimeLimit /\ payload' = payload /\ stored' = stored
          /\ accepted' = accepted /\ ~Suboptimal
      BY <1>1 DEF PopSeen, SeenUnchanged, Idle, ChecksPopped
    <2>3. a \in fringe /\ a \in Nodes /\ tnSol = Nil
      BY <1>1, <2>1, Popped DEF PopSeen
    <2>4. Nodes' = Nodes \ {a} /\ (\A b \in Nodes' : node'[b] = node[b]) /\ NodesTyped' /\ IsFiniteSet(Nodes')
      BY <2>1, NodeRemoved
    <2>5. TypeOK'
      BY <1>0, <2>1, <2>2, <2>4, PartsOfType, TypeFromParts
    <2>6. PointersAreAlive'
      BY <2>1, <2>2, <2>3, <2>4 DEF PointersAreAlive, Structure
    <2>7. Structure'
      BY <1>0, <2>1, <2>2, <2>3, <2>4, <2>6 DEF Structure, PointersAreAlive
    <2>8. NothingLeaks'
      BY <1>0, <2>2 DEF NothingLeaks
    <2>9. QED BY <2>5, <2>6, <2>7, <2>8
  <1>2. CASE PopGoal
    <2>1. PICK a \in BestOf(fringe) :
            /\ Remember(node[a].net, node[a].f, a) /\ TestsPopped(node[a].net)
            /\ tnSol' = a /\ fringe' = fringe \ {a}
      BY <1>2 DEF PopGoal
    <2>2. /\ cur' = cur /\ cur = Nil /\ todo' = todo /\ status' = "stop" /\ late' = late
          /\ reachedTimeLimit' = reachedTimeLimit /\ node' = node /\ ~Suboptimal
      BY <1>2, <2>1 DEF PopGoal, Idle, TestsPopped
    <2>3. /\ a \in fringe /\ a \in Nodes /\ a \in Nat \ {Nil}
          /\ node[a].net \in Network /\ node[a].f \in Nat
      BY <1>2, <2>1, Popped DEF PopGoal
    <2>4. Nodes' = Nodes /\ NodesTyped' /\ IsFiniteSet(Nodes')
      BY <2>2, NodesKept
    <2>5. /\ payload' \in [Network -> Nat] /\ accepted' \in [Network -> Nat]
          /\ stored' \subseteq stored \union {a} /\ (VisitedMode # "nodes" => stored' = stored)
      BY <2>1, <2>3, Remembered
    <2>6. TypeOK'
      BY <1>0, <2>1, <2>2, <2>3, <2>4, <2>5, PartsOfType, TypeFromParts
    <2>7. PointersAreAlive'
      BY <2>1, <2>2, <2>3, <2>4, <2>5 DEF PointersAreAlive
    <2>8. CanDelete => VisitedMode # "nodes"
      BY DEF CanDelete
    <2>9. Structure'
      BY <1>0, <2>1, <2>2, <2>4, <2>5, <2>8 DEF Structure
    <2>10. NothingLeaks'
      BY <1>0, <2>2 DEF NothingLeaks
    <2>11. QED BY <2>6, <2>7, <2>9, <2>10
  <1>3. CASE PopToExpand
    <2>1. PICK a \in BestOf(fringe) :
            /\ IF ChecksPopped THEN Remember(node[a].net, node[a].f, a) ELSE SeenUnchanged
            /\ cur' = a /\ fringe' = fringe \ {a} /\ todo' \in space.expansions[node[a].net]
      BY <1>3, Zenon DEF PopToExpand
    <2>2. /\ node' = node /\ tnSol' = tnSol /\ status' = status /\ late' = late
          /\ reachedTimeLimit' = reachedTimeLimit
      BY <1>3 DEF PopToExpand
    <2>3. /\ a \in fringe /\ a \in Nodes /\ a \in Nat \ {Nil} /\ cur = Nil
          /\ node[a].net \in Network /\ node[a].f \in Nat
      BY <1>3, <2>1, Popped DEF PopToExpand
    <2>4. Nodes' = Nodes /\ NodesTyped' /\ IsFiniteSet(Nodes')
      BY <2>2, NodesKept
    <2>5. /\ payload' \in [Network -> Nat] /\ accepted' \in [Network -> Nat]
          /\ stored' \subseteq stored \union {a} /\ (VisitedMode # "nodes" => stored' = stored)
      <3>1. CASE ChecksPopped
        BY <2>1, <2>3, <3>1, Remembered
      <3>2. CASE ~ChecksPopped
        BY <2>1, <3>2, PartsOfType DEF SeenUnchanged
      <3>3. QED BY <3>1, <3>2
    <2>6. todo' \in Seq(Child)
      BY <2>1, <2>3, PartsOfType, ExpansionType
    <2>7. TypeOK'
      BY <1>0, <2>1, <2>2, <2>3, <2>4, <2>5, <2>6, PartsOfType, TypeFromParts
    <2>8. PointersAreAlive'
      BY <2>1, <2>2, <2>3, <2>4, <2>5 DEF PointersAreAlive
    <2>9. CanDelete => VisitedMode # "nodes"
      BY DEF CanDelete
    <2>10. Structure'
      BY <1>0, <2>1, <2>2, <2>3, <2>4, <2>5, <2>9 DEF Structure
    <2>11. NothingLeaks'
      BY <1>0, <2>1, <2>2, <2>3, <2>4, NilIsNoNode DEF NothingLeaks
    <2>12. QED BY <2>7, <2>8, <2>10, <2>11
  <1>4. CASE ChildDead \/ ChildSeen
    <2>1. /\ MayGenerate /\ todo' = Tail(todo) /\ node' = node /\ fringe' = fringe /\ cur' = cur
          /\ tnSol' = tnSol /\ status' = status /\ late' = late /\ reachedTimeLimit' = reachedTimeLimit
          /\ payload' = payload /\ stored' = stored /\ accepted' = accepted
      BY <1>4 DEF ChildDead, ChildSeen, SeenUnchanged
    <2>2. Tail(todo) \in Seq(Child) /\ cur # Nil
      BY <2>1, ChildOfCurrent
    <2>3. Nodes' = Nodes /\ NodesTyped' /\ IsFiniteSet(Nodes')
      BY <2>1, NodesKept
    <2>4. TypeOK'
      BY <1>0, <2>1, <2>2, <2>3, PartsOfType, TypeFromParts
    <2>5. PointersAreAlive' /\ NothingLeaks'
      BY <1>0, <2>1, <2>3 DEF PointersAreAlive, NothingLeaks
    <2>6. Structure'
      BY <1>0, <2>1, <2>2, <2>3 DEF Structure
    <2>7. QED BY <2>4, <2>5, <2>6
  <1>5. CASE ChildUnreachable
    <2>1. PICK f \in Garbage :
            /\ Accepted(Address, f)
            /\ node' = IF DeletesUnreachable THEN node ELSE With(Address, ChildNode(f))
      BY <1>5 DEF ChildUnreachable
    <2>2. /\ MayGenerate /\ todo' = Tail(todo) /\ fringe' = fringe /\ cur' = cur
          /\ tnSol' = tnSol /\ status' = status /\ late' = late /\ reachedTimeLimit' = reachedTimeLimit
          /\ Next1.to \in space.unreachable
      BY <1>5 DEF ChildUnreachable
    <2>3. Next1.to \in Network
      BY <2>2, PartsOfType DEF IsSpace
    <2>4. Tail(todo) \in Seq(Child) /\ cur # Nil /\ GOfChild \in Nat
      BY <2>2, ChildOfCurrent
    <2>5. /\ payload' \in [Network -> Nat] /\ accepted' \in [Network -> Nat]
          /\ stored' \subseteq stored \union {Address}
          /\ CanDelete \/ ~Suboptimal => stored' = stored
      BY <2>1, <2>3, AcceptedChild
    <2>6. CASE DeletesUnreachable
      <3>1. node' = node /\ stored' = stored
        BY <2>1, <2>5, <2>6 DEF DeletesUnreachable
      <3>2. Nodes' = Nodes /\ NodesTyped' /\ IsFiniteSet(Nodes')
        BY <3>1, NodesKept
      <3>3. TypeOK'
        BY <1>0, <2>2, <2>4, <2>5, <3>2, PartsOfType, TypeFromParts
      <3>4. PointersAreAlive' /\ NothingLeaks'
        BY <1>0, <2>2, <3>1, <3>2 DEF PointersAreAlive, NothingLeaks
      <3>5. Structure'
        BY <1>0, <2>2, <2>4, <3>1, <3>2 DEF Structure
      <3>6. QED BY <3>3, <3>4, <3>5
    <2>7. CASE ~DeletesUnreachable
      <3>1. node' = With(Address, ChildNode(f))
        BY <2>1, <2>7
      <3>2. ChildNode(f) \in NodeRecord
        BY <2>3, <2>4, GarbageAssumption DEF ChildNode, NodeRecord
      <3>3. /\ Address \notin Nodes /\ Nodes' = Nodes \union {Address}
            /\ \A b \in Nodes : node'[b] = node[b]
            /\ NodesTyped' /\ IsFiniteSet(Nodes')
        BY <3>1, <3>2, NodeAdded
      <3>4. TypeOK'
        BY <1>0, <2>2, <2>4, <2>5, <3>3, PartsOfType, TypeFromParts
      <3>5. PointersAreAlive'
        BY <2>2, <2>5, <3>3 DEF PointersAreAlive
      <3>6. Structure'
        BY <1>0, <2>2, <2>4, <2>5, <3>3 DEF Structure, PointersAreAlive
      <3>7. NothingLeaks'
        BY <1>0, <2>7 DEF NothingLeaks, DeletesUnreachable
      <3>8. QED BY <3>4, <3>5, <3>6, <3>7
    <2>8. QED BY <2>6, <2>7
  <1>6. CASE ChildGoal
    <2>1. PICK f \in Garbage : Accepted(Address, f) /\ node' = With(Address, ChildNode(f))
      BY <1>6 DEF ChildGoal
    <2>2. /\ MayGenerate /\ todo' = todo /\ fringe' = fringe /\ cur' = cur
          /\ tnSol' = Address /\ status' = "stop" /\ late' = late /\ reachedTimeLimit' = reachedTimeLimit
          /\ Next1.to \in Network
      BY <1>6 DEF ChildGoal
    <2>3. cur # Nil /\ tnSol = Nil /\ GOfChild \in Nat
      BY <2>2, ChildOfCurrent
    <2>4. /\ payload' \in [Network -> Nat] /\ accepted' \in [Network -> Nat]
          /\ stored' \subseteq stored \union {Address}
          /\ CanDelete \/ ~Suboptimal => stored' = stored
      BY <2>1, <2>2, AcceptedChild
    <2>5. ChildNode(f) \in NodeRecord
      BY <2>2, <2>3, GarbageAssumption DEF ChildNode, NodeRecord
    <2>6. /\ Address \notin Nodes /\ Nodes' = Nodes \union {Address} /\ Address \in Nat \ {Nil}
          /\ \A b \in Nodes : node'[b] = node[b]
          /\ NodesTyped' /\ IsFiniteSet(Nodes')
      BY <2>1, <2>5, NodeAdded
    <2>7. TypeOK'
      BY <1>0, <2>2, <2>4, <2>6, PartsOfType, TypeFromParts
    <2>8. PointersAreAlive'
      BY <2>2, <2>3, <2>4, <2>6 DEF PointersAreAlive
    <2>9. Structure'
      BY <1>0, <2>2, <2>3, <2>4, <2>6 DEF Structure, PointersAreAlive
    <2>10. NothingLeaks'
      BY <1>0, <2>2, <2>3, <2>6, NilIsNoNode DEF NothingLeaks
    <2>11. QED BY <2>7, <2>8, <2>9, <2>10
  <1>7. CASE ChildPushed
    <2> DEFINE v == FValue(Next1.to, GOfChild)
    <2>1. PICK f \in Garbage : Accepted(Address, f)
      BY <1>7 DEF ChildPushed
    <2>2. /\ MayGenerate /\ todo' = Tail(todo) /\ fringe' = fringe \union {Address} /\ cur' = cur
          /\ tnSol' = tnSol /\ status' = status /\ late' = late /\ reachedTimeLimit' = reachedTimeLimit
          /\ Next1.to \in Network /\ node' = With(Address, ChildNode(v))
      BY <1>7 DEF ChildPushed
    <2>3. cur # Nil /\ cur \in Nodes /\ GOfChild \in Nat /\ Tail(todo) \in Seq(Child)
      BY <2>2, ChildOfCurrent
    <2>4. /\ payload' \in [Network -> Nat] /\ accepted' \in [Network -> Nat]
          /\ stored' \subseteq stored \union {Address}
          /\ CanDelete \/ ~Suboptimal => stored' = stored
      BY <2>1, <2>2, AcceptedChild
    <2>5. v \in Nat
      BY <2>2, <2>3, FValueType
    <2> HIDE DEF v
    <2>6. ChildNode(v) \in NodeRecord /\ ChildNode(v).f = v
      BY <2>2, <2>3, <2>5 DEF ChildNode, NodeRecord
    <2>7. /\ Address \notin Nodes /\ Nodes' = Nodes \union {Address} /\ Address \in Nat \ {Nil}
          /\ node'[Address] = ChildNode(v)
          /\ \A b \in Nodes : node'[b] = node[b]
          /\ NodesTyped' /\ IsFiniteSet(Nodes')
      BY <2>2, <2>6, NodeAdded
    <2>8. TypeOK'
      BY <1>0, <2>2, <2>3, <2>4, <2>7, PartsOfType, TypeFromParts
    <2>9. PointersAreAlive'
      BY <2>2, <2>4, <2>7 DEF PointersAreAlive
    <2>10. \A b \in fringe' : node'[b].f \in Nat
      BY <2>2, <2>5, <2>6, <2>7 DEF Structure, PointersAreAlive
    <2>11. ~Suboptimal => fringe' \intersect stored' = {}
      BY <2>2, <2>4, <2>7 DEF Structure, PointersAreAlive
    <2>12. Structure'
      BY <1>0, <2>2, <2>3, <2>4, <2>7, <2>10, <2>11 DEF Structure
    <2>13. NothingLeaks'
      BY <1>0, <2>2, <2>7 DEF NothingLeaks
    <2>14. QED BY <2>8, <2>9, <2>12, <2>13
  <1>8. CASE Finish
    <2>1. /\ node' = (IF DeletesProcessed THEN Without(cur) ELSE node) /\ todo' = todo /\ todo = <<>>
          /\ fringe' = fringe /\ cur' = Nil /\ cur # Nil /\ status = "search"
          /\ tnSol' = tnSol /\ status' = status /\ late' = late /\ reachedTimeLimit' = reachedTimeLimit
          /\ payload' = payload /\ stored' = stored /\ accepted' = accepted
      BY <1>8 DEF Finish, SeenUnchanged, Expanding
    <2>2. tnSol = Nil /\ cur \notin fringe
      BY <2>1 DEF Structure
    <2>3. CASE DeletesProcessed
      <3>1. node' = Without(cur) /\ stored = {}
        BY <2>1, <2>3 DEF DeletesProcessed, Structure
      <3>2. Nodes' = Nodes \ {cur} /\ (\A b \in Nodes' : node'[b] = node[b]) /\ NodesTyped' /\ IsFiniteSet(Nodes')
        BY <3>1, NodeRemoved
      <3>3. TypeOK'
        BY <1>0, <2>1, <3>2, PartsOfType, TypeFromParts DEF Nil
      <3>4. PointersAreAlive'
        BY <2>1, <2>2, <3>1, <3>2 DEF PointersAreAlive
      <3>5. Structure'
        BY <1>0, <2>1, <2>2, <3>1, <3>2, <3>4, NilIsNoNode DEF Structure, PointersAreAlive
      <3>6. NothingLeaks'
        BY <1>0, <2>1, <2>2, <3>2 DEF NothingLeaks
      <3>7. QED BY <3>3, <3>4, <3>5, <3>6
    <2>4. CASE ~DeletesProcessed
      <3>1. node' = node
        BY <2>1, <2>4
      <3>2. Nodes' = Nodes /\ NodesTyped' /\ IsFiniteSet(Nodes')
        BY <3>1, NodesKept
      <3>3. TypeOK'
        BY <1>0, <2>1, <3>2, PartsOfType, TypeFromParts DEF Nil
      <3>4. PointersAreAlive'
        BY <2>1, <2>2, <3>1, <3>2 DEF PointersAreAlive
      <3>5. Structure'
        BY <1>0, <2>1, <2>2, <3>1, <3>2, NilIsNoNode DEF Structure, PointersAreAlive
      <3>6. NothingLeaks'
        BY <1>0, <2>4 DEF NothingLeaks, DeletesProcessed
      <3>7. QED BY <3>3, <3>4, <3>5, <3>6
    <2>5. QED BY <2>3, <2>4
  <1>9. CASE BreakOffMethods \/ TimeOut \/ Report \/ Tick \/ UNCHANGED vars
    <2>1. /\ node' = node /\ fringe' = fringe /\ cur' = cur /\ tnSol' = tnSol
          /\ payload' = payload /\ stored' = stored /\ accepted' = accepted
          /\ todo' \in {todo, <<>>}
          /\ status' \in {status, "stop", "Solved", "Timeout", "Proven unsolvable"}
      BY <1>9 DEF BreakOffMethods, TimeOut, Report, Tick, vars, SeenUnchanged
    <2>2. late' \in BOOLEAN /\ reachedTimeLimit' \in BOOLEAN
      BY <1>9, PartsOfType DEF BreakOffMethods, TimeOut, Report, Tick, vars
    <2>3. todo' \in Seq(Child)
      <3>1. todo \in Seq(Child)
        BY PartsOfType
      <3>2. <<>> \in Seq(Child)
        OBVIOUS
      <3>3. QED BY <2>1, <3>1, <3>2
    <2>4. Nodes' = Nodes /\ NodesTyped' /\ IsFiniteSet(Nodes')
      BY <2>1, NodesKept
    <2>5. TypeOK'
      BY <1>0, <2>1, <2>2, <2>3, <2>4, PartsOfType, TypeFromParts
    <2>6. PointersAreAlive' /\ NothingLeaks'
      BY <1>0, <2>1, <2>4 DEF PointersAreAlive, NothingLeaks
    <2>7. Structure'
      BY <1>0, <2>1, <2>4 DEF Structure
    <2>8. QED BY <2>5, <2>6, <2>7
  <1>10. QED BY <1>1, <1>2, <1>3, <1>4, <1>5, <1>6, <1>7, <1>8, <1>9 DEF Next, Search

\* Types are kept.
THEOREM TypeCorrect == Spec => []TypeOK
  <1>1. Inv1 => TypeOK
    BY DEF Inv1
  <1>2. QED BY TypeInit, Step1, <1>1, PTL DEF Spec

\* Neither the queue, the loop, the visited list nor the result points to a node that
\* one of the four deletes has freed.
THEOREM PointersCorrect == Spec => []PointersAreAlive
  <1>1. Inv1 => PointersAreAlive
    BY DEF Inv1
  <1>2. QED BY TypeInit, Step1, <1>1, PTL DEF Spec

\* With early checking and a visited list that keeps no nodes, every node that nobody
\* needs any more is deleted.
THEOREM NoLeaks == Spec => []NothingLeaks
  <1>1. Inv1 => NothingLeaks
    BY DEF Inv1
  <1>2. QED BY TypeInit, Step1, <1>1, PTL DEF Spec
-----------------------------------------------------------------------------
\* A network that has not been called new is not in the visited list.
ListsAgree ==
  \A w \in Network : accepted[w] = 0 => payload[w] = 0 /\ \A a \in stored : node[a].net # w

InFringe(w) == \E a \in fringe : node[a].net = w
Met(w) == accepted[w] > 0 \/ w = Initial \/ InFringe(w)
Pending(w) == \E j \in 1 .. Len(todo) : todo[j].to = w

\* A network that the search is done with, or is just expanding.
Closed(w) == IF Suboptimal THEN (accepted[w] > 0 \/ w = Initial) /\ ~InFringe(w)
                           ELSE accepted[w] > 0

\* All that matters of one expansion has come up, or will.
Followed(w) == \E x \in space.expansions[w] : \A i \in 1 .. Len(x) :
                 x[i].to \in space.solvable => Met(x[i].to) \/ Pending(x[i].to)

ClosedAreFollowed == \A w \in space.solvable : Closed(w) => Followed(w)

\* While the search runs.
Searching ==
  /\ \A w \in space.goals : accepted[w] = 0
  /\ Suboptimal => \A a \in fringe : node[a].net = Initial \/ accepted[node[a].net] > 0
  /\ ~Suboptimal => accepted[Initial] > 0 \/ InFringe(Initial)
  /\ ~reachedTimeLimit => ClosedAreFollowed

\* When it has ended.
Ended ==
  /\ tnSol # Nil => IsGoal(node[tnSol].net)
  /\ reachedTimeLimit => late
  /\ status = "stop" => tnSol # Nil \/ reachedTimeLimit
  /\ status = "Proven unsolvable" => Initial \notin space.solvable
  /\ status = "Solved" => tnSol # Nil
  /\ status = "Timeout" => reachedTimeLimit

Inv2 == ListsAgree /\ (status = "search" => Searching) /\ Ended

\* What search relies on in a space.
LEMMA SpaceFacts ==
  ASSUME IsSpace(space)
  PROVE  /\ space.goals \subseteq space.solvable /\ space.solvable \subseteq Network
         /\ Initial \in Network /\ Initial \notin space.goals
         /\ space.unreachable \subseteq Network \ space.solvable
         /\ VisitedMode \in {"none", "trie", "nodes"}
         /\ Suboptimal \in BOOLEAN
         /\ \A T \in SUBSET (space.solvable \ space.goals) : T # {} =>
              \E w \in T : \A x \in space.expansions[w] : \E i \in 1 .. Len(x) :
                x[i].to \in space.solvable \ T
  BY DEF IsSpace, VisitedMode, Suboptimal, Options

\* Only a network that was called new before is pruned.
LEMMA NewIfUnknown ==
  ASSUME Inv1, ListsAgree, NEW w \in Network, NEW f, ~IsNew(w, f)
  PROVE  accepted[w] > 0
  <1>1. VisitedMode \in {"none", "trie", "nodes"} /\ accepted[w] \in Nat
    BY SpaceFacts, PartsOfType DEF Inv1
  <1>2. SUFFICES ASSUME accepted[w] = 0
                 PROVE  IsNew(w, f)
    BY <1>1
  <1>3. payload[w] = 0 /\ \A a \in stored : node[a].net # w
    BY <1>2 DEF ListsAgree
  <1>4. NewInTrie(w, f) /\ NewAmongNodes(w, f)
    BY <1>3 DEF NewInTrie, NewAmongNodes
  <1>5. QED BY <1>1, <1>4 DEF IsNew

\* Pruning never cuts off every solution.
LEMMA WayOut ==
  ASSUME Inv1, Inv2
  PROVE  SolutionOpen
  <1>1. SUFFICES ASSUME status = "search", Initial \in space.solvable, ~reachedTimeLimit,
                        \A a \in fringe : node[a].net \in space.solvable =>
                          ~OpenAtCost(node[a].net, node[a].f),
                        \A i \in 1 .. Len(todo) : todo[i].to \in space.solvable =>
                          Suboptimal /\ payload[todo[i].to] # 0
                 PROVE  FALSE
    BY DEF SolutionOpen
  <1>2. Searching /\ ListsAgree /\ IsSpace(space)
    BY <1>1, PartsOfType DEF Inv1, Inv2
  <1> DEFINE T == {w \in space.solvable : accepted[w] > 0 \/ (Suboptimal /\ w = Initial)}
  <1>3. \A w \in Network : accepted[w] \in Nat
    BY PartsOfType DEF Inv1
  <1>4. \A w \in space.solvable : InFringe(w) => ~Suboptimal /\ accepted[w] > 0
    <2>1. SUFFICES ASSUME NEW a \in fringe, node[a].net \in space.solvable
                   PROVE  ~Suboptimal /\ accepted[node[a].net] > 0
      BY DEF InFringe
    <2>2. ~Suboptimal /\ ~IsNew(node[a].net, node[a].f)
      BY <1>1, <2>1 DEF OpenAtCost
    <2>3. node[a].net \in Network
      BY <1>2, <2>1, SpaceFacts
    <2>4. QED BY <1>2, <2>2, <2>3, NewIfUnknown
  <1>5. \A w \in space.solvable : Pending(w) => accepted[w] > 0
    <2>1. SUFFICES ASSUME NEW w \in space.solvable, Pending(w)
                   PROVE  accepted[w] > 0
      OBVIOUS
    <2>2. payload[w] # 0 /\ w \in Network
      BY <1>1, <1>2, <2>1, SpaceFacts DEF Pending
    <2>3. QED BY <1>2, <1>3, <2>2 DEF ListsAgree
  <1>6. Initial \in T
    <2>1. CASE Suboptimal
      BY <1>1, <2>1
    <2>2. CASE ~Suboptimal
      BY <1>1, <1>2, <1>4, <2>2 DEF Searching
    <2>3. QED BY <2>1, <2>2
  <1>7. T \in SUBSET (space.solvable \ space.goals)
    BY <1>2, SpaceFacts DEF Searching
  <1>8. PICK w \in T : \A x \in space.expansions[w] : \E i \in 1 .. Len(x) :
                         x[i].to \in space.solvable \ T
    BY <1>2, <1>6, <1>7, SpaceFacts
  <1>9. Followed(w)
    BY <1>1, <1>2, <1>4 DEF Searching, ClosedAreFollowed, Closed
  <1>10. PICK x \in space.expansions[w] : \A i \in 1 .. Len(x) :
                 x[i].to \in space.solvable => Met(x[i].to) \/ Pending(x[i].to)
    BY <1>9 DEF Followed
  <1>11. PICK i \in 1 .. Len(x) : x[i].to \in space.solvable \ T
    BY <1>8
  <1>12. Met(x[i].to) \/ Pending(x[i].to)
    BY <1>10, <1>11
  <1>13. x[i].to \in T
    BY <1>4, <1>5, <1>6, <1>11, <1>12 DEF Met
  <1>14. QED BY <1>11, <1>13

\* At first the initial network is open.
LEMMA InitWay == Init => Inv2
  <1> SUFFICES ASSUME Init
               PROVE  Inv2
    OBVIOUS
  <1>1. Inv1 /\ IsSpace(space)
    BY TypeInit, PartsOfType DEF Inv1
  <1>2. /\ space.goals \subseteq Network /\ space.solvable \subseteq Network /\ Initial \in Network
        /\ \A w \in Network : accepted[w] = 0 /\ payload[w] = 0
        /\ fringe = {1} /\ node[1].net = Initial /\ stored = {} /\ tnSol = Nil /\ status = "search"
        /\ reachedTimeLimit = FALSE
    BY <1>1, SpaceFacts DEF Init
  <1>3. InFringe(Initial)
    BY <1>2 DEF InFringe
  <1>4. \A w \in space.solvable : ~Closed(w)
    BY <1>2, <1>3 DEF Closed
  <1>5. Searching
    BY <1>2, <1>3, <1>4 DEF Searching, ClosedAreFollowed
  <1>6. ListsAgree /\ Ended
    BY <1>2 DEF ListsAgree, Ended
  <1>7. QED BY <1>5, <1>6 DEF Inv2

\* What was followed stays so, as long as nothing that came up is forgotten.
LEMMA FollowedKept ==
  ASSUME space' = space, NEW w, Followed(w),
         \A u \in space.solvable : Met(u) \/ Pending(u) => Met(u)' \/ Pending(u)'
  PROVE  Followed(w)'
  <1>1. PICK x \in space.expansions[w] : \A i \in 1 .. Len(x) :
               x[i].to \in space.solvable => Met(x[i].to) \/ Pending(x[i].to)
    BY DEF Followed
  <1>2. \A i \in 1 .. Len(x) : x[i].to \in space'.solvable => Met(x[i].to)' \/ Pending(x[i].to)'
    BY <1>1
  <1>3. QED BY <1>1, <1>2 DEF Followed

\* What the visited list notes agrees with what it has called new.
LEMMA RememberAgrees ==
  ASSUME Inv1, ListsAgree, NEW w \in Network, NEW f, NEW a, Remember(w, f, a),
         \A b \in stored : node'[b] = node[b], stored' = stored \/ node'[a].net = w
  PROVE  ListsAgree'
  <1>1. accepted \in [Network -> Nat] /\ payload \in [Network -> Nat]
    BY PartsOfType DEF Inv1
  <1>2. accepted'[w] > 0 /\ \A u \in Network : u # w => accepted'[u] = accepted[u]
    BY <1>1 DEF Remember
  <1>3. \A u \in Network : u # w => payload'[u] = payload[u]
    BY <1>1 DEF Remember
  <1>4. stored' \subseteq stored \union {a}
    BY DEF Remember
  <1>5. QED BY <1>2, <1>3, <1>4 DEF ListsAgree

\* The children after the next one are still to come.
LEMMA RestPending ==
  ASSUME todo \in Seq(Child), todo # <<>>, todo' = Tail(todo), NEW u, Pending(u), u # Next1.to
  PROVE  Pending(u)'
  <1>1. PICK j \in 1 .. Len(todo) : todo[j].to = u
    BY DEF Pending
  <1>2. j # 1
    BY <1>1 DEF Next1
  <1>3. j - 1 \in 1 .. Len(todo') /\ todo'[j - 1] = todo[j]
    BY <1>2
  <1>4. QED BY <1>1, <1>3 DEF Pending

\* A child at the free address, and what the early check makes of it.
LEMMA ChildAdded ==
  ASSUME Inv1, MayGenerate, Next1.to \in Network, NEW f \in Int, NEW doesNot \in BOOLEAN,
         node' = IF doesNot THEN node ELSE With(Address, ChildNode(f))
  PROVE  /\ \A b \in Nodes : node'[b] = node[b]
         /\ Address \notin Nodes /\ Address # Nil
         /\ doesNot \/ node'[Address] = ChildNode(f)
         /\ ChildNode(f).net = Next1.to /\ ChildNode(f).g = GOfChild /\ ChildNode(f).f = f
  <1>1. GOfChild \in Nat
    BY ChildOfCurrent
  <1>2. ChildNode(f) \in NodeRecord
    BY <1>1 DEF ChildNode, NodeRecord
  <1>3. ChildNode(f).net = Next1.to /\ ChildNode(f).g = GOfChild /\ ChildNode(f).f = f
    BY DEF ChildNode
  <1>4. Address \notin Nodes /\ Address # Nil
    BY FreshAddress DEF Inv1, Structure
  <1>5. CASE doesNot
    BY <1>3, <1>4, <1>5
  <1>6. CASE ~doesNot
    BY <1>2, <1>3, <1>6, NodeAdded DEF Inv1
  <1>7. QED BY <1>5, <1>6

\* A child that is called new is listed, and nothing else changes in the list.
LEMMA ChildListed ==
  ASSUME Inv1, ListsAgree, NEW u \in Network, u = Next1.to, NEW f \in Garbage, Accepted(Address, f),
         \A b \in stored : node'[b] = node[b], (Suboptimal /\ CanDelete) \/ node'[Address].net = u
  PROVE  /\ ListsAgree'
         /\ \A v \in Network : v # u => accepted'[v] = accepted[v]
         /\ \A v \in Network : accepted'[v] >= accepted[v]
         /\ Suboptimal => accepted'[u] > 0
  <1>1. accepted \in [Network -> Nat]
    BY PartsOfType DEF Inv1
  <1>2. CASE Suboptimal
    <2>1. Remember(u, f, Address)
      BY <1>2 DEF Accepted
    <2>2. stored' = stored \/ node'[Address].net = u
      BY AcceptedChild
    <2>3. ListsAgree'
      BY <2>1, <2>2, RememberAgrees
    <2>4. QED BY <1>1, <2>1, <2>3 DEF Remember
  <1>3. CASE ~Suboptimal
    <2>1. stored' = stored /\ accepted' = accepted /\ payload' = payload
      BY <1>3 DEF Accepted, SeenUnchanged
    <2>2. QED BY <1>1, <1>3, <2>1 DEF ListsAgree
  <1>4. QED BY <1>2, <1>3

\* Every step leaves the networks that were called new followed.
LEMMA Step2 == Inv1 /\ Inv1' /\ Inv2 /\ [Next]_vars => Inv2'
  <1> SUFFICES ASSUME Inv1, Inv1', Inv2, [Next]_vars
               PROVE  Inv2'
    OBVIOUS
  <1>0. space' = space /\ Suboptimal' = Suboptimal
    BY DEF Next, Search, vars, PopSeen, PopGoal, PopToExpand, ChildDead, ChildSeen, ChildUnreachable,
           ChildGoal, ChildPushed, BreakOffMethods, Finish, TimeOut, Report, Tick, Suboptimal
  <1>00. /\ IsSpace(space) /\ ListsAgree /\ Ended /\ (status = "search" => Searching)
         /\ todo \in Seq(Child)
         /\ fringe \union stored \subseteq Nodes
         /\ \A w \in Network : accepted[w] \in Nat
         /\ space.goals \subseteq Network /\ space.solvable \subseteq Network /\ Initial \in Network
    BY PartsOfType, SpaceFacts DEF Inv1, Inv2, PointersAreAlive
  <1>000. \A w \in Network : accepted'[w] \in Nat
    BY DEF Inv1, TypeOK
  <1>1. CASE PopSeen
    <2>1. PICK a \in BestOf(fringe) :
            ~IsNew(node[a].net, node[a].f) /\ node' = Without(a) /\ fringe' = fringe \ {a}
      BY <1>1 DEF PopSeen
    <2>2. /\ todo' = todo /\ tnSol' = tnSol /\ status' = status /\ status = "search" /\ late' = late
          /\ reachedTimeLimit' = reachedTimeLimit /\ payload' = payload /\ stored' = stored
          /\ accepted' = accepted /\ ~Suboptimal
      BY <1>1 DEF PopSeen, SeenUnchanged, Idle, ChecksPopped
    <2>3. a \in fringe /\ node[a].net \in Network /\ tnSol = Nil
      BY <1>1, <2>1, Popped DEF PopSeen
    <2>4. accepted[node[a].net] > 0
      BY <1>00, <2>1, <2>3, NewIfUnknown
    <2>5. Nodes' = Nodes \ {a} /\ \A b \in Nodes' : node'[b] = node[b]
      BY <2>1, NodeRemoved DEF Inv1
    <2>6. \A b \in fringe' \union stored' : node'[b] = node[b]
      BY <2>5 DEF Inv1, PointersAreAlive
    <2>7. \A u \in space.solvable : /\ Met(u) => Met(u)'
                                    /\ Pending(u) => Pending(u)'
                                    /\ Closed(u)' => Closed(u)
      BY <1>0, <2>1, <2>2, <2>4, <2>6 DEF Met, InFringe, Pending, Closed
    <2>8. ListsAgree' /\ Ended'
      BY <1>0, <1>00, <2>2, <2>3, <2>6 DEF ListsAgree, Ended
    <2>9. accepted[Initial] > 0 \/ InFringe(Initial)'
      BY <1>00, <2>1, <2>2, <2>4, <2>6 DEF Searching, InFringe
    <2>10. ~reachedTimeLimit' => ClosedAreFollowed'
      BY <1>0, <1>00, <2>2, <2>7, FollowedKept DEF Searching, ClosedAreFollowed
    <2>11. Searching'
      BY <1>0, <1>00, <2>2, <2>9, <2>10 DEF Searching
    <2>12. QED BY <2>8, <2>11 DEF Inv2
  <1>2. CASE PopGoal
    <2>1. PICK a \in BestOf(fringe) :
            Remember(node[a].net, node[a].f, a) /\ TestsPopped(node[a].net) /\ tnSol' = a
      BY <1>2 DEF PopGoal
    <2>2. status' = "stop" /\ late' = late /\ reachedTimeLimit' = reachedTimeLimit /\ node' = node
      BY <1>2 DEF PopGoal
    <2>3. a \in Nodes /\ a # Nil /\ node[a].net \in Network
      BY <1>2, <2>1, Popped DEF PopGoal
    <2>4. ListsAgree'
      BY <1>00, <2>1, <2>2, <2>3, RememberAgrees
    <2>5. Ended'
      BY <1>0, <1>00, <2>1, <2>2, <2>3 DEF Ended, TestsPopped, IsGoal
    <2>6. QED BY <2>2, <2>4, <2>5 DEF Inv2
  <1>3. CASE PopToExpand
    <2>1. PICK a \in BestOf(fringe) :
            /\ IF ChecksPopped THEN Remember(node[a].net, node[a].f, a) ELSE SeenUnchanged
            /\ ~TestsPopped(node[a].net)
            /\ fringe' = fringe \ {a} /\ todo' \in space.expansions[node[a].net]
      BY <1>3, Zenon DEF PopToExpand
    <2>2. /\ node' = node /\ tnSol' = tnSol /\ status' = status /\ late' = late /\ status = "search"
          /\ reachedTimeLimit' = reachedTimeLimit /\ todo = <<>>
      BY <1>3, <2>1, Popped DEF PopToExpand
    <2>3. a \in fringe /\ node[a].net \in Network /\ tnSol = Nil
      BY <1>3, <2>1, Popped DEF PopToExpand
    <2>0. PICK n \in Network : n = node[a].net
      BY <2>3
    <2>4. /\ ~Suboptimal => Remember(n, node[a].f, a) /\ ~IsGoal(n)
          /\ Suboptimal => payload' = payload /\ stored' = stored /\ accepted' = accepted
      BY <2>0, <2>1 DEF ChecksPopped, SeenUnchanged, TestsPopped
    <2>5. /\ ~Suboptimal => accepted'[n] > 0
          /\ \A u \in Network : u # n => accepted'[u] = accepted[u]
          /\ \A u \in Network : accepted'[u] >= accepted[u]
      <3>1. accepted \in [Network -> Nat]
        BY PartsOfType DEF Inv1
      <3>2. CASE Suboptimal
        BY <2>4, <3>1, <3>2
      <3>3. CASE ~Suboptimal
        BY <2>3, <2>4, <3>1, <3>3 DEF Remember
      <3>4. QED BY <3>2, <3>3
    <2>6. ListsAgree'
      BY <1>00, <2>0, <2>2, <2>3, <2>4, RememberAgrees DEF ListsAgree
    <2>7. Ended'
      BY <1>0, <1>00, <2>2, <2>3 DEF Ended
    <2>8. Suboptimal => n = Initial \/ accepted[n] > 0
      BY <1>00, <2>0, <2>2, <2>3 DEF Searching
    <2>9. \A u : InFringe(u) => InFringe(u)' \/ u = n
      BY <2>0, <2>1, <2>2 DEF InFringe
    <2>10. \A u \in space.solvable : Met(u) \/ Pending(u) => Met(u)' \/ Pending(u)'
      <3>1. \A u : ~Pending(u)
        BY <2>2 DEF Pending
      <3>2. SUFFICES ASSUME NEW u \in space.solvable, Met(u)
                     PROVE  Met(u)'
        BY <3>1
      <3>3. u \in Network
        BY <1>00
      <3>4. accepted[u] > 0 => accepted'[u] > 0
        BY <1>00, <1>000, <2>5, <3>3
      <3>5. InFringe(u) => Met(u)'
        BY <2>3, <2>5, <2>8, <2>9, <3>4 DEF Met
      <3>6. QED BY <3>2, <3>4, <3>5 DEF Met
    <2>11. Followed(n)'
      <3>1. PICK x \in space'.expansions[n] : todo' = x
        BY <1>0, <2>0, <2>1
      <3>2. \A i \in 1 .. Len(x) : Pending(x[i].to)'
        BY <3>1 DEF Pending
      <3>3. QED BY <3>1, <3>2 DEF Followed
    <2>12. \A u \in space.solvable : Closed(u)' => u = n \/ Closed(u)
      BY <1>0, <1>00, <2>5, <2>9 DEF Closed
    <2>13. ~reachedTimeLimit' => ClosedAreFollowed'
      <3>1. SUFFICES ASSUME ~reachedTimeLimit', NEW w \in space.solvable, Closed(w)'
                     PROVE  Followed(w)'
        BY <1>0 DEF ClosedAreFollowed
      <3>2. CASE w = n
        BY <2>11, <3>2
      <3>3. CASE w # n
        <4>1. Followed(w)
          BY <1>00, <2>2, <2>12, <3>1, <3>3 DEF Searching, ClosedAreFollowed
        <4>2. QED BY <1>0, <2>10, <4>1, FollowedKept
      <3>4. QED BY <3>2, <3>3
    <2>14. \A w \in space.goals : accepted'[w] = 0
      <3>1. \A w \in space.goals : accepted[w] = 0
        BY <1>00, <2>2 DEF Searching
      <3>2. Suboptimal => accepted' = accepted
        BY <2>4
      <3>3. ~Suboptimal => n \notin space.goals
        BY <2>4 DEF IsGoal
      <3>4. QED BY <1>00, <2>5, <3>1, <3>2, <3>3
    <2>15. Suboptimal => \A b \in fringe' : node'[b].net = Initial \/ accepted'[node'[b].net] > 0
      BY <1>00, <2>1, <2>2, <2>4 DEF Searching
    <2>16. ~Suboptimal => accepted'[Initial] > 0 \/ InFringe(Initial)'
      BY <1>00, <2>2, <2>5, <2>9 DEF Searching
    <2>17. Searching'
      BY <1>0, <2>13, <2>14, <2>15, <2>16 DEF Searching
    <2>18. QED BY <2>6, <2>7, <2>17 DEF Inv2
  <1>4. CASE ChildDead \/ ChildSeen
    <2>1. /\ MayGenerate /\ todo' = Tail(todo) /\ node' = node /\ fringe' = fringe
          /\ tnSol' = tnSol /\ status' = status /\ late' = late /\ reachedTimeLimit' = reachedTimeLimit
          /\ payload' = payload /\ stored' = stored /\ accepted' = accepted
      BY <1>4 DEF ChildDead, ChildSeen, SeenUnchanged
    <2>2. status = "search" /\ todo # <<>> /\ tnSol = Nil /\ Next1 \in Child
      BY <2>1, ChildOfCurrent DEF MayGenerate
    <2>3. Next1.to \in space.solvable => accepted[Next1.to] > 0
      <3>1. CASE ChildDead
        BY <1>00, <3>1, GarbageAssumption DEF ChildDead
      <3>2. CASE ChildSeen
        BY <1>00, <3>2, NewIfUnknown DEF ChildSeen
      <3>3. QED BY <1>4, <3>1, <3>2
    <2>4. \A v : /\ InFringe(v)' <=> InFringe(v)
                 /\ Met(v)' <=> Met(v)
                 /\ Closed(v)' <=> Closed(v)
      BY <1>0, <2>1 DEF InFringe, Met, Closed
    <2>5. \A v \in space.solvable : Met(v) \/ Pending(v) => Met(v)' \/ Pending(v)'
      BY <1>00, <2>1, <2>2, <2>3, <2>4, RestPending DEF Met
    <2>6. ~reachedTimeLimit' => ClosedAreFollowed'
      BY <1>0, <1>00, <2>1, <2>2, <2>4, <2>5, FollowedKept DEF Searching, ClosedAreFollowed
    <2>7. Searching'
      BY <1>0, <1>00, <2>1, <2>2, <2>4, <2>6 DEF Searching
    <2>8. ListsAgree' /\ Ended'
      BY <1>0, <1>00, <2>1, <2>2 DEF ListsAgree, Ended
    <2>9. QED BY <2>7, <2>8 DEF Inv2
  <1>5. CASE ChildUnreachable
    <2>1. PICK f \in Garbage :
            /\ Accepted(Address, f)
            /\ node' = IF DeletesUnreachable THEN node ELSE With(Address, ChildNode(f))
      BY <1>5 DEF ChildUnreachable
    <2>2. /\ MayGenerate /\ todo' = Tail(todo) /\ fringe' = fringe
          /\ tnSol' = tnSol /\ status' = status /\ late' = late /\ reachedTimeLimit' = reachedTimeLimit
          /\ Next1.to \in space.unreachable
      BY <1>5 DEF ChildUnreachable
    <2>3. PICK u \in Network : u = Next1.to /\ u \notin space.solvable
      BY <1>00, <2>2, SpaceFacts
    <2>4. status = "search" /\ todo # <<>> /\ tnSol = Nil
      BY <2>2, ChildOfCurrent DEF MayGenerate
    <2>5. \A b \in Nodes : node'[b] = node[b]
      BY <2>1, <2>2, <2>3, GarbageAssumption, ChildAdded
    <2>6. DeletesUnreachable \/ node'[Address].net = u
      BY <2>1, <2>2, <2>3, GarbageAssumption, ChildAdded
    <2>7. CanDelete \/ ~Suboptimal => stored' = stored
      BY <2>1, <2>3, AcceptedChild
    <2>8. ListsAgree' /\ \A v \in Network : v # u => accepted'[v] = accepted[v]
      BY <1>00, <2>1, <2>3, <2>5, <2>6, <2>7, ChildListed DEF DeletesUnreachable
    <2>9. \A v \in space.solvable : /\ InFringe(v)' <=> InFringe(v)
                                    /\ Met(v)' <=> Met(v)
                                    /\ Closed(v)' <=> Closed(v)
      <3>1. \A v : InFringe(v)' <=> InFringe(v)
        BY <1>00, <2>2, <2>5 DEF InFringe
      <3>2. \A v \in space.solvable : accepted'[v] = accepted[v]
        BY <1>00, <2>3, <2>8
      <3>3. QED BY <1>0, <3>1, <3>2 DEF Met, Closed
    <2>10. \A v \in space.solvable : Met(v) \/ Pending(v) => Met(v)' \/ Pending(v)'
      BY <1>00, <2>2, <2>3, <2>4, <2>9, RestPending
    <2>11. ~reachedTimeLimit' => ClosedAreFollowed'
      BY <1>0, <1>00, <2>2, <2>4, <2>9, <2>10, FollowedKept DEF Searching, ClosedAreFollowed
    <2>12. \A w \in space.goals : accepted'[w] = 0
      <3>1. space.goals \subseteq space.solvable /\ \A w \in space.goals : accepted[w] = 0
        BY <1>00, <2>4, SpaceFacts DEF Searching
      <3>2. QED BY <1>00, <2>3, <2>8, <3>1
    <2>13. Suboptimal => \A b \in fringe' : node'[b].net = Initial \/ accepted'[node'[b].net] > 0
      <3>1. SUFFICES ASSUME Suboptimal, NEW b \in fringe
                     PROVE  node'[b].net = Initial \/ accepted'[node'[b].net] > 0
        BY <2>2
      <3>2. node'[b] = node[b] /\ node[b].net \in Network
        BY <1>00, <2>5, PartsOfType DEF Inv1, NodesTyped, NodeRecord
      <3>3. accepted'[node[b].net] >= accepted[node[b].net] /\ accepted'[u] > 0
        BY <1>00, <2>1, <2>3, <2>5, <2>6, <3>1, <3>2, ChildListed DEF DeletesUnreachable
      <3>4. QED BY <1>00, <1>000, <2>4, <3>1, <3>2, <3>3 DEF Searching
    <2>14. ~Suboptimal => accepted'[Initial] > 0 \/ InFringe(Initial)'
      <3>1. ~Suboptimal => accepted' = accepted
        BY <2>1 DEF Accepted, SeenUnchanged
      <3>2. QED BY <1>00, <2>2, <2>4, <2>5, <3>1 DEF Searching, InFringe
    <2>15. Searching'
      BY <1>0, <2>11, <2>12, <2>13, <2>14 DEF Searching
    <2>16. Ended'
      BY <1>0, <1>00, <2>2, <2>4 DEF Ended
    <2>17. QED BY <2>8, <2>15, <2>16 DEF Inv2
  <1>6. CASE ChildGoal
    <2>1. PICK f \in Garbage : Accepted(Address, f) /\ node' = With(Address, ChildNode(f))
      BY <1>6 DEF ChildGoal
    <2>2. /\ MayGenerate /\ tnSol' = Address /\ status' = "stop" /\ late' = late
          /\ reachedTimeLimit' = reachedTimeLimit
          /\ Next1.to \in Network /\ IsGoal(Next1.to)
      BY <1>6 DEF ChildGoal, TestsChild
    <2>3. /\ \A b \in Nodes : node'[b] = node[b]
          /\ node'[Address].net = Next1.to /\ Address # Nil
      BY <2>1, <2>2, GarbageAssumption, ChildAdded
    <2>4. PICK u \in Network : u = Next1.to
      BY <2>2
    <2>5. ListsAgree'
      BY <1>00, <2>1, <2>3, <2>4, ChildListed
    <2>6. Ended'
      BY <1>0, <1>00, <2>2, <2>3 DEF Ended, IsGoal
    <2>7. QED BY <2>2, <2>5, <2>6 DEF Inv2
  <1>7. CASE ChildPushed
    <2>1. PICK f \in Garbage : Accepted(Address, f)
      BY <1>7 DEF ChildPushed
    <2>2. /\ MayGenerate /\ todo' = Tail(todo) /\ fringe' = fringe \union {Address}
          /\ tnSol' = tnSol /\ status' = status /\ late' = late /\ reachedTimeLimit' = reachedTimeLimit
          /\ Next1.to \in Network /\ ~TestsChild(Next1.to)
          /\ node' = With(Address, ChildNode(FValue(Next1.to, GOfChild)))
      BY <1>7 DEF ChildPushed
    <2>3. PICK u \in Network : u = Next1.to
      BY <2>2
    <2>4. status = "search" /\ todo # <<>> /\ tnSol = Nil /\ GOfChild \in Nat
      BY <2>2, ChildOfCurrent DEF MayGenerate
    <2>5. FValue(Next1.to, GOfChild) \in Int
      BY <2>2, <2>4, FValueType DEF Inv1
    <2>6. (\A b \in Nodes : node'[b] = node[b]) /\ node'[Address].net = u /\ Address \notin Nodes
      BY <2>2, <2>3, <2>5, ChildAdded
    <2>7. /\ ListsAgree' /\ \A v \in Network : v # u => accepted'[v] = accepted[v]
          /\ Suboptimal => accepted'[u] > 0
      BY <1>00, <2>1, <2>3, <2>6, ChildListed
    <2>8. ~Suboptimal => accepted' = accepted
      BY <2>1 DEF Accepted, SeenUnchanged
    <2>9. \A v : InFringe(v)' <=> InFringe(v) \/ v = u
      BY <1>00, <2>2, <2>6 DEF InFringe
    <2>10. \A v \in space.solvable : Met(v) \/ Pending(v) => Met(v)' \/ Pending(v)'
      <3>1. \A v \in space.solvable : Met(v) => Met(v)'
        BY <1>00, <2>7, <2>9 DEF Met
      <3>2. Met(u)'
        BY <2>9 DEF Met
      <3>3. QED BY <1>00, <2>2, <2>3, <2>4, <3>1, <3>2, RestPending
    <2>11. \A v \in space.solvable : Closed(v)' => Closed(v)
      BY <1>0, <1>00, <2>7, <2>8, <2>9 DEF Closed
    <2>12. ~reachedTimeLimit' => ClosedAreFollowed'
      BY <1>0, <1>00, <2>2, <2>4, <2>10, <2>11, FollowedKept DEF Searching, ClosedAreFollowed
    <2>13. \A w \in space.goals : accepted'[w] = 0
      <3>1. Suboptimal => u \notin space.goals
        BY <2>2, <2>3 DEF TestsChild, IsGoal
      <3>2. QED BY <1>00, <2>4, <2>7, <2>8, <3>1 DEF Searching
    <2>14. Suboptimal => \A b \in fringe' : node'[b].net = Initial \/ accepted'[node'[b].net] > 0
      <3>1. SUFFICES ASSUME Suboptimal, NEW b \in fringe
                     PROVE  node'[b].net = Initial \/ accepted'[node'[b].net] > 0
        BY <2>2, <2>6, <2>7
      <3>2. node'[b] = node[b] /\ node[b].net \in Network
        BY <1>00, <2>6, <3>1, PartsOfType DEF Inv1, NodesTyped, NodeRecord
      <3>3. QED BY <1>00, <2>4, <2>7, <3>1, <3>2 DEF Searching
    <2>15. ~Suboptimal => accepted'[Initial] > 0 \/ InFringe(Initial)'
      BY <1>00, <2>4, <2>8, <2>9 DEF Searching
    <2>16. Searching'
      BY <1>0, <2>12, <2>13, <2>14, <2>15 DEF Searching
    <2>17. Ended'
      BY <1>0, <1>00, <2>2, <2>4 DEF Ended
    <2>18. QED BY <2>7, <2>16, <2>17 DEF Inv2
  <1>8. CASE Finish
    <2>1. /\ node' = (IF DeletesProcessed THEN Without(cur) ELSE node) /\ todo' = todo
          /\ fringe' = fringe /\ status = "search" /\ tnSol' = tnSol /\ status' = status /\ late' = late
          /\ reachedTimeLimit' = reachedTimeLimit
          /\ payload' = payload /\ stored' = stored /\ accepted' = accepted
      BY <1>8 DEF Finish, SeenUnchanged, Expanding
    <2>2. tnSol = Nil
      BY <2>1 DEF Inv1, Structure
    <2>3. \A b \in fringe' \union stored' : node'[b] = node[b]
      <3>1. \A b \in Nodes' : node'[b] = node[b]
        BY <2>1, NodeRemoved DEF Inv1, Nodes
      <3>2. QED BY <3>1 DEF Inv1, PointersAreAlive
    <2>4. \A v : /\ InFringe(v)' <=> InFringe(v)
                 /\ Met(v)' <=> Met(v)
                 /\ Pending(v)' <=> Pending(v)
                 /\ Closed(v)' <=> Closed(v)
      BY <1>0, <2>1, <2>3 DEF InFringe, Met, Pending, Closed
    <2>5. ~reachedTimeLimit' => ClosedAreFollowed'
      BY <1>0, <1>00, <2>1, <2>4, FollowedKept DEF Searching, ClosedAreFollowed
    <2>6. Searching'
      BY <1>0, <1>00, <2>1, <2>3, <2>4, <2>5 DEF Searching
    <2>7. ListsAgree' /\ Ended'
      BY <1>0, <1>00, <2>1, <2>2, <2>3 DEF ListsAgree, Ended
    <2>8. QED BY <2>6, <2>7 DEF Inv2
  <1>9. CASE BreakOffMethods
    <2>1. /\ node' = node /\ fringe' = fringe /\ tnSol' = tnSol /\ reachedTimeLimit' = TRUE
          /\ payload' = payload /\ stored' = stored /\ accepted' = accepted
          /\ late' = late /\ late /\ status' = status /\ status = "search"
      BY <1>9 DEF BreakOffMethods, SeenUnchanged, Expanding
    <2>2. tnSol = Nil
      BY <2>1 DEF Inv1, Structure
    <2>3. Searching'
      BY <1>0, <1>00, <2>1 DEF Searching, InFringe
    <2>4. ListsAgree' /\ Ended'
      BY <1>0, <1>00, <2>1, <2>2 DEF ListsAgree, Ended
    <2>5. QED BY <2>3, <2>4 DEF Inv2
  <1>10. CASE TimeOut
    <2>1. /\ node' = node /\ tnSol' = tnSol /\ reachedTimeLimit' = TRUE
          /\ payload' = payload /\ stored' = stored /\ accepted' = accepted
          /\ late' = late /\ late /\ status' = "stop"
      BY <1>10 DEF TimeOut, SeenUnchanged
    <2>2. ListsAgree' /\ Ended'
      BY <1>0, <1>00, <2>1 DEF ListsAgree, Ended, IsGoal
    <2>3. QED BY <2>1, <2>2 DEF Inv2
  <1>11. CASE Report
    <2>1. /\ LoopEnds /\ node' = node /\ tnSol' = tnSol /\ reachedTimeLimit' = reachedTimeLimit
          /\ payload' = payload /\ stored' = stored /\ accepted' = accepted /\ late' = late
          /\ status' = IF tnSol # Nil THEN "Solved"
                       ELSE IF reachedTimeLimit THEN "Timeout"
                       ELSE "Proven unsolvable"
      BY <1>11 DEF Report, SeenUnchanged
    <2>2. ASSUME tnSol = Nil, ~reachedTimeLimit
          PROVE  Initial \notin space.solvable
      <3>1. Idle /\ fringe = {}
        BY <1>00, <2>1, <2>2 DEF LoopEnds, Ended
      <3>2. todo = <<>> /\ status = "search"
        BY <3>1 DEF Idle, Inv1, Structure
      <3>3. SolutionOpen
        BY WayOut
      <3>4. QED BY <2>2, <3>1, <3>2, <3>3 DEF SolutionOpen
    <2>3. ListsAgree' /\ Ended'
      BY <1>0, <1>00, <2>1, <2>2 DEF ListsAgree, Ended, IsGoal
    <2>4. QED BY <2>1, <2>3 DEF Inv2
  <1>12. CASE Tick \/ UNCHANGED vars
    <2>1. /\ node' = node /\ fringe' = fringe /\ tnSol' = tnSol /\ reachedTimeLimit' = reachedTimeLimit
          /\ payload' = payload /\ stored' = stored /\ accepted' = accepted /\ todo' = todo
          /\ status' = status /\ (late => late')
      BY <1>12 DEF Tick, vars, SeenUnchanged
    <2>2. \A v : /\ InFringe(v)' <=> InFringe(v)
                 /\ Met(v)' <=> Met(v)
                 /\ Pending(v)' <=> Pending(v)
                 /\ Closed(v)' <=> Closed(v)
      BY <1>0, <2>1 DEF InFringe, Met, Pending, Closed
    <2>3. status = "search" /\ ~reachedTimeLimit' => ClosedAreFollowed'
      BY <1>0, <1>00, <2>1, <2>2, FollowedKept DEF Searching, ClosedAreFollowed
    <2>4. status' = "search" => Searching'
      BY <1>0, <1>00, <2>1, <2>2, <2>3 DEF Searching
    <2>5. ListsAgree' /\ Ended'
      BY <1>0, <1>00, <2>1 DEF ListsAgree, Ended, IsGoal
    <2>6. QED BY <2>4, <2>5 DEF Inv2
  <1>13. QED BY <1>1, <1>2, <1>3, <1>4, <1>5, <1>6, <1>7, <1>8, <1>9, <1>10, <1>11, <1>12
             DEF Next, Search

\* A solvable problem keeps an open node or an open child, whatever has been pruned.
THEOREM SolutionStaysOpen == Spec => []SolutionOpen
  <1>1. Init => Inv1 /\ Inv2
    BY TypeInit, InitWay
  <1>2. Inv1 /\ Inv2 /\ [Next]_vars => (Inv1 /\ Inv2)'
    BY Step1, Step2
  <1>3. Inv1 /\ Inv2 => SolutionOpen
    BY WayOut
  <1>4. QED BY <1>1, <1>2, <1>3, PTL DEF Spec

-----------------------------------------------------------------------------
\* A way through w at cost g is as cheap as the cheapest solution.
OnWay(w, g) == w \in space.solvable /\ g + space.dist[w] = space.dist[Initial]

\* The initial node has the value 0, whatever the heuristic says.
Valued(w, g, f) == f = FValue(w, g) \/ (w = Initial /\ g = 0 /\ f = 0)

\* Without early checking: the value that the visited list has under w.
Listed(w, f) == \/ VisitedMode = "trie" /\ f \in Nat /\ payload[w] = f + 1
                \/ VisitedMode = "nodes" /\ \E a \in stored : node[a].net = w /\ node[a].f = f

ListedOnWay(w) == \E g \in Nat, f \in Int : OnWay(w, g) /\ Listed(w, f) /\ Valued(w, g, f)

FringeOnWay(w) == \E a \in fringe : node[a].net = w /\ OnWay(w, node[a].g)

PendingOnWay(w) == \E j \in 1 .. Len(todo) : todo[j].to = w /\ OnWay(w, node[cur].g + todo[j].cost)

MetOnWay(w) == ListedOnWay(w) \/ FringeOnWay(w)

\* All children on cheapest ways of one expansion have come up at that cost, or will.
FollowedOnWay(w) ==
  \E x \in space.expansions[w] : \A i \in 1 .. Len(x) :
    x[i].to \in space.solvable /\ space.dist[w] = x[i].cost + space.dist[x[i].to] =>
      MetOnWay(x[i].to) \/ PendingOnWay(x[i].to)

\* No way is cheaper than the cheapest, and values are those of the costs.
NotCheaper(w, g) == w \in space.solvable =>
                      Initial \in space.solvable /\ g + space.dist[w] >= space.dist[Initial]

CostsOfNodes ==
  /\ \A a \in fringe : Valued(node[a].net, node[a].g, node[a].f) /\ NotCheaper(node[a].net, node[a].g)
  /\ \A j \in 1 .. Len(todo) : NotCheaper(todo[j].to, node[cur].g + todo[j].cost)
  /\ \A w \in space.solvable, f \in Int : Listed(w, f) =>
       \E g \in Nat : NotCheaper(w, g) /\ Valued(w, g, f)

WayIsFollowed ==
  /\ VisitedMode # "none" => /\ MetOnWay(Initial)
                             /\ \A w \in space.solvable : ListedOnWay(w) => FollowedOnWay(w)
  /\ VisitedMode = "none" => \E w \in space.solvable : FringeOnWay(w) \/ PendingOnWay(w)

Inv3 ==
  ~Suboptimal =>
    /\ status = "search" =>
         /\ reachedTimeLimit => cur # Nil
         /\ CostsOfNodes
         /\ Optimal /\ Initial \in space.solvable /\ ~reachedTimeLimit => WayIsFollowed
    /\ tnSol # Nil /\ Optimal => node[tnSol].g = space.dist[Initial]

\* What an optimal search relies on.
LEMMA CostFacts ==
  ASSUME IsSpace(space)
  PROVE  /\ \A w \in space.solvable : space.dist[w] \in Nat
         /\ \A w \in Network : space.h[w] \in Nat /\ space.h[w] * space.options.weight \in Nat
         /\ \A w \in space.goals : space.dist[w] = 0
         /\ \A w \in Network : \A x \in space.expansions[w] : \A i \in 1 .. Len(x) :
              x[i].to \in space.solvable => /\ w \in space.solvable
                                            /\ space.dist[w] <= x[i].cost + space.dist[x[i].to]
         /\ \A T \in SUBSET (space.solvable \ space.goals) : T # {} =>
              \E w \in T : \A x \in space.expansions[w] : \E i \in 1 .. Len(x) :
                x[i].to \in space.solvable \ T /\ space.dist[w] = x[i].cost + space.dist[x[i].to]
  <1>1. \A w \in space.solvable : space.dist[w] \in Nat
    BY DEF IsSpace
  <1>2. space.options.weight \in Nat /\ \A w \in Network : space.h[w] \in Nat
    BY DEF IsSpace, Options
  <1>3. \A w \in Network : space.h[w] * space.options.weight \in Nat
    BY <1>2
  <1>4. QED BY <1>1, <1>2, <1>3 DEF IsSpace

\* The values of an optimal search are costs and estimates, which are never too high.
LEMMA ValueOfOptimal ==
  ASSUME IsSpace(space), Optimal, NEW w \in Network, NEW g \in Nat
  PROVE  /\ FValue(w, g) = space.h[w] * space.options.weight + g
         /\ w \in space.solvable => FValue(w, g) <= g + space.dist[w]
  <1>1. FValue(w, g) = space.h[w] * space.options.weight + g
    BY DEF FValue, Optimal
  <1>2. space.options.weight \in {0, 1}
    BY DEF Optimal, IsSpace, Options
  <1>3. space.h[w] \in Nat
    BY CostFacts
  <1>4. space.h[w] * space.options.weight <= space.h[w]
    BY <1>2, <1>3
  <1>5. w \in space.solvable => space.h[w] <= space.dist[w] /\ space.dist[w] \in Nat
    BY CostFacts DEF Optimal, Admissible
  <1>6. space.h[w] * space.options.weight \in Nat
    BY CostFacts
  <1>7. QED BY <1>1, <1>3, <1>4, <1>5, <1>6

\* A node is new exactly if its value is smaller than the one listed.
LEMMA NewIfSmaller ==
  ASSUME Inv1, ~Suboptimal, NEW w \in Network, NEW f \in Nat
  PROVE  IsNew(w, f) <=> \A v \in Int : Listed(w, v) => v > f
  <1>1. VisitedMode \in {"none", "trie", "nodes"} /\ payload[w] \in Nat
    BY SpaceFacts, PartsOfType DEF Inv1
  <1>2. CASE VisitedMode = "none"
    BY <1>2 DEF IsNew, Listed
  <1>3. CASE VisitedMode = "trie"
    <2>1. IsNew(w, f) <=> payload[w] = 0 \/ payload[w] > f + 1
      BY <1>3 DEF IsNew, NewInTrie
    <2>2. \A v \in Int : Listed(w, v) <=> v \in Nat /\ payload[w] = v + 1
      BY <1>3 DEF Listed
    <2>3. payload[w] # 0 => payload[w] - 1 \in Nat
      BY <1>1
    <2>4. QED BY <1>1, <2>1, <2>2, <2>3
  <1>4. CASE VisitedMode = "nodes"
    <2>1. \A a \in stored : node[a].f \in Int
      BY PartsOfType DEF Inv1, PointersAreAlive, NodesTyped, NodeRecord
    <2>2. IsNew(w, f) <=> \A a \in stored : node[a].net = w => node[a].f > f
      BY <1>4 DEF IsNew, NewAmongNodes
    <2>3. \A v : Listed(w, v) <=> \E a \in stored : node[a].net = w /\ node[a].f = v
      BY <1>4 DEF Listed
    <2>4. QED BY <2>1, <2>2, <2>3
  <1>5. QED BY <1>1, <1>2, <1>3, <1>4

\* The costs that are listed after an entry was made or changed.
LEMMA ListedAfter ==
  ASSUME Inv1, ~Suboptimal, VisitedMode # "none", space' = space, node' = node,
         NEW w \in Network, NEW f \in Nat, NEW a,
         Remember(w, f, a), node[a].net = w, node[a].f = f, NEW u \in Network, NEW v \in Int
  PROVE  Listed(u, v)' <=> IF u = w THEN v = f ELSE Listed(u, v)
  <1>1. VisitedMode \in {"trie", "nodes"} /\ VisitedMode' = VisitedMode
    BY SpaceFacts, PartsOfType DEF Inv1, VisitedMode
  <1>2. payload \in [Network -> Nat]
    BY PartsOfType DEF Inv1
  <1>3. CASE VisitedMode = "trie"
    <2>1. payload' = [payload EXCEPT ![w] = f + 1]
      BY <1>3 DEF Remember, Entry
    <2>2. Listed(u, v)' <=> v \in Nat /\ payload'[u] = v + 1
      BY <1>1, <1>3 DEF Listed
    <2>3. Listed(u, v) <=> v \in Nat /\ payload[u] = v + 1
      BY <1>3 DEF Listed
    <2>4. QED BY <1>2, <2>1, <2>2, <2>3
  <1>4. CASE VisitedMode = "nodes"
    <2>1. stored' = {b \in stored : node[b].net # w} \union {a}
      BY <1>4 DEF Remember
    <2>2. Listed(u, v)' <=> \E b \in stored' : node[b].net = u /\ node[b].f = v
      BY <1>1, <1>4 DEF Listed
    <2>3. Listed(u, v) <=> \E b \in stored : node[b].net = u /\ node[b].f = v
      BY <1>4 DEF Listed
    <2>4. QED BY <2>1, <2>2, <2>3
  <1>5. QED BY <1>1, <1>3, <1>4

\* Listed costs stay while the list and its nodes stay.
LEMMA ListedKept ==
  ASSUME space' = space, payload' = payload, stored' = stored, \A b \in stored : node'[b] = node[b],
         NEW u, NEW v
  PROVE  Listed(u, v)' <=> Listed(u, v)
  BY DEF Listed, VisitedMode

\* A network with listed costs was called new.
LEMMA ListedIsAccepted ==
  ASSUME ListsAgree, NEW w \in Network, NEW f \in Int, Listed(w, f)
  PROVE  accepted[w] # 0
  BY DEF ListsAgree, Listed

\* A node on a cheapest way that is not new has been in the list at the same cost.
LEMMA SeenOnWay ==
  ASSUME Inv1, CostsOfNodes, Optimal,
         NEW w \in Network, NEW g \in Nat, NEW f \in Nat, OnWay(w, g), Valued(w, g, f), ~IsNew(w, f)
  PROVE  ListedOnWay(w)
  <1>1. ~Suboptimal /\ IsSpace(space)
    BY PartsOfType DEF Optimal, Inv1
  <1>2. PICK v \in Int : Listed(w, v) /\ v <= f
    BY <1>1, NewIfSmaller
  <1>3. PICK g2 \in Nat : NotCheaper(w, g2) /\ Valued(w, g2, v)
    BY <1>2 DEF CostsOfNodes, OnWay
  <1>4. /\ w \in space.solvable /\ space.dist[w] \in Nat /\ Initial \in space.solvable
        /\ space.dist[Initial] \in Nat /\ space.h[w] * space.options.weight \in Nat
    BY <1>1, <1>3, CostFacts DEF OnWay, NotCheaper
  <1>5. g2 >= g
    BY <1>3, <1>4 DEF NotCheaper, OnWay
  <1>6. /\ FValue(w, g) = space.h[w] * space.options.weight + g
        /\ FValue(w, g2) = space.h[w] * space.options.weight + g2
    BY <1>1, ValueOfOptimal
  <1>7. f <= space.h[w] * space.options.weight + g
    BY <1>4, <1>6 DEF Valued
  <1>8. g2 = g
    <2>1. CASE v = FValue(w, g2)
      BY <1>2, <1>4, <1>5, <1>6, <1>7, <2>1
    <2>2. CASE g2 = 0
      BY <1>5, <2>2
    <2>3. QED BY <1>3, <2>1, <2>2 DEF Valued
  <1>9. QED BY <1>2, <1>3, <1>8 DEF ListedOnWay

\* What is pending has costs that are natural numbers.
LEMMA PendingCosts ==
  ASSUME Inv1, NEW j \in 1 .. Len(todo), status = "search"
  PROVE  /\ todo[j] \in Child /\ cur \in Nodes /\ cur # Nil
         /\ node[cur].g + todo[j].cost \in Nat
         /\ GOfChild - Next1.cost + todo[j].cost = node[cur].g + todo[j].cost
  <1>1. todo \in Seq(Child) /\ todo # <<>>
    BY PartsOfType DEF Inv1
  <1>2. cur # Nil
    BY <1>1 DEF Inv1, Structure
  <1>3. cur \in Nodes
    BY <1>2 DEF Inv1, PointersAreAlive
  <1>4. node[cur].g \in Nat
    BY <1>3, PartsOfType DEF Inv1, NodesTyped, NodeRecord
  <1>5. todo[j] \in Child /\ Next1 \in Child
    BY <1>1 DEF Next1
  <1>6. todo[j].cost \in Nat /\ Next1.cost \in Nat
    BY <1>5 DEF Child
  <1>7. QED BY <1>2, <1>3, <1>4, <1>5, <1>6 DEF GOfChild

\* Before the search ends, a node or child on a cheapest way is open.
LEMMA CheapestWayOut ==
  ASSUME Inv1, Inv2, Inv3
  PROVE  CheapestOpen
  <1>1. SUFFICES ASSUME Optimal, status = "search", ~reachedTimeLimit, Initial \in space.solvable,
                        \A a \in fringe : OnWay(node[a].net, node[a].g) => ~IsNew(node[a].net, node[a].f),
                        \A i \in 1 .. Len(todo) :
                          OnWay(todo[i].to, node[cur].g + todo[i].cost) =>
                            ~IsNew(todo[i].to, FValue(todo[i].to, node[cur].g + todo[i].cost))
                 PROVE  FALSE
    <2>1. \A i \in 1 .. Len(todo) : status = "search" =>
            GOfChild - Next1.cost + todo[i].cost = node[cur].g + todo[i].cost
      BY PendingCosts
    <2>2. QED BY <2>1 DEF CheapestOpen, OnWay
  <1>2. ~Suboptimal /\ IsSpace(space) /\ CostsOfNodes /\ WayIsFollowed /\ Searching /\ ListsAgree
    BY <1>1, PartsOfType DEF Optimal, Inv1, Inv2, Inv3
  <1>3. space.solvable \subseteq Network /\ Initial \in Network /\ space.goals \subseteq space.solvable
    BY <1>2, SpaceFacts
  <1>4. \A w \in space.solvable : FringeOnWay(w) => ListedOnWay(w)
    <2>1. SUFFICES ASSUME NEW a \in fringe, OnWay(node[a].net, node[a].g)
                   PROVE  ListedOnWay(node[a].net)
      BY DEF FringeOnWay
    <2>2. node[a] \in NodeRecord /\ node[a].f \in Nat
      BY PartsOfType DEF Inv1, Structure, PointersAreAlive, NodesTyped
    <2>3. Valued(node[a].net, node[a].g, node[a].f)
      BY <1>2 DEF CostsOfNodes
    <2>4. QED BY <1>1, <1>2, <2>1, <2>2, <2>3, SeenOnWay DEF NodeRecord
  <1>5. \A w \in space.solvable : PendingOnWay(w) => ListedOnWay(w)
    <2>1. SUFFICES ASSUME NEW w \in space.solvable, NEW j \in 1 .. Len(todo), todo[j].to = w,
                          OnWay(w, node[cur].g + todo[j].cost)
                   PROVE  ListedOnWay(w)
      BY DEF PendingOnWay
    <2> DEFINE g == node[cur].g + todo[j].cost
    <2>2. g \in Nat
      BY <1>1, PendingCosts
    <2>3. ~IsNew(w, FValue(w, g)) /\ OnWay(w, g)
      BY <1>1, <2>1
    <2> HIDE DEF g
    <2>4. FValue(w, g) \in Nat /\ Valued(w, g, FValue(w, g)) /\ w \in Network
      BY <1>3, <2>2, FValueType DEF Inv1, Valued
    <2>5. QED BY <1>1, <1>2, <2>2, <2>3, <2>4, SeenOnWay
  <1>6. VisitedMode # "none"
    <2>1. \A w, f : ~(VisitedMode = "none" /\ Listed(w, f))
      BY DEF Listed
    <2>2. QED BY <1>2, <1>4, <1>5, <2>1 DEF WayIsFollowed, ListedOnWay
  <1> DEFINE T == {w \in space.solvable : ListedOnWay(w)}
  <1>7. Initial \in T
    BY <1>1, <1>2, <1>4, <1>6 DEF WayIsFollowed, MetOnWay
  <1>8. T \in SUBSET (space.solvable \ space.goals)
    <2>1. \A w \in space.goals : ~ListedOnWay(w)
      BY <1>2, <1>3, ListedIsAccepted DEF Searching, ListedOnWay
    <2>2. QED BY <2>1
  <1>9. PICK w \in T : \A x \in space.expansions[w] : \E i \in 1 .. Len(x) :
              x[i].to \in space.solvable \ T /\ space.dist[w] = x[i].cost + space.dist[x[i].to]
    BY <1>2, <1>7, <1>8, CostFacts
  <1>10. PICK x \in space.expansions[w] : \A i \in 1 .. Len(x) :
               x[i].to \in space.solvable /\ space.dist[w] = x[i].cost + space.dist[x[i].to] =>
                 MetOnWay(x[i].to) \/ PendingOnWay(x[i].to)
    BY <1>2, <1>6 DEF WayIsFollowed, FollowedOnWay
  <1>11. PICK i \in 1 .. Len(x) :
               x[i].to \in space.solvable \ T /\ space.dist[w] = x[i].cost + space.dist[x[i].to]
    BY <1>9
  <1>12. ListedOnWay(x[i].to)
    BY <1>4, <1>5, <1>10, <1>11 DEF MetOnWay
  <1>13. QED BY <1>11, <1>12

\* At first the initial network is open at no costs.
LEMMA InitCheapest == Init => Inv3
  <1> SUFFICES ASSUME Init
               PROVE  Inv3
    OBVIOUS
  <1>1. Inv1 /\ IsSpace(space)
    BY TypeInit, PartsOfType DEF Inv1
  <1>2. /\ space.solvable \subseteq Network /\ Initial \in Network
        /\ \A w \in Network : payload[w] = 0
        /\ fringe = {1} /\ node[1].net = Initial /\ node[1].g = 0 /\ node[1].f = 0
        /\ stored = {} /\ tnSol = Nil /\ reachedTimeLimit = FALSE /\ todo = <<>>
    BY <1>1, SpaceFacts DEF Init
  <1>3. \A w \in Network, f \in Int : ~Listed(w, f)
    BY <1>2 DEF Listed
  <1>4. Initial \in space.solvable => space.dist[Initial] \in Nat
    BY <1>1, CostFacts
  <1>5. CostsOfNodes
    BY <1>2, <1>3, <1>4 DEF CostsOfNodes, Valued, NotCheaper
  <1>6. Initial \in space.solvable => FringeOnWay(Initial)
    BY <1>2, <1>4 DEF FringeOnWay, OnWay
  <1>7. Initial \in space.solvable => WayIsFollowed
    BY <1>2, <1>3, <1>6 DEF WayIsFollowed, MetOnWay, ListedOnWay
  <1>8. QED BY <1>2, <1>5, <1>7 DEF Inv3

\* A network stays followed on cheapest ways while the networks behind it are met or pending.
LEMMA FollowedOnWayKept ==
  ASSUME space' = space, NEW w, FollowedOnWay(w),
         \A u \in space.solvable : MetOnWay(u) \/ PendingOnWay(u) => MetOnWay(u)' \/ PendingOnWay(u)'
  PROVE  FollowedOnWay(w)'
  <1>1. PICK x \in space.expansions[w] : \A i \in 1 .. Len(x) :
               x[i].to \in space.solvable /\ space.dist[w] = x[i].cost + space.dist[x[i].to] =>
                 MetOnWay(x[i].to) \/ PendingOnWay(x[i].to)
    BY DEF FollowedOnWay
  <1>2. \A i \in 1 .. Len(x) :
          x[i].to \in space'.solvable /\ space'.dist[w] = x[i].cost + space'.dist[x[i].to] =>
            MetOnWay(x[i].to)' \/ PendingOnWay(x[i].to)'
    BY <1>1
  <1>3. QED BY <1>1, <1>2 DEF FollowedOnWay

\* A child leaves what is pending, and nothing else does.
LEMMA RestPendingOnWay ==
  ASSUME Inv1, MayGenerate, space' = space, todo' = Tail(todo), cur' = cur, node'[cur] = node[cur],
         NEW u, PendingOnWay(u)
  PROVE  PendingOnWay(u)' \/ (u = Next1.to /\ OnWay(u, GOfChild))
  <1>1. PICK j \in 1 .. Len(todo) : todo[j].to = u /\ OnWay(u, node[cur].g + todo[j].cost)
    BY DEF PendingOnWay
  <1>2. todo \in Seq(Child) /\ todo # <<>>
    BY PartsOfType DEF Inv1, MayGenerate
  <1>3. CASE j = 1
    BY <1>1, <1>3 DEF Next1, GOfChild
  <1>4. CASE j # 1
    <2>1. j - 1 \in 1 .. Len(todo') /\ todo'[j - 1] = todo[j]
      BY <1>2, <1>4
    <2>2. OnWay(u, node'[cur'].g + todo'[j - 1].cost)
      BY <1>1, <2>1
    <2>3. QED BY <1>1, <2>1, <2>2 DEF PendingOnWay, OnWay
  <1>5. QED BY <1>3, <1>4

\* No child that is to come is reached at less than the least costs.
LEMMA RestNotCheaper ==
  ASSUME Inv1, CostsOfNodes, MayGenerate, space' = space, todo' = Tail(todo), cur' = cur, node'[cur] = node[cur]
  PROVE  /\ NotCheaper(Next1.to, GOfChild)
         /\ \A j \in 1 .. Len(todo') : NotCheaper(todo'[j].to, node'[cur'].g + todo'[j].cost)
  <1>1. todo \in Seq(Child) /\ todo # <<>>
    BY PartsOfType DEF Inv1, MayGenerate
  <1>2. \A j \in 1 .. Len(todo) : NotCheaper(todo[j].to, node[cur].g + todo[j].cost)
    BY DEF CostsOfNodes
  <1>3. NotCheaper(Next1.to, GOfChild)
    BY <1>1, <1>2 DEF Next1, GOfChild
  <1>4. ASSUME NEW j \in 1 .. Len(todo')
        PROVE  NotCheaper(todo'[j].to, node'[cur'].g + todo'[j].cost)
    <2>1. j + 1 \in 1 .. Len(todo) /\ todo'[j] = todo[j + 1]
      BY <1>1
    <2>2. QED BY <1>2, <2>1
  <1>5. QED BY <1>3, <1>4

\* Without early checking, a child changes the queue at most, and no costs.
LEMMA ChildKeepsWay ==
  ASSUME Inv1, CostsOfNodes, MayGenerate, space' = space, todo' = Tail(todo), cur' = cur,
         \A b \in Nodes : node'[b] = node[b], payload' = payload, stored' = stored,
         fringe \subseteq fringe', fringe' \subseteq fringe \union {Address},
         Address \in fringe' => /\ node'[Address].net = Next1.to /\ node'[Address].g = GOfChild
                                /\ node'[Address].f = FValue(Next1.to, GOfChild),
         Address \in fringe' \/ Next1.to \notin space.solvable
  PROVE  /\ CostsOfNodes'
         /\ WayIsFollowed => WayIsFollowed'
  <1>1. cur \in Nodes /\ fringe \subseteq Nodes /\ stored \subseteq Nodes /\ IsSpace(space)
    BY ChildOfCurrent, PartsOfType DEF Inv1, PointersAreAlive
  <1>2. \A u, v : Listed(u, v)' <=> Listed(u, v)
    BY <1>1, ListedKept
  <1>3. \A w, g : OnWay(w, g)' <=> OnWay(w, g)
    BY DEF OnWay
  <1>4. \A w, g : NotCheaper(w, g)' <=> NotCheaper(w, g)
    BY DEF NotCheaper
  <1>5. \A w, g, f : Valued(w, g, f)' <=> Valued(w, g, f)
    BY DEF Valued, FValue
  <1>6. VisitedMode' = VisitedMode
    BY DEF VisitedMode
  <1>7. CostsOfNodes'
    <2>1. \A a \in fringe' : /\ Valued(node'[a].net, node'[a].g, node'[a].f)
                             /\ NotCheaper(node'[a].net, node'[a].g)
      <3>1. SUFFICES ASSUME NEW a \in fringe'
                     PROVE  /\ Valued(node'[a].net, node'[a].g, node'[a].f)
                            /\ NotCheaper(node'[a].net, node'[a].g)
        OBVIOUS
      <3>2. CASE a \in fringe
        BY <1>1, <3>2 DEF CostsOfNodes
      <3>3. CASE a \notin fringe
        <4>1. NotCheaper(Next1.to, GOfChild)
          BY <1>1, RestNotCheaper
        <4>2. QED BY <3>3, <4>1 DEF Valued
      <3>4. QED BY <3>2, <3>3
    <2>2. \A j \in 1 .. Len(todo') : NotCheaper(todo'[j].to, node'[cur'].g + todo'[j].cost)
      BY <1>1, RestNotCheaper
    <2>3. \A w \in space.solvable, f \in Int : Listed(w, f)' =>
            \E g \in Nat : NotCheaper(w, g)' /\ Valued(w, g, f)'
      BY <1>2, <1>4, <1>5 DEF CostsOfNodes
    <2>4. QED BY <2>1, <2>2, <2>3 DEF CostsOfNodes, Valued, NotCheaper, FValue
  <1>8. \A u : ListedOnWay(u)' <=> ListedOnWay(u)
    BY <1>2, <1>3, <1>5 DEF ListedOnWay
  <1>9. \A u : FringeOnWay(u) => FringeOnWay(u)'
    BY <1>1, <1>3 DEF FringeOnWay
  <1>10. \A u \in space.solvable : PendingOnWay(u) => FringeOnWay(u)' \/ PendingOnWay(u)'
    <2>1. SUFFICES ASSUME NEW u \in space.solvable, u = Next1.to, OnWay(u, GOfChild)
                   PROVE  FringeOnWay(u)'
      BY <1>1, RestPendingOnWay
    <2>2. Address \in fringe' /\ node'[Address].net = u /\ node'[Address].g = GOfChild
      BY <2>1
    <2>3. OnWay(u, node'[Address].g)
      BY <2>1, <2>2
    <2>4. \E a \in fringe' : node'[a].net = u /\ OnWay(u, node'[a].g)
      BY <2>2, <2>3
    <2>5. QED BY <2>4 DEF FringeOnWay, OnWay
  <1>11. ASSUME WayIsFollowed
         PROVE  WayIsFollowed'
    <2>1. \A u \in space.solvable : MetOnWay(u) \/ PendingOnWay(u) => MetOnWay(u)' \/ PendingOnWay(u)'
      BY <1>8, <1>9, <1>10 DEF MetOnWay
    <2>2. \A u : FollowedOnWay(u) => FollowedOnWay(u)'
      BY <2>1, FollowedOnWayKept
    <2>3. VisitedMode # "none" => MetOnWay(Initial)'
      BY <1>8, <1>9, <1>11 DEF MetOnWay, WayIsFollowed
    <2>4. VisitedMode # "none" => \A w \in space.solvable : ListedOnWay(w)' => FollowedOnWay(w)'
      BY <1>8, <1>11, <2>2 DEF WayIsFollowed
    <2>5. VisitedMode = "none" => \E w \in space.solvable : FringeOnWay(w)' \/ PendingOnWay(w)'
      BY <1>9, <1>10, <1>11 DEF WayIsFollowed
    <2>6. QED BY <1>6, <2>3, <2>4, <2>5 DEF WayIsFollowed
  <1>12. QED BY <1>7, <1>11

\* A step that changes neither the queue nor the list nor what is pending.
LEMMA FrameKeepsWay ==
  ASSUME CostsOfNodes, space' = space, fringe' = fringe, payload' = payload, stored' = stored,
         \A b \in fringe \union stored : node'[b] = node[b],
         todo' = <<>> \/ (todo' = todo /\ cur' = cur /\ node'[cur] = node[cur])
  PROVE  /\ CostsOfNodes'
         /\ WayIsFollowed /\ todo' = todo => WayIsFollowed'
  <1>1. \A u, v : Listed(u, v)' <=> Listed(u, v)
    BY ListedKept
  <1>2. \A w, g : OnWay(w, g)' <=> OnWay(w, g)
    BY DEF OnWay
  <1>3. \A w, g : NotCheaper(w, g)' <=> NotCheaper(w, g)
    BY DEF NotCheaper
  <1>4. \A w, g, f : Valued(w, g, f)' <=> Valued(w, g, f)
    BY DEF Valued, FValue
  <1>5. CostsOfNodes'
    <2>1. \A a \in fringe' : /\ Valued(node'[a].net, node'[a].g, node'[a].f)
                             /\ NotCheaper(node'[a].net, node'[a].g)
      BY DEF CostsOfNodes
    <2>2. \A j \in 1 .. Len(todo') : NotCheaper(todo'[j].to, node'[cur'].g + todo'[j].cost)
      BY DEF CostsOfNodes
    <2>3. \A w \in space.solvable, f \in Int : Listed(w, f)' =>
            \E g \in Nat : NotCheaper(w, g)' /\ Valued(w, g, f)'
      BY <1>1, <1>3, <1>4 DEF CostsOfNodes
    <2>4. QED BY <2>1, <2>2, <2>3 DEF CostsOfNodes, Valued, NotCheaper, FValue
  <1>6. ASSUME WayIsFollowed, todo' = todo
        PROVE  WayIsFollowed'
    <2>1. \A u : ListedOnWay(u)' <=> ListedOnWay(u)
      BY <1>1, <1>2, <1>4 DEF ListedOnWay
    <2>2. \A u : FringeOnWay(u)' <=> FringeOnWay(u)
      BY <1>2 DEF FringeOnWay
    <2>3. \A u : PendingOnWay(u) => PendingOnWay(u)'
      BY <1>2, <1>6 DEF PendingOnWay
    <2>4. \A u : FollowedOnWay(u) => FollowedOnWay(u)'
      BY <2>1, <2>2, <2>3, FollowedOnWayKept DEF MetOnWay
    <2>5. VisitedMode' = VisitedMode
      BY DEF VisitedMode
    <2>6. QED BY <1>6, <2>1, <2>2, <2>3, <2>4, <2>5 DEF WayIsFollowed, MetOnWay
  <1>7. QED BY <1>5, <1>6

\* A popped node that is taken out again was in the list at no higher costs.
LEMMA PopSeenKeepsWay ==
  ASSUME Inv1, Inv1', CostsOfNodes, ~Suboptimal, NEW a \in fringe, ~IsNew(node[a].net, node[a].f),
         space' = space, node' = Without(a), fringe' = fringe \ {a}, payload' = payload, stored' = stored,
         todo = <<>>, todo' = <<>>
  PROVE  /\ CostsOfNodes'
         /\ Optimal /\ WayIsFollowed => WayIsFollowed'
  <1>1. \A b \in Nodes' : node'[b] = node[b]
    BY NodeRemoved DEF Inv1
  <1>2. \A b \in fringe' \union stored' : node'[b] = node[b]
    BY <1>1 DEF Inv1, PointersAreAlive
  <1>3. \A u, v : Listed(u, v)' <=> Listed(u, v)
    BY <1>2, ListedKept
  <1>4. \A w, g : OnWay(w, g)' <=> OnWay(w, g)
    BY DEF OnWay
  <1>5. \A w, g : NotCheaper(w, g)' <=> NotCheaper(w, g)
    BY DEF NotCheaper
  <1>6. \A w, g, f : Valued(w, g, f)' <=> Valued(w, g, f)
    BY DEF Valued, FValue
  <1>7. CostsOfNodes'
    <2>1. \A b \in fringe' : /\ Valued(node'[b].net, node'[b].g, node'[b].f)
                             /\ NotCheaper(node'[b].net, node'[b].g)
      BY <1>2 DEF CostsOfNodes
    <2>2. \A w \in space.solvable, f \in Int : Listed(w, f)' =>
            \E g \in Nat : NotCheaper(w, g)' /\ Valued(w, g, f)'
      BY <1>3, <1>5, <1>6 DEF CostsOfNodes
    <2>3. QED BY <2>1, <2>2 DEF CostsOfNodes, Valued, NotCheaper, FValue
  <1>8. ASSUME Optimal, WayIsFollowed
        PROVE  WayIsFollowed'
    <2>1. \A u : ListedOnWay(u)' <=> ListedOnWay(u)
      BY <1>3, <1>4, <1>6 DEF ListedOnWay
    <2>2. \A u : ~PendingOnWay(u)
      BY DEF PendingOnWay
    <2>3. OnWay(node[a].net, node[a].g) => ListedOnWay(node[a].net)
      <3>1. node[a] \in NodeRecord /\ node[a].f \in Nat
        BY PartsOfType DEF Inv1, Structure, PointersAreAlive, NodesTyped
      <3>2. Valued(node[a].net, node[a].g, node[a].f)
        BY DEF CostsOfNodes
      <3>3. QED BY <1>8, <3>1, <3>2, SeenOnWay DEF NodeRecord
    <2>4. \A u : MetOnWay(u) => MetOnWay(u)'
      <3>1. \A u : FringeOnWay(u) => FringeOnWay(u)' \/ ListedOnWay(u)
        BY <1>2, <1>4, <2>3 DEF FringeOnWay
      <3>2. QED BY <2>1, <3>1 DEF MetOnWay
    <2>5. \A u : FollowedOnWay(u) => FollowedOnWay(u)'
      BY <2>2, <2>4, FollowedOnWayKept
    <2>6. VisitedMode' = VisitedMode /\ VisitedMode # "none"
      BY DEF VisitedMode, IsNew
    <2>7. QED BY <1>8, <2>1, <2>4, <2>5, <2>6 DEF WayIsFollowed
  <1>9. QED BY <1>7, <1>8

\* The values of a network determine its costs.
LEMMA ValueDetermines ==
  ASSUME IsSpace(space), Optimal, NEW w \in Network, NEW g1 \in Nat, NEW g2 \in Nat, NEW f,
         Valued(w, g1, f), Valued(w, g2, f)
  PROVE  g1 = g2
  <1>1. /\ FValue(w, g1) = space.h[w] * space.options.weight + g1
        /\ FValue(w, g2) = space.h[w] * space.options.weight + g2
    BY ValueOfOptimal
  <1>2. space.h[w] * space.options.weight \in Nat
    BY CostFacts
  <1>3. QED BY <1>1, <1>2 DEF Valued

\* The children of a node on a cheapest way are the next ones on it.
LEMMA ExpansionKeepsWay ==
  ASSUME Inv1, CostsOfNodes, ~Suboptimal, NEW a \in fringe, NEW n \in Network, n = node[a].net,
         IsNew(n, node[a].f), Remember(n, node[a].f, a), ~IsGoal(n),
         space' = space, node' = node, fringe' = fringe \ {a}, cur' = a, todo = <<>>,
         todo' \in space.expansions[n]
  PROVE  /\ CostsOfNodes'
         /\ Optimal /\ WayIsFollowed => WayIsFollowed'
  <1>1. PICK g \in Nat, f \in Nat : g = node[a].g /\ f = node[a].f
    BY PartsOfType DEF Inv1, Structure, PointersAreAlive, NodesTyped, NodeRecord
  <1>2. IsSpace(space) /\ n \in Network /\ space.solvable \subseteq Network /\ VisitedMode' = VisitedMode
    BY PartsOfType, SpaceFacts DEF Inv1, VisitedMode
  <1>3. Valued(n, g, f) /\ NotCheaper(n, g)
    BY <1>1 DEF CostsOfNodes
  <1>4. \A w, h : OnWay(w, h)' <=> OnWay(w, h)
    BY DEF OnWay
  <1>5. \A w, h : NotCheaper(w, h)' <=> NotCheaper(w, h)
    BY DEF NotCheaper
  <1>6. \A w, h, v : Valued(w, h, v)' <=> Valued(w, h, v)
    BY DEF Valued, FValue
  <1>7. PICK x \in space.expansions[n] : todo' = x
    OBVIOUS
  <1>8. \A i \in 1 .. Len(x) : x[i].cost \in Nat
    <2>1. x \in Seq(Child)
      BY <1>2, ExpansionType
    <2>2. \A i \in 1 .. Len(x) : x[i] \in Child
      BY <2>1
    <2>3. QED BY <2>2 DEF Child
  <1>9. \A u \in Network, v \in Int : VisitedMode # "none" =>
          (Listed(u, v)' <=> IF u = n THEN v = f ELSE Listed(u, v))
    BY <1>1, ListedAfter
  <1>10. \A u, v : VisitedMode = "none" => ~Listed(u, v)' /\ ~Listed(u, v)
    BY <1>2 DEF Listed
  <1>11. CostsOfNodes'
    <2>1. \A b \in fringe' : /\ Valued(node'[b].net, node'[b].g, node'[b].f)
                             /\ NotCheaper(node'[b].net, node'[b].g)
      BY DEF CostsOfNodes
    <2>2. \A j \in 1 .. Len(todo') : NotCheaper(todo'[j].to, node'[cur'].g + todo'[j].cost)
      <3>1. SUFFICES ASSUME NEW j \in 1 .. Len(x), x[j].to \in space.solvable
                     PROVE  /\ Initial \in space.solvable
                            /\ (g + x[j].cost) + space.dist[x[j].to] >= space.dist[Initial]
        BY <1>1, <1>7 DEF NotCheaper
      <3>2. n \in space.solvable /\ space.dist[n] <= x[j].cost + space.dist[x[j].to]
        BY <1>2, <3>1, CostFacts
      <3>3. Initial \in space.solvable /\ g + space.dist[n] >= space.dist[Initial]
        BY <1>3, <3>2 DEF NotCheaper
      <3>4. x[j].cost \in Nat
        BY <1>8
      <3>5. space.dist[n] \in Nat /\ space.dist[x[j].to] \in Nat /\ space.dist[Initial] \in Nat
        BY <1>2, <3>1, <3>2, <3>3, CostFacts
      <3>6. QED BY <3>2, <3>3, <3>4, <3>5
    <2>3. \A w \in space.solvable, v \in Int : Listed(w, v)' =>
            \E h \in Nat : NotCheaper(w, h)' /\ Valued(w, h, v)'
      <3>1. SUFFICES ASSUME NEW w \in space.solvable, NEW v \in Int, Listed(w, v)'
                     PROVE  \E h \in Nat : NotCheaper(w, h) /\ Valued(w, h, v)
        BY <1>5, <1>6
      <3>2. VisitedMode # "none"
        BY <1>10, <3>1
      <3>3. CASE w = n
        BY <1>2, <1>3, <1>9, <3>1, <3>2, <3>3
      <3>4. CASE w # n
        BY <1>2, <1>9, <3>1, <3>2, <3>4 DEF CostsOfNodes
      <3>5. QED BY <3>3, <3>4
    <2>4. QED BY <2>1, <2>2, <2>3 DEF CostsOfNodes, Valued, NotCheaper, FValue
  <1>12. ASSUME Optimal, WayIsFollowed
         PROVE  WayIsFollowed'
    <2>1. \A u : ~PendingOnWay(u)
      BY DEF PendingOnWay
    <2>2. \A i \in 1 .. Len(x) :
            OnWay(n, g) /\ x[i].to \in space.solvable /\ space.dist[n] = x[i].cost + space.dist[x[i].to] =>
              PendingOnWay(x[i].to)'
      <3>1. SUFFICES ASSUME NEW i \in 1 .. Len(x), OnWay(n, g), x[i].to \in space.solvable,
                            space.dist[n] = x[i].cost + space.dist[x[i].to]
                     PROVE  OnWay(x[i].to, g + x[i].cost)
        BY <1>1, <1>4, <1>7 DEF PendingOnWay, OnWay
      <3>2. x[i].cost \in Nat /\ space.dist[x[i].to] \in Nat
        BY <1>2, <1>8, <3>1, CostFacts
      <3>3. QED BY <3>1, <3>2 DEF OnWay
    <2>3. CASE VisitedMode = "none"
      <3>1. PICK b \in fringe : OnWay(node[b].net, node[b].g)
        BY <1>12, <2>1, <2>3 DEF WayIsFollowed, FringeOnWay
      <3>2. CASE b # a
        <4>1. FringeOnWay(node[b].net)' /\ node[b].net \in space.solvable
          BY <1>4, <3>1, <3>2 DEF FringeOnWay, OnWay
        <4>2. QED BY <1>2, <2>3, <4>1 DEF WayIsFollowed
      <3>3. CASE b = a
        <4>1. OnWay(n, g) /\ n \in space.solvable \ space.goals
          BY <1>1, <3>1, <3>3 DEF OnWay, IsGoal
        <4>2. {n} \in SUBSET (space.solvable \ space.goals)
          BY <4>1
        <4> DEFINE T == {n}
        <4>3. T # {} /\ \A T2 \in SUBSET (space.solvable \ space.goals) : T2 # {} =>
                \E w \in T2 : \A y \in space.expansions[w] : \E i \in 1 .. Len(y) :
                  y[i].to \in space.solvable \ T2 /\ space.dist[w] = y[i].cost + space.dist[y[i].to]
          BY <1>2, CostFacts
        <4>32. \E w \in T : \A y \in space.expansions[w] : \E i \in 1 .. Len(y) :
                 y[i].to \in space.solvable \ T /\ space.dist[w] = y[i].cost + space.dist[y[i].to]
          BY <4>2, <4>3
        <4>33. PICK i \in 1 .. Len(x) :
                      x[i].to \in space.solvable /\ space.dist[n] = x[i].cost + space.dist[x[i].to]
          BY <4>32
        <4>4. PendingOnWay(x[i].to)'
          BY <2>2, <4>1, <4>33
        <4>5. QED BY <1>2, <2>3, <4>33, <4>4 DEF WayIsFollowed
      <3>4. QED BY <3>2, <3>3
    <2>4. CASE VisitedMode # "none"
      <3>1. \A u \in Network : u # n => (ListedOnWay(u)' <=> ListedOnWay(u))
        BY <1>4, <1>6, <1>9, <2>4 DEF ListedOnWay
      <3>2. OnWay(n, g) => ListedOnWay(n)'
        BY <1>3, <1>4, <1>6, <1>9, <2>4 DEF ListedOnWay
      <3>3. ListedOnWay(n)' => OnWay(n, g)
        <4>1. SUFFICES ASSUME NEW h \in Nat, OnWay(n, h), Valued(n, h, f)
                       PROVE  OnWay(n, g)
          BY <1>4, <1>6, <1>9, <2>4 DEF ListedOnWay
        <4>2. h = g
          BY <1>2, <1>3, <1>12, <4>1, ValueDetermines
        <4>3. QED BY <4>1, <4>2
      <3>4. ListedOnWay(n) => OnWay(n, g)
        <4>1. SUFFICES ASSUME NEW h \in Nat, NEW v \in Int, OnWay(n, h), Listed(n, v), Valued(n, h, v)
                       PROVE  h = g
          BY DEF ListedOnWay
        <4>2. v > f
          BY <1>1, <4>1, NewIfSmaller
        <4>3. /\ space.dist[n] \in Nat /\ space.dist[Initial] \in Nat
              /\ space.h[n] * space.options.weight \in Nat
          BY <1>2, <1>3, <4>1, CostFacts DEF OnWay, NotCheaper
        <4>4. g >= h
          BY <1>3, <4>1, <4>3 DEF OnWay, NotCheaper
        <4>5. /\ FValue(n, g) = space.h[n] * space.options.weight + g
              /\ FValue(n, h) = space.h[n] * space.options.weight + h
          BY <1>2, <1>12, ValueOfOptimal
        <4>6. v <= space.h[n] * space.options.weight + h
          BY <4>1, <4>3, <4>5 DEF Valued
        <4>7. f # FValue(n, g)
          BY <4>2, <4>3, <4>4, <4>5, <4>6
        <4>8. g = 0
          BY <1>3, <4>7 DEF Valued
        <4>9. QED BY <4>4, <4>8
      <3>5. \A u \in space.solvable : MetOnWay(u) => MetOnWay(u)'
        <4>1. \A u \in Network : ListedOnWay(u) => ListedOnWay(u)'
          BY <3>1, <3>2, <3>4
        <4>2. \A u : FringeOnWay(u) => FringeOnWay(u)' \/ (u = n /\ OnWay(n, g))
          BY <1>1, <1>4 DEF FringeOnWay
        <4>3. QED BY <1>2, <3>2, <4>1, <4>2 DEF MetOnWay
      <3>6. \A u : FollowedOnWay(u) => FollowedOnWay(u)'
        BY <2>1, <3>5, FollowedOnWayKept
      <3>7. OnWay(n, g) => FollowedOnWay(n)'
        BY <2>2 DEF FollowedOnWay
      <3>8. MetOnWay(Initial)'
        <4>1. MetOnWay(Initial) /\ (ListedOnWay(Initial) \/ FringeOnWay(Initial))
          BY <1>12, <2>4 DEF WayIsFollowed, MetOnWay
        <4>2. Initial \in space.solvable
          BY <4>1 DEF ListedOnWay, FringeOnWay, OnWay
        <4>3. QED BY <3>5, <4>1, <4>2
      <3>9. \A w \in space.solvable : ListedOnWay(w)' => FollowedOnWay(w)'
        BY <1>2, <1>12, <2>4, <3>1, <3>3, <3>6, <3>7 DEF WayIsFollowed
      <3>10. QED BY <1>2, <2>4, <3>8, <3>9 DEF WayIsFollowed
    <2>5. QED BY <2>3, <2>4
  <1>13. QED BY <1>11, <1>12

\* The goal node that A* pops is a cheapest one.
LEMMA PoppedGoal ==
  ASSUME Inv1, Inv2, Inv3, Idle, Optimal, NEW a \in BestOf(fringe), IsGoal(node[a].net)
  PROVE  node[a].g = space.dist[Initial]
  <1>1. a \in fringe /\ node[a].net \in Network /\ node[a].g \in Nat /\ node[a].f \in Nat /\ todo = <<>>
    BY Popped
  <1>2. /\ IsSpace(space) /\ Searching /\ CostsOfNodes /\ ~reachedTimeLimit
        /\ space.goals \subseteq space.solvable /\ Initial \notin space.goals
    BY PartsOfType, SpaceFacts DEF Inv1, Inv2, Inv3, Idle, Optimal
  <1>3. PICK n \in Network, g \in Nat, f \in Nat : n = node[a].net /\ g = node[a].g /\ f = node[a].f
    BY <1>1
  <1>4. Valued(n, g, f) /\ NotCheaper(n, g)
    BY <1>1, <1>2, <1>3 DEF CostsOfNodes
  <1>5. n \in space.solvable /\ n # Initial /\ space.dist[n] = 0
    BY <1>2, <1>3, CostFacts DEF IsGoal
  <1>6. Initial \in space.solvable /\ g >= space.dist[Initial] /\ space.dist[Initial] \in Nat
    BY <1>2, <1>4, <1>5, CostFacts DEF NotCheaper
  <1>7. g <= f
    <2>1. f = FValue(n, g)
      BY <1>4, <1>5 DEF Valued
    <2>2. FValue(n, g) = space.h[n] * space.options.weight + g /\ space.h[n] * space.options.weight \in Nat
      BY <1>2, CostFacts, ValueOfOptimal
    <2>3. QED BY <2>1, <2>2
  <1>8. f <= space.dist[Initial]
    <2>1. PICK b \in fringe : OnWay(node[b].net, node[b].g)
      BY <1>1, <1>2, <1>6, CheapestWayOut DEF CheapestOpen, OnWay, Idle
    <2>2. /\ node[b].net \in Network /\ node[b].g \in Nat /\ node[b].f \in Nat
          /\ f <= node[b].f
      BY <1>3, PartsOfType DEF BestOf, Inv1, Structure, PointersAreAlive, NodesTyped, NodeRecord
    <2>3. PICK m \in Network, c \in Nat, v \in Nat : m = node[b].net /\ c = node[b].g /\ v = node[b].f
      BY <2>2
    <2>4. Valued(m, c, v)
      BY <1>2, <2>3 DEF CostsOfNodes
    <2>5. m \in space.solvable /\ c + space.dist[m] = space.dist[Initial]
      BY <2>1, <2>3 DEF OnWay
    <2>6. FValue(m, c) <= space.dist[Initial]
      BY <1>2, <2>5, ValueOfOptimal
    <2>7. v <= space.dist[Initial]
      <3>1. v = FValue(m, c) \/ v = 0
        BY <2>4 DEF Valued
      <3>2. CASE v = 0
        BY <1>6, <3>2
      <3>3. CASE v = FValue(m, c)
        BY <2>6, <3>3
      <3>4. QED BY <3>1, <3>2, <3>3
    <2>8. QED BY <1>6, <2>2, <2>3, <2>7
  <1>9. QED BY <1>3, <1>6, <1>7, <1>8

\* Every step leaves cheapest ways followed.
LEMMA Step3 == Inv1 /\ Inv1' /\ Inv2 /\ Inv3 /\ [Next]_vars => Inv3'
  <1> SUFFICES ASSUME Inv1, Inv1', Inv2, Inv3, [Next]_vars, ~Suboptimal
               PROVE  Inv3'
    <2>1. [Next]_vars => space' = space
      BY DEF Next, Search, vars, PopSeen, PopGoal, PopToExpand, ChildDead, ChildSeen, ChildUnreachable,
             ChildGoal, ChildPushed, BreakOffMethods, Finish, TimeOut, Report, Tick
    <2>2. [Next]_vars /\ Suboptimal => Inv3'
      BY <2>1 DEF Inv3, Suboptimal
    <2>3. QED BY <2>2
  <1>0. space' = space /\ Suboptimal' = Suboptimal /\ Optimal' = Optimal
    BY DEF Next, Search, vars, PopSeen, PopGoal, PopToExpand, ChildDead, ChildSeen, ChildUnreachable,
           ChildGoal, ChildPushed, BreakOffMethods, Finish, TimeOut, Report, Tick, Suboptimal,
           Optimal, Admissible
  <1>00. /\ IsSpace(space) /\ Ended /\ fringe \union stored \subseteq Nodes
         /\ status = "search" =>
              /\ Searching /\ CostsOfNodes /\ tnSol = Nil
              /\ reachedTimeLimit => cur # Nil
              /\ Optimal /\ Initial \in space.solvable /\ ~reachedTimeLimit => WayIsFollowed
         /\ tnSol # Nil /\ Optimal => node[tnSol].g = space.dist[Initial]
    BY PartsOfType DEF Inv1, Structure, Inv2, Inv3, PointersAreAlive
  <1>01. ASSUME status = "search", tnSol' = Nil, CostsOfNodes',
                reachedTimeLimit' => cur' # Nil,
                Optimal /\ Initial \in space.solvable /\ ~reachedTimeLimit' => WayIsFollowed'
         PROVE  Inv3'
    BY <1>0, <1>01 DEF Inv3
  <1>1. CASE PopSeen
    <2>1. PICK a \in BestOf(fringe) :
            ~IsNew(node[a].net, node[a].f) /\ node' = Without(a) /\ fringe' = fringe \ {a}
      BY <1>1 DEF PopSeen
    <2>2. /\ todo' = todo /\ tnSol' = tnSol /\ status = "search" /\ payload' = payload /\ stored' = stored
          /\ reachedTimeLimit' = reachedTimeLimit /\ cur = Nil
      BY <1>1 DEF PopSeen, SeenUnchanged, Idle
    <2>3. a \in fringe /\ todo = <<>>
      BY <1>1, <2>1, Popped DEF PopSeen
    <2>4. CostsOfNodes' /\ (Optimal /\ WayIsFollowed => WayIsFollowed')
      BY <1>0, <1>00, <2>1, <2>2, <2>3, PopSeenKeepsWay
    <2>5. QED BY <1>00, <1>01, <2>2, <2>4
  <1>2. CASE PopGoal
    <2>1. PICK a \in BestOf(fringe) : TestsPopped(node[a].net) /\ tnSol' = a
      BY <1>2 DEF PopGoal
    <2>2. status' = "stop" /\ node' = node /\ Idle /\ IsGoal(node[a].net)
      BY <1>2, <2>1 DEF PopGoal, TestsPopped
    <2>3. Optimal => node[a].g = space.dist[Initial]
      BY <2>2, PoppedGoal
    <2>4. tnSol' # Nil /\ Optimal' => node'[tnSol'].g = space'.dist[Initial]
      BY <1>0, <2>1, <2>2, <2>3
    <2>5. QED BY <2>2, <2>4 DEF Inv3
  <1>3. CASE PopToExpand
    <2>1. PICK a \in BestOf(fringe) :
            /\ IsNew(node[a].net, node[a].f) /\ Remember(node[a].net, node[a].f, a)
            /\ ~TestsPopped(node[a].net) /\ cur' = a
            /\ fringe' = fringe \ {a} /\ todo' \in space.expansions[node[a].net]
      BY <1>3, Zenon DEF PopToExpand, ChecksPopped
    <2>2. /\ node' = node /\ tnSol' = tnSol /\ status = "search" /\ cur = Nil
          /\ reachedTimeLimit' = reachedTimeLimit
      BY <1>3 DEF PopToExpand, Idle
    <2>3. a \in fringe /\ node[a].net \in Network /\ todo = <<>> /\ a # Nil
      BY <1>3, <2>1, Popped DEF PopToExpand
    <2>4. PICK n \in Network : n = node[a].net
      BY <2>3
    <2>5. IsNew(n, node[a].f) /\ Remember(n, node[a].f, a) /\ ~IsGoal(n) /\ todo' \in space.expansions[n]
      BY <2>1, <2>4 DEF TestsPopped
    <2>6. CostsOfNodes' /\ (Optimal /\ WayIsFollowed => WayIsFollowed')
      BY <1>0, <1>00, <2>1, <2>2, <2>3, <2>4, <2>5, ExpansionKeepsWay
    <2>7. QED BY <1>00, <1>01, <2>1, <2>2, <2>3, <2>6
  <1>4. CASE ChildDead \/ ChildUnreachable \/ ChildPushed
    <2>1. /\ MayGenerate /\ todo' = Tail(todo) /\ cur' = cur /\ tnSol' = tnSol
          /\ reachedTimeLimit' = reachedTimeLimit
      BY <1>4 DEF ChildDead, ChildUnreachable, ChildPushed
    <2>2. status = "search" /\ cur # Nil /\ GOfChild \in Nat
      BY <2>1, ChildOfCurrent
    <2>3. payload' = payload /\ stored' = stored
      BY <1>4 DEF ChildDead, ChildUnreachable, ChildPushed, Accepted, SeenUnchanged
    <2>4. /\ \A b \in Nodes : node'[b] = node[b]
          /\ fringe \subseteq fringe' /\ fringe' \subseteq fringe \union {Address}
          /\ Address \in fringe' => /\ node'[Address].net = Next1.to /\ node'[Address].g = GOfChild
                                    /\ node'[Address].f = FValue(Next1.to, GOfChild)
          /\ Address \in fringe' \/ Next1.to \notin space.solvable
      <3>0. Address \notin fringe /\ space.solvable \subseteq Network
        BY <1>00, FreshAddress, SpaceFacts DEF Inv1, Structure
      <3>1. CASE ChildDead
        BY <3>0, <3>1, GarbageAssumption DEF ChildDead
      <3>2. CASE ChildUnreachable
        <4>1. PICK f \in Garbage : node' = IF DeletesUnreachable THEN node ELSE With(Address, ChildNode(f))
          BY <3>2 DEF ChildUnreachable
        <4>2. Next1.to \in Network /\ Next1.to \notin space.solvable /\ fringe' = fringe
          BY <1>00, <3>2, SpaceFacts DEF ChildUnreachable
        <4>3. \A b \in Nodes : node'[b] = node[b]
          BY <2>1, <4>1, <4>2, GarbageAssumption, ChildAdded
        <4>4. QED BY <3>0, <4>2, <4>3
      <3>3. CASE ChildPushed
        <4>1. /\ node' = With(Address, ChildNode(FValue(Next1.to, GOfChild)))
              /\ Next1.to \in Network /\ fringe' = fringe \union {Address}
          BY <3>3 DEF ChildPushed
        <4>2. FValue(Next1.to, GOfChild) \in Int
          BY <2>2, <4>1, FValueType DEF Inv1
        <4>3. /\ \A b \in Nodes : node'[b] = node[b]
              /\ node'[Address].net = Next1.to /\ node'[Address].g = GOfChild
              /\ node'[Address].f = FValue(Next1.to, GOfChild)
          BY <2>1, <4>1, <4>2, ChildAdded
        <4>4. QED BY <4>1, <4>3
      <3>4. QED BY <1>4, <3>1, <3>2, <3>3
    <2>5. CostsOfNodes' /\ (WayIsFollowed => WayIsFollowed')
      BY <1>0, <1>00, <2>1, <2>2, <2>3, <2>4, ChildKeepsWay
    <2>6. QED BY <1>00, <1>01, <2>1, <2>2, <2>5
  <1>5. CASE ChildSeen \/ ChildGoal
    BY <1>5 DEF ChildSeen, ChildGoal, TestsChild
  <1>6. CASE Finish
    <2>1. /\ node' = (IF DeletesProcessed THEN Without(cur) ELSE node) /\ todo' = todo /\ todo = <<>>
          /\ fringe' = fringe /\ status = "search" /\ tnSol' = tnSol /\ ~late
          /\ reachedTimeLimit' = reachedTimeLimit /\ payload' = payload /\ stored' = stored
      BY <1>6 DEF Finish, SeenUnchanged, Expanding
    <2>2. \A b \in fringe \union stored : node'[b] = node[b]
      <3>1. \A b \in Nodes' : node'[b] = node[b]
        BY <2>1, NodeRemoved DEF Inv1, Nodes
      <3>2. QED BY <2>1, <3>1 DEF Inv1, PointersAreAlive
    <2>3. CostsOfNodes' /\ (WayIsFollowed => WayIsFollowed')
      BY <1>0, <1>00, <2>1, <2>2, FrameKeepsWay
    <2>4. ~reachedTimeLimit
      BY <1>00, <2>1 DEF Ended
    <2>5. QED BY <1>00, <1>01, <2>1, <2>3, <2>4
  <1>7. CASE BreakOffMethods
    <2>1. /\ node' = node /\ fringe' = fringe /\ tnSol' = tnSol /\ reachedTimeLimit' = TRUE /\ todo' = <<>>
          /\ payload' = payload /\ stored' = stored /\ status = "search" /\ cur' = cur /\ cur # Nil
      BY <1>7 DEF BreakOffMethods, SeenUnchanged, Expanding
    <2>2. CostsOfNodes'
      BY <1>0, <1>00, <2>1, FrameKeepsWay
    <2>3. QED BY <1>00, <1>01, <2>1, <2>2
  <1>8. CASE TimeOut \/ Report
    <2>1. node' = node /\ tnSol' = tnSol /\ status' # "search"
      BY <1>8 DEF TimeOut, Report
    <2>2. tnSol' # Nil /\ Optimal' => node'[tnSol'].g = space'.dist[Initial]
      BY <1>0, <1>00, <2>1
    <2>3. QED BY <2>1, <2>2 DEF Inv3
  <1>9. CASE Tick \/ UNCHANGED vars
    <2>1. /\ node' = node /\ fringe' = fringe /\ tnSol' = tnSol /\ reachedTimeLimit' = reachedTimeLimit
          /\ payload' = payload /\ stored' = stored /\ todo' = todo /\ cur' = cur /\ status' = status
      BY <1>9 DEF Tick, vars, SeenUnchanged
    <2>2. CASE status = "search"
      <3>1. CostsOfNodes' /\ (WayIsFollowed => WayIsFollowed')
        BY <1>0, <1>00, <2>1, <2>2, FrameKeepsWay
      <3>2. QED BY <1>00, <1>01, <2>1, <2>2, <3>1
    <2>3. CASE status # "search"
      <3>1. tnSol' # Nil /\ Optimal' => node'[tnSol'].g = space'.dist[Initial]
        BY <1>0, <1>00, <2>1
      <3>2. QED BY <2>1, <2>3, <3>1 DEF Inv3
    <2>4. QED BY <2>2, <2>3
  <1>10. QED BY <1>1, <1>2, <1>3, <1>4, <1>5, <1>6, <1>7, <1>8, <1>9 DEF Next, Search

\* Whatever has been pruned, a cheapest solution stays open until the search ends.
THEOREM WayStaysOpenCorrect == Spec => []WayStaysOpen
  <1>1. Init => Inv1 /\ Inv2 /\ Inv3
    BY TypeInit, InitWay, InitCheapest
  <1>2. Inv1 /\ Inv2 /\ Inv3 /\ [Next]_vars => (Inv1 /\ Inv2 /\ Inv3)'
    BY Step1, Step2, Step3
  <1>3. Inv1 /\ Inv2 /\ Inv3 => WayStaysOpen
    BY WayOut, CheapestWayOut DEF WayStaysOpen
  <1>4. QED BY <1>1, <1>2, <1>3, PTL DEF Spec

\* What is printed is true: "Solved" with a goal node, a cheapest one if that is promised,
\* "Proven unsolvable" for problems without solutions only, "Timeout" after the limit only.
THEOREM ResultIsCorrect == Spec => []ResultCorrect
  <1>1. Init => Inv1 /\ Inv2 /\ Inv3
    BY TypeInit, InitWay, InitCheapest
  <1>2. Inv1 /\ Inv2 /\ Inv3 /\ [Next]_vars => (Inv1 /\ Inv2 /\ Inv3)'
    BY Step1, Step2, Step3
  <1>3. Inv1 /\ Inv2 /\ Inv3 => ResultCorrect
    BY DEF Inv2, Inv3, Ended, ResultCorrect, Optimal
  <1>4. QED BY <1>1, <1>2, <1>3, PTL DEF Spec
-----------------------------------------------------------------------------
\* With early checking and exact keys, an entry is made once.
EntriesMadeOnce == Suboptimal /\ VisitedMode = "trie" =>
                     accepted = payload /\ \A w \in Network : payload[w] <= 1

\* The search looks at nodes in the order of their values.
Rising == Optimal /\ space.options.weight = 1 /\ Consistent /\ VisitedMode # "none"

\* Nothing in the queue, or still to come, has a smaller value than what is in the list.
ListedFirst ==
  \A w \in Network, v \in Int : Listed(w, v) =>
    /\ \A b \in fringe : v <= node[b].f
    /\ \A j \in 1 .. Len(todo) :
         todo[j].to \in Network => v <= FValue(todo[j].to, node[cur].g + todo[j].cost)

AcceptedAreListed == \A w \in Network : accepted[w] > 0 => \E v \in Int : Listed(w, v)

Inv4 == /\ EntriesMadeOnce
        /\ Rising => /\ \A w \in Network : accepted[w] <= 1
                     /\ status = "search" => ListedFirst /\ AcceptedAreListed

\* At first nothing was called new but the initial network.
LEMMA InitOnce == Init => Inv4
  <1> SUFFICES ASSUME Init
               PROVE  Inv4
    OBVIOUS
  <1>1. \A w \in Network, v \in Int : ~Listed(w, v)
    BY DEF Init, Listed
  <1>2. QED BY <1>1 DEF Init, Inv4, EntriesMadeOnce, ListedFirst, AcceptedAreListed

\* With a list that remembers networks only, each is called new once.
LEMMA EntriesStep == Inv1 /\ EntriesMadeOnce /\ [Next]_vars => EntriesMadeOnce'
  <1> SUFFICES ASSUME Inv1, EntriesMadeOnce, [Next]_vars, Suboptimal, VisitedMode = "trie"
               PROVE  accepted' = payload' /\ \A w \in Network : payload'[w] <= 1
    <2>1. [Next]_vars => space' = space
      BY DEF Next, Search, vars, PopSeen, PopGoal, PopToExpand, ChildDead, ChildSeen, ChildUnreachable,
             ChildGoal, ChildPushed, BreakOffMethods, Finish, TimeOut, Report, Tick
    <2>2. QED BY <2>1 DEF EntriesMadeOnce, Suboptimal, VisitedMode
  <1>1. CASE payload' = payload /\ accepted' = accepted
    BY <1>1 DEF EntriesMadeOnce
  <1>2. CASE \E f \in Garbage : Accepted(Address, f) /\ Next1.to \in Network
    <2>1. PICK f \in Garbage : Accepted(Address, f) /\ Next1.to \in Network
      BY <1>2
    <2>2. PICK u \in Network : u = Next1.to
      BY <2>1
    <2>3. payload[u] = 0
      BY <2>1, <2>2 DEF Accepted, IsNew, NewInTrie
    <2>4. payload' = [payload EXCEPT ![u] = 1] /\ accepted' = [accepted EXCEPT ![u] = accepted[u] + 1]
      BY <2>1, <2>2 DEF Accepted, Remember, Entry
    <2>5. payload \in [Network -> Nat] /\ accepted = payload /\ \A w \in Network : payload[w] <= 1
      BY PartsOfType DEF Inv1, EntriesMadeOnce
    <2>6. accepted' = payload'
      <3>1. accepted[u] + 1 = 1
        BY <2>3, <2>5
      <3>2. accepted' = [accepted EXCEPT ![u] = 1]
        BY <2>4, <3>1
      <3>3. accepted = payload /\ payload' = [payload EXCEPT ![u] = 1]
        BY <2>4, <2>5
      <3>4. QED BY <3>2, <3>3, Zenon
    <2>7. ASSUME NEW w \in Network
          PROVE  payload'[w] <= 1
      <3>1. payload'[w] = IF w = u THEN 1 ELSE payload[w]
        BY <2>4, <2>5
      <3>2. QED BY <2>5, <3>1
    <2>8. QED BY <2>6, <2>7
  <1>3. \/ payload' = payload /\ accepted' = accepted
        \/ \E f \in Garbage : Accepted(Address, f) /\ Next1.to \in Network
    <2>1. space.unreachable \subseteq Network
      BY PartsOfType, SpaceFacts DEF Inv1
    <2>2. QED BY <2>1 DEF Next, Search, vars, PopSeen, PopGoal, PopToExpand, ChildDead, ChildSeen,
                          ChildUnreachable, ChildGoal, ChildPushed, BreakOffMethods, Finish, TimeOut,
                          Report, Tick, SeenUnchanged, ChecksPopped, TestsPopped
  <1>4. QED BY <1>1, <1>2, <1>3

\* A popped node that is new has a network that was never in the list.
LEMMA NewIsFirst ==
  ASSUME Inv1, ~Suboptimal, ListedFirst, AcceptedAreListed, NEW a \in fringe, NEW n \in Network,
         n = node[a].net, IsNew(n, node[a].f)
  PROVE  accepted[n] = 0
  <1>1. accepted[n] \in Nat
    BY PartsOfType DEF Inv1
  <1>2. PICK f \in Nat : f = node[a].f
    BY DEF Inv1, Structure
  <1>3. \A v \in Int : Listed(n, v) => v > f /\ v <= f
    BY <1>2, NewIfSmaller DEF ListedFirst
  <1>4. \A v \in Int : ~Listed(n, v)
    BY <1>2, <1>3
  <1>5. QED BY <1>1, <1>4 DEF AcceptedAreListed

\* The children of a popped node, which are the only ones to come, have no smaller values.
LEMMA ChildrenRise ==
  ASSUME IsSpace(space), Rising, NEW n \in Network, NEW g \in Nat, NEW f \in Nat, Valued(n, g, f),
         NEW x \in space.expansions[n], NEW i \in 1 .. Len(x), x[i].to \in Network
  PROVE  f <= FValue(x[i].to, g + x[i].cost)
  <1>1. Optimal /\ space.options.weight = 1 /\ Consistent
    BY DEF Rising
  <1>2. x \in Seq(Child)
    BY ExpansionType
  <1>3. x[i] \in Child
    BY <1>2
  <1>4. PICK m \in Network, c \in Nat : m = x[i].to /\ c = x[i].cost
    BY <1>3 DEF Child
  <1>5. space.h[n] <= c + space.h[m]
    BY <1>1, <1>4 DEF Consistent
  <1>6. space.h[n] \in Nat /\ space.h[m] \in Nat
    BY CostFacts
  <1>7. g + c \in Nat
    OBVIOUS
  <1>8. FValue(m, g + c) = space.h[m] * space.options.weight + (g + c)
    BY <1>1, <1>7, ValueOfOptimal
  <1>9. FValue(n, g) = space.h[n] * space.options.weight + g
    BY <1>1, ValueOfOptimal
  <1>10. FValue(m, g + c) = space.h[m] + (g + c) /\ FValue(n, g) = space.h[n] + g
    BY <1>1, <1>6, <1>8, <1>9
  <1>11. f = FValue(n, g) \/ f = 0
    BY DEF Valued
  <1>12. f <= FValue(m, g + c)
    BY <1>5, <1>6, <1>10, <1>11
  <1>13. QED BY <1>4, <1>12

\* Every step leaves what makes sure of one expansion each.
LEMMA Step4 == Inv1 /\ Inv1' /\ Inv2 /\ Inv3 /\ Inv4 /\ [Next]_vars => Inv4'
  <1> SUFFICES ASSUME Inv1, Inv1', Inv2, Inv3, Inv4, [Next]_vars
               PROVE  Inv4'
    OBVIOUS
  <1>0. space' = space /\ (Rising' <=> Rising)
    BY DEF Next, Search, vars, PopSeen, PopGoal, PopToExpand, ChildDead, ChildSeen, ChildUnreachable,
           ChildGoal, ChildPushed, BreakOffMethods, Finish, TimeOut, Report, Tick, Suboptimal,
           Optimal, Admissible, Rising, Consistent, VisitedMode
  <1>00. EntriesMadeOnce'
    BY EntriesStep DEF Inv4
  <1>000. SUFFICES ASSUME Rising
                   PROVE  /\ \A w \in Network : accepted'[w] <= 1
                          /\ status' = "search" => ListedFirst' /\ AcceptedAreListed'
    BY <1>0, <1>00 DEF Inv4
  <1>01. /\ IsSpace(space) /\ ~Suboptimal /\ VisitedMode # "none" /\ fringe \union stored \subseteq Nodes
         /\ accepted \in [Network -> Nat]
         /\ \A w \in Network : accepted[w] <= 1
         /\ status = "search" => ListedFirst /\ AcceptedAreListed /\ CostsOfNodes
    <2>1. ~Suboptimal /\ VisitedMode # "none"
      BY <1>000 DEF Rising, Optimal
    <2>2. IsSpace(space) /\ fringe \union stored \subseteq Nodes /\ accepted \in [Network -> Nat]
      BY PartsOfType DEF Inv1, PointersAreAlive
    <2>3. QED BY <1>000, <2>1, <2>2 DEF Inv3, Inv4
  <1>02. ASSUME accepted' = accepted, payload' = payload, stored' = stored,
                \A b \in stored : node'[b] = node[b], status = "search"
         PROVE  (\A u, v : Listed(u, v)' <=> Listed(u, v)) /\ AcceptedAreListed'
    <2>1. \A u, v : Listed(u, v)' <=> Listed(u, v)
      BY <1>0, <1>02, ListedKept
    <2>2. QED BY <1>01, <1>02, <2>1 DEF AcceptedAreListed
  <1>1. CASE PopSeen \/ Finish
    <2>1. /\ todo = <<>> /\ todo' = <<>> /\ fringe' \subseteq fringe /\ payload' = payload /\ stored' = stored
          /\ accepted' = accepted /\ status = "search" /\ \E a : node' = Without(a) \/ node' = node
      BY <1>1 DEF PopSeen, Finish, SeenUnchanged, Idle, Expanding, Inv1, Structure
    <2>2. \A b \in Nodes' : node'[b] = node[b]
      BY <2>1, NodeRemoved DEF Inv1, Nodes
    <2>3. \A b \in fringe' \union stored' : node'[b] = node[b]
      BY <2>2 DEF Inv1, PointersAreAlive
    <2>4. (\A u, v : Listed(u, v)' <=> Listed(u, v)) /\ AcceptedAreListed'
      BY <1>02, <2>1, <2>3
    <2>5. ListedFirst'
      BY <1>01, <2>1, <2>3, <2>4 DEF ListedFirst
    <2>6. QED BY <1>01, <2>1, <2>4, <2>5
  <1>2. CASE PopGoal \/ PopToExpand
    <2>1. PICK a \in BestOf(fringe) :
            /\ IsNew(node[a].net, node[a].f) /\ Remember(node[a].net, node[a].f, a)
            /\ fringe' = fringe \ {a}
            /\ status' = "search" => cur' = a /\ todo' \in space.expansions[node[a].net]
      <3>1. CASE PopGoal
        BY <3>1 DEF PopGoal
      <3>2. CASE PopToExpand
        BY <1>01, <3>2, Zenon DEF PopToExpand, ChecksPopped
      <3>3. QED BY <1>2, <3>1, <3>2
    <2>2. node' = node /\ Idle
      BY <1>2 DEF PopGoal, PopToExpand
    <2>3. a \in fringe /\ node[a].net \in Network /\ node[a].g \in Nat /\ node[a].f \in Nat
          /\ status = "search"
      BY <2>1, <2>2, Popped
    <2>4. PICK n \in Network, g \in Nat, f \in Nat : n = node[a].net /\ g = node[a].g /\ f = node[a].f
      BY <2>3
    <2>5. accepted[n] = 0
      BY <1>01, <2>1, <2>3, <2>4, NewIsFirst
    <2>6. accepted' = [accepted EXCEPT ![n] = accepted[n] + 1]
      BY <2>1, <2>4 DEF Remember
    <2>7. \A w \in Network : accepted'[w] <= 1
      BY <1>01, <2>5, <2>6
    <2>8. \A u \in Network, v \in Int : Listed(u, v)' <=> IF u = n THEN v = f ELSE Listed(u, v)
      BY <1>0, <1>01, <2>1, <2>2, <2>4, ListedAfter
    <2>9. AcceptedAreListed'
      BY <1>01, <2>3, <2>4, <2>6, <2>8 DEF AcceptedAreListed
    <2>10. \A u \in Network, v \in Int : Listed(u, v)' => v <= f
      BY <1>01, <2>3, <2>4, <2>8 DEF ListedFirst
    <2>11. \A b \in fringe' : f <= node'[b].f
      BY <2>1, <2>2, <2>4 DEF BestOf
    <2>12. ASSUME status' = "search", NEW j \in 1 .. Len(todo'), todo'[j].to \in Network
           PROVE  f <= FValue(todo'[j].to, node'[cur'].g + todo'[j].cost)
      <3>1. PICK x \in space.expansions[n] : x = todo'
        BY <2>1, <2>4, <2>12
      <3>2. node'[cur'].g = g
        BY <2>1, <2>2, <2>4, <2>12
      <3>3. Valued(n, g, f)
        BY <1>01, <2>3, <2>4 DEF CostsOfNodes
      <3>4. f <= FValue(x[j].to, g + x[j].cost)
        BY <1>000, <1>01, <2>12, <3>1, <3>3, ChildrenRise
      <3>5. QED BY <3>1, <3>2, <3>4
    <2>13. status' = "search" => ListedFirst'
      <3>1. SUFFICES ASSUME status' = "search", NEW u \in Network, NEW v \in Int, Listed(u, v)'
                     PROVE  /\ \A b \in fringe' : v <= node'[b].f
                            /\ \A j \in 1 .. Len(todo') : todo'[j].to \in Network =>
                                 v <= FValue(todo'[j].to, node'[cur'].g + todo'[j].cost)
        BY <1>0 DEF ListedFirst, FValue
      <3>2. v <= f
        BY <2>10, <3>1
      <3>3. \A b \in fringe' : node'[b].f \in Int
        BY DEF Inv1, Structure
      <3>4. ASSUME NEW j \in 1 .. Len(todo'), todo'[j].to \in Network
            PROVE  FValue(todo'[j].to, node'[cur'].g + todo'[j].cost) \in Int
        <4>1. PICK x \in space.expansions[n] : x = todo'
          BY <2>1, <2>4, <3>1
        <4>2. node'[cur'].g = g
          BY <2>1, <2>2, <2>4, <3>1
        <4>3. x[j] \in Child
          BY <1>01, <3>4, <4>1, ExpansionType
        <4>4. g + x[j].cost \in Nat
          BY <4>3 DEF Child
        <4>5. PICK m \in Network, c \in Nat : m = todo'[j].to /\ c = node'[cur'].g + todo'[j].cost
          BY <3>4, <4>1, <4>2, <4>4
        <4>6. FValue(m, c) \in Int
          BY FValueType DEF Inv1
        <4>7. QED BY <4>5, <4>6
      <3>5. QED BY <2>11, <2>12, <3>1, <3>2, <3>3, <3>4
    <2>14. QED BY <2>7, <2>9, <2>13
  <1>3. CASE ChildDead \/ ChildUnreachable \/ ChildPushed
    <2>1. /\ MayGenerate /\ todo' = Tail(todo) /\ cur' = cur /\ todo # <<>>
          /\ payload' = payload /\ stored' = stored /\ accepted' = accepted
      BY <1>01, <1>3 DEF ChildDead, ChildUnreachable, ChildPushed, Accepted, SeenUnchanged, MayGenerate
    <2>2. status = "search" /\ cur \in Nodes /\ GOfChild \in Nat /\ todo \in Seq(Child)
      BY <2>1, ChildOfCurrent, PartsOfType DEF Inv1
    <2>3. /\ \A b \in Nodes : node'[b] = node[b]
          /\ \A b \in fringe' : b \in fringe \/ (/\ Next1.to \in Network
                                                 /\ node'[b].f = FValue(Next1.to, GOfChild))
      <3>1. CASE ChildDead
        BY <3>1 DEF ChildDead
      <3>2. CASE ChildUnreachable
        <4>1. PICK f \in Garbage : node' = IF DeletesUnreachable THEN node ELSE With(Address, ChildNode(f))
          BY <3>2 DEF ChildUnreachable
        <4>2. Next1.to \in Network /\ fringe' = fringe
          BY <1>01, <3>2, SpaceFacts DEF ChildUnreachable
        <4>3. QED BY <2>1, <4>1, <4>2, GarbageAssumption, ChildAdded
      <3>3. CASE ChildPushed
        <4>1. /\ node' = With(Address, ChildNode(FValue(Next1.to, GOfChild)))
              /\ Next1.to \in Network /\ fringe' = fringe \union {Address}
          BY <3>3 DEF ChildPushed
        <4>2. FValue(Next1.to, GOfChild) \in Int
          BY <2>2, <4>1, FValueType DEF Inv1
        <4>3. /\ \A b \in Nodes : node'[b] = node[b]
              /\ node'[Address].f = FValue(Next1.to, GOfChild)
          BY <2>1, <4>1, <4>2, ChildAdded
        <4>4. QED BY <4>1, <4>3
      <3>4. QED BY <1>3, <3>1, <3>2, <3>3
    <2>4. (\A u, v : Listed(u, v)' <=> Listed(u, v)) /\ AcceptedAreListed'
      BY <1>01, <1>02, <2>1, <2>2, <2>3
    <2>5. ASSUME NEW u \in Network, NEW v \in Int, Listed(u, v)
          PROVE  /\ \A b \in fringe' : v <= node'[b].f
                 /\ \A j \in 1 .. Len(todo') : todo'[j].to \in Network =>
                      v <= FValue(todo'[j].to, node'[cur'].g + todo'[j].cost)
      <3>1. /\ \A b \in fringe : v <= node[b].f
            /\ \A j \in 1 .. Len(todo) : todo[j].to \in Network =>
                 v <= FValue(todo[j].to, node[cur].g + todo[j].cost)
        BY <1>01, <2>2, <2>5 DEF ListedFirst
      <3>2. Next1.to \in Network => v <= FValue(Next1.to, GOfChild)
        BY <2>1, <2>2, <3>1 DEF Next1, GOfChild
      <3>3. \A b \in fringe' : v <= node'[b].f
        BY <1>01, <2>3, <3>1, <3>2
      <3>4. ASSUME NEW j \in 1 .. Len(todo'), todo'[j].to \in Network
            PROVE  v <= FValue(todo'[j].to, node'[cur'].g + todo'[j].cost)
        <4>1. j + 1 \in 1 .. Len(todo) /\ todo'[j] = todo[j + 1]
          BY <2>1, <2>2
        <4>2. QED BY <2>1, <2>2, <2>3, <3>1, <3>4, <4>1
      <3>5. QED BY <3>3, <3>4
    <2>6. ListedFirst'
      BY <1>0, <2>4, <2>5 DEF ListedFirst, FValue
    <2>7. QED BY <1>01, <2>1, <2>4, <2>6
  <1>4. CASE ChildSeen \/ ChildGoal
    BY <1>01, <1>4 DEF ChildSeen, ChildGoal, TestsChild
  <1>5. CASE BreakOffMethods
    <2>1. /\ node' = node /\ fringe' = fringe /\ todo' = <<>> /\ status = "search"
          /\ payload' = payload /\ stored' = stored /\ accepted' = accepted
      BY <1>5 DEF BreakOffMethods, SeenUnchanged, Expanding
    <2>2. (\A u, v : Listed(u, v)' <=> Listed(u, v)) /\ AcceptedAreListed'
      BY <1>02, <2>1
    <2>3. ListedFirst'
      BY <1>01, <2>1, <2>2 DEF ListedFirst
    <2>4. QED BY <1>01, <2>1, <2>2, <2>3
  <1>6. CASE TimeOut \/ Report
    BY <1>01, <1>6 DEF TimeOut, Report, SeenUnchanged
  <1>7. CASE Tick \/ UNCHANGED vars
    <2>1. /\ node' = node /\ fringe' = fringe /\ todo' = todo /\ cur' = cur /\ status' = status
          /\ payload' = payload /\ stored' = stored /\ accepted' = accepted
      BY <1>7 DEF Tick, vars, SeenUnchanged
    <2>2. ASSUME status = "search"
          PROVE  ListedFirst' /\ AcceptedAreListed'
      <3>1. (\A u, v : Listed(u, v)' <=> Listed(u, v)) /\ AcceptedAreListed'
        BY <1>02, <2>1, <2>2
      <3>2. QED BY <1>0, <1>01, <2>1, <2>2, <3>1 DEF ListedFirst, FValue
    <2>3. QED BY <1>01, <2>1, <2>2
  <1>8. QED BY <1>1, <1>2, <1>3, <1>4, <1>5, <1>6, <1>7 DEF Next, Search

\* No network is called new twice: with early checking and exact keys never, and in A*
\* search with a consistent heuristic never either.
THEOREM NeverExpandedTwice == Spec => []ExpandedOnce
  <1>1. Init => Inv1 /\ Inv2 /\ Inv3 /\ Inv4
    BY TypeInit, InitWay, InitCheapest, InitOnce
  <1>2. Inv1 /\ Inv2 /\ Inv3 /\ Inv4 /\ [Next]_vars => (Inv1 /\ Inv2 /\ Inv3 /\ Inv4)'
    BY Step1, Step2, Step3, Step4
  <1>3. Inv1 /\ Inv4 => ExpandedOnce
    BY DEF Inv4, ExpandedOnce, EntriesMadeOnce, Rising, CanDelete
  <1>4. QED BY <1>1, <1>2, <1>3, PTL DEF Spec
=============================================================================
