----------------------------- MODULE SearchLoop -----------------------------
(***************************************************************************)
(* PriorityQueueSearch::search: the best-first search over task networks,  *)
(* with its visited list, its priority queue, its time limit and the       *)
(* explicit deletion of search nodes.                                      *)
(*                                                                         *)
(* What a node's network is does not matter here, only which networks its  *)
(* modifications lead to.  That is a search space (see Spaces).  A node    *)
(* with abstract first tasks is expanded by the methods of one of them,    *)
(* picked at random; so a network has a set of expansions, each a sequence *)
(* of children in the order the code generates them.  A node is a record   *)
(* at an address; deleting it frees the address for the next node.         *)
(*                                                                         *)
(* visitedMode is "trie" when the visited list keeps the cost of a node    *)
(* under an exact key (totally ordered problems and parallel sequences),   *)
(* "nodes" when it keeps the nodes themselves and compares with them       *)
(* (partially ordered problems), and "none" when it is switched off.  That *)
(* keys and comparisons tell networks apart is the concern of VisitedList. *)
(***************************************************************************)
EXTENDS Integers, Sequences, FiniteSets

CONSTANTS Network,       \* the task networks, each with its state
          Initial,       \* the network of the initial node
          Abstract,      \* the networks with an abstract first task
          Dead,          \* a child that progression itself finds unsolvable
          Spaces,        \* the search spaces to consider, each with options
          Garbage        \* what an fValue that was never written may hold

\* --suboptimal, FALSE for --gValue=none, --astarweight, the kind of visited list, and
\* whether there is a time limit.
Options == [suboptimal : BOOLEAN, gValue : BOOLEAN, weight : Nat,
            visitedMode : {"none", "trie", "nodes"}, hasTimeLimit : BOOLEAN]

Child == [to : Network \union {Dead}, cost : Nat]

\* A space: the expansions of each network, the goal networks, the networks from which
\* a goal can be reached with the cost of the cheapest way, the heuristic, and the
\* networks it finds unsolvable.  Whichever abstract task is decomposed first, a
\* cheapest solution stays reachable and comes nearer: of the networks of any set
\* without goals, one has no expansion whose children on cheapest ways are all in the set.
IsSpace(s) ==
  /\ s.options \in Options
  /\ s.goals \subseteq s.solvable /\ s.solvable \subseteq Network
  /\ Initial \in Network \ s.goals
  /\ s.expansions \in [Network -> SUBSET Seq(Child)]
  /\ s.dist \in [s.solvable -> Nat] /\ s.h \in [Network -> Nat]
  /\ s.unreachable \subseteq Network \ s.solvable
  /\ \A w \in Network : s.expansions[w] # {}
  /\ \A w \in s.goals : s.dist[w] = 0 /\ s.expansions[w] = {<<>>}
  /\ \A w \in Network : \A x \in s.expansions[w] : \A i \in 1 .. Len(x) :
       x[i].to \in s.solvable => /\ w \in s.solvable
                                 /\ s.dist[w] <= x[i].cost + s.dist[x[i].to]
  /\ \A T \in SUBSET (s.solvable \ s.goals) : T # {} =>
       \E w \in T : \A x \in s.expansions[w] : \E i \in 1 .. Len(x) :
         x[i].to \in s.solvable \ T /\ s.dist[w] = x[i].cost + s.dist[x[i].to]

ASSUME SpacesAssumption == \A s \in Spaces : IsSpace(s)

ASSUME GarbageAssumption == Garbage \subseteq Int /\ Garbage # {} /\ Dead \notin Network

Nil == 0

VARIABLES space,
          node,      \* the living search nodes: a function from their addresses
          fringe,    \* the addresses in the priority queue
          cur,       \* n, the node being expanded, or Nil
          todo,      \* its children not generated yet
          payload,   \* trie mode: 0 or, with reopening, the cost in the list plus one
          stored,    \* nodes mode: the addresses in the list
          accepted,  \* history: how often insertVisi has called a network new
          late,      \* the clock has passed the time limit
          reachedTimeLimit,
          tnSol,     \* the solution node, or Nil
          status     \* "search", "stop" after a break, or the printed status

vars == <<space, node, fringe, cur, todo, payload, stored, accepted, late,
          reachedTimeLimit, tnSol, status>>

Suboptimal == space.options.suboptimal
VisitedMode == space.options.visitedMode

CanDelete == VisitedMode \in {"none", "trie"}

Address == CHOOSE a \in 1 .. Cardinality(DOMAIN node) + 1 : a \notin DOMAIN node

Without(a) == [b \in DOMAIN node \ {a} |-> node[b]]
With(a, n) == [b \in DOMAIN node \union {a} |-> IF b = a THEN n ELSE node[b]]

IsGoal(w) == w \in space.goals

\* OneQueueWAStarFringe::push.
FValue(w, g) == space.h[w] * space.options.weight + IF space.options.gValue THEN g ELSE 0

\* Mutation: the comparator is the wrong way round.
WorstOf(q) == {a \in q : \A b \in q : node[a].f >= node[b].f}

\* The nodes pop may return; ties are broken by random numbers.
BestOf(q) == {a \in q : \A b \in q : node[a].f <= node[b].f}
-----------------------------------------------------------------------------
\* Mutation: an entry is never reopened.
NewInTrieOnce(w, f) == payload[w] = 0

\* Mutation: reopening at the same cost.
NewInTrieAtSameCost(w, f) == payload[w] = 0 \/ (~Suboptimal /\ payload[w] >= f + 1)

NewInTrie(w, f) == payload[w] = 0 \/ (~Suboptimal /\ payload[w] > f + 1)

NewAmongNodes(w, f) == \A a \in stored : node[a].net = w => node[a].f > f

\* VisitedList::insertVisi: is the node with network w and value f new?
IsNew(w, f) == CASE VisitedMode = "none"  -> TRUE
                 [] VisitedMode = "trie"  -> NewInTrie(w, f)
                 [] VisitedMode = "nodes" -> NewAmongNodes(w, f)

\* What the list keeps; without early checking the cost plus one, as 0 means no entry.
Entry(f) == IF Suboptimal THEN 1 ELSE f + 1

\* insertVisi on the new node at address a with network w and value f.
Remember(w, f, a) ==
  /\ payload' = IF VisitedMode = "trie" THEN [payload EXCEPT ![w] = Entry(f)] ELSE payload
  /\ stored' = IF VisitedMode = "nodes"
               THEN {b \in stored : node[b].net # w} \union {a} ELSE stored
  /\ accepted' = [accepted EXCEPT ![w] = @ + 1]

SeenUnchanged == UNCHANGED <<payload, stored, accepted>>
-----------------------------------------------------------------------------
\* The heuristic value of the initial node is set to 0, not computed.
Init == /\ space \in Spaces
        /\ node = [a \in {1} |-> [net |-> Initial, g |-> 0, f |-> 0]]
        /\ fringe = {1}
        /\ cur = Nil
        /\ todo = <<>>
        /\ payload = [w \in Network |-> 0]
        /\ stored = {}
        /\ accepted = [w \in Network |-> 0]
        /\ late = FALSE
        /\ reachedTimeLimit = FALSE
        /\ tnSol = Nil
        /\ status = "search"

Idle == status = "search" /\ cur = Nil
Expanding == status = "search" /\ cur # Nil

\* Mutation: popped nodes are looked up with early checking, too.
ChecksPoppedAlways == TRUE

\* Whether popped nodes are looked up in the visited list.
ChecksPopped == ~Suboptimal

\* A popped node that is in the visited list already is deleted.
PopSeen == /\ Idle /\ ChecksPopped
           /\ \E a \in BestOf(fringe) :
                /\ ~IsNew(node[a].net, node[a].f)
                /\ node' = Without(a)
                /\ fringe' = fringe \ {a}
           /\ SeenUnchanged
           /\ UNCHANGED <<space, cur, todo, late, reachedTimeLimit, tnSol, status>>

\* The goal test on popped nodes.
TestsPopped(w) == ~Suboptimal /\ IsGoal(w)

PopGoal == /\ Idle
           /\ \E a \in BestOf(fringe) :
                /\ IsNew(node[a].net, node[a].f)
                /\ TestsPopped(node[a].net)
                /\ Remember(node[a].net, node[a].f, a)
                /\ tnSol' = a
                /\ fringe' = fringe \ {a}
           /\ status' = "stop"
           /\ UNCHANGED <<space, node, cur, todo, late, reachedTimeLimit>>

PopToExpand ==
  /\ Idle
  /\ \E a \in BestOf(fringe) :
       /\ IF ChecksPopped
          THEN IsNew(node[a].net, node[a].f) /\ Remember(node[a].net, node[a].f, a)
          ELSE SeenUnchanged
       /\ ~TestsPopped(node[a].net)
       /\ cur' = a
       /\ fringe' = fringe \ {a}
       /\ todo' \in space.expansions[node[a].net]
  /\ UNCHANGED <<space, node, late, reachedTimeLimit, tnSol, status>>

\* The child that comes next, and its distance from the root.
Next1 == Head(todo)
GOfChild == node[cur].g + Next1.cost

\* What the loops over actions and methods test before they go on.
MayGenerate == /\ Expanding
               /\ todo # <<>>
               /\ node[cur].net \in Abstract => ~late

\* goalReachable is false after decompose() or apply(): the child is deleted.
ChildDead == /\ MayGenerate
             /\ Next1.to = Dead
             /\ todo' = Tail(todo)
             /\ SeenUnchanged
             /\ UNCHANGED <<space, node, fringe, cur, late, reachedTimeLimit, tnSol, status>>

\* With early checking the child is looked up before its heuristic value is known; its
\* fValue is not set before it is pushed.
ChildSeen == /\ MayGenerate
             /\ Next1.to # Dead /\ Suboptimal
             /\ \E f \in Garbage : ~IsNew(Next1.to, f)
             /\ todo' = Tail(todo)
             /\ SeenUnchanged
             /\ UNCHANGED <<space, node, fringe, cur, late, reachedTimeLimit, tnSol, status>>

\* The child passes the early check, if there is one, at address a with value f.
Accepted(a, f) == IF Suboptimal THEN IsNew(Next1.to, f) /\ Remember(Next1.to, f, a)
                                ELSE SeenUnchanged

ChildNode(f) == [net |-> Next1.to, g |-> GOfChild, f |-> f]

\* Mutation: a node the heuristic finds unsolvable is left behind.
DeletesUnreachableNever == FALSE

\* Whether a node the heuristic finds unsolvable is deleted.
DeletesUnreachable == Suboptimal /\ CanDelete

\* The heuristic clears goalReachable: the child is not pushed, and is deleted or left.
ChildUnreachable ==
  /\ MayGenerate
  /\ Next1.to \in space.unreachable
  /\ \E f \in Garbage : /\ Accepted(Address, f)
                        /\ node' = IF DeletesUnreachable THEN node
                                   ELSE With(Address, ChildNode(f))
  /\ todo' = Tail(todo)
  /\ UNCHANGED <<space, fringe, cur, late, reachedTimeLimit, tnSol, status>>

\* The early goal test.
TestsChild(w) == Suboptimal /\ IsGoal(w)

ChildGoal ==
  /\ MayGenerate
  /\ Next1.to \in Network \ space.unreachable
  /\ TestsChild(Next1.to)
  /\ \E f \in Garbage : /\ Accepted(Address, f)
                        /\ node' = With(Address, ChildNode(f))
  /\ tnSol' = Address
  /\ status' = "stop"
  /\ UNCHANGED <<space, fringe, cur, todo, late, reachedTimeLimit>>

ChildPushed ==
  /\ MayGenerate
  /\ Next1.to \in Network \ space.unreachable
  /\ ~TestsChild(Next1.to)
  /\ \E f \in Garbage : Accepted(Address, f)
  /\ node' = With(Address, ChildNode(FValue(Next1.to, GOfChild)))
  /\ fringe' = fringe \union {Address}
  /\ todo' = Tail(todo)
  /\ UNCHANGED <<space, cur, late, reachedTimeLimit, tnSol, status>>

\* The loop over the methods looks at the clock before every method.
BreakOffMethods ==
  /\ Expanding /\ todo # <<>>
  /\ node[cur].net \in Abstract /\ late
  /\ todo' = <<>>
  /\ reachedTimeLimit' = TRUE
  /\ SeenUnchanged
  /\ UNCHANGED <<space, node, fringe, cur, late, tnSol, status>>

\* Mutation: processed nodes are deleted whatever the visited list keeps.
DeletesProcessedAlways == TRUE

DeletesProcessed == CanDelete

\* The end of an iteration within the time limit.
Finish == /\ Expanding /\ todo = <<>> /\ ~late
          /\ node' = IF DeletesProcessed THEN Without(cur) ELSE node
          /\ cur' = Nil
          /\ SeenUnchanged
          /\ UNCHANGED <<space, fringe, todo, late, reachedTimeLimit, tnSol, status>>

\* The end of an iteration after the time limit.
TimeOut == /\ Expanding /\ todo = <<>> /\ late
           /\ reachedTimeLimit' = TRUE
           /\ status' = "stop"
           /\ SeenUnchanged
           /\ UNCHANGED <<space, node, fringe, cur, todo, late, tnSol>>

\* Mutation: the loop only ends by a break.
LoopEndsByBreak == status = "stop"

\* The loop ends by a break, or because the fringe is empty.
LoopEnds == status = "stop" \/ (Idle /\ fringe = {})

\* The status is printed.
Report == /\ LoopEnds
          /\ status' = IF tnSol # Nil THEN "Solved"
                       ELSE IF reachedTimeLimit THEN "Timeout"
                       ELSE "Proven unsolvable"
          /\ SeenUnchanged
          /\ UNCHANGED <<space, node, fringe, cur, todo, late, reachedTimeLimit, tnSol>>

\* Time passes.
Tick == /\ space.options.hasTimeLimit /\ status = "search"
        /\ ~late /\ late' = TRUE
        /\ SeenUnchanged
        /\ UNCHANGED <<space, node, fringe, cur, todo, reachedTimeLimit, tnSol, status>>

Search == \/ PopSeen \/ PopGoal \/ PopToExpand
          \/ ChildDead \/ ChildSeen \/ ChildUnreachable \/ ChildGoal \/ ChildPushed
          \/ BreakOffMethods \/ Finish \/ TimeOut \/ Report

Next == Search \/ Tick

Spec == Init /\ [][Next]_vars /\ WF_vars(Search)
-----------------------------------------------------------------------------
Nodes == DOMAIN node

TypeOK == /\ IsSpace(space)
          /\ \A a \in Nodes : a \in Nat \ {Nil} /\ node[a] \in [net : Network, g : Nat, f : Int]
          /\ fringe \subseteq Nat
          /\ cur \in Nat /\ tnSol \in Nat
          /\ todo \in Seq(Child)
          /\ payload \in [Network -> Nat]
          /\ accepted \in [Network -> Nat]
          /\ late \in BOOLEAN /\ reachedTimeLimit \in BOOLEAN
          /\ status \in {"search", "stop", "Solved", "Timeout", "Proven unsolvable"}

\* No node is deleted while the queue, the loop, the result or the visited list still
\* points to it.  (Four delete statements, each under its own condition.)
PointersAreAlive == fringe \union stored \union ({cur, tnSol} \ {Nil}) \subseteq Nodes

\* With early checking and a visited list that keeps no nodes, nothing leaks: a living
\* node is in the queue, being expanded, or the result.
NothingLeaks == (Suboptimal /\ CanDelete) => Nodes \subseteq fringe \union {cur, tnSol}

\* A network that the loop may still get to from a node with that network and cost.
OpenAtCost(w, f) == Suboptimal \/ IsNew(w, f)

\* Every solvable problem keeps a node, or a child still to be generated, from which a
\* solution can be reached, however the visited list has pruned.
SolutionOpen ==
  (status = "search" /\ Initial \in space.solvable) =>
    \/ reachedTimeLimit
    \/ \E a \in fringe : node[a].net \in space.solvable /\ OpenAtCost(node[a].net, node[a].f)
    \/ \E i \in 1 .. Len(todo) : /\ todo[i].to \in space.solvable
                                 /\ Suboptimal => payload[todo[i].to] = 0

Admissible == \A w \in space.solvable : space.h[w] <= space.dist[w]

\* The search promises cheapest solutions.
Optimal == ~Suboptimal /\ space.options.gValue /\ space.options.weight <= 1 /\ Admissible

\* A cheapest solution stays open: a node on a cheapest way is in the queue and will not
\* be pruned, or it is still to be generated.  Reopening is what makes this hold when
\* the heuristic is not consistent.
CheapestOpen ==
  (Optimal /\ status = "search" /\ ~reachedTimeLimit /\ Initial \in space.solvable) =>
    \/ \E a \in fringe : /\ node[a].net \in space.solvable
                         /\ node[a].g + space.dist[node[a].net] = space.dist[Initial]
                         /\ IsNew(node[a].net, node[a].f)
    \/ \E i \in 1 .. Len(todo) :
         /\ todo[i].to \in space.solvable
         /\ GOfChild - Next1.cost + todo[i].cost + space.dist[todo[i].to] = space.dist[Initial]
         /\ IsNew(todo[i].to, FValue(todo[i].to, GOfChild - Next1.cost + todo[i].cost))

\* Neither solutions nor the cheapest of them are cut off.
WayStaysOpen == SolutionOpen /\ CheapestOpen

\* What is printed is true: unsolvable problems have no solution, a solution node is a
\* goal, and with an admissible heuristic and weight 1 its costs are the least possible.
ResultCorrect ==
  /\ status = "Proven unsolvable" => Initial \notin space.solvable
  /\ status = "Solved" => /\ IsGoal(node[tnSol].net)
                          /\ Optimal => node[tnSol].g = space.dist[Initial]
  /\ status = "Timeout" => late

\* Steps of the search never raise the value by more than the costs it pays.
Consistent ==
  \A w \in Network : \A x \in space.expansions[w] : \A i \in 1 .. Len(x) :
    x[i].to \in Network => space.h[w] <= x[i].cost + space.h[x[i].to]

\* No network is expanded twice: never with early checking, if the visited list ignores
\* costs then, and not in A* search with a consistent heuristic either.
ExpandedOnce ==
  (VisitedMode # "none" /\ ((Suboptimal /\ CanDelete) \/ (Optimal /\ space.options.weight = 1 /\ Consistent))) =>
    \A w \in Network : accepted[w] <= 1

\* The search ends, on cyclic spaces too.
Terminates == <>(status \in {"Solved", "Timeout", "Proven unsolvable"})
=============================================================================
