-------------------------- MODULE ImpliedDistances --------------------------
(***************************************************************************)
(* calcMinimalImpliedX: how many steps and what costs a task implies at    *)
(* least.  A list of methods and tasks to look at again starts with the    *)
(* methods that have actions as subtasks; every value that changes brings  *)
(* back what depends on it.  The pass runs after the analysis of the       *)
(* graph, when the heuristic is constructed.                               *)
(***************************************************************************)
EXTENDS DecompositionGraph

\* Problems also give the costs of actions, and the grounder leaves no abstract task without a method.
ASSUME CostsAssumption ==
  \A p \in Problems :
    /\ p.actionCosts \in [0 .. p.numActions - 1 -> Nat]
    /\ \A t \in p.numActions .. p.numTasks - 1 : \E m \in DOMAIN p.methods : p.methods[m].task = t

VARIABLES h,    \* the list: methods and tasks
          minEstimatedCosts, minImpliedDistance,     \* of tasks
          minEstimatedCostsM, minImpliedDistanceM    \* of methods

distanceVars == <<h, minEstimatedCosts, minImpliedDistance, minEstimatedCostsM, minImpliedDistanceM>>

Methods == DOMAIN htn.methods
subTasks(m) == htn.methods[m].subTasks
taskToMethods(t) == {m \in Methods : htn.methods[m].task = t}

\* calcTaskToMethodMapping: each method once, by its number.
stToMethod(t) == Ascending({m \in Methods : t \in ToSet(subTasks(m))})

MethodNode(m) == [isMethod |-> TRUE, id |-> m]
TaskNode(t) == [isMethod |-> FALSE, id |-> t]
MethodNodes(list) == [i \in DOMAIN list |-> MethodNode(list[i])]

DistanceInit == /\ h = <<>>
                /\ minEstimatedCosts = NoFunction /\ minImpliedDistance = NoFunction
                /\ minEstimatedCostsM = NoFunction /\ minImpliedDistanceM = NoFunction

\* The methods with actions as subtasks, action by action.
MethodsOfActions ==
  LET upTo[n \in 0 .. htn.numActions] == IF n = 0 THEN <<>> ELSE upTo[n - 1] \o MethodNodes(stToMethod(n - 1))
  IN  upTo[htn.numActions]

StartDistances ==
  /\ phase = "prepared"
  /\ minEstimatedCosts' = [t \in Tasks |-> IF t < htn.numActions THEN htn.actionCosts[t] ELSE 0]
  /\ minImpliedDistance' = [t \in Tasks |-> IF t < htn.numActions THEN 1 ELSE 0]
  /\ minEstimatedCostsM' = [m \in Methods |-> 0]
  /\ minImpliedDistanceM' = [m \in Methods |-> 0]
  /\ h' = MethodsOfActions
  /\ phase' = "distances"
  /\ UNCHANGED <<htn, graphVars>>

SumOver(values, list) ==
  LET upTo[i \in 0 .. Len(list)] == IF i = 0 THEN 0 ELSE upTo[i - 1] + values[list[i]]
  IN  upTo[Len(list)]

LeastOf(values, M) == Min({values[m] : m \in M})

CostOf(m) == SumOver(minEstimatedCosts, subTasks(m))

\* "a distance of one is implied by the decomposition itself"
DistanceOf(m) == 1 + SumOver(minImpliedDistance, subTasks(m))

LookAtMethod ==
  /\ phase = "distances" /\ h # <<>> /\ Head(h).isMethod
  /\ LET m == Head(h).id
         changed == minEstimatedCostsM[m] # CostOf(m) \/ minImpliedDistanceM[m] # DistanceOf(m)
     IN  /\ minEstimatedCostsM' = [minEstimatedCostsM EXCEPT ![m] = CostOf(m)]
         /\ minImpliedDistanceM' = [minImpliedDistanceM EXCEPT ![m] = DistanceOf(m)]
         /\ h' = Tail(h) \o IF changed THEN <<TaskNode(htn.methods[m].task)>> ELSE <<>>
  /\ UNCHANGED <<htn, phase, graphVars, minEstimatedCosts, minImpliedDistance>>

\* Mutation: only changes of the costs are passed on.
OnlyCostsChanged(t, cost, distance) == minEstimatedCosts[t] # cost

TaskChanged(t, cost, distance) == minEstimatedCosts[t] # cost \/ minImpliedDistance[t] # distance

\* Mutation: the task is not taken from the list.
TaskStaysListed ==
  /\ phase = "distances" /\ h # <<>> /\ ~Head(h).isMethod
  /\ LET t == Head(h).id
         cost == LeastOf(minEstimatedCostsM, taskToMethods(t))
         distance == LeastOf(minImpliedDistanceM, taskToMethods(t))
     IN  /\ minEstimatedCosts' = [minEstimatedCosts EXCEPT ![t] = cost]
         /\ minImpliedDistance' = [minImpliedDistance EXCEPT ![t] = distance]
         /\ h' = h \o IF TaskChanged(t, cost, distance) THEN MethodNodes(stToMethod(t)) ELSE <<>>
  /\ UNCHANGED <<htn, phase, graphVars, minEstimatedCostsM, minImpliedDistanceM>>

LookAtTask ==
  /\ phase = "distances" /\ h # <<>> /\ ~Head(h).isMethod
  /\ LET t == Head(h).id
         cost == LeastOf(minEstimatedCostsM, taskToMethods(t))
         distance == LeastOf(minImpliedDistanceM, taskToMethods(t))
     IN  /\ minEstimatedCosts' = [minEstimatedCosts EXCEPT ![t] = cost]
         /\ minImpliedDistance' = [minImpliedDistance EXCEPT ![t] = distance]
         /\ h' = Tail(h) \o IF TaskChanged(t, cost, distance) THEN MethodNodes(stToMethod(t)) ELSE <<>>
  /\ UNCHANGED <<htn, phase, graphVars, minEstimatedCostsM, minImpliedDistanceM>>

DistancesKnown == /\ phase = "distances" /\ h = <<>>
                  /\ phase' = "ready"
                  /\ minEstimatedCostsM' = NoFunction /\ minImpliedDistanceM' = NoFunction
                  /\ UNCHANGED <<htn, graphVars, h, minEstimatedCosts, minImpliedDistance>>

DistanceNext == StartDistances \/ LookAtMethod \/ LookAtTask \/ DistancesKnown
-----------------------------------------------------------------------------
Plus(cost, C) == {cost + c : c \in C}

\* The sums of d and of one member of C for each task on a list.
Sums(C, list, d) ==
  LET upTo[i \in 0 .. Len(list)] == IF i = 0 THEN {d} ELSE UNION {Plus(s, C[list[i]]) : s \in upTo[i - 1]}
  IN  upTo[Len(list)]

Smallest(C) == IF C = {} THEN {} ELSE {Min(C)}

\* What the cheapest decomposition of each task takes, if there is one of at most so many levels: actions take
\* what is given for them, and every method takes d.  More levels than tasks are of no use.
Cheapest(given, d) ==
  LET within[n \in 0 .. htn.numTasks] ==
        [t \in Tasks |->
           IF t < htn.numActions THEN {given[t]}
           ELSE IF n = 0 THEN {}
           ELSE Smallest(UNION {Sums(within[n - 1], subTasks(m), d) : m \in taskToMethods(t)})]
  IN  within[htn.numTasks]

CheapestCosts == Cheapest(htn.actionCosts, 0)
ShortestDistances == Cheapest([a \in 0 .. htn.numActions - 1 |-> 1], 1)

\* The implied values are lower bounds, and where nothing can recur they are exact.  Below a
\* task that recurs they may stay too small: a method whose value is still 0 counts, too.
ImpliedAreBounds ==
  phase = "ready" =>
    \A t \in Tasks :
      /\ \A c \in CheapestCosts[t] : minEstimatedCosts[t] <= c
      /\ \A d \in ShortestDistances[t] : minImpliedDistance[t] <= d
      /\ AcyclicInOrder[taskToSCC[t]] => /\ CheapestCosts[t] = {minEstimatedCosts[t]}
                                         /\ ShortestDistances[t] = {minImpliedDistance[t]}
=============================================================================
