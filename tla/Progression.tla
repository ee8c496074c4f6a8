----------------------------- MODULE Progression -----------------------------
(***************************************************************************)
(* Model::decompose and Model::apply on search nodes that share their plan *)
(* steps.  A child node is made without copying the parent's network: it   *)
(* stores its own unconstrained steps and points into the parent's steps   *)
(* for the rest.  Plan steps and solution steps carry a count of the       *)
(* pointers to them and are freed, with what only they point to, when the  *)
(* last pointer goes.                                                      *)
(*                                                                         *)
(* Both operations go on to progress actions without effects and single    *)
(* applicable actions by calling apply() on their own result, which is     *)
(* deleted when the call returns.  One step of this module is one          *)
(* decomposition or application, one check after a call, or one deletion.  *)
(***************************************************************************)
EXTENDS HTN, PointerGraph

CONSTANTS NodeId,     \* search nodes that can be alive at a time
          Address,    \* bound: plan steps that can be allocated at a time
          MaxAlive    \* bound: a search that holds this many nodes makes no more

VARIABLES heap,       \* the allocated plan steps, by address
          solutions,  \* the allocated solution steps, by address
          nodes,      \* the allocated search nodes
          call        \* the apply() and decompose() calls under way

vars == <<heap, solutions, nodes, call>>

NoPlan == 0           \* nullptr as a node's solution or a solution step's prev
NoMethod == "action"  \* method -1
NoReachability == {"unset"}  \* reachableT is nullptr
Idle == [calling |-> FALSE]

ASSUME MemoryAssumption == /\ NodeId # {}
                           /\ Address # {} /\ IsFiniteSet(Address)
                           /\ NoMethod \notin Method

\* Where a new solution step goes: the lowest free address.
FreshIn(dom) == CHOOSE a \in 1 .. Cardinality(dom) + 1 : a \notin dom

\* What is left of a function when some of its domain goes.
Without(f, S) == [x \in DOMAIN f \ S |-> f[x]]
-------------------------------------------------------------------------------
(* Reading the shared structure.                                           *)

\* What the plan steps of h, the solution steps of sol and the nodes point to.
Pointers(h) == [x \in DOMAIN h |-> h[x].successorList]
PlanPointers(sol) == [p \in DOMAIN sol |-> {sol[p].prev} \ {NoPlan}]
SolutionOf(n) == {nodes[n].solution} \ {NoPlan}

Counts(f) == [x \in DOMAIN f |-> f[x].pointersToMe]

\* The steps reached from those of S by one or more successor pointers.
Descendants(h, S) == ReachedFrom(Pointers(h), S)

NetworkOf(n) == nodes[n].unconstraint \union Descendants(heap, nodes[n].unconstraint)

Label(s) == heap[s].task

Primitives(h, uc) == {s \in uc : h[s].task \in Primitive}

\* The prev pointers of a solution step lead back to the first one.
Plan[p \in Nat] ==
  IF p \notin DOMAIN solutions THEN <<>>
  ELSE Append(Plan[solutions[p].prev], <<solutions[p].task, solutions[p].method>>)

\* What the actions of that plan cost.
PlanCost[p \in Nat] ==
  IF p \notin DOMAIN solutions THEN 0
  ELSE PlanCost[solutions[p].prev]
       + IF solutions[p].method = NoMethod THEN actionCosts[solutions[p].task] ELSE 0
-------------------------------------------------------------------------------
(* Pointer counts.                                                         *)

\* pointersToMe++ of every step of S, k times.
AddPointers(h, S, k) ==
  [x \in DOMAIN h |-> IF x \in S THEN [h[x] EXCEPT !.pointersToMe = @ + k] ELSE h[x]]

\* Mutations: a step at zero stays allocated; its successors keep their pointers.
ReleaseKeepsZero(h, S) ==
  [x \in DOMAIN h |-> IF x \in S THEN [h[x] EXCEPT !.pointersToMe = @ - 1] ELSE h[x]]

ReleaseShallow(h, S) ==
  LET F == {x \in DOMAIN h : x \in S /\ h[x].pointersToMe = 1}
  IN  [x \in DOMAIN h \ F |-> IF x \in S THEN [h[x] EXCEPT !.pointersToMe = @ - 1] ELSE h[x]]

\* f without what is freed when an object that points to those of S goes.
Released(f, G, S) ==
  LET F == Freed(G, Counts(f), S)
  IN  [x \in DOMAIN f \ F |-> [f[x] EXCEPT !.pointersToMe = @ - PointersLost(G, S, F, x)]]

\* ~planStep for the steps of a deleted node's lists: each loses a pointer, those at
\* zero are freed, and so do their successors in turn.
Release(h, S) == Released(h, Pointers(h), S)

\* ~solutionStep for the last step of a deleted node's plan, and those before it.
ReleasePlan(sol, S) == Released(sol, PlanPointers(sol), S)

\* ~searchNode
Deleted(n) ==
  /\ heap' = Release(heap, nodes[n].unconstraint)
  /\ solutions' = ReleasePlan(solutions, SolutionOf(n))
  /\ nodes' = Without(nodes, {n})
-------------------------------------------------------------------------------
(* The two ways to make a child.                                           *)

\* A new solution step after that of n; n's loses nothing and gains a pointer.
Extended(n, t, m) ==
  LET new == FreshIn(DOMAIN solutions)
  IN  [p \in DOMAIN solutions \union {new} |->
         IF p = new
         THEN [task |-> t, method |-> m, prev |-> nodes[n].solution, pointersToMe |-> 1]
         ELSE IF p = nodes[n].solution
              THEN [solutions[p] EXCEPT !.pointersToMe = @ + 1]
              ELSE solutions[p]]

\* calcReachability.  Mutation: the successors of a step are left out.
ReachabilityOwnOnly(h) == [s \in DOMAIN h |-> Reachable(h[s].task)]

ReachabilityOf(h) ==
  LET r[s \in DOMAIN h] ==
        IF h[s].reachableT # NoReachability THEN h[s].reachableT
        ELSE Reachable(h[s].task) \union UNION {r[x] : x \in h[s].successorList}
  IN  r

\* updateReachability: a step that has become unconstrained, and the steps below it,
\* remember the actions their tasks can still lead to.
UpdateReachability(h, uc) ==
  [x \in DOMAIN h |->
     IF x \in uc \union Descendants(h, uc)
     THEN [h[x] EXCEPT !.reachableT = ReachabilityOf(h)[x]]
     ELSE h[x]]

\* What the last subtask of a method points to.  Mutation: nothing.
NotInherited(h, s) == {}

Inherited(h, s) == h[s].successorList

\* The pointers that a successor of the decomposed step gains.  Mutation: one, as if
\* there were one last subtask.
OnePointer(m) == 1

GainedPointers(m) == Cardinality(LastTasksOf(m))

\* initializeMethod, and the successors given to the last subtasks: the subtasks of m at
\* the addresses inst, the last ones with the successors of the decomposed step.
WithMethod(h, s, m, inst) ==
  [x \in DOMAIN h \union {inst[i] : i \in Positions(m)} |->
     IF x \in DOMAIN h THEN h[x]
     ELSE LET i == CHOOSE j \in Positions(m) : inst[j] = x
          IN [task |-> subTasks[m][i],
              successorList |-> IF i \in LastTasksOf(m)
                                THEN Inherited(h, s)
                                ELSE {inst[j] : j \in Successors(m, i)},
              pointersToMe |-> Cardinality(Predecessors(m, i)),
              reachableT |-> NoReachability]]

\* Mutation: the method's own instances of the decomposed task are forgotten.
CounterMForgetsRecursion(count, m) ==
  LET a == decomposedTask[m]
      sum == [t \in Task |-> count[t] + Occurrences(m, t)]
  IN  IF count[a] = 1 THEN [sum EXCEPT ![a] = 0] ELSE [sum EXCEPT ![a] = @ - 1]

\* updateTaskCounterM: the entry of the decomposed task goes if this was its last
\* instance and the method brings no new one.
CounterM(count, m) ==
  LET a == decomposedTask[m]
      sum == [t \in Task |-> count[t] + Occurrences(m, t)]
      removeAbs == count[a] = 1 /\ Occurrences(m, a) = 0
  IN  IF removeAbs THEN [sum EXCEPT ![a] = 0] ELSE [sum EXCEPT ![a] = @ - 1]

\* updateTaskCounterA
CounterA(count, a) == [count EXCEPT ![a] = @ - 1]

\* decompose() of the step s of node n by the method m, up to the loop over effectLess.
MakeDecomposed(n, s, m, c) ==
  LET inst == CHOOSE f \in [Positions(m) -> Address \ DOMAIN heap] :
                \A i, j \in Positions(m) : f[i] = f[j] => i = j
      firsts == {inst[i] : i \in FirstTasksOf(m)}
      uc == (nodes[n].unconstraint \ {s}) \union firsts
      h1 == WithMethod(heap, s, m, inst)
      h2 == AddPointers(h1, uc, 1)
      h3 == AddPointers(h2, heap[s].successorList, GainedPointers(m))
  IN  /\ c \in NodeId \ DOMAIN nodes
      /\ Cardinality(Address \ DOMAIN heap) >= Len(subTasks[m])
      /\ heap' = UpdateReachability(h3, uc)
      /\ solutions' = Extended(n, Label(s), m)
      /\ nodes' = [x \in DOMAIN nodes \union {c} |->
                     IF x # c THEN nodes[x]
                     ELSE [nodes[n] EXCEPT
                             !.unconstraint = uc,
                             !.solution = FreshIn(DOMAIN solutions),
                             !.contained = CounterM(@, m),
                             !.modificationDepth = @ + 1,
                             !.mixedModificationDepth = @ + 1,
                             !.goalReachable = TRUE]]
      /\ call' = [calling |-> TRUE, node |-> c,
                  results |-> IF call.calling THEN Append(call.results, n) ELSE <<>>,
                  effectLess |-> {x \in Primitives(h1, firsts) :
                                    /\ EffectLess(h1[x].task)
                                    /\ isApplicable(nodes[n].state, h1[x].task)},
                  returning |-> FALSE]

\* Mutation: the other unconstrained steps are not walked from.
NewFirstTasksIgnoringOthers(n, s) ==
  heap[s].successorList \ Descendants(heap, heap[s].successorList)

\* The successors of s that no other step of the network precedes; FirstTasks shows
\* that the walk of apply() finds them.
NewFirstTasks(n, s) ==
  LET candidates == heap[s].successorList
  IN  candidates \ Descendants(heap, candidates \union (nodes[n].unconstraint \ {s}))

\* The steps put on the effectLess stack: unlike decompose(), which lists new steps only,
\* apply() has changed the state and lists the old ones too.  Mutation: as decompose().
EffectLessNew(uc, new, state) ==
  {x \in Primitives(heap, new) : EffectLess(Label(x)) /\ isApplicable(state, Label(x))}

EffectLessAfterApply(uc, new, state) ==
  {x \in Primitives(heap, uc) : EffectLess(Label(x)) /\ isApplicable(state, Label(x))}

\* Mutation: the parent's costs are forgotten.
CostOfActionOnly(n, a) == actionCosts[a]

CostAfter(n, a) == nodes[n].actionCosts + actionCosts[a]

\* apply() of the step s of node n, up to the loop over effectLess.
MakeApplied(n, s, c) ==
  LET a == Label(s)
      new == NewFirstTasks(n, s)
      uc == (nodes[n].unconstraint \ {s}) \union new
      state == Progressed(nodes[n].state, a)
  IN  /\ c \in NodeId \ DOMAIN nodes
      /\ heap' = UpdateReachability(AddPointers(heap, uc, 1), uc)
      /\ solutions' = Extended(n, a, NoMethod)
      /\ nodes' = [x \in DOMAIN nodes \union {c} |->
                     IF x # c THEN nodes[x]
                     ELSE [nodes[n] EXCEPT
                             !.unconstraint = uc,
                             !.state = state,
                             !.solution = FreshIn(DOMAIN solutions),
                             !.contained = CounterA(@, a),
                             !.modificationDepth = @ + 1,
                             !.mixedModificationDepth = @ + actionCosts[a],
                             !.actionCosts = CostAfter(n, a),
                             !.goalReachable = TRUE]]
      /\ call' = [calling |-> TRUE, node |-> c,
                  results |-> IF call.calling THEN Append(call.results, n) ELSE <<>>,
                  effectLess |-> EffectLessAfterApply(uc, new, state),
                  returning |-> FALSE]
-------------------------------------------------------------------------------
(* The operations.                                                         *)

\* prepareTNi
Init ==
  LET s == CHOOSE a \in Address : TRUE
      n == CHOOSE a \in NodeId : TRUE
  IN  /\ heap = [x \in {s} |-> [task |-> initialTask, successorList |-> {},
                                pointersToMe |-> 1, reachableT |-> NoReachability]]
      /\ solutions = [p \in {} |-> NoPlan]
      /\ nodes = [x \in {n} |->
                    [unconstraint |-> {s}, state |-> s0, solution |-> NoPlan,
                     contained |-> [t \in Task |-> IF t = initialTask THEN 1 ELSE 0],
                     modificationDepth |-> 0, mixedModificationDepth |-> 0,
                     actionCosts |-> 0, goalReachable |-> TRUE]]
      /\ call = Idle

FreshNode == CHOOSE c \in NodeId : c \notin DOMAIN nodes

\* A search calls decompose() or apply() on a node it holds.
Decompose(n, s, m) ==
  /\ ~ call.calling
  /\ Cardinality(DOMAIN nodes) < MaxAlive
  /\ s \in nodes[n].unconstraint
  /\ m \in MethodsFor(Label(s))
  /\ MakeDecomposed(n, s, m, FreshNode)

Apply(n, s) ==
  /\ ~ call.calling
  /\ Cardinality(DOMAIN nodes) < MaxAlive
  /\ s \in Primitives(heap, nodes[n].unconstraint)
  /\ isApplicable(nodes[n].state, Label(s))
  /\ MakeApplied(n, s, FreshNode)

\* The loop over effectLess progresses one of the actions listed; the call on it
\* starts a list of its own in the same stack.
ProgressEffectLess(s) ==
  /\ call.calling /\ ~ call.returning
  /\ s \in call.effectLess
  /\ MakeApplied(call.node, s, FreshNode)

OnlyPrimitive(n) ==
  /\ nodes[n].unconstraint # {}
  /\ Primitives(heap, nodes[n].unconstraint) = nodes[n].unconstraint

ApplicableIn(n) ==
  {s \in Primitives(heap, nodes[n].unconstraint) : isApplicable(nodes[n].state, Label(s))}

\* No abstract task is left in the lists and one action is applicable: it is progressed.
ProgressOnlyAction(s) ==
  /\ call.calling /\ ~ call.returning
  /\ call.effectLess = {}
  /\ OnlyPrimitive(call.node)
  /\ ApplicableIn(call.node) = {s}
  /\ MakeApplied(call.node, s, FreshNode)

\* Mutation: the loop does not get past its list.
NeverReturning(c) == c

Returning(c) == [c EXCEPT !.returning = TRUE]

\* The innermost call returns; with nothing to decompose and nothing applicable, its
\* result is marked.  The calls around it repeat the check on the same node.
Settle ==
  LET n == call.node
      dead == OnlyPrimitive(n) /\ ApplicableIn(n) = {}
  IN  /\ call.calling /\ ~ call.returning
      /\ call.effectLess = {}
      /\ OnlyPrimitive(n) => Cardinality(ApplicableIn(n)) # 1
      /\ call' = Returning(call)
      /\ nodes' = [nodes EXCEPT ![n].goalReachable = ~ dead]
      /\ UNCHANGED <<heap, solutions>>

\* Each call that called apply() on its own result deletes that result.
DeleteIntermediate ==
  LET last == Len(call.results)
  IN  /\ call.calling /\ call.returning
      /\ call.results # <<>>
      /\ Deleted(call.results[last])
      /\ call' = [call EXCEPT !.results = SubSeq(@, 1, last - 1)]

Return ==
  /\ call.calling /\ call.returning
  /\ call.results = <<>>
  /\ call' = Idle
  /\ UNCHANGED <<heap, solutions, nodes>>

\* A search deletes a node it holds.
Delete(n) ==
  /\ ~ call.calling
  /\ Deleted(n)
  /\ UNCHANGED call

Exhausted == DOMAIN nodes = {} /\ UNCHANGED vars

InCall == \/ \E s \in Address : ProgressEffectLess(s) \/ ProgressOnlyAction(s)
          \/ Settle
          \/ DeleteIntermediate
          \/ Return

Next == \/ \E n \in DOMAIN nodes :
             \/ \E s \in nodes[n].unconstraint :
                  \/ Apply(n, s)
                  \/ \E m \in Method : Decompose(n, s, m)
             \/ Delete(n)
        \/ InCall
        \/ Exhausted

Spec == Init /\ [][Next]_vars

\* A call runs on until it returns; nothing obliges a search to make another.
FairSpec == Spec /\ WF_vars(InCall)
-------------------------------------------------------------------------------
TypeOK ==
  /\ DOMAIN heap \subseteq Address
  /\ \A s \in DOMAIN heap :
       heap[s] \in [task : Task, successorList : SUBSET Address, pointersToMe : Nat \ {0},
                    reachableT : (SUBSET Primitive) \union {NoReachability}]
  /\ \A p \in DOMAIN solutions :
       solutions[p] \in [task : Task, method : Method \union {NoMethod}, prev : Nat,
                         pointersToMe : Nat \ {0}]
  /\ DOMAIN nodes \subseteq NodeId
  /\ \A n \in DOMAIN nodes :
       nodes[n] \in [unconstraint : SUBSET Address, state : SUBSET Fact, solution : Nat,
                     contained : [Task -> Nat], modificationDepth : Nat,
                     mixedModificationDepth : Nat, actionCosts : Nat, goalReachable : BOOLEAN]
  /\ call.calling => /\ call.node \in DOMAIN nodes
                     /\ \A i \in 1 .. Len(call.results) : call.results[i] \in DOMAIN nodes

\* Every count equals the number of pointers: from nodes, from other plan steps, and
\* from later solution steps.  Intermediate results of a call count as nodes.
PointerCountsExact ==
  /\ \A s \in DOMAIN heap :
       heap[s].pointersToMe = Cardinality({n \in DOMAIN nodes : s \in nodes[n].unconstraint})
                              + Cardinality({x \in DOMAIN heap : s \in heap[x].successorList})
  /\ \A p \in DOMAIN solutions :
       solutions[p].pointersToMe = Cardinality({n \in DOMAIN nodes : nodes[n].solution = p})
                                   + Cardinality({q \in DOMAIN solutions : solutions[q].prev = p})

\* Nothing is freed while a node can still reach it, and nothing that no node can
\* reach stays allocated.
HeapIsWhatNodesReach ==
  /\ DOMAIN heap = UNION {NetworkOf(n) : n \in DOMAIN nodes}
  /\ DOMAIN solutions = UNION {SolutionOf(n) \union ReachedFrom(PlanPointers(solutions), SolutionOf(n)) :
                                 n \in DOMAIN nodes}

\* Counts are exact, so that what is allocated is what some node reaches.
HeapExact == PointerCountsExact /\ HeapIsWhatNodesReach

\* The two lists of a node hold exactly the steps of its network that nothing precedes,
\* although no step knows its predecessors.
ListsHoldFirstTasks ==
  \A n \in DOMAIN nodes :
    nodes[n].unconstraint =
      {s \in NetworkOf(n) : \A p \in NetworkOf(n) : s \notin heap[p].successorList}

\* The task counts, kept by increments along the path, are those of the whole network.
ContainedTasksExact ==
  \A n \in DOMAIN nodes : \A t \in Task :
    nodes[n].contained[t] = Cardinality({s \in NetworkOf(n) : Label(s) = t})

\* A remembered set of reachable actions is still the exact one when the step is used,
\* long after it was computed.
ReachabilityNotStale ==
  \A n \in DOMAIN nodes : \A s \in nodes[n].unconstraint :
    heap[s].reachableT # NoReachability =>
      heap[s].reachableT = UNION {Reachable(Label(x)) : x \in {s} \union Descendants(heap, {s})}

\* A search only sees nodes in which every applicable action without effects, and every
\* action without alternative, has been progressed; and a node it may discard as a dead
\* end has neither an applicable action nor an abstract task, in a network not yet empty.
ResultsAreSettled ==
  \A n \in DOMAIN nodes :
    (~ call.calling /\ nodes[n].solution # NoPlan) =>
      /\ \A s \in ApplicableIn(n) : ~ EffectLess(Label(s))
      /\ OnlyPrimitive(n) => Cardinality(ApplicableIn(n)) # 1
      /\ nodes[n].goalReachable <=> ~ (OnlyPrimitive(n) /\ ApplicableIn(n) = {})

\* The costs of a node are those of the plan that its solution steps record, over all
\* actions progressed on the way, those inside a call included.
CostsMatchPlan ==
  \A n \in DOMAIN nodes :
    /\ nodes[n].modificationDepth = Len(Plan[nodes[n].solution])
    /\ nodes[n].actionCosts = PlanCost[nodes[n].solution]

\* What a node says of itself is true of the network its plan steps make up.
NodesExact == TypeOK /\ ListsHoldFirstTasks /\ ContainedTasksExact /\ ResultsAreSettled /\ CostsMatchPlan

\* Every call returns: progressing actions inside it comes to an end.
CallsReturn == call.calling ~> ~ call.calling

\* What each node means: its network as a value.
Networks ==
  [n \in DOMAIN nodes |->
     [task |-> [s \in NetworkOf(n) |-> Label(s)],
      before |-> UNION {{p} \X Descendants(heap, {p}) : p \in NetworkOf(n)},
      state |-> nodes[n].state,
      plan |-> Plan[nodes[n].solution]]]

Values == INSTANCE TaskNetwork WITH networks <- Networks, Step <- Address

\* Sharing is never visible: the nodes behave as independent values.
ImplementsTaskNetwork == Values!Spec
===============================================================================
