------------------------- MODULE DecompositionGraph -------------------------
(***************************************************************************)
(* What the engine finds out about the graph in which the subtasks of its  *)
(* methods are the children of a task: calcSCCs (Tarjan's algorithm, with  *)
(* the C++ call stack in path), the graph of the components, which tasks   *)
(* cannot recur (analyseSCCcyclicity, called by the SAT planner), and, for *)
(* progression search, the actions each task can be decomposed into        *)
(* (calcSCCGraph with mtrACTIONS).  Plan steps cache the latter, and the   *)
(* heuristics take an action that is not among them for impossible.        *)
(***************************************************************************)
EXTENDS Integers, Sequences, FiniteSetsExt, SequencesExt, PointerGraph

CONSTANT Problems   \* what may be read: [numTasks, numActions, methods, initialTask, ...]

\* Tasks are numbers, actions first.  The grounder leaves no task that the initial task
\* does not lead to, and no method without subtasks.
ASSUME ProblemsAssumption ==
  \A p \in Problems :
    /\ p.numTasks \in Nat /\ p.numActions \in 0 .. p.numTasks
    /\ p.initialTask \in p.numActions .. p.numTasks - 1
    /\ p.methods \in Seq([task : p.numActions .. p.numTasks - 1,
                          subTasks : Seq(0 .. p.numTasks - 1) \ {<<>>}])
    /\ \A T \in SUBSET (0 .. p.numTasks - 1) :
         (/\ p.initialTask \in T
          /\ \A i \in DOMAIN p.methods : p.methods[i].task \in T => ToSet(p.methods[i].subTasks) \subseteq T)
         => T = 0 .. p.numTasks - 1

VARIABLES htn,        \* the problem
          phase,      \* which pass is running
          path,       \* the calls of tarjan under way: task, and number of its next child
          S, dfsI, lowlink, taskToSCC,
          sccsCyclic, sccIsAcyclic,
          ready, stack, reachable

graphVars == <<path, S, dfsI, lowlink, taskToSCC, sccsCyclic, sccIsAcyclic, ready, stack, reachable>>

Tasks == 0 .. htn.numTasks - 1

\* The subtasks of the methods of t, method by method.
Children(t) ==
  LET upTo[i \in 0 .. Len(htn.methods)] ==
        IF i = 0 THEN <<>>
        ELSE upTo[i - 1] \o (IF htn.methods[i].task = t THEN htn.methods[i].subTasks ELSE <<>>)
  IN  upTo[Len(htn.methods)]

U == Tasks \ DOMAIN dfsI
maxdfs == Cardinality(DOMAIN dfsI)
containedS == ToSet(S)
numSCCs == Cardinality({taskToSCC[t] : t \in DOMAIN taskToSCC})

NoFunction == [x \in {} |-> 0]

\* f with this value for each task of T.
SetFor(f, T, value) == [t \in DOMAIN f \union T |-> IF t \in T THEN value ELSE f[t]]

GraphInit ==
  /\ htn \in Problems
  /\ phase = "tarjan"
  /\ path = <<[task |-> htn.initialTask, next |-> 1]>>
  /\ S = <<htn.initialTask>>
  /\ dfsI = [t \in {htn.initialTask} |-> 0]
  /\ lowlink = dfsI
  /\ taskToSCC = NoFunction
  /\ sccsCyclic = {} /\ sccIsAcyclic = NoFunction
  /\ ready = NoFunction /\ stack = <<>> /\ reachable = NoFunction
-----------------------------------------------------------------------------
Call == Last(path)
HasChild == Call.next <= Len(Children(Call.task))
Child == Children(Call.task)[Call.next]

\* Mutation: the loop over the children of a task does not go on.
SameChild(p) == p

OnToNextChild(p) == [p EXCEPT ![Len(p)].next = @ + 1]

inTarjan == phase = "tarjan" /\ path # <<>>

\* tarjan(v2) is called.
Descend == /\ inTarjan /\ HasChild /\ Child \in U
           /\ path' = Append(path, [task |-> Child, next |-> 1])
           /\ S' = Append(S, Child)
           /\ dfsI' = SetFor(dfsI, {Child}, maxdfs)
           /\ lowlink' = SetFor(lowlink, {Child}, maxdfs)
           /\ UNCHANGED <<htn, phase, taskToSCC, sccsCyclic, sccIsAcyclic, ready, stack, reachable>>

\* The child leads back into a component that is not complete.
LeadsBack(v2) == v2 \notin U /\ v2 \in containedS

Lower(old, new) == Min({old, new})

SeeChild == /\ inTarjan /\ HasChild /\ Child \notin U
            /\ lowlink' = IF LeadsBack(Child)
                            THEN [lowlink EXCEPT ![Call.task] = Lower(@, dfsI[Child])] ELSE lowlink
            /\ path' = OnToNextChild(path)
            /\ UNCHANGED <<htn, phase, S, dfsI, taskToSCC, sccsCyclic, sccIsAcyclic, ready, stack, reachable>>

\* The call returns, and its caller looks at the lowlink.
BackToCaller(v) ==
  LET callers == Front(path)
  IN  IF callers = <<>> THEN path' = <<>> /\ UNCHANGED lowlink
      ELSE /\ path' = OnToNextChild(callers)
           /\ lowlink' = [lowlink EXCEPT ![Last(callers).task] = Lower(@, lowlink[v])]

IsRoot(v) == lowlink[v] = dfsI[v]

\* The tasks that are still on S above v, and v, are the next component.
CloseComponent ==
  /\ inTarjan /\ ~HasChild /\ IsRoot(Call.task)
  /\ LET at == CHOOSE i \in DOMAIN S : S[i] = Call.task
     IN  /\ S' = SubSeq(S, 1, at - 1)
         /\ taskToSCC' = SetFor(taskToSCC, ToSet(SubSeq(S, at, Len(S))), numSCCs)
  /\ BackToCaller(Call.task)
  /\ UNCHANGED <<htn, phase, dfsI, sccsCyclic, sccIsAcyclic, ready, stack, reachable>>

LeaveInside ==
  /\ inTarjan /\ ~HasChild /\ ~IsRoot(Call.task)
  /\ BackToCaller(Call.task)
  /\ UNCHANGED <<htn, phase, S, dfsI, taskToSCC, sccsCyclic, sccIsAcyclic, ready, stack, reachable>>
-----------------------------------------------------------------------------
SCCs == 0 .. numSCCs - 1
sccToTasks(c) == {t \in Tasks : taskToSCC[t] = c}

IsCyclic(c) == \/ Cardinality(sccToTasks(c)) > 1
               \/ \E t \in sccToTasks(c) : t \in ToSet(Children(t))

\* The rest of calcSCCs, which deletes what only tarjan needs.
FindCyclic == /\ phase = "tarjan" /\ path = <<>>
              /\ sccsCyclic' = {c \in SCCs : IsCyclic(c)}
              /\ S' = <<>> /\ dfsI' = NoFunction /\ lowlink' = NoFunction
              /\ phase' = "graph"
              /\ UNCHANGED <<htn, path, taskToSCC, sccIsAcyclic, ready, stack, reachable>>

\* constructSCCGraph
sccG(c) == {taskToSCC[u] : u \in UNION {ToSet(Children(t)) : t \in sccToTasks(c)}} \ {c}
sccGinverse(c) == {d \in SCCs : c \in sccG(d)}

\* Mutation: a component is only looked at by itself.
AcyclicAlone == [c \in SCCs |-> c \notin sccsCyclic]

\* Components are visited by their numbers; of one with a greater number it is only known
\* yet whether it is itself cyclic.
AcyclicInOrder ==
  LET acyclic[c \in SCCs] ==
        /\ c \notin sccsCyclic
        /\ \A d \in sccG(c) : IF d < c THEN acyclic[d] ELSE d \notin sccsCyclic
  IN  acyclic

\* The SAT planner goes on from here.
AnalyseCyclicity == /\ phase = "graph"
                    /\ sccIsAcyclic' = AcyclicInOrder
                    /\ phase' = "sat"
                    /\ UNCHANGED <<htn, path, S, dfsI, lowlink, taskToSCC, sccsCyclic, ready, stack, reachable>>

Ascending(C) == [i \in 1 .. Cardinality(C) |-> CHOOSE c \in C : Cardinality({d \in C : d < c}) = i - 1]

StartReachability ==
  /\ phase = "graph"
  /\ ready' = [c \in SCCs |-> Cardinality(sccG(c))]
  /\ stack' = Ascending({c \in SCCs : sccG(c) = {}})
  /\ phase' = "reach"
  /\ UNCHANGED <<htn, path, S, dfsI, lowlink, taskToSCC, sccsCyclic, sccIsAcyclic, reachable>>

\* Mutation: one task too many.
IsMaintainedPast(t) == t <= htn.numActions

IsMaintained(t) == t < htn.numActions

\* A component that waits only for the one that is being processed.
ReadyNow(c) == ready[c] = 1

\* What the tasks of a component reach: one task of each successor tells.
ReachableFrom(c) ==
  {t \in sccToTasks(c) : IsMaintained(t)}
    \union UNION {reachable[Min(sccToTasks(d))] : d \in sccG(c)}

Process ==
  /\ phase = "reach" /\ stack # <<>>
  /\ LET c == Last(stack)
     IN  /\ reachable' = SetFor(reachable, sccToTasks(c), ReachableFrom(c))
         /\ ready' = [d \in SCCs |-> IF d \in sccGinverse(c) THEN ready[d] - 1 ELSE ready[d]]
         /\ stack' = Front(stack) \o Ascending({d \in sccGinverse(c) : ReadyNow(d)})
  /\ UNCHANGED <<htn, phase, path, S, dfsI, lowlink, taskToSCC, sccsCyclic, sccIsAcyclic>>

GraphKnown == /\ phase = "reach" /\ stack = <<>>
              /\ phase' = "prepared"
              /\ ready' = NoFunction
              /\ UNCHANGED <<htn, path, S, dfsI, lowlink, taskToSCC, sccsCyclic, sccIsAcyclic, stack, reachable>>

GraphNext == \/ Descend \/ SeeChild \/ CloseComponent \/ LeaveInside \/ FindCyclic
             \/ AnalyseCyclicity \/ StartReachability \/ Process \/ GraphKnown
-----------------------------------------------------------------------------
Subtasks == [t \in Tasks |-> ToSet(Children(t))]

LeadsTo(t, u) == t = u \/ u \in ReachedFrom(Subtasks, {t})

\* A task that comes up again when it is decomposed.
Recurs(t) == t \in ReachedFrom(Subtasks, {t})

\* Components hold the tasks that lead to each other, whatever the order in which methods
\* list their subtasks; a component has a smaller number than all that lead to it, which the
\* two passes over the components rely on; cyclic are those with a task that can recur.
ComponentsCorrect ==
  phase \in {"graph", "prepared"} =>
    /\ \A t, u \in Tasks : taskToSCC[t] = taskToSCC[u] <=> LeadsTo(t, u) /\ LeadsTo(u, t)
    /\ \A t \in Tasks : \A u \in ToSet(Children(t)) : taskToSCC[u] <= taskToSCC[t]
    /\ sccsCyclic = {taskToSCC[t] : t \in {x \in Tasks : Recurs(x)}}

\* One pass over the components finds the tasks below which nothing recurs.
AcyclicExact ==
  phase = "sat" =>
    \A t \in Tasks : sccIsAcyclic[taskToSCC[t]] <=>
                       \A u \in Tasks : LeadsTo(t, u) => ~Recurs(u)

\* Every task knows the actions it can be decomposed into, and no others: no component is
\* looked at before those it leads to.  The engine asserts the first half in debug builds.
ReachableExact ==
  phase = "prepared" =>
    reachable = [t \in Tasks |-> {a \in 0 .. htn.numActions - 1 : LeadsTo(t, a)}]

\* Components are what they should be, the pass over them finds what cannot recur, and
\* tasks know what they lead to.
AnalysisExact == ComponentsCorrect /\ AcyclicExact /\ ReachableExact
=============================================================================
