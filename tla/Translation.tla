----------------------------- MODULE Translation -----------------------------
(***************************************************************************)
(* runTranslationPlanner: the problem is written as a classical one for a  *)
(* bounded number of tasks, a classical planner is run on it, and unless   *)
(* it has found a plan, the bound is raised.  The planner is another       *)
(* program (Fast Downward): it may find any plan that never leads back to  *)
(* a state, and it may end without one, whatever the reason.               *)
(***************************************************************************)
EXTENDS TotalOrderEncoding, PushEncoding, SequencesEncoding, PlanExtraction

CONSTANTS OptionsFor(_),   \* [transtype, forceTransType, pgb, pgbsteps, iterate, onlyGenerate]
          maxpgb,          \* maxProgressionBound, 5000000 in the code
          MaxPlan          \* bound on the steps of plans that are looked at

VARIABLES options, transtype,
          phase,            \* where runTranslationPlanner is
          h, minImpliedPGB, minImpliedPGBM,
          pgbList,
          sasfile,          \* the classical problem
          values, plan      \* where the planner is, and the operators that led there

boundVars == <<h, minImpliedPGB, minImpliedPGBM>>
plannerVars == <<sasfile, values, plan>>
vars == <<htn, orderVars, options, transtype, phase, boundVars, pgbList, plannerVars>>

NoFunction == [x \in {} |-> 0]
NoProblem == [init |-> NoFunction, goal |-> {}, ops |-> {}]

Init == /\ htn \in Problems
        /\ options \in OptionsFor(htn)
        /\ transtype = options.transtype
        /\ subTasksInOrder = <<>> /\ ordering = <<>> /\ firstNumTOPrimTasks = <<>>
        /\ phase = "start"
        /\ h = <<>> /\ minImpliedPGB = NoFunction /\ minImpliedPGBM = NoFunction
        /\ pgbList = <<>>
        /\ sasfile = NoProblem /\ values = NoFunction /\ plan = <<>>
-----------------------------------------------------------------------------
\* The encoding that is used: the one for the class of the problem, if there is one for it.
TypeFor(type) ==
  IF options.forceTransType THEN type
  ELSE IF isTotallyOrdered THEN "to"
  ELSE IF isParallelSequences THEN "parallelseq"
  ELSE IF type \in {"to", "parallelseq"} THEN "push" ELSE type

stToMethod(t) == SetToSortSeq({m \in Methods : t \in ToSet(htn.methods[m].subTasks)}, LAMBDA a, b : a < b)
MethodNodes(list) == [i \in DOMAIN list |-> [isMethod |-> TRUE, id |-> list[i]]]
ActionList == [i \in 1 .. htn.numActions |-> i - 1]

\* The type is chosen and subtasks are reordered; variables come with the encoding.  Unless a
\* bound is given, the computation of the minimal one starts with the methods of actions.
Prepare ==
  /\ phase = "start"
  /\ transtype' = TypeFor(transtype)
  /\ reorderTasks
  /\ IF options.pgb > 0
       THEN phase' = "bounded" /\ UNCHANGED boundVars
       ELSE /\ phase' = "minimum"
            /\ minImpliedPGB' = [t \in Tasks |-> IF t \in Actions THEN 1 ELSE 0]
            /\ minImpliedPGBM' = [m \in Methods |-> 0]
            /\ h' = FoldLeft(LAMBDA list, a : list \o MethodNodes(stToMethod(a)), <<>>, ActionList)
  /\ UNCHANGED <<htn, options, pgbList, plannerVars>>

\* Mutation: actions in front take points, too.
AllSubtasks(m) == numSubTasks(m)

OnStack(m) == numSubTasks(m) - IF transtype = "to" THEN firstNumTOPrimTasks[m] ELSE 0


\* What the i-th task from below takes beyond the points for the subtasks themselves.
Beyond(m, i) == minImpliedPGB[subTasksInOrder[m][i]] - numSubTasks(m) + (i - 1) + (numSubTasks(m) - OnStack(m))

\* A task that recurs is taken to fill up the points above it.
BeyondRecursive(m, i) == IF subTasksInOrder[m][i] = decomposedTask(m) THEN OnStack(m) - i ELSE 0

PGBOf(m) ==
  Max({1, OnStack(m)})
    + Max({0} \union {Beyond(m, i) : i \in 1 .. OnStack(m)} \union {BeyondRecursive(m, i) : i \in 1 .. OnStack(m)})

BoundOfMethod ==
  /\ phase = "minimum" /\ h # <<>> /\ Head(h).isMethod
  /\ LET m == Head(h).id
     IN  /\ minImpliedPGBM' = [minImpliedPGBM EXCEPT ![m] = PGBOf(m)]
         /\ h' = Tail(h) \o IF PGBOf(m) # minImpliedPGBM[m]
                              THEN <<[isMethod |-> FALSE, id |-> decomposedTask(m)]>> ELSE <<>>
  /\ UNCHANGED <<htn, orderVars, options, transtype, phase, minImpliedPGB, pgbList, plannerVars>>

BoundOfTask ==
  /\ phase = "minimum" /\ h # <<>> /\ ~Head(h).isMethod
  /\ LET t == Head(h).id
         least == Min({minImpliedPGBM[m] : m \in taskToMethods(t)})
     IN  /\ minImpliedPGB' = [minImpliedPGB EXCEPT ![t] = least]
         /\ h' = Tail(h) \o IF least # minImpliedPGB[t] THEN MethodNodes(stToMethod(t)) ELSE <<>>
  /\ UNCHANGED <<htn, orderVars, options, transtype, phase, minImpliedPGBM, pgbList, plannerVars>>

minProgressionBound == Max({1, minImpliedPGB[htn.initialTask]})

\* The array of bounds is filled: as given, as computed, or the number of the sequences.
SetBound ==
  /\ \/ phase = "minimum" /\ h = <<>>
     \/ phase = "bounded"
  /\ pgbList' = IF transtype = "parallelseq"
                  THEN [i \in 1 .. numSeq |-> IF options.pgb > 0 THEN options.pgb ELSE numSeq]
                  ELSE <<IF options.pgb > 0 THEN options.pgb ELSE minProgressionBound>>
  /\ phase' = "generate"
  /\ UNCHANGED <<htn, orderVars, options, transtype, boundVars, plannerVars>>

\* Conditional effects are only printed for "push".
Encoded ==
  CASE transtype = "to" -> tohtnToStrips(pgbList[1])
    [] transtype = "parallelseq" -> htnPS(pgbList)
    [] transtype \in {"push", "pocond"} -> htnToCondSorted(pgbList[1], transtype = "push")

\* performOneTranslation and printSASToFile.
Generate ==
  /\ phase = "generate"
  /\ sasfile' = Encoded
  /\ values' = sasfile'.init
  /\ plan' = <<>>
  /\ phase' = IF options.onlyGenerate THEN "exit" ELSE "planning"
  /\ UNCHANGED <<htn, orderVars, options, transtype, boundVars, pgbList>>

\* The effects of a move that were never set may lead out of the table of facts.
CrashWhilePrinting ==
  /\ phase = "generate" /\ transtype = "push" /\ pgbList[1] > 1
  /\ phase' = "crashed"
  /\ UNCHANGED <<htn, orderVars, options, transtype, boundVars, pgbList, plannerVars>>
-----------------------------------------------------------------------------
IsGoal(v) == \A g \in sasfile.goal : v[g[1]] = g[2]

Passed == {FoldLeft(Successor, sasfile.init, SubSeq(plan, 1, i)) : i \in 0 .. Len(plan)}

\* External: one more operator of the plan.
PlannerStep ==
  /\ phase = "planning" /\ ~IsGoal(values) /\ Len(plan) < MaxPlan
  /\ \E op \in sasfile.ops :
       /\ Applicable(values, op)
       /\ Successor(values, op) \notin Passed
       /\ values' = Successor(values, op)
       /\ plan' = Append(plan, op)
  /\ UNCHANGED <<htn, orderVars, options, transtype, phase, boundVars, pgbList, sasfile>>

\* External: the plan file is there.  It is read and printed.
PlanFound ==
  /\ phase = "planning" /\ IsGoal(values)
  /\ phase' = "found"
  /\ UNCHANGED <<htn, orderVars, options, transtype, boundVars, pgbList, plannerVars>>

Raised == [i \in DOMAIN pgbList |-> pgbList[i] + options.pgbsteps]

\* The planner ends without a plan, and with an exit code that is not 0: there is none, or
\* time or memory ran out, or it could not even be started.
NoPlan ==
  /\ phase = "planning" /\ plan = <<>> /\ ~IsGoal(values)
  /\ IF ~options.iterate \/ \E i \in DOMAIN pgbList : Raised[i] > maxpgb
       THEN phase' = "exit" /\ UNCHANGED pgbList
       ELSE phase' = "generate" /\ pgbList' = Raised
  /\ sasfile' = NoProblem /\ values' = NoFunction
  /\ UNCHANGED <<htn, orderVars, options, transtype, boundVars, plan>>

\* "FD produced unknown error code": a signal, or no exit code but no plan.
UnknownErrorCode ==
  /\ phase = "planning" /\ plan = <<>>
  /\ phase' = "exit"
  /\ sasfile' = NoProblem /\ values' = NoFunction
  /\ UNCHANGED <<htn, orderVars, options, transtype, boundVars, pgbList, plan>>

Next == \/ Prepare \/ BoundOfMethod \/ BoundOfTask \/ SetBound \/ Generate \/ CrashWhilePrinting
        \/ PlannerStep \/ PlanFound \/ NoPlan \/ UnknownErrorCode

Spec == Init /\ [][Next]_vars
-----------------------------------------------------------------------------
NetworkIn(v) == CASE transtype = "to" -> TotalOrderNetwork(v, pgbList[1])
                  [] transtype = "parallelseq" -> SequencesNetwork(v, pgbList)
                  [] OTHER -> PushNetwork(v, pgbList[1])

isPlanned == phase \in {"planning", "found"}

Network == IF isPlanned THEN NetworkIn(values) ELSE [task |-> [i \in {0} |-> htn.initialTask], before |-> {}]
Facts == IF isPlanned THEN FactsOf(values) ELSE ToSet(htn.s0List)

\* What the classical plans do is to decompose and to progress the problem, as it was read.
Abstract == INSTANCE Decomposition WITH state <- Facts, network <- Network, finished <- phase = "found"

ImplementsDecomposition == Abstract!Spec

\* A method together with the actions that the encoding merges into it.
WithMerged(s, m) ==
  LET decomposed == Abstract!Situation(Facts, Abstract!Replaced(Network, s, m))
      merged == IF transtype = "to" THEN firstPrim(m) ELSE <<>>
  IN  FoldLeft(LAMBDA situations, a : UNION {Abstract!Applications(at) : at \in situations},
               {decomposed}, merged)

Progressions ==
  Abstract!Applications(Abstract!Now)
    \union UNION {WithMerged(p[1], p[2]) :
                    p \in {q \in Abstract!First(Network) \X Methods :
                             decomposedTask(q[2]) = Network.task[q[1]]}}

\* Whatever a network within the bound can become, if that is within the bound as well, one
\* operator makes of it; where they move, once they have moved down.
NothingLost ==
  phase = "planning" /\ (transtype \in {"push", "pocond"} => IsCompact(values, pgbList[1])) =>
    \A at \in Progressions :
      Cardinality(Abstract!Steps(at.network)) <= Min(ToSet(pgbList)) =>
        \E op \in sasfile.ops :
          /\ Applicable(values, op)
          /\ FactsOf(Successor(values, op)) = at.state
          /\ Abstract!SameUpToNames(NetworkIn(Successor(values, op)), at.network)

\* And they can always move down: that others have to rest never blocks all of them.
NeverStuck ==
  phase = "planning" /\ transtype \in {"push", "pocond"} /\ ~IsCompact(values, pgbList[1]) =>
    \E op \in sasfile.ops : op.name.kind = "move" /\ Applicable(values, op)

\* What is printed for a classical plan is a decomposition that it follows.  The points of
\* sequences are known from the methods alone.
PrintedIsDecomposition ==
  phase = "found" /\ transtype \in {"to", "parallelseq"} => IsDecomposition(planToHddl(plan))

\* Can the actions be applied one after the other, as the problem was read, and do they reach
\* the goal?
IsExecutable(actions) ==
  LET before[i \in 1 .. Len(actions) + 1] ==
        IF i = 1 THEN ToSet(htn.s0List)
        ELSE (before[i - 1] \ htn.delLists[actions[i - 1]]) \union htn.addLists[actions[i - 1]]
  IN  /\ \A i \in DOMAIN actions : htn.precLists[actions[i]] \subseteq before[i]
      /\ htn.gList \subseteq before[Len(actions) + 1]

\* "The plan that the pandaPIengine finds is valid with respect to that changed model."
PlansAreValid ==
  phase = "found" => LET printed == planToHddl(plan)
                     IN  IsDecomposition(printed) /\ IsExecutable(printed.primitives)

PointsUsed ==
  1 + Max(UNION {{name.head} \union ToSet(name.subtasks) :
                   name \in {n \in ToSet(Names(plan)) : n.kind = "method"}})

\* For totally ordered problems, the minimal bound is one: no plan does with fewer points.
BoundIsNeeded ==
  phase = "found" /\ transtype = "to" /\ options.pgb = 0 => PointsUsed >= minProgressionBound
=============================================================================
