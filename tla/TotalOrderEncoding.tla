------------------------ MODULE TotalOrderEncoding ------------------------
(***************************************************************************)
(* tohtnToStrips: a stack of tasks for totally ordered problems.  head     *)
(* points to the task to do next, or is 0 when all is done (finish).       *)
(* Actions at the front of a method's subtasks are not put on the stack,   *)
(* but merged into the operator of the method.                             *)
(***************************************************************************)
EXTENDS TranslatedModel

headIndex == numVars
stackVar(i) == numVars + 1 + i    \* 0 is no task, t + 1 is task t

TotalOrderInit(pgb) ==
  [v \in 0 .. numVars + pgb |->
     CASE v \in Vars -> s0ListSP[v]
       [] v = headIndex -> 1
       [] v = stackVar(0) -> htn.initialTask + 1
       [] OTHER -> 0]

TotalOrderGoal == htn.gList \union {<<headIndex, 0>>}

primitiveAtHead(a, j) ==
  Operator([kind |-> "primitive", id |-> a, head |-> j],
           precListsSP(a) \union {<<headIndex, j + 1>>, <<stackVar(j), a + 1>>},
           addListsSP(a) \union {<<headIndex, j>>, <<stackVar(j), 0>>})

None == -1
ValueIn(F, v) == IF \E f \in F : f[1] = v THEN (CHOOSE f \in F : f[1] = v)[2] ELSE None

\* Mutation: what a task needs after another one has provided something is not compared.
NeverConflicting(end, needed) == FALSE

Conflicting(end, needed) == needed # None /\ end # needed

\* calculatePrecsAndAdds, for one variable: the value it needs at the start, the one it has
\* in the end, and whether one task leaves another one without what it needs.  Tasks that
\* need something before any task changes the variable are not compared with each other.
Merged(tasks, v) ==
  FoldLeft(LAMBDA acc, a :
             LET needed == ValueIn(precListsSP(a), v)
                 added == ValueIn(addListsSP(a), v)
             IN  [start |-> IF acc.end = None /\ acc.start = None THEN needed ELSE acc.start,
                  end |-> IF added # None THEN added ELSE acc.end,
                  conflict |-> acc.conflict \/ (acc.end # None /\ Conflicting(acc.end, needed))],
           [start |-> None, end |-> None, conflict |-> FALSE], tasks)

\* The actions merged into a method, first one first.
firstPrim(m) == Reverse(SubSeq(subTasksInOrder[m], numSubTasks(m) - firstNumTOPrimTasks[m] + 1,
                               numSubTasks(m)))

\* What remains is put on the stack, the last subtask lowest.
Pushed(m) == SubSeq(subTasksInOrder[m], 1, numSubTasks(m) - firstNumTOPrimTasks[m])

StackEffects(m, j) ==
  LET n == Len(Pushed(m))
  IN  {<<stackVar(j + k - 1), Pushed(m)[k] + 1>> : k \in 1 .. n}
      \union (IF n = 0 THEN {<<stackVar(j), 0>>} ELSE {})
      \union (IF n = 1 THEN {} ELSE {<<headIndex, j + n>>})

\* A method whose first actions exclude each other becomes an operator that does nothing.
methodAtHead(m, j) ==
  LET merged == [v \in Vars |-> Merged(firstPrim(m), v)]
      values(Of(_)) == {<<v, Of(merged[v])>> : v \in {u \in Vars : Of(merged[u]) # None}}
      name == [kind |-> "method", id |-> m, head |-> j,
               subtasks |-> [k \in 1 .. Len(Pushed(m)) |-> j + k - 1],
               firstPrim |-> firstPrim(m)]
  IN  IF \E v \in Vars : merged[v].conflict THEN Operator(name, {}, {})
      ELSE Operator(name,
                    {<<headIndex, j + 1>>, <<stackVar(j), decomposedTask(m) + 1>>}
                      \union values(LAMBDA r : r.start),
                    StackEffects(m, j) \union values(LAMBDA r : r.end))

\* Mutation: the actions in front are counted, although they are not put on the stack.
AllOnStack(m, j, pgb) == numSubTasks(m) + j <= pgb

FitsOnStack(m, j, pgb) == Len(Pushed(m)) + j <= pgb

tohtnToStrips(pgb) ==
  [init |-> TotalOrderInit(pgb), goal |-> TotalOrderGoal,
   ops |-> {primitiveAtHead(a, j) : a \in Actions, j \in 0 .. pgb - 1}
     \union {methodAtHead(p[1], p[2]) :
               p \in {q \in Methods \X (0 .. pgb - 1) : FitsOnStack(q[1], q[2], pgb)}}]
-----------------------------------------------------------------------------
\* The network that a state stands for: points with tasks, higher ones first.
TotalOrderNetwork(values, pgb) ==
  LET points == {i \in 0 .. pgb - 1 : values[stackVar(i)] # 0}
  IN  [task |-> [i \in points |-> values[stackVar(i)] - 1],
       before |-> {p \in points \X points : p[1] > p[2]}]
=============================================================================
