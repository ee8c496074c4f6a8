------------------------- MODULE SequencesEncoding -------------------------
(***************************************************************************)
(* htnPS: a stack for every subtask of the initial task's method, whose    *)
(* decompositions are sequences.  Constraints between the stacks stand for *)
(* the order of these subtasks, and are released when the stack that comes *)
(* first is empty.                                                         *)
(***************************************************************************)
EXTENDS TranslatedModel

topMethod == CHOOSE m \in taskToMethods(htn.initialTask) : TRUE
numSeq == numSubTasks(topMethod)
Sequences == 0 .. numSeq - 1

\* pgbList has the number of points of every sequence.
Sum(list, k) == FoldLeft(LAMBDA sum, i : sum + list[i], 0, [i \in 1 .. k |-> i])
MaxOf(list) == Max({0} \union ToSet(list))

\* Whether the initial task is still to do, the heads, the constraints, and the tasks.
topIndex == numVars
headVar(k) == numVars + 1 + k
constraintIndex(k, l) == headVar(numSeq) + k * (numSeq - 1) + IF l < k THEN l ELSE l - 1
pointVar(k, j, pgbList) == headVar(numSeq) + numSeq * (numSeq - 1) + Sum(pgbList, k) + j

SequencesInit(pgbList) ==
  [v \in 0 .. pointVar(numSeq, 0, pgbList) - 1 |->
     CASE v \in Vars -> s0ListSP[v]
       [] v = topIndex -> 1
       [] OTHER -> 0]

SequencesGoal == htn.gList \union {<<topIndex, 0>>} \union {<<headVar(k), 0>> : k \in Sequences}

\* Mutation: other sequences are not waited for.
NoOthers(k) == {}

\* No other sequence has to come before k.
Unconstrained(k) == {<<constraintIndex(l, k), 0>> : l \in Sequences \ {k}}

AtHead(k, j, t, pgbList) ==
  {<<headVar(k), j + 1>>, <<pointVar(k, j, pgbList), t + 1>>} \union Unconstrained(k)

ReleasedBy(k, j) == IF j = 0 THEN {<<constraintIndex(k, l), 0>> : l \in Sequences \ {k}} ELSE {}

primitiveInSequence(a, k, j, pgbList) ==
  Operator([kind |-> "primitive", id |-> a, head |-> k * MaxOf(pgbList) + j],
           precListsSP(a) \union AtHead(k, j, a, pgbList),
           addListsSP(a) \union ReleasedBy(k, j)
             \union {<<headVar(k), j>>, <<pointVar(k, j, pgbList), 0>>})

methodInSequence(m, k, j, pgbList) ==
  LET n == numSubTasks(m)
      place(i) == k * MaxOf(pgbList) + j + i - 1
  IN  Operator([kind |-> "method", id |-> m, head |-> place(1),
                subtasks |-> [i \in 1 .. n |-> place(i)], firstPrim |-> <<>>],
               AtHead(k, j, decomposedTask(m), pgbList),
               {<<pointVar(k, j + i - 1, pgbList), subTasksInOrder[m][i] + 1>> : i \in 1 .. n}
                 \union IF n = 1 THEN {} ELSE {<<headVar(k), j + n>>})

\* The method of the initial task fills every sequence with one task.
topMethodOperator(pgbList) ==
  Operator([kind |-> "method", id |-> topMethod, head |-> 0,
            subtasks |-> [i \in 1 .. numSeq |-> (i - 1) * MaxOf(pgbList)], firstPrim |-> <<>>],
           {<<topIndex, 1>>},
           {<<topIndex, 0>>}
             \union {<<headVar(k), 1>> : k \in Sequences}
             \union {<<pointVar(k, 0, pgbList), subTasksInOrder[topMethod][k + 1] + 1>> : k \in Sequences}
             \union {<<constraintIndex(p[1], p[2]), IF <<p[1] + 1, p[2] + 1>> \in ordering[topMethod]
                                                     THEN 1 ELSE 0>> :
                       p \in {q \in Sequences \X Sequences : q[1] # q[2]}})

htnPS(pgbList) ==
  LET Points == {p \in Sequences \X (0 .. MaxOf(pgbList) - 1) : p[2] < pgbList[p[1] + 1]}
  IN  [init |-> SequencesInit(pgbList), goal |-> SequencesGoal,
       ops |-> {primitiveInSequence(a, p[1], p[2], pgbList) : a \in Actions, p \in Points}
         \union {methodInSequence(q[1], q[2][1], q[2][2], pgbList) :
                   q \in {r \in (Methods \ {topMethod}) \X Points :
                            numSubTasks(r[1]) + r[2][2] <= pgbList[r[2][1] + 1]}}
         \union {topMethodOperator(pgbList)}]
-----------------------------------------------------------------------------
SequencesNetwork(values, pgbList) ==
  LET width == MaxOf(pgbList)
      points == {i \in 0 .. numSeq * width - 1 :
                   /\ i % width < pgbList[(i \div width) + 1]
                   /\ values[pointVar(i \div width, i % width, pgbList)] # 0}
  IN  IF values[topIndex] = 1
        THEN [task |-> [i \in {0} |-> htn.initialTask], before |-> {}]
      ELSE [task |-> [i \in points |-> values[pointVar(i \div width, i % width, pgbList)] - 1],
            before |-> {p \in points \X points :
                          LET k == p[1] \div width
                              l == p[2] \div width
                          IN  \/ k = l /\ p[1] > p[2]
                              \/ k # l /\ values[constraintIndex(k, l)] = 1}]
=============================================================================
