---------------------------- MODULE PushEncoding ----------------------------
(***************************************************************************)
(* htnToCondSorted: tasks of a partially ordered network lie in points     *)
(* that are kept sorted.  Only tasks below which every point is occupied   *)
(* are progressed; new tasks are pushed into the highest points, and move  *)
(* down from there, one at a time.  A constraint between a point and a     *)
(* lower one says that its task comes first.  The "pocond" translation     *)
(* calls the same function, but its conditional effects are not printed.   *)
(***************************************************************************)
EXTENDS TranslatedModel

\* The variables of the points: their tasks (0 is no task), constraints, whether a point is
\* occupied, and whether its task has to move on (movable).
taskVar(j) == numVars + j
constraintVar(k, j, pgb) == numVars + pgb + (k * (k - 1)) \div 2 + j    \* k > j
occupiedVar(j, pgb) == constraintVar(pgb, 0, pgb) + j
movableVar(j, pgb) == occupiedVar(pgb, pgb) + j

PushInit(pgb) ==
  [v \in 0 .. movableVar(pgb, pgb) - 1 |->
     CASE v \in Vars -> s0ListSP[v]
       [] v = taskVar(0) -> htn.initialTask + 1
       [] v = occupiedVar(0, pgb) -> 1
       [] OTHER -> 0]

PushGoal(pgb) == htn.gList \union {<<taskVar(j), 0>> : j \in 0 .. pgb - 1}

\* All points below j are occupied, and no task has to come before the one in j.
Reached(j, t, pgb) ==
  {<<taskVar(j), t + 1>>}
    \union {<<occupiedVar(k, pgb), 1>> : k \in 0 .. j - 1}
    \union {<<constraintVar(k, j, pgb), 0>> : k \in j + 1 .. pgb - 1}

\* Mutation: constraints of a task that is done stay.
NothingReleased(j, pgb) == {}

\* What the task in j came before is released.
Released(j, pgb) == {<<constraintVar(j, k, pgb), 0>> : k \in 0 .. j - 1}

primitiveAtPoint(a, j, pgb) ==
  Operator([kind |-> "primitive", id |-> a, head |-> j],
           precListsSP(a) \union Reached(j, a, pgb),
           addListsSP(a) \union Released(j, pgb) \union {<<taskVar(j), 0>>, <<occupiedVar(j, pgb), 0>>})

\* Where the subtasks of m are put: the first one takes the place of the decomposed task.
PointOf(m, i, j, pgb) == IF i = 1 THEN j ELSE pgb - numSubTasks(m) + i - 1

\* Mutation: the new tasks do not come before what the decomposed task came before.
FirstInherits(m, j, pgb) == {}

\* New tasks also come before what the decomposed task came before.
Inherited(m, j, pgb) ==
  {[if |-> <<constraintVar(j, k, pgb), 1>>,
    eff |-> <<constraintVar(PointOf(m, i, j, pgb), k, pgb), 1>>] :
     k \in 0 .. j - 1, i \in 2 .. numSubTasks(m)}

Ordered(m, j, pgb) ==
  LET constraint(p) == constraintVar(PointOf(m, p[1], j, pgb), PointOf(m, p[2], j, pgb), pgb)
  IN  {[if |-> <<constraint(p), 0>>, eff |-> <<constraint(p), 1>>] :
         p \in IF numSubTasks(m) > 1 THEN ordering[m] ELSE {}}

methodAtPoint(m, j, pgb, hasCondEff) ==
  LET places == 1 .. numSubTasks(m)
      tops == {pgb - i + 1 : i \in places \ {1}}
      name == [kind |-> "method", id |-> m, head |-> j,
               subtasks |-> [i \in places |-> PointOf(m, i, j, pgb)], firstPrim |-> <<>>]
  IN  [name |-> name,
       pre |-> Reached(j, decomposedTask(m), pgb) \union {<<taskVar(k), 0>> : k \in tops},
       eff |-> {<<taskVar(PointOf(m, i, j, pgb)), subTasksInOrder[m][i] + 1>> : i \in places}
                 \union {<<occupiedVar(k, pgb), 1>> : k \in tops},
       cond |-> IF hasCondEff THEN Inherited(m, j, pgb) \union Ordered(m, j, pgb) ELSE {}]

\* The points whose tasks must not have to move on when the task in j is moved: all but j
\* and, among the others, the highest one.
OthersAtRest(j, pgb) ==
  {<<movableVar(IF k < j THEN k ELSE k + 1, pgb), 0>> : k \in 0 .. pgb - 3}

\* Mutation: the point is left, but it still says that its task has to move on.
StillMovable(j, pgb) == {<<taskVar(j), 0>>, <<occupiedVar(j, pgb), 0>>}

LeftBehind(j, pgb) == {<<taskVar(j), 0>>, <<occupiedVar(j, pgb), 0>>, <<movableVar(j, pgb), 0>>}

\* The constraints that move with the task in j.
Moved(j, pgb) == {<<<<j, k>>, <<j - 1, k>>>> : k \in 0 .. j - 2}
                   \union {<<<<k, j>>, <<k, j - 1>>>> : k \in j + 1 .. pgb - 1}

\* Two conditional effects of every move are counted, but never set.  In memory that is
\* still zero, they read: if the first fact is true, it becomes true.
NeverSet == {[if |-> <<0, 0>>, eff |-> <<0, 0>>]}

move(t, j, pgb, hasCondEff) ==
  LET var(c) == constraintVar(c[1], c[2], pgb)
      further == IF j > 1 THEN {[if |-> <<occupiedVar(j - 2, pgb), b>>,
                                 eff |-> <<movableVar(j - 1, pgb), 1 - b>>] : b \in 0 .. 1}
                 ELSE {}
  IN  [name |-> [kind |-> "move", task |-> t, from |-> j, to |-> j - 1],
       pre |-> {<<taskVar(j), t + 1>>, <<occupiedVar(j, pgb), 1>>,
                <<taskVar(j - 1), 0>>, <<occupiedVar(j - 1, pgb), 0>>} \union OthersAtRest(j, pgb),
       eff |-> LeftBehind(j, pgb)
                 \union {<<taskVar(j - 1), t + 1>>, <<occupiedVar(j - 1, pgb), 1>>}
                 \union {<<var(c[1]), 0>> : c \in Moved(j, pgb)},
       cond |-> IF hasCondEff
                  THEN {[if |-> <<var(c[1]), 1>>, eff |-> <<var(c[2]), 1>>] : c \in Moved(j, pgb)}
                         \union further \union NeverSet
                  ELSE {}]

htnToCondSorted(pgb, hasCondEff) ==
  [init |-> PushInit(pgb), goal |-> PushGoal(pgb),
   ops |-> {primitiveAtPoint(a, j, pgb) : a \in Actions, j \in 0 .. pgb - 1}
     \union {methodAtPoint(p[1], p[2], pgb, hasCondEff) :
               p \in {q \in Methods \X (0 .. pgb - 1) : numSubTasks(q[1]) + q[2] <= pgb}}
     \union {move(t, j, pgb, hasCondEff) : t \in Tasks, j \in 1 .. pgb - 1}]
-----------------------------------------------------------------------------
PushNetwork(values, pgb) ==
  LET points == {i \in 0 .. pgb - 1 : values[taskVar(i)] # 0}
  IN  [task |-> [i \in points |-> values[taskVar(i)] - 1],
       before |-> {p \in points \X points :
                     p[1] > p[2] /\ values[constraintVar(p[1], p[2], pgb)] = 1}]

\* No point below one with a task is free.
IsCompact(values, pgb) ==
  \A k \in 1 .. pgb - 1 : values[taskVar(k)] # 0 => values[taskVar(k - 1)] # 0
=============================================================================
