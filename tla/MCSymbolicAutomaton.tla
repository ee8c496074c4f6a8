------------------------ MODULE MCSymbolicAutomaton ------------------------
(* Two actions, and two or three tasks to be decomposed, of which the first is the initial one. *)
EXTENDS SymbolicAutomaton

MCState == 0 .. 2

\* An action with at most one precondition and effect; -1 is none.
Image(prec, eff) == {<<s, IF eff = -1 THEN s ELSE eff>> : s \in IF prec = -1 THEN MCState ELSE {prec}}

\* What the actions do, and the goal.
Effects == {<<Image(-1, 1), Image(1, 2), 2>>, <<Image(-1, 1), Image(-1, 0), 1>>, <<Image(0, 1), Image(1, 0), 1>>}
Costs == {<<0, 1>>, <<1, 2>>}

Some(S) == {T \in SUBSET S : Cardinality(T) \in 1 .. 2}

\* ways: for every task to be decomposed the subtasks that it may have, from task 2 on.
Problem(ways, effects, costs) ==
  [numActions |-> 2, actionCosts |-> [i \in 0 .. 1 |-> costs[i + 1]],
   image |-> [i \in 0 .. 1 |-> effects[i + 1]],
   methods |-> FlattenSeq([t \in DOMAIN ways |->
                 SetToSeq({[task |-> t + 1, subTasks |-> w] : w \in ways[t]})]),
   initialTask |-> 2, init |-> 0, goal |-> {effects[3]}]

\* The grounder leaves only tasks that can occur and that can be decomposed completely.
RECURSIVE Finite(_, _), Occurring(_, _)
Finite(q, S) ==
  LET more == S \union {q.methods[m].task : m \in {n \in DOMAIN q.methods : Range(q.methods[n].subTasks) \subseteq S}}
  IN  IF more = S THEN S ELSE Finite(q, more)
Occurring(q, S) ==
  LET more == S \union UNION {Range(q.methods[m].subTasks) : m \in {n \in DOMAIN q.methods : q.methods[n].task \in S}}
  IN  IF more = S THEN S ELSE Occurring(q, more)
Grounded(q) == Tasks(q) \subseteq Finite(q, {0, 1}) \intersect Occurring(q, {2})

\* Tasks that may recur, directly or through each other.
Recursive == {<<top, part>> : top \in Some({<<3>>, <<0, 3>>, <<3, 3>>, <<3, 1>>, <<2, 3>>, <<3, 2>>, <<2, 1>>}),
                              part \in Some({<<0>>, <<1>>, <<1, 0>>, <<0, 3>>, <<3, 1>>, <<2, 0>>, <<3>>})}

\* Three tasks, each of which is a subtask at one place.
Trees == {<<top, left, right>> :
            top \in {{<<3, 4>>}, {<<3, 0>>, <<1, 4>>}, {<<3>>, <<4, 1>>}, {<<3, 4>>, <<0, 2>>}, {<<3, 4>>, <<2, 1>>}},
            left \in Some({<<0>>, <<0, 1>>, <<1, 0>>}), right \in Some({<<1>>, <<1, 1>>, <<0, 1>>})}

MCProblems == {q \in {Problem(w, e, c) : w \in Recursive \union Trees, e \in Effects, c \in Costs} : Grounded(q)}

\* A task that begins with itself.
LeftRecursive == {Problem(<<{<<1, 4>>, <<3>>}, {<<3, 1>>, <<1, 4>>}, {<<0>>}>>,
                          <<Image(-1, 0), Image(-1, 1), 1>>, c) : c \in {<<0, 0>>}}
=============================================================================
