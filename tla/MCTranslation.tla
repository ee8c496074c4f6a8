--------------------------- MODULE MCTranslation ---------------------------
(***************************************************************************)
(* Small problems of every class.  Action 0 moves a variable of three      *)
(* values from 0 to 1, action 1 from 1 to 2 and makes fact 1 false, which  *)
(* was true; action 2 needs fact 1 and makes fact 2 true, which was not.   *)
(***************************************************************************)
EXTENDS Translation

Problem(numAbstract, initial, methods, goal) ==
  [numTasks |-> 3 + numAbstract, numActions |-> 3, initialTask |-> initial, methods |-> methods,
   varSizes |-> [v \in 0 .. 2 |-> IF v = 0 THEN 3 ELSE 1],
   s0List |-> <<<<0, 0>>, <<1, 0>>>>, gList |-> goal,
   precLists |-> [a \in 0 .. 2 |-> CASE a = 0 -> {<<0, 0>>} [] a = 1 -> {<<0, 1>>} [] a = 2 -> {<<1, 0>>}],
   addLists |-> [a \in 0 .. 2 |-> CASE a = 0 -> {<<0, 1>>} [] a = 1 -> {<<0, 2>>} [] a = 2 -> {<<2, 0>>}],
   delLists |-> [a \in 0 .. 2 |-> CASE a = 0 -> {<<0, 0>>} [] a = 1 -> {<<0, 1>>, <<1, 0>>} [] a = 2 -> {}]]

M(t, subTasks, order) == [task |-> t, subTasks |-> subTasks, ordering |-> order]
Chain(n) == {<<i, i + 1>> : i \in 1 .. n - 1}
InSequence(t, subTasks) == M(t, subTasks, Chain(Len(subTasks)))

\* Task 3 has one method; tasks 4 and 5 may recur.
TotallyOrdered ==
  {Problem(2, 3, <<InSequence(3, top)>> \o part, goal) :
     top \in {<<4>>, <<0, 4>>, <<4, 1>>, <<0, 2, 4>>, <<4, 4, 2>>},
     part \in {<<M(4, <<2, 0>>, {<<2, 1>>}), InSequence(4, <<1>>)>>,
               <<InSequence(4, <<1, 2>>), InSequence(4, <<0, 4>>), InSequence(4, <<1>>)>>,
               <<InSequence(4, <<4, 1>>), InSequence(4, <<0>>)>>,
               <<InSequence(4, <<4, 4>>), InSequence(4, <<0>>), InSequence(4, <<1>>)>>},
     goal \in {{}, {<<0, 2>>}}}

\* Only the initial task's subtasks are not in one sequence.
Parallel(tops) ==
  {Problem(2, 3, <<M(3, top[1], top[2])>> \o part, {}) :
     top \in tops,
     part \in {<<InSequence(4, <<0, 2>>), InSequence(4, <<1>>)>>,
               <<InSequence(4, <<4, 1>>), InSequence(4, <<0>>)>>}}

\* Orders that reorderTasks gets right: the subtask that it takes last but one is before another.
Orders3 == {{}, {<<2, 3>>}, {<<1, 3>>, <<2, 3>>}}
Pairs == {<<1, 2>>, <<3, 4>>}
ForkAtStart == {<<1, 2>>, <<1, 3>>, <<3, 4>>}
Diamond == {<<1, 2>>, <<1, 3>>, <<2, 4>>, <<3, 4>>}

ParallelProblems ==
  Parallel(({<<4, 4>>, <<0, 4>>} \X {{}}) \union ({<<4, 2, 1>>} \X Orders3)
             \union ({<<0, 2, 2, 4>>, <<2, 4, 2, 4>>} \X {Pairs, ForkAtStart}))

Partial ==
  {Problem(2, 3, <<M(3, top, order), M(4, <<0, 2>>, {}), M(4, <<1>>, {})>>, {}) :
     top \in {<<4, 2, 1>>, <<2, 4, 4>>}, order \in Orders3}
  \union {Problem(2, 3, <<M(3, top, order), M(4, <<0, 2>>, {}), M(4, <<1>>, {})>>, {}) :
            top \in {<<0, 4, 2, 2>>, <<2, 4, 2, 2>>}, order \in {Pairs, ForkAtStart, Diamond}}

\* Orders that it does not get right: it takes the second subtask twice, and never the first.
ReorderedProblems == Parallel({<<0, 2, 4>>} \X {{<<1, 2>>}, {<<1, 3>>}, {<<1, 2>>, <<1, 3>>}})

MCProblems == TotallyOrdered \union ParallelProblems \union Partial

Run(type, force, pgb) == [transtype |-> type, forceTransType |-> force, pgb |-> pgb, pgbsteps |-> 1,
                          iterate |-> TRUE, onlyGenerate |-> FALSE]

\* Encodings are chosen by the class; others than that only if they are forced, and "pocond"
\* only where there is no order: it does not keep any.
MCOptionsFor(p) ==
  {Run("push", FALSE, 0), Run("push", TRUE, 0),
   [Run("to", FALSE, 2) EXCEPT !.iterate = FALSE], [Run("to", FALSE, 0) EXCEPT !.onlyGenerate = TRUE]}
    \union IF \A i \in DOMAIN p.methods : p.methods[i].ordering = {} THEN {Run("pocond", TRUE, 3)} ELSE {}

OnlyChosen(p) == {Run("push", FALSE, 0)}
=============================================================================
