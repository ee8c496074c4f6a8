------------------------ MODULE MCRelaxedComposition ------------------------
(***************************************************************************)
(* Two families of problems.  In one, networks of up to three steps of a   *)
(* task that may recur are evaluated, with an action that another one has  *)
(* to come before, and that may delete what it needs.  In the other, only  *)
(* initial nodes are, of every small decomposition graph of three abstract *)
(* tasks whose methods have some of the lists of subtasks below.           *)
(***************************************************************************)
EXTENDS RelaxedComposition

\* Shorter lists first, then by their tasks.
Listed(L) ==
  SetToSortSeq(L, LAMBDA x, y : \/ Len(x) < Len(y)
                                \/ /\ Len(x) = Len(y)
                                   /\ \E i \in DOMAIN x : x[i] < y[i] /\ \A j \in 1 .. i - 1 : x[j] = y[j])

MethodsOf(t, L) == LET list == Listed(L) IN [i \in DOMAIN list |-> [task |-> t, subTasks |-> list[i]]]

UpTo(k, lists) == UNION {kSubset(i, lists) : i \in 1 .. k}

\* What is added to T as long as something can be.
Grown(T, p, Grow(_, _)) ==
  LET closure[X \in SUBSET (0 .. p.numTasks - 1)] ==
        LET more == X \union UNION {Grow(X, p.methods[i]) : i \in DOMAIN p.methods}
        IN  IF more = X THEN X ELSE closure[more]
  IN  closure[T]

\* Every task can be decomposed into actions, and comes up.
IsGrounded(p) ==
  LET all == 0 .. p.numTasks - 1
  IN  /\ Grown(0 .. p.numActions - 1, p,
               LAMBDA X, m : IF ToSet(m.subTasks) \subseteq X THEN {m.task} ELSE {}) = all
      /\ Grown({p.initialTask}, p,
               LAMBDA X, m : IF m.task \in X THEN ToSet(m.subTasks) ELSE {}) = all

Run(heuristicName, estimateName, correct) ==
  [heuristic |-> heuristicName, estimate |-> estimateName, correctTaskCount |-> correct]

\* Action 0 makes fact 1 true, action 1 needs it, makes 2 true and deletes what it is to.
Problem(methods, price, deletes, goal, inOrder, maxSteps) ==
  [numTasks |-> Max({m.task : m \in ToSet(methods)}) + 1, numActions |-> 2,
   initialTask |-> Max({m.task : m \in ToSet(methods)}), methods |-> methods,
   facts |-> {1, 2}, s0 |-> {}, gList |-> goal,
   precLists |-> [a \in 0 .. 1 |-> IF a = 1 THEN {1} ELSE {}],
   addLists |-> [a \in 0 .. 1 |-> {a + 1}],
   delLists |-> [a \in 0 .. 1 |-> IF a = 1 THEN deletes ELSE {}],
   actionCosts |-> price, ordered |-> inOrder, maxSteps |-> maxSteps]

Prices == {[a \in 0 .. 1 |-> 2 - a], [a \in 0 .. 1 |-> a]}

Networks ==
  {Problem(MethodsOf(2, part) \o MethodsOf(3, top), price, deletes, goal, inOrder, 3) :
     top \in {{<<2, 1>>}, {<<2, 2>>, <<2, 1>>}, {<<0, 2, 2>>}},
     part \in UpTo(2, {<<0>>, <<1>>, <<1, 2>>}),
     price \in Prices, deletes \in {{1}}, goal \in {{}, {2}}, inOrder \in BOOLEAN}

Graphs3 ==
  {Problem(MethodsOf(2, a) \o MethodsOf(3, b) \o MethodsOf(4, c), [x \in 0 .. 1 |-> x], {1}, {}, TRUE, 0) :
     a \in UpTo(2, {<<0>>, <<3, 0>>, <<2>>, <<4, 2>>, <<3>>}),
     b \in UpTo(2, {<<1, 0>>, <<2>>, <<4, 4>>, <<0, 3>>}),
     c \in UpTo(2, {<<2, 3>>, <<3, 0>>, <<2>>, <<4, 1>>})}

MCProblems == {p \in Networks \union Graphs3 : IsGrounded(p)}

\* Costs are estimated where networks are not ordered, which leaves most plans.
MCOptionsFor(p) ==
  CASE p.maxSteps = 0 -> {Run("lmCut", "estDISTANCE", TRUE)}
    [] p.maxSteps > 0 /\ p.ordered -> {Run("lmCut", "estDISTANCE", FALSE), Run("sasAdd", "estMIXED", FALSE)}
    [] OTHER -> {Run("lmCut", "estCOSTS", TRUE), Run("sasFF", "estDISTANCE", TRUE)}
=============================================================================
