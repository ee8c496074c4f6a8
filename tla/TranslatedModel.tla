-------------------------- MODULE TranslatedModel --------------------------
(***************************************************************************)
(* What the translations to classical planning start from: the methods     *)
(* with their subtasks in reverse order (reorderTasks), every variable     *)
(* with at least two values (sasPlus), and operators over variables.  A    *)
(* fact is a pair of a variable and a value.                               *)
(***************************************************************************)
EXTENDS Integers, Sequences, FiniteSets, FiniteSetsExt, SequencesExt

CONSTANT Problems

\* Tasks are numbers, actions first, and so are variables.  A variable of one value stands
\* for a single fact; one of several has a value in every state (the grounder adds a value
\* for "none of those"), and facts of s0 come in the order of their variables.  No method is
\* without subtasks, none is ordered in a circle, and the initial task has a single one.
ASSUME ProblemsAssumption ==
  \A p \in Problems :
    /\ p.numTasks \in Nat /\ p.numActions \in 0 .. p.numTasks
    /\ p.initialTask \in p.numActions .. p.numTasks - 1
    /\ \A i \in DOMAIN p.methods :
         LET m == p.methods[i]
         IN  /\ m.task \in p.numActions .. p.numTasks - 1
             /\ m.subTasks \in Seq(0 .. p.numTasks - 1) \ {<<>>}
             /\ m.ordering \subseteq (DOMAIN m.subTasks) \X (DOMAIN m.subTasks)
             /\ \A S \in SUBSET DOMAIN m.subTasks :
                  S # {} => \E j \in S : \A k \in S : <<k, j>> \notin m.ordering
    /\ Cardinality({i \in DOMAIN p.methods : p.methods[i].task = p.initialTask}) = 1
    /\ \A a \in 0 .. p.numActions - 1 : p.addLists[a] \intersect p.delLists[a] = {}
    /\ \A i, j \in DOMAIN p.s0List : i < j => p.s0List[i][1] < p.s0List[j][1]
    /\ DOMAIN p.varSizes = 0 .. Cardinality(DOMAIN p.varSizes) - 1
    /\ \A v \in DOMAIN p.varSizes : p.varSizes[v] > 1 => \E i \in DOMAIN p.s0List : p.s0List[i][1] = v

VARIABLES htn,
          subTasksInOrder,       \* last subtask first
          ordering,              \* pairs of positions in subTasksInOrder
          firstNumTOPrimTasks    \* how many actions the first subtasks are

orderVars == <<subTasksInOrder, ordering, firstNumTOPrimTasks>>

Tasks == 0 .. htn.numTasks - 1
Actions == 0 .. htn.numActions - 1
Methods == DOMAIN htn.methods
Vars == DOMAIN htn.varSizes
numVars == Cardinality(Vars)

numSubTasks(m) == Len(htn.methods[m].subTasks)
decomposedTask(m) == htn.methods[m].task
taskToMethods(t) == {m \in Methods : decomposedTask(m) = t}

Degrees(m, end) == [i \in 1 .. numSubTasks(m) |-> Cardinality({p \in htn.methods[m].ordering : p[end] = i})]
NotOne(degrees) == Cardinality({i \in DOMAIN degrees : degrees[i] # 1})
Several(degrees) == \E i \in DOMAIN degrees : degrees[i] > 1

\* Is the order of m something else than one sequence?  Methods are reduced (MethodOrdering).
Loose(m) == NotOne(Degrees(m, 1)) > 1 \/ NotOne(Degrees(m, 2)) > 1

isTotallyOrdered == \A m \in Methods : ~Loose(m)
isParallelSequences ==
  \A m \in Methods : Loose(m) => /\ decomposedTask(m) = htn.initialTask
                                 /\ ~Several(Degrees(m, 1)) \/ ~Several(Degrees(m, 2))
-----------------------------------------------------------------------------
(* reorderTasks *)

\* subs: again and again the first subtask that is free, which is one whose predecessors are all
\* taken.  One that is taken itself is free again as soon as no ordering is met whose first
\* subtask was not taken before it.
Sorted(m) ==
  LET orders == htn.methods[m].ordering
      before(subs, k) == ToSet(SubSeq(subs, 1, SelectInSeq(subs, LAMBDA s : s = k) - 1))
      free(subs) == {k \in 1 .. numSubTasks(m) :
                       \/ /\ k \notin ToSet(subs)
                          /\ \A p \in orders : p[2] = k => p[1] \in ToSet(subs)
                       \/ /\ k \in ToSet(subs)
                          /\ \A p \in orders : p[1] \in before(subs, k)}
  IN  FoldLeft(LAMBDA subs, j : Append(subs, Min(free(subs))), <<>>, htn.methods[m].subTasks)

InOrder(m) ==
  LET n == numSubTasks(m)
  IN  IF htn.methods[m].ordering = {} THEN Reverse(htn.methods[m].subTasks)
      ELSE [j \in 1 .. n |-> htn.methods[m].subTasks[n + 1 - Sorted(m)[j]]]

Adjusted(m) ==
  LET place(i) == numSubTasks(m) + 1 - Sorted(m)[i]
  IN  {<<place(p[1]), place(p[2])>> : p \in htn.methods[m].ordering}

\* Counted in the order in which the subtasks are listed.
FirstActions(m) ==
  IF numSubTasks(m) > 1 /\ htn.methods[m].ordering = {} THEN 0
  ELSE Max({0} \union {k \in 1 .. numSubTasks(m) :
                         \A i \in 1 .. k : htn.methods[m].subTasks[i] \in Actions})

reorderTasks == /\ subTasksInOrder' = [m \in Methods |-> InOrder(m)]
                /\ ordering' = [m \in Methods |-> Adjusted(m)]
                /\ firstNumTOPrimTasks' = [m \in Methods |-> FirstActions(m)]
-----------------------------------------------------------------------------
(* sasPlus *)

bitAlone(f) == htn.varSizes[f[1]] = 1
No(f) == <<f[1], 1>>

precListsSP(a) == htn.precLists[a]
addListsSP(a) == htn.addLists[a] \union {No(f) : f \in {d \in htn.delLists[a] : bitAlone(d)}}

s0Size == Len(htn.s0List)

\* The search for the variable of a fact stops at s0Size.
VariableFor(f) == Min({s0Size - 1, f[1]})

\* The values in the initial state; without a variable of one value, s0List is left as it is.
s0ListSP ==
  [v \in Vars |->
     LET found == {i \in 1 .. s0Size : VariableFor(htn.s0List[i]) = v}
     IN  IF \A u \in Vars : htn.varSizes[u] > 1 THEN htn.s0List[v + 1][2]
         ELSE IF found # {} THEN htn.s0List[Max(found)][2]
         ELSE IF htn.varSizes[v] = 1 THEN 1 ELSE htn.varSizes[v] - 1]

\* The facts that are true in a state of the variables.
FactsOf(values) == {<<v, values[v]>> : v \in Vars} \ {<<v, 1>> : v \in {u \in Vars : htn.varSizes[u] = 1}}
-----------------------------------------------------------------------------
(* Operators as writeToFastDown prints them, and what the classical planner takes them for. *)

Operator(name, pre, eff) == [name |-> name, pre |-> pre, eff |-> eff, cond |-> {}]

Applicable(values, op) == \A p \in op.pre : values[p[1]] = p[2]

Effects(values, op) ==
  op.eff \union {c.eff : c \in {d \in op.cond : values[d.if[1]] = d.if[2]}}

Successor(values, op) ==
  LET effects == Effects(values, op)
      changed == {e[1] : e \in effects}
  IN  [v \in DOMAIN values |-> IF v \in changed THEN (CHOOSE e \in effects : e[1] = v)[2] ELSE values[v]]
=============================================================================
