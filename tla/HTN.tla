--------------------------------- MODULE HTN ---------------------------------
(***************************************************************************)
(* The grounded hierarchical planning problem the engine searches in       *)
(* (struct Model): facts are bits, actions have preconditions, adds and    *)
(* deletes, and a method replaces an abstract task by partially ordered    *)
(* subtasks.  Nothing here changes after the reader has built it.          *)
(***************************************************************************)
EXTENDS Naturals, Sequences, FiniteSets

CONSTANTS Fact, Task,
          Primitive,       \* the tasks with isPrimitive
          precLists, addLists, delLists,   \* a set of facts for every primitive task
          actionCosts,
          Method,
          decomposedTask,  \* the abstract task a method is for
          subTasks,        \* its subtasks, a non-empty sequence (an empty one is refused on reading)
          ordering,        \* pairs of positions in it, already transitively reduced
          initialTask, s0, gList

Positions(m) == 1 .. Len(subTasks[m])

Predecessors(m, j) == {i \in Positions(m) : <<i, j>> \in ordering[m]}
Successors(m, i) == {j \in Positions(m) : <<i, j>> \in ordering[m]}

ASSUME ModelAssumption ==
  /\ Primitive \subseteq Task
  /\ \A lists \in {precLists, addLists, delLists} : lists \in [Primitive -> SUBSET Fact]
  /\ actionCosts \in [Primitive -> Nat]
  /\ decomposedTask \in [Method -> Task \ Primitive]
  /\ subTasks \in [Method -> Seq(Task) \ {<<>>}]
  /\ ordering \in [Method -> SUBSET (Nat \X Nat)]
  /\ \A m \in Method :
       /\ ordering[m] \subseteq Positions(m) \X Positions(m)
       /\ \A S \in SUBSET Positions(m) :
            S # {} => \E j \in S : Predecessors(m, j) \intersect S = {}
  /\ initialTask \in Task \ Primitive
  /\ s0 \subseteq Fact /\ gList \subseteq Fact

Abstract == Task \ Primitive

MethodsFor(t) == {m \in Method : decomposedTask[m] = t}

\* generateMethodRepresentation: the subtasks nothing precedes, and those that
\* precede nothing.
FirstTasksOf(m) == {j \in Positions(m) : Predecessors(m, j) = {}}
LastTasksOf(m) == {i \in Positions(m) : Successors(m, i) = {}}

Occurrences(m, t) == Cardinality({i \in Positions(m) : subTasks[m][i] = t})

isApplicable(state, a) == precLists[a] \subseteq state

\* Deletes first, then adds: a fact in both lists ends up true.
Progressed(state, a) == (state \ delLists[a]) \union addLists[a]

EffectLess(a) == addLists[a] = {} /\ delLists[a] = {}

\* The actions into which t can be decomposed (calcSCCGraph, mtrACTIONS).
Reachable(t) ==
  LET step(T) == T \union UNION {{subTasks[m][i] : i \in Positions(m)} :
                                   m \in {x \in Method : decomposedTask[x] \in T}}
      closure[T \in SUBSET Task] == IF step(T) = T THEN T ELSE closure[step(T)]
  IN  closure[{t}] \intersect Primitive
==============================================================================
