--------------------------- MODULE MethodOrdering ---------------------------
(***************************************************************************)
(* Model::readHierarchical, as far as the orderings of methods go: each is *)
(* closed transitively and then reduced (computeTransitiveChangeOfMethod-  *)
(* Orderings), and the problem is classified along the way.  The search    *)
(* relies on the flags: they select the key of the visited list.           *)
(*                                                                         *)
(* The three nested loops run over k, x and y.  The inner two are one step *)
(* here: for a fixed k they neither add nor remove pairs with k that the   *)
(* later x and y look at.                                                  *)
(***************************************************************************)
EXTENDS Integers, FiniteSets, Sequences

CONSTANTS Methods,      \* what may be read: [task, size, given]
          initialTask,
          MaxMethods    \* bound on the number of methods

ASSUME MethodsAssumption ==
  /\ MaxMethods \in Nat
  /\ \A m \in Methods : /\ m.size \in Nat \ {0}
                        /\ m.given \subseteq (1 .. m.size) \X (1 .. m.size)

VARIABLES method,      \* the method being read
          trans, transRed, k, pc,
          orderings,   \* the methods read, with their new orderings
          isTotallyOrdered, isUniquePaths, isParallelSequences

flags == <<isTotallyOrdered, isUniquePaths, isParallelSequences>>
vars == <<method, trans, transRed, k, pc, orderings, flags>>

Positions == 1 .. method.size

Init == /\ method \in Methods
        /\ trans = method.given
        /\ transRed = {}
        /\ k = 1
        /\ pc = "close"
        /\ orderings = <<>>
        /\ isTotallyOrdered = TRUE /\ isUniquePaths = TRUE /\ isParallelSequences = TRUE

\* Mutation: the last k is left out.
MoreTooShort == k < method.size

\* The condition of the loops over k.
More == k <= method.size

\* Mutation: pairs through k only extend pairs that were given.
ThroughGiven(R, i) == {p \in R \X method.given : p[1][2] = i /\ p[2][1] = i}

\* Two pairs of R that meet in i.
Through(R, i) == {p \in R \X R : p[1][2] = i /\ p[2][1] = i}

Ends(pairs) == {<<p[1][1], p[2][2]>> : p \in pairs}

Close == /\ pc = "close" /\ More
         /\ trans' = trans \union Ends(Through(trans, k))
         /\ k' = k + 1
         /\ UNCHANGED <<method, transRed, pc, orderings, flags>>

Copy == /\ pc = "close" /\ ~More
        /\ transRed' = trans
        /\ k' = 1
        /\ pc' = "reduce"
        /\ UNCHANGED <<method, trans, orderings, flags>>

\* What is left of S without the pairs that R implies through i.
Kept(R, S, i) == S \ Ends(Through(R, i))

Reduce == /\ pc = "reduce" /\ More
          /\ transRed' = Kept(trans, transRed, k)
          /\ k' = k + 1
          /\ UNCHANGED <<method, trans, pc, orderings, flags>>
-----------------------------------------------------------------------------
After(R, x) == {e \in R : e[1] = x}
Until(R, y) == {e \in R : e[2] = y}

NotOneSuccessor(R) == {x \in Positions : Cardinality(After(R, x)) # 1}
NotOnePredecessor(R) == {y \in Positions : Cardinality(Until(R, y)) # 1}

Forks(R) == \E x \in Positions : Cardinality(After(R, x)) > 1
Joins(R) == \E y \in Positions : Cardinality(Until(R, y)) > 1

\* Mutation: predecessors are not counted.
InOneRowForward(R) == Cardinality(NotOneSuccessor(R)) <= 1

\* "every task has exactly one successor and one predecessor except for one task each"
InOneRow(R) == /\ Cardinality(NotOneSuccessor(R)) <= 1
               /\ Cardinality(NotOnePredecessor(R)) <= 1

\* Mutation: the ordering itself is not looked at.
JoinsAtTop(R) == method.task # initialTask

\* A method that forks (joins), or that is not for the initial task.
ForksInside(R) == Forks(R) \/ method.task # initialTask
JoinsInside(R) == Joins(R) \/ method.task # initialTask

\* The flags and the checks, after which the next method is read.
Classify ==
  /\ pc = "reduce" /\ ~More
  /\ orderings' = Append(orderings, [of |-> method, ordering |-> transRed])
  /\ isTotallyOrdered' = (isTotallyOrdered /\ InOneRow(transRed))
  /\ isUniquePaths' = (isUniquePaths /\ (InOneRow(transRed) \/ ~ForksInside(transRed)))
  /\ isParallelSequences' = (isParallelSequences /\ (\/ InOneRow(transRed)
                                                     \/ ~ForksInside(transRed)
                                                     \/ ~JoinsInside(transRed)))
  /\ pc' = "read"
  /\ UNCHANGED <<method, trans, transRed, k>>

Read == /\ pc = "read" /\ Len(orderings) < MaxMethods
        /\ method' \in Methods
        /\ trans' = method'.given
        /\ transRed' = {}
        /\ k' = 1
        /\ pc' = "close"
        /\ UNCHANGED <<orderings, flags>>

Next == Close \/ Copy \/ Reduce \/ Classify \/ Read

Spec == Init /\ [][Next]_vars
-----------------------------------------------------------------------------
TypeOK == /\ method \in Methods
          /\ trans \subseteq Positions \X Positions
          /\ transRed \subseteq Positions \X Positions
          /\ k \in 1 .. method.size + 1
          /\ pc \in {"close", "reduce", "read"}
          /\ isTotallyOrdered \in BOOLEAN /\ isUniquePaths \in BOOLEAN
          /\ isParallelSequences \in BOOLEAN

Transitive(R) == \A d, e \in R : d[2] = e[1] => <<d[1], e[2]>> \in R

\* The closure loop ends with the least transitive relation that holds the given pairs,
\* although it changes the matrix it reads, and visits every k only once.
ClosureCorrect ==
  pc # "close" =>
    /\ method.given \subseteq trans
    /\ Transitive(trans)
    /\ \A R \in SUBSET trans : (method.given \subseteq R /\ Transitive(R)) => R = trans

\* The reduction keeps exactly the pairs that no two others imply.
ReductionCorrect ==
  pc = "read" =>
    transRed = {e \in trans : \A x \in Positions : ~(<<e[1], x>> \in trans /\ <<x, e[2]>> \in trans)}
=============================================================================
