---------------------------- MODULE OrderingModes ----------------------------
(***************************************************************************)
(* From the flags of MethodOrdering to the networks of the search.  The    *)
(* flags are computed once from the methods; VisitedList and the           *)
(* translations rely on what they say of every network that decomposition  *)
(* and progression ever produce.                                           *)
(*                                                                         *)
(* A network has the successor relation of the engine's plan steps: it is  *)
(* not closed transitively.                                                *)
(***************************************************************************)
EXTENDS MethodOrdering, PointerGraph

CONSTANT MaxSteps    \* bound on the steps of a network

ASSUME StepsAssumption == /\ MaxSteps \in Nat
                          /\ \A m \in Methods : DOMAIN m.sub = 1 .. m.size

\* The classification takes an ordering of the initial task for one that is used once.
ASSUME InitialTaskAssumption ==
  \A m \in Methods : \A i \in 1 .. m.size : m.sub[i] # initialTask

VARIABLE net    \* the network of the current node, empty while the problem is read

NoSteps == [task |-> <<>>, succ |-> {}]

Steps == DOMAIN net.task

\* The steps that nothing precedes.
First(n) == {s \in DOMAIN n.task : Until(n.succ, s) = {}}

ModesInit == Init /\ net = NoSteps

ReadOn == Next /\ UNCHANGED net

\* The problem is read, and the initial node has one step with the initial task.
Start == /\ pc = "read"
         /\ \E i \in 1 .. Len(orderings) : orderings[i].of.task = initialTask
         /\ pc' = "search"
         /\ net' = [task |-> [s \in {1} |-> initialTask], succ |-> {}]
         /\ UNCHANGED <<method, trans, transRed, k, orderings, flags>>

LastOf(m, R) == {i \in 1 .. m.size : After(R, i) = {}}

\* Mutation: all new steps precede what the decomposed step preceded.
PrecedingAll(m, R) == 1 .. m.size

\* The subtasks that come to precede what the decomposed step preceded.
Preceding(m, R) == LastOf(m, R)

\* A first step s is replaced by the subtasks of a method for it.
Decompose ==
  /\ pc = "search"
  /\ \E s \in First(net), o \in 1 .. Len(orderings) :
       LET m == orderings[o].of
           R == orderings[o].ordering
           fresh == (1 .. MaxSteps + m.size) \ Steps
           id == CHOOSE f \in [1 .. m.size -> fresh] :
                   \A i, j \in 1 .. m.size : f[i] = f[j] => i = j
           new == {id[j] : j \in 1 .. m.size}
       IN  /\ m.task = net.task[s]
           /\ Cardinality(Steps) - 1 + m.size <= MaxSteps
           /\ net' = [task |-> [x \in (Steps \ {s}) \union new |->
                                  IF x \in new THEN m.sub[CHOOSE j \in 1 .. m.size : id[j] = x]
                                  ELSE net.task[x]],
                      succ |-> {e \in net.succ : e[1] # s}
                        \union {<<id[e[1]], id[e[2]]>> : e \in R}
                        \union {<<id[p[1]], p[2][2]>> : p \in Preceding(m, R) \X After(net.succ, s)}]
  /\ UNCHANGED vars

\* A first step with an action is progressed away.
Apply ==
  /\ pc = "search"
  /\ \E s \in First(net) :
       /\ net.task[s] \notin {m.task : m \in Methods}
       /\ net' = [task |-> [x \in Steps \ {s} |-> net.task[x]],
                  succ |-> {e \in net.succ : e[1] # s}]
  /\ UNCHANGED vars

ModesNext == ReadOn \/ Start \/ Decompose \/ Apply

ModesSpec == ModesInit /\ [][ModesNext]_<<vars, net>>
-----------------------------------------------------------------------------
AtMostOneSuccessor == \A s \in Steps : Cardinality(After(net.succ, s)) <= 1
AtMostOnePredecessor == \A s \in Steps : Cardinality(Until(net.succ, s)) <= 1

\* With isTotallyOrdered, every network of the search is one sequence: to_dfs starts at
\* one first step only.  With isUniquePaths, one path leads on from every step.
PathsHold == /\ isTotallyOrdered => /\ AtMostOneSuccessor /\ AtMostOnePredecessor
                                    /\ Cardinality(First(net)) <= 1
             /\ isUniquePaths => AtMostOneSuccessor

\* With isParallelSequences, networks fork or join, but not both.  (to_dfs asserts that they
\* do not fork; the flag does not say that.)
ForkOrJoin == isParallelSequences => AtMostOneSuccessor \/ AtMostOnePredecessor

\* What the flags say of the methods holds for the networks.
FlagsHold == PathsHold /\ ForkOrJoin

\* The steps that the pairs of R lead to from s, and s.
Pairs(R) == [x \in Steps |-> {e[2] : e \in After(R, x)}]
Reached(R, s) == {s} \union ReachedFrom(Pairs(R), {s})

\* Networks stay as the reduction has left the methods: no pair is implied by others.
StaysReduced == \A e \in net.succ : e[2] \notin Reached(net.succ \ {e}, e[1])
=============================================================================
