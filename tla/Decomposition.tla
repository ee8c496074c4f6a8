--------------------------- MODULE Decomposition ---------------------------
(***************************************************************************)
(* What a plan of a hierarchical problem is, independently of how it is    *)
(* found: a partially ordered network is decomposed and progressed until   *)
(* nothing is left and the goal holds.  Networks that differ only in the   *)
(* names of their steps are the same.  A method and actions that become    *)
(* possible by it may be one step.                                         *)
(***************************************************************************)
EXTENDS Integers, Sequences, FiniteSets, FiniteSetsExt, SequencesExt, Functions

CONSTANT Problems

VARIABLES htn,
          state,      \* true facts
          network,    \* [task |-> tasks of the steps, before |-> pairs of steps]
          finished

vars == <<htn, state, network, finished>>

Init == /\ htn \in Problems
        /\ state = ToSet(htn.s0List)
        /\ network = [task |-> [i \in {0} |-> htn.initialTask], before |-> {}]
        /\ finished = FALSE

Steps(net) == DOMAIN net.task

First(net) == {s \in Steps(net) : \A p \in net.before : p[2] # s}

\* The transitive closure.
Closed(R, nodes) ==
  LET with(Q, k) == Q \union {<<p[1], q[2]>> : p \in {e \in Q : e[2] = k}, q \in {e \in Q : e[1] = k}}
  IN  FoldSet(LAMBDA k, Q : with(Q, k), R, nodes)

RECURSIVE Matches(_, _, _)
\* Can f, which gives other names to some of the steps of n1, be continued so that all of n1
\* becomes n2?  Orders are closed.
Matches(f, n1, n2) ==
  LET rest == Steps(n1) \ DOMAIN f
      s == CHOOSE x \in rest : TRUE
      fits(t) == /\ n1.task[s] = n2.task[t]
                 /\ \A x \in DOMAIN f : /\ <<x, s>> \in n1.before <=> <<f[x], t>> \in n2.before
                                        /\ <<s, x>> \in n1.before <=> <<t, f[x]>> \in n2.before
  IN  \/ rest = {}
      \/ /\ rest # {}
         /\ \E t \in Steps(n2) \ Range(f) : fits(t) /\ Matches(f @@ (s :> t), n1, n2)

SameUpToNames(n1, n2) ==
  LET closed(net) == [net EXCEPT !.before = Closed(@, Steps(net))]
  IN  /\ Cardinality(Steps(n1)) = Cardinality(Steps(n2))
      /\ Matches(<<>>, closed(n1), closed(n2))

Without(net, s) == [task |-> [x \in Steps(net) \ {s} |-> net.task[x]],
                    before |-> {p \in net.before : p[1] # s}]

\* s is replaced by the subtasks of m, which come before what s came before.
Replaced(net, s, m) ==
  LET id(i) == Max(Steps(net)) + i
      subTasks == htn.methods[m].subTasks
      new == {id(i) : i \in DOMAIN subTasks}
      rest == Steps(net) \ {s}
  IN  [task |-> [x \in rest \union new |->
                   IF x \in new THEN subTasks[x - Max(Steps(net))] ELSE net.task[x]],
       before |-> {p \in net.before : p[1] # s}
                    \union {<<id(p[1]), id(p[2])>> : p \in htn.methods[m].ordering}
                    \union {<<x, p[2]>> : x \in new, p \in {q \in net.before : q[1] = s}}]

Situation(F, net) == [state |-> F, network |-> net]

Applications(at) ==
  {Situation((at.state \ htn.delLists[at.network.task[s]]) \union htn.addLists[at.network.task[s]],
             Without(at.network, s)) :
     s \in {x \in First(at.network) : /\ at.network.task[x] < htn.numActions
                                      /\ htn.precLists[at.network.task[x]] \subseteq at.state}}

Decompositions(at) ==
  {Situation(at.state, Replaced(at.network, p[1], p[2])) :
     p \in {q \in First(at.network) \X DOMAIN htn.methods :
              htn.methods[q[2]].task = at.network.task[q[1]]}}

\* What actions alone can lead to in at most so many steps, without any step, too.
AfterActions(situations, n) ==
  FoldLeft(LAMBDA found, i : found \union UNION {Applications(at) : at \in found},
           situations, [i \in 1 .. n |-> i])

Now == Situation(state, network)

Becomes(situations) ==
  \E at \in situations : state' = at.state /\ SameUpToNames(at.network, network')

Progress == Becomes(Applications(Now))

\* A method, and as many of its actions as its subtasks may be.
Decompose == Becomes(UNION {AfterActions({at}, Cardinality(Steps(at.network))) : at \in Decompositions(Now)})

Rename == Becomes({Now})

Finish == /\ Steps(network) = {} /\ htn.gList \subseteq state
          /\ finished' = TRUE
          /\ UNCHANGED <<state, network>>

Next == /\ UNCHANGED htn
        /\ \/ (Progress \/ Decompose \/ Rename) /\ ~finished /\ UNCHANGED finished
           \/ Finish

Spec == Init /\ [][Next]_vars
=============================================================================
