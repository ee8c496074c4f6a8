------------------------------ MODULE FirstTasks ------------------------------
(***************************************************************************)
(* The search for the new first tasks in Model::apply.                     *)
(*                                                                         *)
(* A search node stores the steps of its task network that no other step   *)
(* precedes ("unconstrained"); the rest of the network is reachable from   *)
(* them through the successor lists.  There are no predecessor lists: when *)
(* a step is progressed, the successors that become unconstrained are      *)
(* found by walking forward from every other unconstrained step and from   *)
(* the candidates themselves, and dropping each candidate that is met.     *)
(* The walk uses a LIFO list and stops as soon as either the candidates or *)
(* the list are used up.  One step of this module is one iteration of one  *)
(* of the code's loops.                                                    *)
(***************************************************************************)
EXTENDS Naturals, Sequences

CONSTANTS Step,        \* the plan steps of the network
          Networks,    \* the successor lists a network may have
          NoStep       \* stands for: no progression is under way

Elems(q) == {q[i] : i \in 1 .. Len(q)}

Sources(g, S) == {s \in S : \A p \in S : s \notin Elems(g[p])}

\* No cycle: every non-empty set of steps has a member that none of them precedes.
Acyclic(g) == \A S \in SUBSET Step : S # {} => Sources(g, S) # {}

ASSUME NetworksAssumption ==
  /\ NoStep \notin Step
  /\ \A g \in Networks : g \in [Step -> Seq(Step)] /\ Acyclic(g)

VARIABLES succ,                  \* planStep::successorList of every step
          net,                   \* the steps of the node's network
          unconstrained,         \* the node's unconstraintAbstract and unconstraintPrimitive
          progressed,            \* the step being progressed, or NoStep
          toScan,                \* steps whose successor lists are still to be pushed
          potentiallyFirst,      \* std::set of candidates
          potentialPredecessors, \* std::forward_list, its front first
          pending,               \* successors of the step just taken, still to be tested
          done                   \* std::set of the steps taken from that list

vars == <<succ, net, unconstrained, progressed, toScan,
          potentiallyFirst, potentialPredecessors, pending, done>>

Succ(s) == Elems(succ[s])

\* push_front of every element of q in turn.
PushFront(q, list) == [i \in 1 .. Len(q) |-> q[Len(q) + 1 - i]] \o list

Init == /\ succ \in Networks
        /\ net = Step
        /\ unconstrained = Sources(succ, Step)
        /\ progressed = NoStep
        /\ toScan = {}
        /\ potentiallyFirst = {}
        /\ potentialPredecessors = <<>>
        /\ pending = <<>>
        /\ done = {}

\* The steps whose successors rule candidates out: the candidates and the other
\* unconstrained steps.  Mutation: only the latter.
RootsNoCandidates(t) == unconstrained \ {t}

Roots(t) == Succ(t) \union (unconstrained \ {t})

\* The successors of the progressed step are the candidates.
Progress(t) ==
  /\ progressed = NoStep
  /\ t \in unconstrained
  /\ progressed' = t
  /\ potentiallyFirst' = Succ(t)
  /\ toScan' = Roots(t)
  /\ UNCHANGED <<succ, net, unconstrained, potentialPredecessors, pending, done>>

\* The successors of one candidate, or of one other unconstrained step, are
\* pushed.  The order of the scans depends on the order of the arrays, which
\* follows the addresses of the steps: it is left open.
Scan(s) ==
  /\ s \in toScan
  /\ toScan' = toScan \ {s}
  /\ potentialPredecessors' = PushFront(succ[s], potentialPredecessors)
  /\ UNCHANGED <<succ, net, unconstrained, progressed, potentiallyFirst, pending, done>>

\* pop_front.  Mutation: the front stays.
NotPopped(list) == list

Popped(list) == Tail(list)

\* The while loop takes the front of the list; its two breaks are guards.
Take ==
  /\ progressed # NoStep
  /\ toScan = {}
  /\ pending = <<>>
  /\ potentiallyFirst # {}
  /\ potentialPredecessors # <<>>
  /\ LET ps2 == Head(potentialPredecessors)
     IN  /\ done' = done \union {ps2}
         /\ potentiallyFirst' = potentiallyFirst \ {ps2}
         /\ pending' = succ[ps2]
  /\ potentialPredecessors' = Popped(potentialPredecessors)
  /\ UNCHANGED <<succ, net, unconstrained, progressed, toScan>>

\* The inner loop pushes the successors of the step just taken that were not
\* taken before.
Push ==
  /\ pending # <<>>
  /\ pending' = Tail(pending)
  /\ potentialPredecessors' =
       IF Head(pending) \in done
       THEN potentialPredecessors
       ELSE <<Head(pending)>> \o potentialPredecessors
  /\ UNCHANGED <<succ, net, unconstrained, progressed, toScan, potentiallyFirst, done>>

\* The unconstrained steps of the result.
Result == (unconstrained \ {progressed}) \union potentiallyFirst

\* The loop is over: the remaining candidates join the node's unconstrained
\* steps in place of the progressed one, and the work sets are cleared.
Finish ==
  /\ progressed # NoStep
  /\ toScan = {}
  /\ pending = <<>>
  /\ potentiallyFirst = {} \/ potentialPredecessors = <<>>
  /\ net' = net \ {progressed}
  /\ unconstrained' = Result
  /\ progressed' = NoStep
  /\ potentiallyFirst' = {}
  /\ potentialPredecessors' = <<>>
  /\ done' = {}
  /\ UNCHANGED <<succ, toScan, pending>>

\* Nothing is left to progress.
Complete == net = {} /\ UNCHANGED vars

Next == \/ \E t \in Step : Progress(t)
        \/ \E s \in Step : Scan(s)
        \/ Take
        \/ Push
        \/ Finish
        \/ Complete

Spec == Init /\ [][Next]_vars

\* apply() is sequential code: a started progression runs on, and a node with an
\* unconstrained step can be progressed.
FairSpec == Spec /\ WF_vars(Next)
-------------------------------------------------------------------------------
TypeOK == /\ succ \in [Step -> Seq(Step)]
          /\ net \in SUBSET Step
          /\ unconstrained \in SUBSET net
          /\ progressed \in Step \union {NoStep}
          /\ toScan \in SUBSET Step
          /\ potentiallyFirst \in SUBSET Step
          /\ potentialPredecessors \in Seq(Step)
          /\ pending \in Seq(Step)
          /\ done \in SUBSET Step

\* Between two calls of apply() the stored steps are exactly the first tasks of
\* the remaining network: the walk has neither dropped a candidate that is free
\* nor kept one that still has a predecessor.
UnconstrainedAreSources ==
  progressed = NoStep => unconstrained = Sources(succ, net)

\* While the walk runs, a step dropped from the candidates is never one that the
\* progression frees.
DroppedHavePredecessor ==
  progressed # NoStep =>
    \A s \in Succ(progressed) \ potentiallyFirst :
      \E p \in net \ {progressed} : s \in Succ(p)

\* The strengthening that makes the two invariants above inductive: the candidates
\* left are those never taken from the list; what was pushed has a predecessor that
\* stays; and the successors of every step met so far are met, listed or pending.
Scanned == Roots(progressed) \ toScan
Listed == Elems(potentialPredecessors) \union Elems(pending)

WalkInvariant ==
  /\ Acyclic(succ)
  /\ \A s \in net : Succ(s) \subseteq net
  /\ unconstrained = Sources(succ, net)
  /\ IF progressed = NoStep
     THEN /\ toScan = {}
          /\ potentiallyFirst = {}
          /\ potentialPredecessors = <<>>
          /\ pending = <<>>
          /\ done = {}
     ELSE /\ progressed \in unconstrained
          /\ toScan \subseteq Roots(progressed)
          /\ potentiallyFirst = Succ(progressed) \ done
          /\ \A s \in done \union Listed :
               \E p \in net \ {progressed} : s \in Succ(p)
          /\ \A p \in Scanned : Succ(p) \subseteq done \union Listed
          /\ \A p \in done : Succ(p) \subseteq done \union Listed

\* The walk ends and every step is progressed eventually: the revisits that the
\* duplicates in the list cause do not go on for ever.
AllProgressed == <>(net = {})

Linear == INSTANCE Linearization

\* The progression implements the abstract order of execution.
ImplementsLinearization == Linear!Spec
===============================================================================
