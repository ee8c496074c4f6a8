----------------------------- MODULE TaskNetwork -----------------------------
(***************************************************************************)
(* What the search nodes mean: a node is a value, a partially ordered set  *)
(* of task instances with a state and the plan that led to it.  Making a   *)
(* child or dropping a node never affects another node.  Progression       *)
(* shows that the engine's nodes, which share their plan steps, implement  *)
(* this.                                                                   *)
(***************************************************************************)
EXTENDS HTN

CONSTANTS NodeId,    \* names of search nodes
          Step       \* names of task instances, unique within a node

VARIABLE networks    \* a function from the nodes in use to their networks

\* A network: [task |-> instances with their tasks, before |-> the strict partial
\* order on them, state |-> true facts, plan |-> <<task, method>> pairs].
Steps(net) == DOMAIN net.task

Unconstrained(net) == {s \in Steps(net) : \A p \in Steps(net) : <<p, s>> \notin net.before}

NoMethod == "action"

InitialNetwork(s) == [task |-> [x \in {s} |-> initialTask], before |-> {},
                      state |-> s0, plan |-> <<>>]

Init == \E n \in NodeId, s \in Step : networks = [x \in {n} |-> InitialNetwork(s)]

\* The transitive closure of a method's ordering.
Before(m) ==
  LET close[R \in SUBSET (Positions(m) \X Positions(m))] ==
        LET more == R \union {<<e[1][1], e[2][2]>> : e \in {d \in R \X R : d[1][2] = d[2][1]}}
        IN  IF more = R THEN R ELSE close[more]
  IN  close[ordering[m]]

\* s is replaced by the subtasks of m, named by inst, which inherit its successors.
Decomposed(net, s, m, inst) ==
  LET new == {inst[i] : i \in Positions(m)}
  IN [task |-> [x \in (Steps(net) \ {s}) \union new |->
                  IF x \in new
                  THEN subTasks[m][CHOOSE i \in Positions(m) : inst[i] = x]
                  ELSE net.task[x]],
      before |-> {e \in net.before : e[1] # s}
                 \union {<<inst[e[1]], inst[e[2]]>> : e \in Before(m)}
                 \union {<<xe[1], xe[2][2]>> : xe \in new \X {b \in net.before : b[1] = s}},
      state |-> net.state,
      plan |-> Append(net.plan, <<net.task[s], m>>)]

Applied(net, s) ==
  [task |-> [x \in Steps(net) \ {s} |-> net.task[x]],
   before |-> {e \in net.before : e[1] # s},
   state |-> Progressed(net.state, net.task[s]),
   plan |-> Append(net.plan, <<net.task[s], NoMethod>>)]

NewNode(c, net) ==
  /\ c \notin DOMAIN networks
  /\ networks' = [x \in DOMAIN networks \union {c} |-> IF x = c THEN net ELSE networks[x]]

Decompose(n, s, m, c) ==
  /\ s \in Unconstrained(networks[n])
  /\ m \in MethodsFor(networks[n].task[s])
  /\ \E inst \in [Positions(m) -> Step \ Steps(networks[n])] :
       /\ \A i, j \in Positions(m) : inst[i] = inst[j] => i = j
       /\ NewNode(c, Decomposed(networks[n], s, m, inst))

Apply(n, s, c) ==
  /\ s \in Unconstrained(networks[n])
  /\ networks[n].task[s] \in Primitive
  /\ isApplicable(networks[n].state, networks[n].task[s])
  /\ NewNode(c, Applied(networks[n], s))

Drop(n) == networks' = [x \in DOMAIN networks \ {n} |-> networks[x]]

Next == \E n \in DOMAIN networks :
          \/ \E c \in NodeId, s \in Steps(networks[n]) :
               \/ Apply(n, s, c)
               \/ \E m \in Method : Decompose(n, s, m, c)
          \/ Drop(n)

Spec == Init /\ [][Next]_networks
==============================================================================
