---------------------------- MODULE Linearization ----------------------------
(***************************************************************************)
(* What progressing a totally primitive task network promises, whatever    *)
(* data structures do it: the steps of a partially ordered network leave   *)
(* it one at a time, each only when none of its predecessors is left.      *)
(* FirstTasks shows that the search for new first tasks in Model::apply    *)
(* implements this.                                                        *)
(***************************************************************************)
EXTENDS Naturals, Sequences

CONSTANTS Step,        \* the plan steps of the network
          Networks     \* the successor lists it may have: members of [Step -> Seq(Step)]

VARIABLES succ,        \* the successor lists of this network
          net          \* the steps not yet progressed

vars == <<succ, net>>

Elems(q) == {q[i] : i \in 1 .. Len(q)}

\* The steps of S that no step of S precedes.
Sources(g, S) == {s \in S : \A p \in S : s \notin Elems(g[p])}

Init == /\ succ \in Networks
        /\ net = Step

Execute(s) == /\ s \in Sources(succ, net)
              /\ net' = net \ {s}
              /\ UNCHANGED succ

Next == \E s \in Step : Execute(s)

Spec == Init /\ [][Next]_vars
=============================================================================
