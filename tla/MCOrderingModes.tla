--------------------------- MODULE MCOrderingModes ---------------------------
(* Methods for the initial task and for one other task, which may recur. *)
EXTENDS OrderingModes

\* Orderings of n subtasks that respect their numbers: every acyclic one up to renaming.
Upward(n) == SUBSET {e \in (1 .. n) \X (1 .. n) : e[1] < e[2]}

MethodsFor(t, n, subs) ==
  {[task |-> t, size |-> n, given |-> R, sub |-> f] : R \in Upward(n), f \in subs}

\* All orderings, cyclic ones included, of three subtasks those with up to three pairs.
AnyOrdering(t, n) ==
  {[task |-> t, size |-> n, given |-> R, sub |-> [i \in 1 .. n |-> "act"]] :
     R \in IF n < 3 THEN SUBSET ((1 .. n) \X (1 .. n))
           ELSE {S \in SUBSET {p \in (1 .. n) \X (1 .. n) : p[1] # p[2]} : Cardinality(S) <= 3}}

\* The initial task has methods of up to four subtasks, at most one of them to be
\* decomposed, and none of four, which have four orderings at least; that task has methods of up to two.
MCMethods ==
  UNION {MethodsFor("top", n, {f \in [1 .. n -> {"act", "part"}] :
                                 Cardinality({i \in 1 .. n : f[i] = "part"}) <= 1}) : n \in 1 .. 3}
    \union {m \in MethodsFor("top", 4, {[i \in 1 .. 4 |-> "act"]}) : Cardinality(m.given) >= 4}
    \union MethodsFor("part", 2, [1 .. 2 -> {"act", "part"}])
    \union AnyOrdering("top", 1) \union AnyOrdering("top", 2) \union AnyOrdering("top", 3)
    \union MethodsFor("part", 1, {[i \in {1} |-> "act"]})
=============================================================================
