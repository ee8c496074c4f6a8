------------------------------- MODULE AddFF -------------------------------
(***************************************************************************)
(* hsAddFF: costs of facts are propagated from a queue, cheapest first,    *)
(* until all goals are reached.  Add sums the costs of preconditions up;   *)
(* FF takes the dearest, and counts the operators of a relaxed plan.       *)
(* The queue is the heap of pairs: among entries with the same key any may *)
(* come out first.                                                         *)
(***************************************************************************)
EXTENDS RelaxedModel

VARIABLES heuristic,    \* sasAdd or sasFF
          queue, numSatPrecs, hValOp, hValProp, reachedBy, numGoals, markedOps

addFFVars == <<queue, numSatPrecs, hValOp, hValProp, reachedBy, numGoals, markedOps>>

AddFFIdle == /\ queue = {}
             /\ numSatPrecs = <<>> /\ hValOp = <<>> /\ hValProp = <<>> /\ reachedBy = <<>>
             /\ numGoals = 0 /\ markedOps = {}

AddFFRelease == /\ queue' = {}
                /\ numSatPrecs' = <<>> /\ hValOp' = <<>> /\ hValProp' = <<>> /\ reachedBy' = <<>>
                /\ numGoals' = 0 /\ markedOps' = {}

\* The call, up to the loop over the queue; for a set goals that is not empty.
StartAddFF(s, goals) ==
  /\ numSatPrecs' = [o \in Ops |-> Cardinality(rc.prec[o])]
  /\ hValOp' = rc.cost
  /\ hValProp' = [f \in rc.facts |-> IF f \in s THEN 0 ELSE UNREACHABLE]
  /\ reachedBy' = [f \in rc.facts |-> NOACTION]
  /\ queue' = {<<0, f>> : f \in s}
  /\ numGoals' = Cardinality(goals)
  /\ markedOps' = {}
  /\ calc' = "addFF"

IsTop(entry) == entry \in queue /\ \A e \in queue : entry[1] <= e[1]

\* An entry for a fact that has become cheaper since.
PopStale == /\ calc = "addFF"
            /\ \E p \in queue : /\ IsTop(p) /\ hValProp[p[2]] < p[1]
                                /\ queue' = queue \ {p}
            /\ UNCHANGED <<callVars, calc, hval, heuristic, numSatPrecs, hValOp, hValProp, reachedBy,
                           numGoals, markedOps>>

IsLastGoal(f) == f \in gset /\ numGoals = 1

\* The new cost of an operator when its precondition is reached with cost pVal.
Raised(op, pVal) == IF heuristic = "sasFF" THEN Max({hValOp[op], rc.cost[op] + pVal})
                    ELSE hValOp[op] + pVal

\* The operators that have reached all their preconditions, by their numbers: each takes
\* over the facts it makes cheaper than anything before it.
PopFact ==
  /\ calc = "addFF"
  /\ \E p \in queue :
       /\ IsTop(p) /\ hValProp[p[2]] = p[1] /\ ~IsLastGoal(p[2])
       /\ LET touched == {o \in Ops : p[2] \in rc.prec[o]}
              done == {o \in touched : numSatPrecs[o] = 1}
              value == [o \in Ops |-> IF o \in touched THEN Raised(o, p[1]) ELSE hValOp[o]]
              cheaper(f) == {o \in done : f \in rc.add[o] /\ value[o] < hValProp[f]}
              taking(f) == {o \in cheaper(f) : \A e \in cheaper(f) : e < o => value[o] < value[e]}
          IN  /\ hValOp' = value
              /\ numSatPrecs' = [o \in Ops |-> IF o \in touched THEN numSatPrecs[o] - 1 ELSE numSatPrecs[o]]
              /\ hValProp' = [f \in rc.facts |-> Min({hValProp[f]} \union {value[o] : o \in cheaper(f)})]
              /\ reachedBy' = [f \in rc.facts |-> IF taking(f) = {} THEN reachedBy[f] ELSE Max(taking(f))]
              /\ queue' = (queue \ {p}) \union UNION {{<<value[o], f>> : o \in taking(f)} : f \in rc.facts}
              /\ numGoals' = IF p[2] \in gset THEN numGoals - 1 ELSE numGoals
  /\ UNCHANGED <<callVars, calc, hval, heuristic, markedOps>>

\* Mutation: what the first operators need is not followed.
MarkGoalsOnly == {reachedBy[f] : f \in gset} \ {NOACTION}

\* getFF: the operators that reach the goals, those that reach their preconditions, and so on.
Mark == LET needed(F) == F \union UNION {rc.prec[reachedBy[f]] : f \in {x \in F : reachedBy[x] # NOACTION}}
            marked[F \in SUBSET rc.facts] == IF needed(F) = F THEN F ELSE marked[needed(F)]
        IN  {reachedBy[f] : f \in marked[gset]} \ {NOACTION}

PopLastGoal ==
  /\ calc = "addFF"
  /\ \E p \in queue :
       /\ IsTop(p) /\ hValProp[p[2]] = p[1] /\ IsLastGoal(p[2])
       /\ queue' = queue \ {p}
  /\ numGoals' = 0
  /\ markedOps' = IF heuristic = "sasFF" THEN Mark ELSE {}
  /\ hval' = IF heuristic = "sasFF" THEN CostsOf(rc.cost, Mark)
             ELSE FoldSet(LAMBDA f, sum : sum + hValProp[f], 0, gset)
  /\ calc' = "done"
  /\ UNCHANGED <<callVars, heuristic, numSatPrecs, hValOp, hValProp, reachedBy>>

QueueEmpty == /\ calc = "addFF" /\ queue = {}
              /\ hval' = UNREACHABLE
              /\ calc' = "done"
              /\ UNCHANGED <<callVars, heuristic, addFFVars>>

AddFFNext == PopStale \/ PopFact \/ PopLastGoal \/ QueueEmpty
-----------------------------------------------------------------------------
\* The marked operators are a relaxed plan: each can be applied in some order, without
\* deletes, and the goals are reached.  (Operators that reach each other's preconditions
\* at no cost would not be one.)
RelaxedPlanWorks ==
  calc = "done" /\ markedOps # {} =>
    /\ gset \subseteq Closure(s0set, markedOps)
    /\ \A o \in markedOps : rc.prec[o] \subseteq Closure(s0set, markedOps)
=============================================================================
