------------------------- MODULE RelaxedComposition -------------------------
(***************************************************************************)
(* The estimates of progression search (hhRC2): what a network still costs *)
(* is estimated by a classical problem without deletes, in which methods   *)
(* compose tasks bottom up.  An action may only be used if the network can *)
(* be decomposed into it.  The preprocessing runs as main calls it; then   *)
(* any node of a search may be evaluated.                                  *)
(*                                                                         *)
(* A node's network is a sequence: its steps are totally ordered, or not   *)
(* ordered at all.  Which steps a node reaches through the successors of   *)
(* its first ones is the matter of Progression.                            *)
(***************************************************************************)
EXTENDS ImpliedDistances, AddFF, LmCut

CONSTANT OptionsFor(_)    \* what a problem is run with: [heuristic, estimate, correctTaskCount]

\* Problems also give the facts, the lists of the actions, whether methods order subtasks,
\* and a bound on the steps of networks.
ASSUME PlanningAssumption ==
  \A p \in Problems :
    /\ \A lists \in {p.precLists, p.addLists, p.delLists} :
         lists \in [0 .. p.numActions - 1 -> SUBSET p.facts]
    /\ IsFiniteSet(p.facts) /\ p.s0 \subseteq p.facts /\ p.gList \subseteq p.facts
    /\ p.ordered \in BOOLEAN /\ p.maxSteps \in Nat

\* The estimates are added up in integers: no operator is so dear that one of each, and one more for each step
\* of a network, would be too much.
ASSUME CostsFit ==
  \A p \in Problems : \A price \in {1} \union {p.actionCosts[a] : a \in 0 .. p.numActions - 1} :
    price * (p.numActions + Len(p.methods) + p.maxSteps) < UNREACHABLE

VARIABLES options,
          state, net    \* the node

nodeVars == <<state, net>>
vars == <<htn, phase, graphVars, distanceVars, callVars, calc, hval, heuristic, addFFVars, lmCutVars,
          options, nodeVars>>

heuristicVars == <<callVars, calc, hval, heuristic, addFFVars, lmCutVars>>

Init == /\ GraphInit /\ DistanceInit /\ AddFFIdle /\ LmCutIdle
        /\ rc = NoModel /\ s0set = {} /\ gset = {} /\ calc = "none" /\ hval = 0
        /\ options \in OptionsFor(htn)
        /\ heuristic = options.heuristic
        /\ state = {} /\ net = <<>>

\* Costs without counting tasks are the only combination with an admissible correction.
useAdmissibleCostEstimate == options.correctTaskCount /\ options.estimate = "estCOSTS"

\* The constructor only needs the implied distances for the other corrections.
needsDistances == options.correctTaskCount /\ ~useAdmissibleCostEstimate

Prepare == /\ \/ GraphNext /\ UNCHANGED distanceVars
              \/ needsDistances /\ DistanceNext
           /\ UNCHANGED <<heuristicVars, options, nodeVars>>
-----------------------------------------------------------------------------
t2tdr(a) == <<"tdr", a>>
t2bur(t) == <<"bur", t>>
StateFact(f) == <<"fact", f>>
StateFacts(F) == {StateFact(f) : f \in F}

Actions == 0 .. htn.numActions - 1
MethodAction(m) == htn.numActions + m - 1

ComposedOf(m) == {t2bur(t) : t \in ToSet(subTasks(m))}

\* getRCmodelSTRIPS
RCModel ==
  LET Operators == 0 .. htn.numActions + Len(htn.methods) - 1
      methodOf(o) == o - htn.numActions + 1
  IN  [facts |-> StateFacts(htn.facts) \union {t2tdr(a) : a \in Actions} \union {t2bur(t) : t \in Tasks},
       prec |-> [o \in Operators |-> IF o \in Actions THEN StateFacts(htn.precLists[o]) \union {t2tdr(o)}
                                     ELSE ComposedOf(methodOf(o))],
       add |-> [o \in Operators |-> IF o \in Actions THEN StateFacts(htn.addLists[o]) \union {t2bur(o)}
                                    ELSE {t2bur(htn.methods[methodOf(o)].task)}],
       cost |-> [o \in Operators |->
                   IF o \in Actions
                     THEN IF options.estimate = "estDISTANCE" THEN 1 ELSE htn.actionCosts[o]
                     ELSE IF options.estimate = "estCOSTS" THEN 0 ELSE 1]]

\* The heuristic is constructed, and the search starts.
Construct == /\ \/ phase = "prepared" /\ ~needsDistances
                \/ phase = "ready"
             /\ phase' = "search"
             /\ rc' = RCModel
             /\ state' = htn.s0
             /\ net' = <<htn.initialTask>>
             /\ UNCHANGED <<htn, graphVars, distanceVars, s0set, gset, calc, hval, heuristic, addFFVars,
                            lmCutVars, options>>

NewNode == /\ phase = "search" /\ calc \in {"none", "valued"}
           /\ s0set' = {} /\ gset' = {} /\ calc' = "none" /\ hval' = 0
           /\ AddFFRelease /\ LmCutRelease
           /\ UNCHANGED <<htn, phase, graphVars, distanceVars, rc, heuristic, options>>

FirstSteps(n) == {i \in DOMAIN n : htn.ordered => i = 1}

Replaced(n, i, list) == SubSeq(n, 1, i - 1) \o list \o SubSeq(n, i + 1, Len(n))

Decompose == /\ \E i \in FirstSteps(net) : \E m \in taskToMethods(net[i]) :
                  /\ Len(net) - 1 + Len(subTasks(m)) <= htn.maxSteps
                  /\ net' = Replaced(net, i, subTasks(m))
             /\ NewNode
             /\ UNCHANGED state

Applicable(a, F) == a \in Actions /\ htn.precLists[a] \subseteq F

Applied(a, F) == (F \ htn.delLists[a]) \union htn.addLists[a]

Apply == /\ \E i \in FirstSteps(net) :
              /\ Applicable(net[i], state)
              /\ state' = Applied(net[i], state)
              /\ net' = Replaced(net, i, <<>>)
         /\ NewNode

\* Mutation: what is behind the first steps is forgotten.
ActionsOfFirst == UNION {reachable[net[i]] : i \in FirstSteps(net)}

\* The actions into which the first steps and those behind them can be decomposed.
ReachableActions == UNION {reachable[net[i]] : i \in DOMAIN net}

\* setHeuristicValue, up to the call of the classical heuristic.
Evaluate ==
  /\ phase = "search" /\ calc = "none"
  /\ s0set' = StateFacts(state) \union {t2tdr(a) : a \in ReachableActions}
  /\ gset' = StateFacts(htn.gList) \union {t2bur(t) : t \in ToSet(net)}
  /\ CASE gset' = {} -> calc' = "done" /\ UNCHANGED <<addFFVars, lmCutVars>>
       [] gset' # {} /\ heuristic # "lmCut" -> StartAddFF(s0set', gset') /\ UNCHANGED lmCutVars
       [] gset' # {} /\ heuristic = "lmCut" -> StartLmCut(s0set') /\ UNCHANGED addFFVars
  /\ UNCHANGED <<htn, phase, graphVars, distanceVars, rc, hval, heuristic, options, nodeVars>>

Count(t) == Cardinality({i \in DOMAIN net : net[i] = t})

\* Mutation: every occurrence is counted once more.
AdditionalOne(t) == Count(t)

\* The occurrences that the relaxed problem does not see.
Additional(t) == Count(t) - 1

Correction(t) == IF useAdmissibleCostEstimate
                   THEN IF t \in Actions THEN htn.actionCosts[t] ELSE 0
                 ELSE IF options.estimate = "estDISTANCE" THEN minImpliedDistance[t] ELSE 0

Corrected ==
  hval + Total(htn.numTasks, [t \in Tasks |-> IF t \in ToSet(net) THEN Correction(t) * Additional(t) ELSE 0])

\* The rest of setHeuristicValue.
Correct ==
  /\ calc = "done"
  /\ hval' = IF options.correctTaskCount /\ hval # UNREACHABLE THEN Corrected ELSE hval
  /\ calc' = "valued"
  /\ UNCHANGED <<htn, phase, graphVars, distanceVars, callVars, heuristic, addFFVars, lmCutVars, options,
                 nodeVars>>

Estimating == \/ AddFFNext /\ UNCHANGED <<htn, phase, graphVars, distanceVars, lmCutVars, options, nodeVars>>
              \/ LmCutNext /\ UNCHANGED <<htn, phase, graphVars, distanceVars, heuristic, addFFVars, options,
                                          nodeVars>>
              \/ Correct

Next == Prepare \/ Construct \/ Decompose \/ Apply \/ Evaluate \/ Estimating

Spec == Init /\ [][Next]_vars

\* A pass that has started runs on; nobody has to search.
FairSpec == Spec /\ WF_vars(Prepare \/ Construct) /\ WF_vars(Estimating)
-----------------------------------------------------------------------------
CONSTANT MaxPlan    \* bound on the steps of the plans that are looked for

ASSUME MaxPlanAssumption == MaxPlan \in Nat

\* What the plans of at most so many steps from the node cost: every decomposition and every
\* action counts as the relaxed problem counts it.
PlanCosts ==
  LET within[steps \in 0 .. MaxPlan] ==
        [F \in SUBSET htn.facts |-> [n \in Seq(Tasks) |->
          IF n = <<>> THEN IF htn.gList \subseteq F THEN {0} ELSE {}
          ELSE IF steps = 0 THEN {}
          ELSE (UNION {Plus(rc.cost[n[i]], within[steps - 1][Applied(n[i], F)][Replaced(n, i, <<>>)]) :
                         i \in {j \in FirstSteps(n) : Applicable(n[j], F)}})
               \union (UNION {Plus(rc.cost[MethodAction(p[2])],
                                  within[steps - 1][F][Replaced(n, p[1], subTasks(p[2]))]) :
                                p \in {q \in FirstSteps(n) \X Methods : q[2] \in taskToMethods(n[q[1]])}})]]
  IN  within[MaxPlan][state][net]

\* A node that is given up has no plan: what the heuristic takes for impossible is.
DeadEndsAreDead == calc = "valued" /\ hval = UNREACHABLE => PlanCosts = {}

\* LM-Cut never estimates too much, also with the correction for tasks that occur more than
\* once, if it is the one for costs.
Admissible ==
  calc = "valued" /\ hval # UNREACHABLE /\ heuristic = "lmCut" /\ ~needsDistances =>
    \A cost \in PlanCosts : hval <= cost

\* The preprocessing, Tarjan's algorithm and both lists that grow while they are worked off, comes to
\* an end, and so does every evaluation, with all the cuts that it takes.
PassesEnd == <>(phase \in {"sat", "search"}) /\ ((calc # "none") ~> (calc = "valued"))
=============================================================================
