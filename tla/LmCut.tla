------------------------------- MODULE LmCut -------------------------------
(***************************************************************************)
(* hsLmCut: as long as the goals cost something (getHMax), a set of        *)
(* operators is found one of which every relaxed plan needs; the least     *)
(* cost among them is added to the estimate and subtracted from each.      *)
(*                                                                         *)
(* The cut is what enters the goal zone, the facts from which the goal     *)
(* costs nothing, along the dearest precondition of each operator.         *)
(***************************************************************************)
EXTENDS RelaxedModel

VARIABLES costs, hLmCut,
          heap, unsatPrecs, maxPrec, hMaxVal,            \* getHMax (there hVal)
          maxPrecG, goalZone, zoneStack, cut, precsOfCutNodes

hMaxVars == <<heap, unsatPrecs, maxPrec, hMaxVal>>
cutVars == <<maxPrecG, goalZone, zoneStack, cut, precsOfCutNodes>>
lmCutVars == <<costs, hLmCut, hMaxVars, cutVars>>

NOPREC == <<"none", 0>>

LmCutIdle == /\ costs = <<>> /\ hLmCut = 0
             /\ heap = {} /\ unsatPrecs = <<>> /\ maxPrec = <<>> /\ hMaxVal = <<>>
             /\ maxPrecG = NOPREC /\ goalZone = {} /\ zoneStack = <<>> /\ cut = {} /\ precsOfCutNodes = {}

LmCutRelease == /\ costs' = <<>> /\ hLmCut' = 0
                /\ heap' = {} /\ unsatPrecs' = <<>> /\ maxPrec' = <<>> /\ hMaxVal' = <<>>
                /\ maxPrecG' = NOPREC /\ goalZone' = {} /\ zoneStack' = <<>>
                /\ cut' = {} /\ precsOfCutNodes' = {}

\* getHMax, up to its loop.
StartHMax(s) == /\ unsatPrecs' = [o \in Ops |-> Cardinality(rc.prec[o])]
                /\ maxPrec' = [o \in Ops |-> NOPREC]
                /\ hMaxVal' = [f \in rc.facts |-> IF f \in s THEN 0 ELSE UNREACHABLE]
                /\ heap' = {<<0, f>> : f \in s}
                /\ calc' = "hMax"

StartLmCut(s) == /\ costs' = rc.cost
                 /\ hLmCut' = 0
                 /\ StartHMax(s)
                 /\ UNCHANGED cutVars

IsOnTop(entry) == entry \in heap /\ \A e \in heap : entry[1] <= e[1]

SkipStale == /\ calc = "hMax"
             /\ \E p \in heap : /\ IsOnTop(p) /\ hMaxVal[p[2]] < p[1]
                                /\ heap' = heap \ {p}
             /\ UNCHANGED <<callVars, calc, hval, costs, hLmCut, unsatPrecs, maxPrec, hMaxVal, cutVars>>

\* Mutation: the first precondition that was reached stays the dearest one.
DearerNever(op, prop) == maxPrec[op] = NOPREC

Dearer(op, prop) == maxPrec[op] = NOPREC \/ hMaxVal[maxPrec[op]] < hMaxVal[prop]

Propagate ==
  /\ calc = "hMax"
  /\ \E p \in heap :
       /\ IsOnTop(p) /\ hMaxVal[p[2]] = p[1]
       /\ LET touched == {o \in Ops : p[2] \in rc.prec[o]}
              done == {o \in touched : unsatPrecs[o] = 1}
              dearest == [o \in Ops |-> IF o \in touched /\ Dearer(o, p[2]) THEN p[2] ELSE maxPrec[o]]
              value(o) == hMaxVal[dearest[o]] + costs[o]
              cheaper(f) == {o \in done : f \in rc.add[o] /\ value(o) < hMaxVal[f]}
              best(f) == Min({hMaxVal[f]} \union {value(o) : o \in cheaper(f)})
              taking(f) == {o \in cheaper(f) : \A e \in cheaper(f) : e < o => value(o) < value(e)}
          IN  /\ maxPrec' = dearest
              /\ unsatPrecs' = [o \in Ops |-> IF o \in touched THEN unsatPrecs[o] - 1 ELSE unsatPrecs[o]]
              /\ hMaxVal' = [f \in rc.facts |-> best(f)]
              /\ heap' = (heap \ {p}) \union UNION {{<<value(o), f>> : o \in taking(f)} : f \in rc.facts}
  /\ UNCHANGED <<callVars, calc, hval, costs, hLmCut, cutVars>>

hMax == Max({hMaxVal[f] : f \in gset})

\* The dearest goal; which of several depends on the order of the goals.
DearestGoals == {f \in gset : hMaxVal[f] = hMax}

hMaxDone == calc = "hMax" /\ heap = {}

\* The first call tells that there is no relaxed plan.
Unreachable == /\ hMaxDone /\ hMax = UNREACHABLE
               /\ hval' = UNREACHABLE
               /\ calc' = "done"
               /\ UNCHANGED <<callVars, lmCutVars>>

IsFree(value) == value = 0

CutsDone == /\ hMaxDone /\ IsFree(hMax)
            /\ hval' = hLmCut
            /\ calc' = "done"
            /\ UNCHANGED <<callVars, lmCutVars>>

StartCut == /\ hMaxDone /\ hMax # UNREACHABLE /\ ~IsFree(hMax)
            /\ maxPrecG' \in DearestGoals
            /\ zoneStack' = <<maxPrecG'>>
            /\ goalZone' = {} /\ cut' = {} /\ precsOfCutNodes' = {}
            /\ calc' = "goalZone"
            /\ UNCHANGED <<callVars, hval, costs, hLmCut, hMaxVars>>

Producers(fact) == {o \in Ops : fact \in rc.add[o] /\ unsatPrecs[o] = 0}

\* Mutation: facts enter the goal zone again and again.
EnterAgain(z, op) ==
  LET p == maxPrec[op]
  IN  IF costs[op] = 0
        THEN [z EXCEPT !.zone = @ \union {p}, !.precs = @ \ {p}, !.stack = Append(@, p)]
        ELSE [z EXCEPT !.cut = @ \union {op}, !.precs = @ \union {p}]

\* calcGoalZone, for one producer of the fact on top, by their numbers: z holds the zone, the stack, the cut and
\* precsOfCutNodes.  An operator that has entered the cut stays there.
Enter(z, op) ==
  LET p == maxPrec[op]
  IN  IF p \in z.zone THEN z
      ELSE IF costs[op] = 0
        THEN [z EXCEPT !.zone = @ \union {p}, !.precs = @ \ {p}, !.stack = Append(@, p)]
        ELSE [z EXCEPT !.cut = @ \union {op}, !.precs = @ \union {p}]

CalcGoalZone ==
  /\ calc = "goalZone" /\ zoneStack # <<>>
  /\ LET start == [zone |-> goalZone, stack |-> Front(zoneStack), cut |-> cut, precs |-> precsOfCutNodes]
         producers == Producers(Last(zoneStack))
         entered[n \in 0 .. numOps] ==
           IF n = 0 THEN start
           ELSE IF n - 1 \in producers THEN Enter(entered[n - 1], n - 1) ELSE entered[n - 1]
         z == entered[numOps]
     IN  /\ goalZone' = z.zone /\ zoneStack' = z.stack
         /\ cut' = z.cut /\ precsOfCutNodes' = z.precs
  /\ UNCHANGED <<callVars, calc, hval, costs, hLmCut, hMaxVars, maxPrecG>>

\* The facts a backward search from f meets outside the goal zone.
Backward(f) ==
  LET before(F) == F \union ({maxPrec[o] : o \in UNION {Producers(x) : x \in F}} \ goalZone)
      search[F \in SUBSET rc.facts] == IF before(F) = F THEN F ELSE search[before(F)]
  IN  search[{f}]

NotReachedFromS0 ==
  {f \in precsOfCutNodes \ s0set :
     ~\E x \in Backward(f) : \E o \in Producers(x) : maxPrec[o] \in s0set \ goalZone}

\* The loop that erases from the cut iterates over a bucketSet: getNext stops when it has
\* returned as many elements as the set has left.
EraseFrom(operators, bad) ==
  LET visit(v, o) == IF v.seen = Cardinality(v.left) /\ v.seen > 0 THEN v
                     ELSE [left |-> IF maxPrec[o] \in bad THEN v.left \ {o} ELSE v.left,
                           seen |-> v.seen + 1]
      visited[n \in 0 .. numOps] ==
        IF n = 0 THEN [left |-> operators, seen |-> 0]
        ELSE IF n - 1 \in operators THEN visit(visited[n - 1], n - 1) ELSE visited[n - 1]
  IN  visited[numOps].left

\* forwardReachabilityDFS
CheckForwardReachability ==
  /\ calc = "goalZone" /\ zoneStack = <<>>
  /\ cut' = EraseFrom(cut, NotReachedFromS0)
  /\ calc' = "cut"
  /\ UNCHANGED <<callVars, hval, costs, hLmCut, hMaxVars, maxPrecG, goalZone, zoneStack, precsOfCutNodes>>

minCosts == Min({costs[o] : o \in cut})

Subtract == [o \in Ops |-> IF o \in cut THEN costs[o] - minCosts ELSE costs[o]]

TakeCosts == /\ calc = "cut"
             /\ hLmCut' = hLmCut + minCosts
             /\ costs' = Subtract
             /\ StartHMax(s0set)
             /\ UNCHANGED <<callVars, hval, cutVars>>

LmCutNext == \/ SkipStale \/ Propagate \/ Unreachable \/ CutsDone \/ StartCut
             \/ CalcGoalZone \/ CheckForwardReachability \/ TakeCosts
-----------------------------------------------------------------------------
\* No relaxed plan gets by without an operator of the cut, and each of them still has costs
\* to take: otherwise the loop would not end.  (The engine asserts the latter.)
CutIsLandmark ==
  calc = "cut" => /\ ~(gset \subseteq Closure(s0set, Ops \ cut))
                  /\ \A o \in cut : costs[o] > 0
=============================================================================
