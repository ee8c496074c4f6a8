------------------------- MODULE SymbolicAutomaton -------------------------
(***************************************************************************)
(* build_automaton of symbolic_search/automaton.cpp, up to the extraction  *)
(* of the plan.  A stack of tasks that remain is a path in a graph: an     *)
(* edge from vertex 0 is the task to do next, vertex 1 is the end, and     *)
(* every method with two subtasks has a vertex, from which the second one  *)
(* goes on.  The states in which a path can be followed are attached to    *)
(* the edges, separately for every layer of the search: a layer has costs  *)
(* and a depth, 0 for actions with costs and above for everything else.    *)
(* A decision diagram is the set of pairs it stands for:                   *)
(*   <<s, p>> on an edge from 0: in state s the path can be followed, and  *)
(*            p was the state when the target of the edge was entered;     *)
(*   <<s, p>> on an edge from a method's vertex: the method was applied in *)
(*            s, and p is the state when the target was entered;           *)
(*   <<s, p>> in eps of a vertex: what leads there from p ends in s.       *)
(* Vertex 1 is entered in no particular state: p is any state there.       *)
(***************************************************************************)
EXTENDS Integers, Sequences, SequencesExt, FiniteSetsExt

CONSTANTS State,
          Problems,    \* [numActions, actionCosts, image, methods, initialTask, init, goal]
          MaxCost, MaxDepth    \* no layers beyond these are looked at

ASSUME ProblemsAssumption ==
  /\ MaxCost \in Nat /\ MaxDepth \in Nat
  /\ \A q \in Problems :
       /\ q.actionCosts \in [0 .. q.numActions - 1 -> Nat]
       /\ q.image \in [0 .. q.numActions - 1 -> SUBSET (State \X State)]
       /\ \A m \in DOMAIN q.methods : Len(q.methods[m].subTasks) \in 1 .. 2

VARIABLES problem,
          edges,             \* <<from, task, to, cost, depth>> |-> pairs, where one was made
          edgesExtraCost,    \* <<from, task, to, extra cost>> |-> pairs
          eps,               \* <<vertex, cost, depth>> |-> pairs
          epsInserted,       \* the keys of eps with an entry in eps_inserted
          queue,             \* <<cost, depth>> |-> <<task, to>> |-> source costs: prim_q is
                             \* depth 0, abst_q the rest
          currentCost, currentDepth,
          current_queue,     \* what is left of the layer: <<task, to, sourceCost>>
          work,              \* the entry that is being processed
          status,
          least              \* not in the code: what the automaton should find, see below

vars == <<problem, edges, edgesExtraCost, eps, epsInserted, queue, currentCost, currentDepth,
          current_queue, work, status, least>>

Methods(task) == SetToSortSeq({m \in DOMAIN problem.methods : problem.methods[m].task = task}, <)
IsAction(task) == task < problem.numActions
HasCosts(task) == IsAction(task) /\ problem.actionCosts[task] # 0

\* Vertices 0 and 1 are the start and the end.
VertexOf(m) == m + 1
Vertices(q) == {0, 1} \union {m + 1 : m \in {k \in DOMAIN q.methods : Len(q.methods[k].subTasks) = 2}}

First(m) == problem.methods[m].subTasks[1]
Second(m) == problem.methods[m].subTasks[2]
-----------------------------------------------------------------------------
At(f, k) == IF k \in DOMAIN f THEN f[k] ELSE {}

\* f with these pairs added at k, which is made if need be (ensureBDD).
Added(f, k, pairs) == [j \in DOMAIN f \union {k} |-> IF j = k THEN At(f, k) \union pairs ELSE f[j]]

Here(from, task, to) == <<from, task, to, currentCost, currentDepth>>

\* Order of std::map over tuples of numbers.
RECURSIVE Before(_, _)
Before(x, y) == /\ x # <<>>
                /\ \/ Head(x) < Head(y)
                   \/ Head(x) = Head(y) /\ Before(Tail(x), Tail(y))

FirstOf(S) == CHOOSE x \in S : \A y \in S \ {x} : Before(x, y)

RECURSIVE InOrder(_)
InOrder(S) == IF S = {} THEN <<>> ELSE <<FirstOf(S)>> \o InOrder(S \ {FirstOf(S)})

\* Is a task queued again that brings nothing new?  Only with entries that are there, or for its costs.
Queued(task, entries, insertOnlyIfNonEmpty) ==
  ~insertOnlyIfNonEmpty \/ entries # <<>> \/ HasCosts(task)

\* addQ: cost is the argument of this name, and it shows up again in the source cost.
\* Equal source costs of an entry are handled once.
AddQ(task, to, extraCost, cost, insertOnlyIfNonEmpty) ==
  LET layer == IF HasCosts(task) THEN <<currentCost + extraCost + problem.actionCosts[task], 0>>
               ELSE IF extraCost = 0 THEN <<currentCost, currentDepth + 1>>
               ELSE <<currentCost + extraCost, 1>>
      source == IF extraCost # cost THEN currentCost + extraCost ELSE currentCost
      entries == IF layer \in DOMAIN queue THEN queue[layer] ELSE <<>>
      old == IF <<task, to>> \in DOMAIN entries THEN entries[<<task, to>>] ELSE <<>>
      new == IF Queued(task, old, insertOnlyIfNonEmpty) /\ source \notin Range(old)
             THEN Append(old, source) ELSE old
      changed == [e \in DOMAIN entries \union {<<task, to>>} |->
                    IF e = <<task, to>> THEN new ELSE entries[e]]
  IN  queue' = [l \in DOMAIN queue \union {layer} |-> IF l = layer THEN changed ELSE queue[l]]
-----------------------------------------------------------------------------
(* What it should find: by the meaning of a decomposition, not of the graph. *)

None == MaxCost + 1
Tasks(q) == (0 .. q.numActions - 1) \union {q.methods[m].task : m \in DOMAIN q.methods}
Least(S) == Min(S \union {None})

\* Least costs of a task <<task, s, s2>> from one state to another, found in rounds.
RECURSIVE RunCosts(_, _)
RunCosts(q, c) ==
  LET Run(m, s, s2) ==
        IF Len(m.subTasks) = 1 THEN c[<<m.subTasks[1], s, s2>>]
        ELSE Least({c[<<m.subTasks[1], s, between>>] + c[<<m.subTasks[2], between, s2>>] : between \in State})
      better == [x \in DOMAIN c |->
        Least({c[x]} \union {Run(m, x[2], x[3]) : m \in {n \in Range(q.methods) : n.task = x[1]}})]
  IN  IF better = c THEN c ELSE RunCosts(q, better)

Runs(q) == RunCosts(q, [x \in Tasks(q) \X State \X State |->
                          IF x[1] < q.numActions /\ <<x[2], x[3]>> \in q.image[x[1]]
                          THEN q.actionCosts[x[1]] ELSE None])

\* Least costs at which a task is next: <<to, p, task, s>> says where it leads, in which state that was
\* entered, and the state now.
RECURSIVE PlaceCosts(_, _, _)
PlaceCosts(q, runs, c) ==
  LET After(m, x) ==
        (IF m.subTasks[Len(m.subTasks)] # x[3] THEN {}
         ELSE IF Len(m.subTasks) = 1 THEN {c[<<x[1], x[2], m.task, x[4]>>]}
         ELSE {c[<<x[1], x[2], m.task, s>>] + runs[<<m.subTasks[1], s, x[4]>>] : s \in State})
      Entered(m, x) == IF x[4] = x[2] /\ q.methods[m].subTasks[1] = x[3]
                       THEN {c[<<v, p, q.methods[m].task, x[4]>>] : v \in Vertices(q) \ {0}, p \in State}
                       ELSE {}
      better == [x \in DOMAIN c |->
        Least({c[x]} \union UNION {After(m, x) : m \in Range(q.methods)}
              \union IF x[1] = 1 THEN {} ELSE Entered(x[1] - 1, x))]
  IN  IF better = c THEN c ELSE PlaceCosts(q, runs, better)

Places(q, runs) ==
  PlaceCosts(q, runs, [x \in (Vertices(q) \ {0}) \X State \X Tasks(q) \X State |->
                         IF x[1] = 1 /\ x[3] = q.initialTask /\ x[4] = q.init THEN 0 ELSE None])

\* Least costs at which a vertex entered in p is reached in s.
Meaning(q) ==
  LET runs == Runs(q)
      places == Places(q, runs)
  IN  [runs |-> runs, places |-> places,
       ends |-> [x \in (Vertices(q) \ {0}) \X State \X State |->
                   Least({places[<<x[1], x[2], t, s>>] + runs[<<t, s, x[3]>>] : t \in Tasks(q), s \in State})]]
-----------------------------------------------------------------------------
Nothing == [task |-> 0, to |-> 0, last |-> <<0, 0>>, methods |-> <<>>, inserts |-> {}, entering |-> 0]

Idle == work.inserts = {} /\ work.entering = 0 /\ work.methods = <<>>

Init ==
  /\ problem \in Problems
  /\ edges = [k \in {<<0, problem.initialTask, 1, 0, 0>>} |-> {problem.init} \X State]
  /\ edgesExtraCost = <<>>
  /\ eps = [k \in {<<v, 0, 0>> : v \in Vertices(problem)} |-> {}]
  /\ epsInserted = {}
  /\ queue = [l \in {<<0, 0>>, <<0, 1>>} |->
                IF l = <<0, 0>> THEN <<>> ELSE [e \in {<<problem.initialTask, 1>>} |-> <<0>>]]
  /\ currentCost = 0 /\ currentDepth = 0
  /\ current_queue = <<>>
  /\ work = Nothing
  /\ status = "search"
  /\ least = Meaning(problem)

\* The states that are attached to the entry, from the layer before this one, or from the
\* last of the layers of its source cost.  Where there is none of this cost, the code
\* goes to the last element of an empty map.
Source(task, to, sourceCost) ==
  IF currentDepth # 0 THEN {<<currentCost, currentDepth - 1>>}
  ELSE LET depths == {d \in {k[5] : k \in DOMAIN edges} :
                        <<0, task, to, sourceCost, d>> \in DOMAIN edges}
       IN  IF depths = {} THEN {} ELSE {<<sourceCost, Max(depths)>>}

Undefined == status' = "undefined" /\ UNCHANGED <<edges, edgesExtraCost, eps, epsInserted, queue, work>>

\* Mutation: extra costs are left out.
TargetHere(task, to, extraCost) == Here(0, task, to)

\* What is inserted at edges of vertex 0, with these extra costs.
TargetOf(task, to, extraCost) ==
  <<0, task, to, currentCost + extraCost, IF extraCost = 0 THEN currentDepth ELSE 0>>

\* Mutation: only edges that were made at other costs.
ContinuingOthers(to, last) ==
  {<<k[2], k[3]>> : k \in {j \in DOMAIN edges : j[1] = to /\ <<j[4], j[5]>> = last /\ j[4] # currentCost}}

\* Edges of the action's target that were there in the layer that it started from, to be
\* followed after it.
Continuing(to, last) ==
  {<<k[2], k[3]>> : k \in {j \in DOMAIN edges : j[1] = to /\ <<j[4], j[5]>> = last}}

\* States after the action, states before the method, states at its target; without those
\* that the edge has already.
Continued(next, to, last, e) ==
  {x \in State \X State \X State :
     /\ <<x[1], x[2]>> \in next
     /\ <<x[2], x[3]>> \in edges[<<to, e[1], e[2], last[1], last[2]>>]
     /\ <<x[1], x[3]>> \notin At(edges, Here(0, e[1], e[2]))}

ExtraCosts(to, e) == {k[4] : k \in {j \in DOMAIN edgesExtraCost : <<j[1], j[2], j[3]>> = <<to, e[1], e[2]>>}}

\* Each part goes to the edge with the least extra cost noted for it, the rest last.
ContinueWith(next, to, last, e) ==
  LET all == Continued(next, to, last, e)
      Has(x, c) == <<x[2], x[3]>> \in edgesExtraCost[<<to, e[1], e[2], c>>]
      CostOf(x) == LET cs == {c \in ExtraCosts(to, e) : Has(x, c)}
                   IN  IF cs = {} THEN -1 ELSE Min(cs)
  IN  {[at |-> <<e[1], e[2], IF c = -1 THEN 1 ELSE 0, c>>, task |-> e[1], to |-> e[2],
        extraCost |-> IF c = -1 THEN 0 ELSE c, cost |-> c, rest |-> c = -1,
        pairs |-> {<<x[1], x[3]>> : x \in {y \in all : CostOf(y) = c}}] : c \in {CostOf(x) : x \in all}}

\* An action is applied to all states at once.
Execute(task, to, last, state) ==
  LET next == {<<t[2], x[2]>> : <<t, x>> \in {z \in problem.image[task] \X state : z[1][1] = z[2][1]}}
      here == <<to, currentCost, currentDepth>>
      continuing == Continuing(to, last)
      made == {Here(0, e[1], e[2]) : e \in continuing}
  IN  /\ UNCHANGED <<edgesExtraCost, epsInserted, queue>>
      /\ IF next \subseteq eps[here]
         THEN UNCHANGED <<edges, eps, work, status>>
         ELSE /\ eps' = [eps EXCEPT ![here] = @ \union next]
              /\ edges' = [k \in DOMAIN edges \union made |-> At(edges, k)]
              /\ work' = [Nothing EXCEPT !.to = to,
                            !.inserts = UNION {ContinueWith(next, to, last, e) : e \in continuing}]
              /\ status' = IF to = 1 /\ \E x \in next : x[1] \in problem.goal THEN "goal" ELSE status

\* The next entry of the layer's queue.
Take ==
  LET task == Head(current_queue)[1]
      to == Head(current_queue)[2]
      sources == Source(task, to, Head(current_queue)[3])
  IN  /\ status = "search" /\ Idle /\ current_queue # <<>>
      /\ current_queue' = Tail(current_queue)
      /\ UNCHANGED <<problem, least, currentCost, currentDepth>>
      /\ IF sources = {} \/ \E last \in sources : <<0, task, to, last[1], last[2]>> \notin DOMAIN edges
         THEN Undefined
         ELSE \E last \in sources :
                LET state == edges[<<0, task, to, last[1], last[2]>>]
                IN  IF state = {}
                    THEN /\ status' = "state attached to edge is empty"
                         /\ UNCHANGED <<edges, edgesExtraCost, eps, epsInserted, queue, work>>
                    ELSE IF IsAction(task) THEN Execute(task, to, last, state)
                    ELSE /\ work' = [Nothing EXCEPT !.task = task, !.to = to, !.last = last,
                                                    !.methods = Methods(task)]
                         /\ UNCHANGED <<edges, edgesExtraCost, eps, epsInserted, queue, status>>

\* One insertion at an edge of vertex 0.  What remains without extra costs is only queued if
\* it is new; it is what eps_inserted tells of.
Insert ==
  /\ work.inserts # {}
  /\ LET at == FirstOf({i.at : i \in work.inserts})
         i == CHOOSE j \in work.inserts : j.at = at
         target == TargetOf(i.task, i.to, i.extraCost)
         new == ~(i.pairs \subseteq At(edges, target))
     IN  /\ edges' = Added(edges, target, i.pairs)
         /\ IF i.rest /\ ~new THEN UNCHANGED queue ELSE AddQ(i.task, i.to, i.extraCost, i.cost, ~new)
         /\ epsInserted' = IF i.rest /\ new
                           THEN epsInserted \union {<<work.to, currentCost, currentDepth>>}
                           ELSE epsInserted
         /\ work' = [work EXCEPT !.inserts = @ \ {i}]
  /\ UNCHANGED <<problem, least, edgesExtraCost, eps, currentCost, currentDepth, current_queue, status>>
-----------------------------------------------------------------------------
NextMethod == /\ status = "search" /\ work.inserts = {} /\ work.entering = 0 /\ work.methods # <<>>
              /\ UNCHANGED <<problem, least, eps, epsInserted, currentCost, currentDepth, current_queue, status>>

StateOfEntry == edges[<<0, work.task, work.to, work.last[1], work.last[2]>>]

\* A method with one subtask: it takes the place of the task.
DecomposeUnit ==
  /\ NextMethod
  /\ LET task == problem.methods[Head(work.methods)].subTasks[1]
         target == Here(0, task, work.to)
     IN  /\ Len(problem.methods[Head(work.methods)].subTasks) = 1
         /\ edges' = Added(edges, target, StateOfEntry)
         /\ IF StateOfEntry \subseteq At(edges, target) THEN UNCHANGED queue
            ELSE AddQ(task, work.to, 0, -1, FALSE)
  /\ work' = [work EXCEPT !.methods = Tail(@)]
  /\ UNCHANGED edgesExtraCost

\* The layers of an edge of vertex 0 up to the one of the entry.
LayersOf(task, to, last) ==
  {<<k[4], k[5]>> : k \in {j \in DOMAIN edges : <<j[1], j[2], j[3]>> = <<0, task, to>>
                                               /\ j[4] <= last[1]
                                               /\ (j[4] = currentCost => j[5] <= currentDepth)}}

\* A method with two subtasks.  States in which its vertex was entered before are known: what
\* follows the first subtask is then not found again.  For those where the first subtask has been
\* completed, the second one is inserted at once, at the costs that the first one took; and the costs at which
\* the state is entered again are noted at the edge from the vertex.
DecomposeTwo ==
  /\ NextMethod
  /\ LET m == Head(work.methods)
         V == VertexOf(m)
         inner == Here(V, Second(m), work.to)
         new == StateOfEntry \ At(edges, inner)
         entered == {x[1] : x \in StateOfEntry}
         Has(s, layer) == <<s, s>> \in edges[<<0, First(m), V, layer[1], layer[2]>>]
         known == {s \in entered : <<s, s>> \in At(edges, <<0, First(m), V, work.last[1], work.last[2]>>)}
         Entry(s) == FirstOf({l \in LayersOf(First(m), V, work.last) : Has(s, l)})
         Ends(s) == {l \in {<<k[2], k[3]>> : k \in {j \in epsInserted : j[1] = V}} :
                       /\ Entry(s)[1] <= l[1] /\ l[1] <= work.last[1]
                       /\ \E x \in eps[<<V, l[1], l[2]>>] : x[2] = s}
         shortcuts == {Entry(s) \o FirstOf(Ends(s)) : s \in {t \in known : Ends(t) # {}}}
         Shortcut(c) ==
           [at |-> c, task |-> Second(m), to |-> work.to,
            extraCost |-> c[3] - c[1], cost |-> c[3], rest |-> FALSE,
            pairs |-> {<<x[1], y[2]>> : <<x, y>> \in {z \in eps[<<V, c[3], c[4]>>] \X new :
                         /\ z[1][2] = z[2][1]
                         /\ z[1][2] \in known /\ Ends(z[1][2]) # {}
                         /\ Entry(z[1][2]) \o FirstOf(Ends(z[1][2])) = c}}]
         Again(c) == {x \in new : x[1] \in known /\ currentCost - Entry(x[1])[1] = c}
         again == {<<V, Second(m), work.to, currentCost - Entry(x[1])[1]>> : x \in {y \in new : y[1] \in known}}
     IN  /\ Len(problem.methods[m].subTasks) = 2
         /\ work' = [work EXCEPT !.inserts = {Shortcut(c) : c \in shortcuts},
                                 !.entering = m, !.methods = Tail(@)]
         /\ edgesExtraCost' = [k \in DOMAIN edgesExtraCost \union again |->
                                 At(edgesExtraCost, k) \union IF k \in again THEN Again(k[4]) ELSE {}]
  /\ UNCHANGED <<edges, queue>>

\* After the shortcuts: the edge to the method's vertex, and the one from it.
EnterMethod ==
  /\ work.inserts = {} /\ work.entering # 0
  /\ LET m == work.entering
         target == Here(0, First(m), VertexOf(m))
         entered == {<<x[1], x[1]>> : x \in StateOfEntry}
     IN  /\ edges' = Added(Added(edges, Here(VertexOf(m), Second(m), work.to), StateOfEntry), target, entered)
         /\ AddQ(First(m), VertexOf(m), 0, -1, entered \subseteq At(edges, target))
  /\ work' = [work EXCEPT !.entering = 0]
  /\ UNCHANGED <<problem, least, edgesExtraCost, eps, epsInserted, currentCost, currentDepth, current_queue, status>>
-----------------------------------------------------------------------------
\* The queue of a layer, in the order of the map.
InQueue(layer) ==
  LET entries == queue[layer]
      keys == InOrder(DOMAIN entries)
  IN  FlattenSeq([i \in DOMAIN keys |-> [j \in DOMAIN entries[keys[i]] |-> keys[i] \o <<entries[keys[i]][j]>>]])

\* Everything that is attached is carried over.
Enter(cost, depth) ==
  LET carried == {k \in DOMAIN edges : k[4] = currentCost /\ k[5] = currentDepth}
      To(k) == <<k[1], k[2], k[3], cost, depth>>
      From(k) == <<k[1], k[2], k[3], currentCost, currentDepth>>
  IN  /\ cost <= MaxCost /\ depth <= MaxDepth
      /\ currentCost' = cost /\ currentDepth' = depth
      /\ current_queue' = InQueue(<<cost, depth>>)
      /\ edges' = [k \in DOMAIN edges \union {To(j) : j \in carried} |->
                     At(edges, k) \union IF <<k[4], k[5]>> = <<cost, depth>> THEN At(edges, From(k)) ELSE {}]
      /\ eps' = [k \in DOMAIN eps \union {<<v, cost, depth>> : v \in Vertices(problem)} |->
                   IF <<k[2], k[3]>> = <<cost, depth>> THEN eps[<<k[1], currentCost, currentDepth>>] ELSE eps[k]]
      /\ status' = status

LayerDone == /\ status = "search" /\ Idle /\ current_queue = <<>>
             /\ UNCHANGED <<problem, least, edgesExtraCost, epsInserted, queue, work>>

\* Mutation: the layer that is done is found again.
DeeperOrSame == {l[2] : l \in {k \in DOMAIN queue : k[1] = currentCost /\ k[2] > 0 /\ k[2] >= currentDepth}}

\* Depths of the current costs that come next, if there is any.
Deeper == {l[2] : l \in {k \in DOMAIN queue : k[1] = currentCost /\ k[2] > currentDepth}}
Later == {l \in DOMAIN queue : l[1] > currentCost}
LaterActions == {l[1] : l \in {k \in Later : k[2] = 0}}

NextAbstractLayer == /\ LayerDone /\ Deeper # {}
                     /\ Enter(currentCost, Min(Deeper))

\* The next costs are those of the next action; where only other tasks wait at higher costs, the code
\* reads the end of prim_q.
NextPrimitiveLayer == /\ LayerDone /\ Deeper = {} /\ LaterActions # {}
                      /\ Enter(Min(LaterActions), 0)

Unsolvable == /\ LayerDone /\ Deeper = {} /\ LaterActions = {}
              /\ status' = IF Later = {} THEN "Problem is unsolvable" ELSE "undefined"
              /\ UNCHANGED <<edges, eps, currentCost, currentDepth, current_queue>>

Next == \/ Take \/ Insert \/ DecomposeUnit \/ DecomposeTwo \/ EnterMethod
        \/ NextAbstractLayer \/ NextPrimitiveLayer \/ Unsolvable

Spec == Init /\ [][Next]_vars

\* The loop runs on until it ends.
FairSpec == Spec /\ WF_vars(Next)
-----------------------------------------------------------------------------
\* Whatever is attached to an edge or to a vertex can be reached by decomposing and applying actions, at no
\* more than the costs of the layer.
AutomatonSound ==
  /\ \A k \in DOMAIN edges : \A x \in edges[k] :
       LET task == IF k[1] = 0 THEN k[2] ELSE problem.methods[k[1] - 1].task
       IN  least.places[<<k[3], x[2], task, x[1]>>] <= k[4]
  /\ \A k \in DOMAIN eps : \A x \in eps[k] :
       least.ends[<<k[1], x[2], x[1]>>] <= k[2]

LeastCost == Least({least.runs[<<problem.initialTask, problem.init, g>>] : g \in problem.goal})

Occurrences(t) == {<<m, i>> \in (DOMAIN problem.methods) \X {1, 2} :
                     i \in DOMAIN problem.methods[m].subTasks /\ problem.methods[m].subTasks[i] = t}
ListedOnce == \A t \in Tasks(problem) : IsAction(t) \/ Cardinality(Occurrences(t)) <= 1

\* A goal is never reported at less than the least costs.  Where no abstract task is a subtask at two places, the
\* search finds exactly the least costs and it is not called unsolvable otherwise.
ResultExact ==
  /\ status = "goal" => LeastCost <= currentCost
  /\ ListedOnce => /\ status = "goal" => LeastCost = currentCost
                   /\ status = "Problem is unsolvable" => LeastCost = None
                   /\ status # "state attached to edge is empty"

\* The search ends, also where tasks recur: layers do not follow each other for ever.
SearchEnds == <>(status # "search")

\* Only problems without a plan are called unsolvable.
UnsolvableIsTrue == status = "Problem is unsolvable" => LeastCost = None
=============================================================================
