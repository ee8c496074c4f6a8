# TLA+ models of pandaPIengine

These modules model four of the ways the engine is used and what they share: progression
search (how task networks are decomposed and progressed on shared, reference-counted plan
steps, and how the search loop, its queue and its visited list prune and delete nodes), its
estimates (the analysis of the decomposition graph, implied distances, and the Add, FF and
LM-Cut heuristics on the relaxed composition model), the translation to classical
planning, from the encodings to the decomposition that is printed, and the symbolic search. Below all of them is how
methods are read and classified. TLC checks the models on small instances; for some of them
the central facts are proved with TLAPS for every value of the constants.

All paths below are relative to `src/` of the repository, so that `src/Model.cpp` is the
engine's `Model.cpp`. `PROJECT.json` lists for every definition the lines it models.

## The system

The engine reads a grounded HTN problem, preprocesses it, and searches for a plan, or hands
it to a SAT solver, to decision diagrams or to a classical planner. It is one sequential
process; no messages, and no threads (the SAT planner has a driver with `pthread`s, whose
call is commented out). What is hard about it is not concurrency but sharing: every search
node points into the same graph of plan steps, the visited list points to nodes of the search
or copies parts of them into a bit-level trie, and results of the preprocessing are trusted by
code that runs on other structures. In the translation the hard part is that a network lives
in a bounded number of points, whose contents move.

| component | state | operations | interacts with |
|---|---|---|---|
| task progression (`Model.cpp` 485-1331, `ProgressionNetwork.*`) | search nodes, plan steps and solution steps with pointer counts, the stack of actions without effects | `decompose`, `apply` (both continue with calls of `apply` on their own result), `isApplicable`, `isGoal`, `updateReachability`, `updateTaskCounterA/M`, destructors | called by the search loop; walks the representation the reader builds |
| method orderings (`Model.cpp` 1604-1734, 2946-3018) | the matrix of a method's ordering, three flags | closure, reduction, classification | the flags select the mode of the visited list and of the translations |
| search loop and fringe (`search/PriorityQueueSearch.h`, `search/fringes/OneQueueWAStarFringe.cpp`) | queue of nodes, current node, solution, clock | pop, check, goal test, expansion, push, deletion, stop | progression, heuristics, visited list |
| visited list (`VisitedList.cpp`) | hash table of tries; under each key a flag, a cost or a list of nodes | `insertVisi` | reads nodes of the search; keeps pointers to them in partial-order mode |
| compressed trie (`intDataStructures/CompressedSequenceSet.cpp`) | nodes that hold bits of keys in 64-bit blocks | `insert`, `split_me_at` | owned by the visited list |
| heap of pairs (`intDataStructures/IntPairHeap.h`) | two arrays, next index | `add`, `pop`, `clear` | visited list, heuristics, landmark extraction |
| decomposition graph analysis (`Model.cpp` 2199-2716) | components, flags, reachable tasks, implied costs and distances | `calcSCCs`, `analyseSCCcyclicity`, `calcSCCGraph`, `calcMinimalImpliedX` | progression caches the reachable tasks, the heuristics use all of it |
| relaxed composition heuristics (`heuristics/rcHeuristics/`) | queue, costs of facts, cut | one value per node: model factory, `hsAddFF`, `hsLmCut`, correction for repeated tasks | search loop |
| translation (`translation/`) | subtasks in order, bound, classical problem, plan | `reorderTasks`, `sasPlus`, encodings, `calcMinimalProgressionBound`, iteration, `planToHddl` | a classical planner, as another process |
| symbolic planner (`symbolic_search/automaton.cpp`) | a graph of tasks and method vertices with states attached, per layer of costs and depth; two queues | `build_automaton`: images of actions, decompositions, layers | decision diagrams of CUDD |
| reader, solution output (`Model.cpp`, `ProgressionNetwork.cpp` 160-230) | arrays of the model | one pass each | everything |
| other heuristics (`heuristics/`) | per-heuristic work arrays | one value per node | search loop |
| invariants, SAT planner | formulas | one-shot constructions | external solvers |
| command line, interactive planner, legacy fringes, vendored CUDD | - | - | - |

What makes each of the modelled components correct:

- *progression*: a node behaves as if it had a network of its own; pointer counts are
  exact, so that deletion frees what nobody reaches and nothing else; first-task lists, task
  counts and cached reachability always describe the network they belong to;
- *orderings*: the closure is the least one, the reduction loses nothing, and what a flag
  says of methods holds for every network made from them;
- *search loop*: no deleted node is used, a solvable problem is never called unsolvable,
  an optimal search returns a cheapest solution, nothing is expanded twice in vain, and the
  search ends on cyclic spaces;
- *visited list and trie*: only networks that were seen before are pruned, and those are;
- *heap*: it is a priority queue;
- *graph analysis*: components and their order are right, every task knows exactly the actions
  it can be decomposed into, and implied costs and distances are lower bounds;
- *estimates*: no node with a plan is given up, LM-Cut never estimates too much, FF's plan works,
  and evaluation ends;
- *translation*: every classical plan is a decomposition of the problem, a network that fits
  into the bound is not lost, and the decomposition that is printed is one;
- *symbolic planner*: what is attached to the graph can be reached at the costs of its layer, a
  goal is found at the least costs, only unsolvable problems are called so, and the search ends.

The behaviours that tests would hardly reach are listed as hazards in `PROJECT.json`, each
at its line with the properties that cover it.

## The modules

| module | models | abstract specification |
|---|---|---|
| `HTN` | the grounded problem, constant | |
| `PointerGraph` | objects with counted pointers: what is reached from some, what is freed when one goes | |
| `Progression` | `decompose`, `apply`, node deletion on the shared heap of steps | `TaskNetwork`: nodes are values |
| `FirstTasks` | the loops of `apply` that find the new first tasks (`Model.cpp` 900-950), one iteration per step | `Linearization`: steps leave in an order that respects the precedences |
| `MethodOrdering` | closure, reduction and flags of one method after the other, one round of `k` per step | |
| `OrderingModes` | `MethodOrdering` composed with the networks that decomposition and progression make of the methods | |
| `SearchLoop` | `PriorityQueueSearch::search` with fringe, visited list, clock and deletes | |
| `VisitedList` | `insertVisi`: key, trie modes, comparison of nodes | |
| `SequenceTrie` | `compressed_sequence_trie`, one call of `insert` per step | `KeyMap`: a map |
| `IntPairHeap` | the heap, one exchange per step | `MinBag`: a bag with a smallest element |
| `DecompositionGraph` | Tarjan's algorithm, one child of one call per step; cyclicity; reachability, one component per step | |
| `ImpliedDistances` | `calcMinimalImpliedX`, one entry of its list per step | |
| `RelaxedModel`, `AddFF`, `LmCut` | the classical heuristics, one entry of the queue, or one fact of the goal zone, per step | |
| `RelaxedComposition` | the two above composed with the model factory, the evaluation of a node and the nodes of a search | |
| `TranslatedModel` | `reorderTasks`, `sasPlus`, and operators | |
| `TotalOrderEncoding`, `PushEncoding`, `SequencesEncoding` | `tohtnToStrips`, `htnToCondSorted`, `htnPS` | |
| `PlanExtraction` | `planToHddl` | |
| `Translation` | `runTranslationPlanner` with the minimal bound, composed with all of these and with any classical planner | `Decomposition`: networks are decomposed and progressed |
| `SymbolicAutomaton` | `build_automaton`: one entry of a layer's queue, one method, one insertion or one change of layers per step | what a path in the graph means (`least`), by rounds over decompositions |

`MC*` modules give the constants their small values; `MCVisitedParts` runs three that the
visited list rests on, one at a time. `*_proofs` modules hold theorems; `VisitedParts_proofs` has those of both `IntPairHeap` and `SequenceTrie`.
Operators commented with "Mutation" are not part of a model: each is a plausible mistake in
the definition next to it, and `PROJECT.json` names the property that notices it.

How state and actions correspond to the code:

- **Progression.** `heap` is the set of allocated `planStep`s (task, successor list,
  `pointersToMe`, `reachableT`), `solutions` the `solutionStep`s, `nodes` the
  `searchNode`s, `call` the C++ call stack of `decompose`/`apply`. `Decompose` and `Apply`
  are the two functions up to the loop over `effectLess`; `ProgressEffectLess` and
  `ProgressOnlyAction` the nested calls of `apply`; `Settle`, `DeleteIntermediate` and
  `Return` what happens when they return; `Delete` is `delete n` by the caller, at any time
  between calls. `MakeDecomposed` and `MakeApplied` do all the function does: state, steps,
  counts, reachability, solution step, task counts and costs. Addresses are chosen in one
  fixed way, as nothing but the order of lists depends on them; lists are sets.
  The `effectLess` stack is a member that nested calls share and leave empty, which is why
  the outer loops end at once; `call.effectLess` is replaced by the nested call just so.
- **FirstTasks.** `potentiallyFirst`, `potentialPredecessors` and `done` are the sets and
  the list of the code. `Progress` and `Scan` are the loops that fill them, `Take` and
  `Push` the `while` loop, `Finish` builds the result. `Progression` uses what this module
  shows: `NewFirstTasks` is the result of the walk.
- **MethodOrdering.** `trans` and `transRed` are the matrices as sets of pairs; for fixed
  `k` the inner loops neither add nor remove a pair with `k` that they look at later, so that they
  are one step. **OrderingModes** adds `net`, a network with the plan steps' successor
  relation, and the steps of the search on it.
- **SearchLoop.** A search space gives for every network its expansions (sequences of
  children in the order the code generates them; which abstract task is decomposed is
  random), costs, goals, and what the heuristic says. `node` is the set of living nodes, by
  address: deleted addresses are reused. Each `delete` is where the code has it, under its
  condition. `PopSeen`, `PopGoal`, `PopToExpand` are the start of an iteration; the `Child*`
  actions are the paths through the loop bodies over actions and methods; `Finish`,
  `TimeOut` and `BreakOffMethods` the ways an iteration ends; `Report` prints the status.
  The `fValue` of a node that was not pushed yet is any value of `Garbage`.
- **VisitedList.** A network is a labelled graph as the node's lists give it, including the
  order of the first steps. `Key` is the bit string, token by token, each token cut to the
  bits the code writes. `Matching` is the recursive search for an isomorphism with maps
  passed by value. The 64-bit hash is left out: it is a function of parts of the key.
- **SequenceTrie.** A block is the set of its one bits. A shift by the width of a block is
  undefined in C++; the model takes what x86 does, a shift by the count modulo the width.
- **IntPairHeap.** `array` holds keys and values side by side, slot 0 the sentinel, slots
  that were never written any junk.
- **DecompositionGraph.** `path` is the C++ call stack of `tarjan`, with the number of the child
  each call looks at; `S`, `dfsI`, `lowlink` are the arrays. `AnalyseCyclicity` is what the SAT
  planner goes on with, `StartReachability` and `Process` what progression search does.
  **ImpliedDistances** continues from there: `h` is the list of methods and tasks.
- **AddFF, LmCut.** `queue` and `heap` are the heap of pairs as a set: among equal keys any pair
  may come out first, so that every order the real heap can have is covered. One pop with the loop over the
  operators that the fact is a precondition of is one step; sets of the C++ code are sets.
  `EraseFrom` is the exception: it visits elements one by one, as erasing from a `bucketSet`
  while iterating over it skips some.
- **RelaxedComposition.** `rc` is the classical problem of `getRCmodelSTRIPS`; facts are tagged
  (`tdr`, `bur`) instead of numbered. `Evaluate`, the steps of the heuristic, and `Correct` are
  `setHeuristicValue`. A node is a state and a sequence of tasks; `Decompose` and `Apply` are here only
  to reach the nodes of a search, and the shared steps behind them are `Progression`'s matter.
- **Translation.** `phase` is the place in `runTranslationPlanner`. An encoding is a record of
  initial values, goal and operators; variables have the numbers of the code, values are
  offsets. `values` and `plan` are the classical planner's: it takes any applicable operators as
  long as no state comes up twice, and ends with a plan, without one, or with an unknown exit
  code. The names of operators are records, and `planToHddl` works on them line by line.
- **SymbolicAutomaton.** `edges`, `edgesExtraCost`, `eps`, `epsInserted` are the arrays of maps, each a
  function from keys; a decision diagram over a state and the state at which the vertex was entered is a set of pairs.
  `queue` holds `prim_q` (depth 0) and `abst_q`. Of the records in a queue only the cost of the layer
  that the entry comes from matters to the search; the rest is for the extraction. `Take` is an iteration
  over an entry up to its methods, or the whole of it for an action; `Insert` puts one part at an edge of vertex 0, in
  the order of the maps, `DecomposeUnit`, `DecomposeTwo` and `EnterMethod` are the body of the loop over methods, and the last
  three actions the change of layers with the copy of everything attached. `least` is not in the code: it holds the costs that
  decompositions have by their meaning, and is what the properties compare with. Where the code reads behind the end of a
  map, `status` becomes `undefined`.

## The runs

Each run is limited to what finishes in about three minutes with two workers.

| run | bounds | shows |
|---|---|---|
| `first_tasks` | all acyclic networks of 5 steps | first tasks found are exactly the steps without predecessor; the walk ends; linearisation |
| `progression` | 2 nodes held by the caller (intermediate ones come on top), 7 steps, recursive problem with a join and a fork | exact counts, no dangling and no lost step, exact lists, caches, results and costs; calls return; every node is an independent value |
| `search` | 4 networks, thousands of spaces, cycles, steps without cost, inconsistent heuristics; A*, greedy with time limit, A* with stored nodes | pointers alive, no leak with early checking, no solution lost, results right and cheapest, one expansion where promised, end |
| `visited` | chains, parallel chains and forests of 3 steps (some of 4), 2-3 lookups, all modes | exactly the networks seen before are pruned |
| `visited_parts` | two methods of up to 4 subtasks, cyclic orderings of up to 3, networks of 5 steps; a heap of 4 entries, 3 keys, one equal to the sentinel's, from 1 slot; a trie of 3 keys of up to 3 blocks of 3 bits, 2 payloads, rewritten in any order | least closure, exact reduction; flags survive the search, networks stay reduced; heap order, priority queue, loops end; a well-formed trie that is a map |
| `estimates` | every small decomposition graph of 3 abstract tasks; networks of up to 3 steps of a task that may recur, plans of up to 7 steps looked for; LM-Cut, Add and FF, estimates of distances, costs and both | components and order, reachability, lower bounds, no dead end with a plan, LM-Cut admissible and its cuts landmarks, FF's plan works, the preprocessing and every evaluation end |
| `translation` | three actions, two abstract tasks of which one may recur, totally ordered, parallel and partially ordered methods of up to four subtasks, with orders that `reorderTasks` gets right; bounds from the minimal one, or 2, to 4 (`maxpgb` stands for its 5000000), plans of up to 10 operators | plans are decompositions (refinement), nothing that fits into the bound is lost, the bound suffices for some network and no move jams, printed decompositions are right |
| `symbolic` | 2 actions with costs 0 to 2, 3 states, 2 or 3 tasks to be decomposed, recursive ones among them, costs up to 20 and depths up to 10 | what is attached can be reached at the layer's costs; no goal below the least costs, exactly those where each abstract task is a subtask at one place; the search ends |

Some properties are conjunctions of named parts that belong together:
`NodesExact` is type correctness of `Progression` with first-task lists, task counts, results of calls and
costs of nodes (`TypeOK`, `ListsHoldFirstTasks`, `ContainedTasksExact`, `ResultsAreSettled`,
`CostsMatchPlan`); `WayStaysOpen` is `SolutionOpen` (solvable problems) with `CheapestOpen`
(optimal search); `FlagsHold` is `PathsHold` (the chains that `to_dfs` follows) with `ForkOrJoin`;
`AnalysisExact` is `ComponentsCorrect` with `AcyclicExact` and `ReachableExact`; `HeapExact` is
`PointerCountsExact` with `HeapIsWhatNodesReach`.

Why the bounds are enough: five steps give the walk of `apply` candidates that are reached on
paths of different lengths, revisits and both breaks. Two held nodes with five methods let a
step be shared by a parent, its child and intermediate results, and each be deleted first;
every action of the model occurs. Four entries are three levels of the heap and two further
doublings of the arrays. Four networks are enough for a cheaper way found late, reopening
along a cycle of cost zero, and a dead end on every path. Keys of three blocks with at most one
set bit split nodes in every block position, at the first and later bits, and make keys
prefixes of others. `visited_parts` uses keys that do not end with a block; those that do are the
subject of `trie_aligned_keys`. Three abstract tasks give components that refer to themselves,
cycles of two and three tasks, cross links between calls of `tarjan` and components led to from several sides; a
repeated task and a deleted fact are what the relaxation loses. In `translation`, four points give moves over several
points, constraints that a method hands on to its last subtask, moves that are blocked, and
networks that do not fit; the iteration is followed through three bounds. In `symbolic`, the bounds on
costs and depths are above what any of the problems needs, which `SearchEnds` shows, as a search at the bound would stop there;
all that the code does with extra costs and known states comes up.

Fairness: a call that has started runs on (`WF_vars(InCall)` in `Progression`, the loops'
actions in `IntPairHeap`, `Next` in `FirstTasks`, `Search` in `SearchLoop`, the preparation, the construction of the
model and the steps of a heuristic in `RelaxedComposition`, `Next` in `SymbolicAutomaton`), since the code is
sequential; nothing obliges a caller to make a call, and time need not pass. Deadlock is
checked except where the program really stops: the search and the symbolic search after printing their status, the
translation after printing a plan or giving up, and modules whose callers stop at a bound.

### What the code does not do as written

Four runs check a sentence of the repository that the code does not keep:

- `visited_shared_successor` - `matchingDFS` (`VisitedList.cpp` 226) takes its maps by value, so
  that networks with a step that has two predecessors may be taken for equal although they
  are not; the second is pruned.
- `trie_aligned_keys` - a key that ends with a 64-bit block and is the beginning of a stored one
  makes the trie split at bit 64; the stored key is not found again.
- `reordered_subtasks` - `reorderTasks` (338-369) leaves the loop over the subtasks taken so far at the source of an
  ordering (346-349), before it may meet the subtask itself (342-345). With three subtasks of which the first comes
  before the second or the third, the second is taken twice, and one is lost.
- `symbolic_unsolvable` - `build_automaton` skips the shortcut through a method's vertex when the first
  completion of its first subtask brought nothing new at the edge that follows (`automaton.cpp` 1370, 1442, 1566), and
  does not queue the subtask again (1687): a problem with a plan is called unsolvable.

More divergences were met while reading and are not checked by a run.

*Visited list and orderings.* With `--suboptimal` on partially ordered problems `insertVisi` compares
`fValue`s of which one was never written (`VisitedList.cpp` 576); whether a known network is
expanded again is left to chance. `isParallelSequences` (`Model.cpp` 3006-3011) stays set when a method
of the initial task forks without joining, or the other way round, which `to_dfs` asserts not to
happen (`VisitedList.cpp` 156); a release build follows the first successor only. `ForkOrJoin` is what the
flag does guarantee. The debug build's test for cyclic orderings (`Model.cpp` 1686-1715) runs
after the reduction, which has removed every pair between the subtasks of a cycle. In
partially ordered problems equal first steps may give one network two keys, because
`topSort` breaks ties by position (`VisitedList.cpp` 286): the network is then kept twice.
The `visited` run states completeness for untied networks.

*Search.* `gettimeofday` may go back between two readings (`PriorityQueueSearch.h` 274). `OPTIMIZEUNTILTIMELIMIT` is
false; were it set, the solution would be deleted as a processed node.

*Estimates.* `hsLmCut.cpp` 248 erases from a set while it iterates over it and skips elements; the
cut is a landmark all the same (`CutIsLandmark`). Branches that are never taken: minimal estimated costs in `hhRC2`,
`LMCINCHMAX`. `delIterIntSet::insert` is wrong and unused.

*Translation.* In `reorderTasks`, what keeps a subtask from being taken again is an ordering whose source was not taken
before it; all is well if the last but one that is taken comes before another. The orderings are renumbered (375-377)
by the order of taking instead of its inverse: that is right for topological listings and for their complete reversals,
but with three subtasks and an ordering from the third to the second, the renumbered one relates the wrong two.
Actions in front are counted as listed (379-386). The passing run `translation` has only orders, of up to four subtasks,
that the function gets right; some of the others are the subject of `reordered_subtasks`.
`sasPlus` (175-182) looks for the variable of an initial fact among as many variables as there are initial facts: with
fewer facts than variables, a true fact of a later variable is set for another one, and the classical planner may find
plans that cannot be executed. With `push`, the second pass of `planToHddl` (2700-2731) gives a subtask the
next line that its task and its last point match, without marking that line as taken. When two equal subtasks of
one method were last in the same point, at different times, both get the same line as child, and the line of the
other has no parent; `PrintedIsDecomposition` is therefore stated for the encodings in which tasks do not move.
`calculatePrecsAndAdds` (264-285) does not compare the preconditions on a
variable with each other before the first effect on it. `pocond` generates the operators of `push`
(`translationController.cpp` 40-42), but the conditional effects of their moves are not printed (72), and some of the effects that
are counted (714-730) are never set (877-901). After
`--onlyGenerate` the controller still reads a plan, of an empty name, and ends with exit code 1.
`--iterate` raises the bound after any exit code above 10, also when the planner crashed, and
by `pgbsteps`, where `options.ggo` 75 says one. The bound that it starts with is minimal for totally
ordered encodings, but not for `push`.

*Symbolic planner.* Where abstract tasks are subtasks at several places, goals may be found at more than the least costs
(never at less: `ResultExact`); `lastDepth` is read through `rbegin()` of a map that may be empty (1309); the program may end with
"state attached to edge is empty ... bug!" (1323), because `sourceCost` leaves out an extra cost that equals the argument
`cost` of `addQ` (1285); and when only abstract tasks wait at higher costs, the end of `prim_q` is dereferenced (1729-1733). All of these were
also seen in the compiled planner on problems of the size of the run's; a goal above the least costs is the only one
that no problem of the run itself leads to. The exchange of the subtasks of a method that is ordered backwards (1199) never
takes place, as it asks for `ordering[1]` to be other than 0 and that is 0 then: such methods are executed in the wrong order. Methods
without subtasks, which 1328 provides for, are refused by the reader.

## The proofs

`FirstTasks_proofs`, for every set of steps and every acyclic ordering: `TypeCorrect`,
`UnconstrainedCorrect`, `DroppedCorrect`, and `Refinement`: the walk implements
`Linearization`. The invariant that `UnconstrainedAreSources` needs is `WalkInvariant`:
candidates that were dropped have a predecessor that stays, and every successor of a step met
so far is met, listed or pending. At the break of the loop (`CandidatesAtBreak`) a candidate left over with
an empty list has no predecessor among the steps met; were there one elsewhere in the network,
a predecessor-free step above it would be unconstrained, hence a root of the walk. This uses
that the ordering is acyclic in the form "every non-empty set of steps has a member without
predecessor in it", the assumption `NetworksAssumption`.

`VisitedParts_proofs`, for heaps of any size with integer keys: `HeapOrderCorrect` and
`HeapRefinement` (`pop` takes a pair with a smallest key). The invariant `HeapInv` says in
addition that while a call runs only the edge at `current` may be out of order and that its
children are in order with its parent, that slot 0 holds the sentinel, and that the arrays hold what was
added; `RootIsSmallest` follows slots up to the root by
well-founded induction on the slot number.

`VisitedParts_proofs`, for blocks of every width and every set of keys in which no key that ends with a block begins a longer one
(`AlignedKeysApart`): `TrieWellFormed` and `TrieIsMap` (`insert` finds under a key what was written under it last, and nothing for
a key that is new). The hypothesis is not one the code makes. It is exactly what the run `trie_aligned_keys` breaks, where
`TrieIsMap` fails without it, and the keys of `visited_parts` satisfy it, as none of them ends with a block. The invariant
`TrieInv` names for every node a key that was inserted through it (`Fits`): the node holds the bits of that key from its first
place to its last. Then the keys of a child agree with those of its parent up to where the child begins and the child is on the side of the next bit
(`ChildrenFit`); every node but the root is the child of some node; no two nodes hold the same place of keys that agree through it
(`Apart`), so that there is one way down for a key; and what was written is in the nodes that stand for the keys, and nowhere else (`PayloadsFit`).
`ParentsKnown` and `Apart` together say that where the walk finds no child on its side no stored key goes on that way: this is why
`AddChild` may enter a new key without looking further. Each of the four ways in which `insert` ends keeps this because the two parts of
a split node hold the bits of the whole one (`Parts`); `EqualNode` and `DifferenceFound` say that the masked comparison of blocks finds the first bit at which
the key leaves the node.

`OrderingModes_proofs`, for methods of any size: `TypeCorrect`, `ClosureIsCorrect` and
`ReductionIsCorrect`. After `k` rounds the relation is closed under chains whose inner subtasks
are below `k`, and is contained in every transitive relation that holds the given pairs; the
reduction has removed exactly the pairs implied through a subtask below `k`. Cyclic orderings are included.

`OrderingModes_proofs`, for methods and networks of any size: `FlagsHoldAlways` and `NetworksStayReduced`. The invariant
`ModesInv` says of every ordering that was classified, and of the network, which of forks, joins and several starts the flags
exclude, and that there is a transitive relation around it that implies none of its pairs (`IsReduced`). This
makes orderings acyclic without saying so: the reduction takes a cyclic ordering apart, so that nothing is assumed
about what is read. It also means that a method starts and ends somewhere, which is why counting the subtasks that do not have exactly one successor tells a sequence
from a fork. That only one end precedes what the decomposed step preceded is what keeps joins out. The assumption
`InitialTaskAssumption`, that no method has the initial task as a subtask, is one the code makes: it accepts a method for the initial task that
forks or joins (`Model.cpp` 3006-3008) as it is used once. With a recursive initial task `isParallelSequences` would promise too much.

`SearchLoop_proofs`, for every set of search spaces, finite or not, every heuristic and every
pruning mode: `TypeCorrect`, `PointersCorrect`, `NoLeaks`, `SolutionStaysOpen`, `WayStaysOpenCorrect`,
`ResultIsCorrect` and `NeverExpandedTwice`. The assumption is `SpacesAssumption`: every space is an
`IsSpace`, which says what search relies on. Its last conjunct is that solvable networks come nearer to a goal, in the
form "from every non-empty set of solvable networks that are no goals, a cheapest way leads out of some member, whichever
expansion the code chooses"; it replaces induction over the length of the way. The argument
is in four invariants:

1. `Inv1`: types, pointers and deletes; what is open, current or stored is in memory, and with
   early checking everything in memory is one of these.
2. `Inv2`: a network that was called new is *followed*: it is open or current, or every
   solvable child of one of its expansions was called new or is still to come in the loop. The networks
   followed that are no longer open form the set `T` above, so that something solvable outside `T`
   is open (`WayOut`). Pruning does not harm this since it only happens to networks called new.
3. `Inv3`: the same along cheapest ways, where the costs with which a network was stored count:
   a network that is stored with the least costs is followed with the least costs (`CheapestWayOut`). A goal that is popped
   then costs no more than what is open on a cheapest way, as the estimates are admissible.
4. `Inv4`: with a consistent heuristic no node is pushed with a value below the one being
   expanded, and a network that is stored has the least costs it will ever be reached with. So
   it is called new at most once.

`ExpandedOnce` promises this for `--suboptimal` only where the visited list keeps no nodes: with stored nodes
an `fValue` decides that was never written (see above).

`PointerGraph_proofs` and `Progression_proofs`, for every problem and any number of nodes and addresses:
`HeapStaysExact`, `NodesStayExact`, `ReachabilityStaysExact` (the three safety invariants of the run `progression`),
`TypeCorrect`, and `Refinement`: the shared heap implements `TaskNetwork`. The only assumption besides those on
the problem (`HTN`) is `MemoryAssumption`: there is a node and an address, and addresses are finitely many, which
`decompose` needs to find room for the subtasks of a method or to stop. The argument:

1. *Graphs of counted pointers* (`PointerGraph_proofs`). A graph is *shared* by roots (the lists of nodes for plan steps,
   `solution` for solution steps) if it is finite and without cycles, in the form "every non-empty set of objects has one to which
   none of the set points", if every count is the number of pointers to it from objects and roots, and if no count is zero. Then
   everything allocated is reached from a root. A root that goes frees a set that is closed in both directions: a freed object had pointers
   from freed objects and the root only, and what stays has lost just the pointers from these; so the rest is shared by the
   roots that are left, and nothing that these reach is freed. Adding a root, or new objects at the front, keeps a graph
   shared when the counts of those pointed to are raised.
2. *What the operators compute.* The walks (`ReachedFrom`, `Freed`, `ReachabilityOf`, `Plan`, `PlanCost`) are recursive functions. That the sets are the
   least closed ones is proved by well-founded steps to a set that is larger, or an object that is further down; that plans
   are independent of what else is allocated, since the functions that satisfy the recursion agree where they pass the same
   objects (`GoingBackSame`).
3. *The inductive invariant* `IInv`: the plan steps and the solution steps are each shared by the nodes and every cached
   reachability is that of the steps below (`HeapShared`, `PlansShared`); each node describes its own network and plan (`NodesFit`);
   the call under way has a node and intermediate results of its own and its list of actions without effects is complete (`CallFits`);
   the nodes that no call works on are settled (`HeldFit`). The properties that the run checks do not suffice as they are: exact counts alone
   allow cycles, which nothing would free, and a list of first tasks is only kept right by `apply` as its order is acyclic. TLC found `IInv` true of all 8025
   states of the run before it was proved.
4. *Steps.* A child shares all steps with its parent: what `apply` leaves is the network without one step (`AppliedValue`); a
   decomposition replaces one step by those of the method, at new addresses (`DecomposedPairs`, `DecomposedCounts`). Every other node has the
   same network as before, since the steps below its lists have not changed (`NodeIsUndisturbed`). The same lemmas say that
   the child, as a value, is what `TaskNetwork` makes of the parent (`StepFits`), which is the refinement.

`DecompositionGraph_proofs` and `RelaxedComposition_proofs`, for every problem, network and heuristic call: `AnalysisIsExact`,
`ImpliedValuesAreBounds`, `CutsAreLandmarks`, `LmCutIsAdmissible`, `RelaxedPlansWork` and `DeadEndsStayDead`. The assumptions are those
on problems: they are finite, their lists name what there is, and abstract tasks have methods (`ProblemsAssumption`,
`CostsAssumption`, `PlanningAssumption`); and `CostsFit`, that one of each operator, and one more for each step of a network, cost
less than `INT_MAX`. Estimates are sums in `int`s and `INT_MAX` is the mark of what is unreachable: with dearer operators a fact that is
reached would be taken for one that is not. The argument:

1. *Decomposition graph* (`GraphInv`). The calls of `tarjan` under way are a path in the graph, ordered by their numbers (`NumbersOK`,
   `PathOK`). What `AnalysisExact` says of the end is kept for components that are closed (`ClosedOK`): they are right, they lead to closed ones
   only, and those have smaller numbers. What makes the next one right is `LowlinkOK`: `lowlink` of a call under way is the number of a task on `S` to which its task leads,
   everything on `S` above its task is led to from it, and nothing that was looked at below it is further back.
   A call that returns is compared with its caller, and what it leaves on `S` leads back before itself; so a component is closed exactly when nothing above leads out of
   it, by following the ways back downwards on `S`. The pass for `sccsCyclic` may go by numbers because of the order in which components are closed.
   For the propagation, `ReachInv` counts the successors of a component that are not processed and says that the stack holds
   just those that wait for nothing; that it does not run dry early follows from the numbers again.
2. *Implied values* (`DistInv`). Two facts are kept apart. `AreBounds`: for any number of levels, no decomposition of so many levels takes
   less than the values, which any order of the list preserves. `ListOK`: whatever is out of date is on the list, except methods that
   nothing has come up to (value 0, all subtasks at distance 0). Below tasks that recur such methods may stay, which is why the values are only bounds there. A task
   below which nothing recurs has a distance above 0, by induction over the numbers of the components, so that none of its methods is
   untouched and its values are exact; and as there are no more components than tasks, as many levels as there are tasks find all its decompositions.
3. *Relaxed problem* (`PlanningOK`, `HasRelaxedPlan`). The operators of a plan, with the actions
   that the network can be decomposed into as facts, reach the goals without deletes at no more than the plan's costs. This is shown for the table of all plans of one more step
   at a time (`PlanTables`), so that it holds for every `MaxPlan`. It uses what 1. says of cached reachability, as actions outside of it are not operators.
4. *LM-Cut* (`LmCutOK`, `LmCutEstimateOK`). `HMaxOK`: values are settled in the order of the queue, and an operator's `maxPrec` is a precondition
   whose value bounds those of its effects. `ZoneOK`: what produces a fact of the goal zone comes from the zone or is in the cut, and facts of the zone are dear.
   So the goals cannot be reached without the cut (`CutOK`), also after `EraseFrom`, whatever elements it skips: those erased have a dearest
   precondition that leads to the zone only. `CostsOK` is the amount taken: what was taken and what the operators of a relaxed plan still cost is no more
   than they cost at first, as each cut has one of them. `CorrectedOK` adds the costs of repeated tasks, which a plan pays once per occurrence.
5. *FF* (`FFCallOK`). `PricesOK` bounds all costs by the number of operators that are ready, so that nothing is taken for unreachable that is not.
   `ReachedOK`: of any facts with settled costs one was reached without the others; that is what keeps the operators that `Mark` collects from waiting
   for each other, also if they cost nothing.

The invariants `CutIsLandmark` and `RelaxedPlanWorks` are not inductive: they speak of the moment at which a cut or a plan is complete.
`DeadEndsStayDead` leaves out `sasAdd`, whose sums count an operator once per use and may be above `INT_MAX` on problems for which
`CostsFit` holds, and estimates to which implied distances were added. On the instances of the run nothing gets that large.

Only model-checked:

- liveness (`AllProgressed`, `CallsReturn`, `Terminates`, `PassesEnd`, `SearchEnds`), which TLAPS does not handle under fairness;
- that `SequenceTrie` implements `KeyMap` (`ImplementsMap`): the map is read off the nodes by a recursion over the levels below the root, and what it computes for trees of every
  depth is an induction over data. `TrieIsMap` says the same of the calls, one key at a time;
- `VisitedList`, `Translation` and `SymbolicAutomaton`. Their central definitions (the search for an isomorphism,
  decompositions within a bound, `least`) are `RECURSIVE` operators, which the provers cannot use, and the properties compare with the result of a
  recursion over data;
- `DeadEndsAreDead` for `sasAdd` and with implied distances, as said above.

## Not modelled

- *Reader and output.* The reader, apart from orderings, transforms a file of the grounder that
  is trusted; the output of a progression plan walks the chain of solution steps once.
- *SAT planner, invariants.* They build formulas in one pass for
  solvers that are linked in; what is right about them is a statement about every assignment
  of a formula, not about a sequence of steps. The driver has no retries that could go
  wrong beyond a linear bound that is raised without end on unsolvable problems; the driver with
  threads is commented out (`sat_planner.cpp` 1036), and the branch for `depth + 15 < lastImprovedDepth`
  cannot be taken.
- *Symbolic planner.* The extraction of a plan from the automaton (`automaton.cpp` 96-1138), the printed graph, the construction
  of transition relations (`transition_relation.cpp`) and variables (`sym_variables.cpp`), and methods that are ordered backwards.
- *CUDD.* A vendored library, most of the repository's lines (`symbolic_search/cudd-3.0.0`).
- *Heuristics.* Dead-end and cost values that `SearchLoop` takes are any values, admissible ones where it
  states optimality. Of the heuristics, those of the relaxed composition are modelled. Landmark generation over
  and/or graphs, the landmark count (whose tracking is not compiled, `flags.h`), pattern databases and the delete- and
  ordering-free ILP are not.
- *Translation.* `htnToStrips` and `htnToCond`, the encodings of partial order without moves, are not modelled; neither
  are costs of actions and mutex groups in the printed file.
- *Search.* Search for further solutions (`OPTIMIZEUNTILTIMELIMIT`) is not compiled. The clock only goes forward
  in the model. Integer overflow of costs is not modelled; `CostsFit` says how large they may be for the estimates of the relaxed composition.

## Plan

In this order, each with runs and theorems in place of the least telling ones so far:

1. `TaskCounters`: the merge loops of `updateTaskCounterA/M` with the binary search of
   `IntUtil` (`Model.cpp` 240-374) against multiset arithmetic, as a refinement of what
   `Progression` assumes; provable over sorted sequences.
2. `htnToStrips` and `htnToCond` as further encodings of `Translation`.
3. `PlanTrace`: what `extractSolutionFromSearchNode` prints of the chain of solution steps.
4. Sets of the heuristics (`noDelIntSet`, `delIterIntSet`, `bIntSet`) with deletion during
   iteration, and landmark extraction over and/or graphs (`LMsInAndOrGraphs`, `LmCausal`).
5. Proofs: that `SequenceTrie` implements `KeyMap`, with the map stated by the nodes that `Stands` names instead of a recursion.
