---------------------------- MODULE MCVisitedList ----------------------------
(***************************************************************************)
(* Networks for VisitedList.  The steps of a network are numbered from 1.  *)
(***************************************************************************)
EXTENDS VisitedList

Roots(label, succ) == {s \in DOMAIN label : \A p \in DOMAIN label : s \notin ToSet(succ[p])}

\* Task 0 is the only action.  Abstract steps come first; less decides among steps of the same kind.
InOrder(S, label, less(_, _)) ==
  SetToSortSeq({s \in S : label[s] >= 1}, less) \o SetToSortSeq({s \in S : label[s] < 1}, less)

\* The network with these labels, state and successor lists, its first steps in order.
NetOf(state, label, succ) ==
  [state |-> state, label |-> label, succ |-> succ, first |-> InOrder(Roots(label, succ), label, <)]

\* The same with the first steps of the same kind in the opposite order.
Mirrored(n) == [n EXCEPT !.first = InOrder(ToSet(n.first), n.label, >)]

Labels(k, numTasks) == [1 .. k -> 0 .. numTasks - 1]

\* Chains of up to three steps, with two states.
Chains == UNION {{NetOf(st, l, [i \in 1 .. k |-> IF i < k THEN <<i + 1>> ELSE <<>>]) :
                    l \in Labels(k, 2), st \in {0, 1}} : k \in 0 .. 3}

\* One chain, or two side by side, of up to three steps.
ParallelChains ==
  UNION {{NetOf(0, l, [i \in 1 .. k |-> IF i < k /\ i # cut THEN <<i + 1>> ELSE <<>>]) :
            l \in Labels(k, 2), cut \in 1 .. k} : k \in 1 .. 3}

\* The forests with these labels: each step but the roots hangs below one before it.
ForestsWith(l) ==
  {NetOf(0, l, [i \in DOMAIN l |-> SetToSortSeq({j \in DOMAIN l : up[j] = i}, <)]) :
     up \in {f \in [DOMAIN l -> 0 .. Len(l)] : \A j \in DOMAIN l : f[j] < j}}

\* All forests of up to three steps, and some of four steps that agree in all parts of
\* the key but are not equal.
Trees == UNION {ForestsWith(l) : l \in UNION {Labels(k, 3) : k \in 1 .. 3}
                                        \union {<<0, 0, 1, 1>>, <<1, 1, 2, 2>>}}

Forests == Trees \union {Mirrored(n) : n \in Trees}
MirroredChains == ParallelChains \union {Mirrored(n) : n \in ParallelChains}

\* Three first steps with different labels, each in front of one of two equal steps.
TwoLayers ==
  {NetOf(0, <<0, 1, 2, 3, 3>>, <<<<f[1]>>, <<f[2]>>, <<f[3]>>, <<>>, <<>>>>) :
     f \in {g \in [1 .. 3 -> {4, 5}] : g[1] = 4 /\ 5 \in {g[2], g[3]}}}

Problem(numTasks, fValues, maxInserts) ==
  [numTasks |-> numTasks, numActions |-> 1, totalOrder |-> FALSE, parallelSequences |-> FALSE,
   noReopening |-> FALSE, fValues |-> fValues, maxInserts |-> maxInserts]

\* The kinds of problems, "both" being totally ordered with the option for parallel
\* sequences.
MCProblems ==
  [total    |-> [Problem(2, {0, 1, 2}, 3) EXCEPT !.totalOrder = TRUE],
   both     |-> [Problem(2, {0}, 3) EXCEPT !.totalOrder = TRUE, !.parallelSequences = TRUE,
                                           !.noReopening = TRUE],
   parallel |-> [Problem(2, {0, 1}, 2) EXCEPT !.parallelSequences = TRUE],
   partial  |-> Problem(3, {0, 1}, 2)]

MCNetworks == [total |-> Chains, both |-> Chains, parallel |-> MirroredChains, partial |-> Forests]

SharedProblem == [shared |-> Problem(4, {0}, 2)]
SharedNetworks == [shared |-> TwoLayers]
=============================================================================
