----------------------------- MODULE VisitedList -----------------------------
(***************************************************************************)
(* VisitedList::insertVisi: the duplicate check of the search.             *)
(*                                                                         *)
(* A search node is looked up under a key made of its state, the task      *)
(* names in a topological order, the ordered pairs of task names and the   *)
(* task counts per layer.  On totally ordered problems and on problems     *)
(* whose task networks are parallel sequences the key identifies the       *)
(* network and the list keeps a cost under it.  Otherwise nodes with the   *)
(* same key are kept and compared by a search for an isomorphism.          *)
(*                                                                         *)
(* A network is a labelled graph as the node's lists give it: the label    *)
(* and the successor list of each step, and the node's first steps with    *)
(* the abstract ones in front.  The options are the defaults: all parts of *)
(* the key are used, so that the hash value, a function of parts of the    *)
(* key, only picks a bucket and is left out.  The number of a step stands  *)
(* for its id and for its address.                                         *)
(***************************************************************************)
EXTENDS Integers, FiniteSets, SequencesExt

CONSTANTS Problems,    \* a function: the problems and options to consider
          Networks     \* a function: for each problem the networks that may be inserted

\* Tasks are 0 .. numTasks - 1, those below numActions primitive.  totalOrder stands for
\* Model::isTotallyOrdered, parallelSequences for Model::isParallelSequences and the
\* option, noReopening for --suboptimal, fValues for the values of nodes; maxInserts
\* bounds the number of calls.
ASSUME ProblemsAssumption ==
  \A p \in DOMAIN Problems :
    /\ Problems[p].numTasks > 1 /\ Problems[p].numActions \in 0 .. Problems[p].numTasks
    /\ {Problems[p].totalOrder, Problems[p].parallelSequences, Problems[p].noReopening} \subseteq BOOLEAN
    /\ Problems[p].fValues \subseteq Nat

VARIABLES problem, \* which one it is
          list,    \* the entries: a function from keys
          seen,    \* history: the networks looked up, with their values
          last     \* the last call and its result

vars == <<problem, list, seen, last>>

NumTasks == Problems[problem].numTasks
NumActions == Problems[problem].numActions
TotalOrder == Problems[problem].totalOrder
ParallelSequences == Problems[problem].parallelSequences
NoReopening == Problems[problem].noReopening

Steps(n) == DOMAIN n.label
Succ(n, s) == ToSet(n.succ[s])
Pred(n, s) == {p \in Steps(n) : s \in Succ(n, p)}

Least(S) == CHOOSE x \in S : \A y \in S : x <= y

\* The number of bits of a positive number.
BitLength(k) == Least({b \in 1 .. 30 : k < 2 ^ b})

BitsNeeded ==
  [p \in DOMAIN Problems |->
     BitLength(IF Problems[p].parallelSequences THEN Problems[p].numTasks ELSE Problems[p].numTasks - 1)]

BitsNeededPerTask == BitsNeeded[problem]

\* The bits of a number that are written to the key.
Token(t) == t % 2 ^ BitsNeededPerTask
-----------------------------------------------------------------------------
\* to_dfs: the labels from s on along the first successors.
RECURSIVE ToDfs(_, _)
ToDfs(n, s) == <<n.label[s]>> \o
                 IF n.succ[s] = <<>> THEN <<>> ELSE ToDfs(n, Head(n.succ[s]))

RECURSIVE LessSeq(_, _)
\* operator< of vector<int>.
LessSeq(p, q) == /\ q # <<>>
                 /\ \/ p = <<>>
                    \/ p[1] < q[1]
                    \/ p[1] = q[1] /\ LessSeq(Tail(p), Tail(q))

LessOrEqual(p, q) == p = q \/ LessSeq(p, q)

\* sort(sequences): equal sequences may occur several times.
Sorted(qs) == CHOOSE p \in {[i \in DOMAIN qs |-> qs[f[i]]] : f \in Permutations(DOMAIN qs)} :
                \A i, j \in DOMAIN qs : i < j => LessOrEqual(p[i], p[j])

\* Sequences in a row, with the number of tasks between two of them.
Joined(qs) == FlattenSeq([i \in DOMAIN qs |-> IF i = 1 THEN qs[i] ELSE <<NumTasks>> \o qs[i]])

\* The labels of the parallel sequences.
SequencesOf(n) == Joined(Sorted([i \in DOMAIN n.first |-> ToDfs(n, n.first[i])]))

\* The heap of IntPairHeap as a sequence of <<key, value>>: an added pair rises, and the
\* last pair sinks from the root.
RECURSIVE Rise(_, _), Sink(_, _)
Exchanged(h, i, j) == [h EXCEPT ![i] = h[j], ![j] = h[i]]
Rise(h, i) == IF i > 1 /\ h[i][1] < h[i \div 2][1]
              THEN Rise(Exchanged(h, i, i \div 2), i \div 2) ELSE h
Sink(h, i) ==
  LET c == IF 2 * i + 1 <= Len(h) /\ h[2 * i + 1][1] < h[2 * i][1] THEN 2 * i + 1 ELSE 2 * i
  IN  IF 2 * i <= Len(h) /\ h[c][1] < h[i][1] THEN Sink(Exchanged(h, i, c), c) ELSE h

Add(h, p) == Rise(Append(h, p), Len(h) + 1)
Pop(h) == IF Len(h) = 1 THEN <<>> ELSE Sink(ReplaceAt(Front(h), 1, Last(h)), 1)

AddSteps(n, h, steps) == FoldLeft(LAMBDA g, s : Add(g, <<n.label[s], s>>), h, steps)

RECURSIVE Emptied(_, _, _)
\* The loop of topSort with heap h after the steps in popped.
Emptied(n, h, popped) ==
  IF h = <<>> THEN <<>>
  ELSE LET s == h[1][2]
           freed == {t \in Succ(n, s) : Pred(n, t) \subseteq popped \union {s}}
       IN  <<n.label[s]>> \o
             Emptied(n, AddSteps(n, Pop(h), SetToSortSeq(freed, <)), popped \union {s})

\* topSort: of the steps that are ready one with the least label is next.  The
\* primitive first steps enter the heap in front of the abstract ones.
TopSort(n) ==
  LET primitive(s) == n.label[s] < NumActions
      abstract(s) == ~primitive(s)
  IN  Emptied(n, AddSteps(n, <<>>, SelectSeq(n.first, primitive) \o SelectSeq(n.first, abstract)), {})

\* The label sequence of the key.  In total order mode the sequence of to_dfs
\* is replaced by that of topSort, or doubled when sequences may be used, too.
SequenceForHashing(n) ==
  IF ParallelSequences
  THEN (IF TotalOrder /\ n.first # <<>> THEN ToDfs(n, n.first[1]) ELSE <<>>) \o SequencesOf(n)
  ELSE TopSort(n)
-----------------------------------------------------------------------------
\* dfsdfs: depths of the steps in a depth-first search from the first steps; a step
\* keeps the depth at which it is first met.  stack holds <<step, depth>>.
RECURSIVE Depths(_, _, _)
Depths(n, stack, depth) ==
  IF stack = <<>> THEN depth
  ELSE LET s == Head(stack)[1]
           d == Head(stack)[2]
           below == [i \in DOMAIN n.succ[s] |-> <<n.succ[s][i], d + 1>>]
       IN  IF s \in DOMAIN depth THEN Depths(n, Tail(stack), depth)
           ELSE Depths(n, below \o Tail(stack), (s :> d) @@ depth)

DepthOf(n) == Depths(n, [i \in DOMAIN n.first |-> <<n.first[i], 0>>], <<>>)

\* The set of pairs, in the order of std::set.
OrderPairs(n) ==
  SetToSortSeq({<<n.label[s], n.label[t]>> : <<s, t>> \in
                  {p \in Steps(n) \X Steps(n) : p[2] \in Succ(n, p[1])}}, LessSeq)

MaxTaskCount == 255

\* Per layer the labels in increasing order, each with how often it occurs, followed by
\* the separator except at the end.  A count is a token of its own kind.
LayerTokens(n) ==
  LET depth == DepthOf(n)
      layers == {depth[s] : s \in Steps(n)}
      at(d, t) == Cardinality({s \in Steps(n) : depth[s] = d /\ n.label[s] = t})
      labels(d) == SetToSortSeq({n.label[s] : s \in {x \in Steps(n) : depth[x] = d}}, <)
      count(k) == -(IF k > MaxTaskCount THEN MaxTaskCount ELSE k)
      tokens(d) == FlattenSeq([i \in DOMAIN labels(d) |->
                                 <<Token(labels(d)[i]), count(at(d, labels(d)[i]))>>])
  IN  FlattenSeq([i \in 1 .. Cardinality(layers) |->
                    IF i = 1 THEN tokens(0) ELSE <<Token(NumTasks)>> \o tokens(i - 1)])

TrulyPartial == ~(TotalOrder \/ ParallelSequences)

Tokens(seq) == [i \in DOMAIN seq |-> Token(seq[i])]

PartialOrderTokens(n) ==
  FlattenSeq([i \in DOMAIN OrderPairs(n) |-> Tokens(OrderPairs(n)[i])])
    \o <<Token(NumTasks)>> \o LayerTokens(n)

Key(n) == <<n.state>> \o Tokens(SequenceForHashing(n)) \o
            IF TrulyPartial THEN PartialOrderTokens(n) ELSE <<>>
-----------------------------------------------------------------------------
\* matchingGenerate: pair the steps P of one network with the steps Q of the other.
\* The pairs found below a pair are not handed back: both maps are passed by value.
RECURSIVE Generate(_, _, _, _, _), MatchDFS(_, _, _, _, _)
Generate(one, other, P, Q, mapping) ==
  IF P = {} THEN TRUE
  ELSE LET p == Least(P)
       IN  \E q \in {x \in Q : other.label[x] = one.label[p]} :
             /\ \A m \in mapping : (m[1] = p) <=> (m[2] = q)
             /\ \/ <<p, q>> \in mapping
                \/ MatchDFS(one, other, p, q, mapping \union {<<p, q>>})
             /\ Generate(one, other, P \ {p}, Q \ {q}, mapping \union {<<p, q>>})

\* As many steps of each label on both sides.
SameLabels(one, other, P, Q) ==
  \A t \in 0 .. NumTasks - 1 : Cardinality({s \in P : one.label[s] = t})
                               = Cardinality({s \in Q : other.label[s] = t})

\* matchingDFS: can the steps after p and q be paired?
MatchDFS(one, other, p, q, mapping) ==
  /\ Len(one.succ[p]) = Len(other.succ[q])
  /\ SameLabels(one, other, Succ(one, p), Succ(other, q))
  /\ Generate(one, other, Succ(one, p), Succ(other, q), mapping)

\* Mutation: only the first steps are compared.
MatchingFirst(one, other) == SameLabels(one, other, ToSet(one.first), ToSet(other.first))

\* matching: the first steps hang below a head of their own.
Matching(one, other) ==
  /\ Len(one.first) = Len(other.first)
  /\ SameLabels(one, other, ToSet(one.first), ToSet(other.first))
  /\ Generate(one, other, ToSet(one.first), ToSet(other.first), {})
-----------------------------------------------------------------------------
\* What a key leads to; 0 is the null pointer.
Payload(k) == IF k \in DOMAIN list THEN list[k] ELSE 0

\* Mutation: reopening at the same cost.
NewAtSameCost(k, f) == Payload(k) = 0 \/ (~NoReopening /\ Payload(k) >= f + 1)

IsNewKey(k, f) == Payload(k) = 0 \/ (~NoReopening /\ Payload(k) > f + 1)

\* What is written there, unless costs are ignored the cost plus one.
Entry(f) == IF NoReopening THEN 1 ELSE f + 1

\* Is some kept node with the key an equal network that is not more expensive?
IsNewNode(k, n, f) ==
  k \in DOMAIN list => \A e \in list[k] : Matching(n, e[1]) => e[2] > f

\* The kept nodes without the one that n replaces: the last that matches.
Kept(k, n) == IF k \notin DOMAIN list THEN {{}}
              ELSE LET old == {e \in list[k] : Matching(n, e[1])}
                   IN  IF old = {} THEN {list[k]} ELSE {list[k] \ {e} : e \in old}

Insert(n, f, k) ==
  /\ last' = [net |-> n, f |-> f,
              new |-> IF TrulyPartial THEN IsNewNode(k, n, f) ELSE IsNewKey(k, f)]
  /\ IF ~last'.new
     THEN list' = list
     ELSE IF TrulyPartial
     THEN \E keep \in Kept(k, n) : list' = (k :> keep \union {<<n, f>>}) @@ list
     ELSE list' = (k :> Entry(f)) @@ list
  /\ seen' = seen \union {<<n, f>>}

Init == /\ problem \in DOMAIN Problems
        /\ list = <<>>
        /\ seen = {}
        /\ last = [net |-> <<>>, f |-> 0, new |-> TRUE]

insertVisi == /\ Cardinality(seen) < Problems[problem].maxInserts
              /\ \E n \in Networks[problem], f \in Problems[problem].fValues : Insert(n, f, Key(n))
              /\ UNCHANGED problem

Next == insertVisi

Spec == Init /\ [][Next]_vars
-----------------------------------------------------------------------------
\* Equal networks: the same state, and steps that correspond one to one.  The steps of a
\* network are numbered from 1.
Isomorphic(m, n) ==
  /\ m.state = n.state /\ Steps(m) = Steps(n)
  /\ \E b \in Permutations(Steps(m)) :
       /\ \A s \in Steps(m) : n.label[b[s]] = m.label[s]
       /\ \A s \in Steps(m) : {b[t] : t \in Succ(m, s)} = Succ(n, b[s])

Known(n, f) == \E e \in seen : Isomorphic(e[1], n) /\ (NoReopening \/ e[2] <= f)

\* A node is pruned only when an equal one was seen before that was no more expensive:
\* otherwise the search would lose part of the search space.
PrunesOnlySeen == [][~last'.new => Known(last'.net, last'.f)]_vars

\* The label sequences that arise when any ready step with the least label may be next.
RECURSIVE SortsFrom(_, _, _)
SortsFrom(n, ready, popped) ==
  IF ready = {} THEN {<<>>}
  ELSE LET least == {s \in ready : \A t \in ready : n.label[s] <= n.label[t]}
           freed(s) == {t \in Succ(n, s) : Pred(n, t) \subseteq popped \union {s}}
       IN  UNION {{<<n.label[s]>> \o r :
                     r \in SortsFrom(n, (ready \ {s}) \union freed(s), popped \union {s})}
                  : s \in least}

\* No step has two predecessors, and it does not matter which of two ready steps with
\* equal labels is taken first.
Untied(n) == /\ \A s \in Steps(n) : Cardinality(Pred(n, s)) <= 1
             /\ Cardinality(SortsFrom(n, ToSet(n.first), {})) = 1

\* A node is pruned whenever an equal one was seen before that was no more expensive, as
\* the comment on insertVisi says; on partially ordered problems only untied networks are
\* recognised, since the key depends on the order of equal first steps.
PrunesAllSeenUntied ==
  [][(last'.new /\ (TrulyPartial => Untied(last'.net))) => ~Known(last'.net, last'.f)]_vars
=============================================================================
