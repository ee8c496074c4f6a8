---------------------------- MODULE MCSearchLoop ----------------------------
(***************************************************************************)
(* Search spaces over four networks: a is the initial one, z a goal; a has *)
(* one or two expansions, the networks may reach each other in cycles, two *)
(* of them at no cost.  The cheaper way to c leads through b, so c is      *)
(* reached twice.  The heuristic knows the networks in informed exactly    *)
(* and is 0 elsewhere: it is admissible, and in general not consistent.    *)
(***************************************************************************)
EXTENDS SearchLoop

CONSTANTS a, b, c, z, d

MCNetwork == {a, b, c, z}
MCAbstract == {a, b}

\* The costs of a modification.
CostOf == [p \in MCNetwork \X (MCNetwork \union {d}) |->
             CASE p = <<a, c>> -> 3
               [] p = <<c, z>> -> 2
               [] p = <<b, z>> -> 4
               [] p = <<a, z>> -> 4
               [] p \in {<<b, c>>, <<c, b>>} -> 0
               [] OTHER -> 1]

\* Children in one fixed order.
Children(w, T) ==
  LET child(t) == IF t \in T THEN <<[to |-> t, cost |-> CostOf[w, t]]>> ELSE <<>>
  IN  child(b) \o child(c) \o child(a) \o child(z) \o child(d)

Small(T, n) == {S \in SUBSET T : Cardinality(S) <= n}

Far == 99
Least(S) == CHOOSE x \in S : \A y \in S : x <= y

\* The costs of cheapest ways, over the expansions E.
Distances(E) ==
  LET D[k \in 0 .. 4] ==
        [w \in MCNetwork |->
           IF w = z THEN 0
           ELSE IF k = 0 THEN Far
           ELSE Least({Far} \union
                  UNION {{x[i].cost + D[k - 1][x[i].to] : i \in {j \in 1 .. Len(x) : x[j].to # d}}
                           : x \in E[w]})]
  IN  D[4]

SpaceOf(E, informed, options) ==
  LET D == Distances(E)
      solvable == {w \in MCNetwork : D[w] < Far}
  IN  [options |-> options, expansions |-> E, goals |-> {z}, solvable |-> solvable,
       dist |-> [w \in solvable |-> D[w]],
       h |-> [w \in MCNetwork |-> IF w \in informed /\ w \in solvable THEN D[w] ELSE 0],
       unreachable |-> informed \ solvable]

\* The expansions: those of a from A, of b and c from targets B and C.
ExpansionSets(A, B, C) ==
  {[w \in MCNetwork |-> CASE w = a -> {Children(a, T) : T \in As}
                          [] w = b -> {Children(b, T1)}
                          [] w = c -> {Children(c, T2)}
                          [] w = z -> {<<>>}] : As \in A, T1 \in B, T2 \in C}

\* A* search, greedy search under a time limit, and A* search under one with nodes in the
\* visited list.
Optimally == [suboptimal |-> FALSE, gValue |-> TRUE, weight |-> 1,
              visitedMode |-> "trie", hasTimeLimit |-> FALSE]
Greedily == [suboptimal |-> TRUE, gValue |-> FALSE, weight |-> 2,
             visitedMode |-> "trie", hasTimeLimit |-> TRUE]
WithNodes == [Optimally EXCEPT !.visitedMode = "nodes", !.hasTimeLimit = TRUE]

AllSpaces(options) ==
  {SpaceOf(E, I, options) : E \in ExpansionSets(Small(Small({b, c, z}, 2), 2) \ {{}},
                                                Small({a, c, z, d}, 2),
                                                Small({a, b, z}, 1)),
                            I \in SUBSET {a, b, c}}

\* Fewer spaces, with every kind of network in them.
SomeSpaces(options) ==
  {SpaceOf(E, I, options) : E \in ExpansionSets({{{b, c}}, {{b, z}, {b, c}}},
                                                Small({a, c, z, d}, 2),
                                                {{b}, {z}, {b, z}, {a, b}}),
                            I \in SUBSET {b, c}}

MCSpaces == {s \in AllSpaces(Optimally) \union AllSpaces(Greedily) \union SomeSpaces(WithNodes) :
               IsSpace(s)}

AnyGarbage == {0, 50}
=============================================================================
