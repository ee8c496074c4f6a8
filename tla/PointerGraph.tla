---------------------------- MODULE PointerGraph ----------------------------
(***************************************************************************)
(* Objects that point to each other and count the pointers to them, as     *)
(* plan steps (successorList) and solution steps (prev) do.  G maps every  *)
(* allocated object to the objects it points to, count to its              *)
(* pointersToMe.  No search node knows what others share with it: what may *)
(* be freed follows from the counts alone.                                 *)
(***************************************************************************)
EXTENDS Naturals, FiniteSets

\* The objects that those of F point to.
PointedTo(G, F) == UNION {G[x] : x \in F \intersect DOMAIN G}

\* The objects reached from those of S by one or more pointers.
ReachedFrom(G, S) ==
  LET walk[F \in SUBSET PointedTo(G, DOMAIN G)] ==
        IF PointedTo(G, F) \subseteq F THEN F ELSE walk[F \union PointedTo(G, F)]
  IN  walk[PointedTo(G, S)]

\* The pointers to x that go when a node that points to the objects of S is deleted
\* and those of F are freed.
PointersLost(G, S, F, x) ==
  (IF x \in S THEN 1 ELSE 0) + Cardinality({f \in F : x \in G[f]})

AtZero(G, count, S, F) ==
  {x \in DOMAIN G : /\ PointersLost(G, S, F, x) > 0
                    /\ count[x] = PointersLost(G, S, F, x)}

\* What the destructors free: the objects of S at zero, and what these point to in turn.
Freed(G, count, S) ==
  LET freed[F \in SUBSET DOMAIN G] ==
        IF AtZero(G, count, S, F) \subseteq F THEN F ELSE freed[F \union AtZero(G, count, S, F)]
  IN  freed[{}]
=============================================================================
