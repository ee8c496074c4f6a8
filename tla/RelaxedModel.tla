---------------------------- MODULE RelaxedModel ----------------------------
(***************************************************************************)
(* The problem the classical heuristics work on, and what they are called  *)
(* with.  They ignore deletes.  Operators are numbers, and each has a      *)
(* precondition: the reader refuses methods without subtasks.              *)
(***************************************************************************)
EXTENDS Integers, Sequences, FiniteSets, FiniteSetsExt, SequencesExt

VARIABLES rc,       \* [facts, prec, add, cost]
          s0set, gset,
          calc,     \* what is running: "none", or a step of a heuristic
          hval

callVars == <<rc, s0set, gset>>

Ops == DOMAIN rc.prec
numOps == Cardinality(Ops)

UNREACHABLE == 2147483647
NOACTION == -1
NoModel == [facts |-> {}, prec |-> <<>>, add |-> <<>>, cost |-> <<>>]

\* The facts that can be made true from F by operators in O.
Closure(F, O) ==
  LET more(X) == X \union UNION {rc.add[o] : o \in {x \in O : rc.prec[x] \subseteq X}}
      closure[X \in SUBSET rc.facts] == IF more(X) = X THEN X ELSE closure[more(X)]
  IN  closure[F]

\* What w gives for 0, 1 and so on, up to n - 1, added up.
Total(n, w) == LET upTo[i \in 0 .. n] == IF i = 0 THEN 0 ELSE upTo[i - 1] + w[i - 1]
               IN  upTo[n]

CostsOf(costs, O) == Total(numOps, [o \in Ops |-> IF o \in O THEN costs[o] ELSE 0])
=============================================================================
