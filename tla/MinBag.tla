------------------------------- MODULE MinBag -------------------------------
(***************************************************************************)
(* What a priority queue of (key, value) pairs promises: it holds the      *)
(* pairs that were added and not yet popped, and a pop removes a pair with *)
(* a smallest key.  Values stand for entries: the heap compares keys only, *)
(* so two entries with the same value behave like two entries with         *)
(* different ones, and telling entries apart by value loses nothing.       *)
(***************************************************************************)
EXTENDS Integers

CONSTANTS Key, Val

VARIABLE contents

Smallest == {e \in contents : \A f \in contents : e[1] <= f[1]}

Init == contents = {}

Add == \E k \in Key, v \in Val :
         /\ \A e \in contents : e[2] # v
         /\ contents' = contents \union {<<k, v>>}

Pop == \E e \in Smallest : contents' = contents \ {e}

Clear == contents' = {}

Next == Add \/ Pop \/ Clear

Spec == Init /\ [][Next]_contents
=============================================================================
