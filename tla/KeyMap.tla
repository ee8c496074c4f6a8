------------------------------- MODULE KeyMap -------------------------------
(***************************************************************************)
(* What the visited list needs of its trie: a place for a value under      *)
(* every key, and nothing else.                                            *)
(***************************************************************************)
EXTENDS Naturals

CONSTANTS Key,      \* bit strings
          Payload   \* what the caller writes

VARIABLE map    \* a function from the keys written

Init == map = [k \in {} |-> 0]

\* A map with the value v under k.
Put(m, k, v) == [x \in DOMAIN m \union {k} |-> IF x = k THEN v ELSE m[x]]

\* A value is written under one key.
Next == LET before == map
        IN  map' \in {Put(before, k, v) : k \in Key, v \in Payload}

Spec == Init /\ [][Next]_map
=============================================================================
