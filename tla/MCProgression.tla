---------------------------- MODULE MCProgression ----------------------------
(* A problem with a join (two tasks precede a third), a fork, an action that    *)
(* two orderings lead to, actions without effects, one of them applicable only  *)
(* later, a recursive method, and branches that end dead.                       *)
EXTENDS Progression

CONSTANTS MaxNode, MaxAddress

MCNodeId == 1 .. MaxNode
MCAddress == 1 .. MaxAddress

MCFact == {"f", "g"}
MCPrimitive == {"get", "check", "swap", "skip"}
MCTask == MCPrimitive \union {"top", "part"}

MCPrec == [get |-> {}, check |-> {"f"}, swap |-> {"f"}, skip |-> {}]
MCAdd == [get |-> {"f"}, check |-> {}, swap |-> {"g"}, skip |-> {}]
MCDel == [get |-> {}, check |-> {}, swap |-> {"f"}, skip |-> {}]
MCCost == [get |-> 1, check |-> 0, swap |-> 2, skip |-> 1]

AllMethods == {"join", "fork", "getIt", "skipIt", "again"}

MCDecomposed ==
  [m \in Method |-> IF m \in {"join", "fork"} THEN "top" ELSE "part"]
MCSubTasks ==
  [m \in Method |-> CASE m = "join" -> <<"part", "part", "swap">>
                      [] m = "fork" -> <<"part", "check", "check">>
                      [] m = "getIt" -> <<"get", "check">>
                      [] m = "skipIt" -> <<"skip">>
                      [] m = "again" -> <<"swap", "part">>]
MCOrdering ==
  [m \in Method |-> CASE m = "join" -> {<<1, 3>>, <<2, 3>>}
                      [] m = "fork" -> {<<1, 2>>, <<1, 3>>}
                      [] OTHER -> {}]
==============================================================================
