----------------------------- MODULE MCFirstTasks -----------------------------
(* Every acyclic network over N steps, up to renaming of the steps: numbering   *)
(* them in topological order, a step precedes only greater ones.                *)
EXTENDS FirstTasks, SequencesExt

CONSTANT N

MCStep == 1 .. N

Forward == {e \in MCStep \X MCStep : e[1] < e[2]}

MCNetworks ==
  {[s \in MCStep |-> SetToSortSeq({r \in MCStep : <<s, r>> \in E}, <)] :
     E \in SUBSET Forward}
===============================================================================
