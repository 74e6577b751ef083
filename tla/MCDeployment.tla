----------------------------- MODULE MCDeployment -----------------------------
(* Deployment with one shard or four, or none: entity a is at home on shard 0 of   *)
(* both, b moves between shards 0 and 3, and there are two attempts to ingest its  *)
(* document.                                                                       *)
EXTENDS Deployment, TLC

CONSTANTS a, b, a1, b1, b2

MCOwner == [d \in Docs |-> IF d = a1 THEN a ELSE b]
MCHash == [e \in Entities |-> IF e = a THEN 4 ELSE 3]
MCPayloads == {<<b>>, <<a, b>>, <<b, b>>}
MCSettings == {0, 1, NotANumber}

Symmetry == Permutations(RandomKeys) \cup Permutations({b1, b2})
===============================================================================
