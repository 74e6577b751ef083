---------------------------- MODULE MCDashboard ----------------------------
(* Dashboard on small instances: d1 and d2 are documents of one entity. *)
EXTENDS Dashboard, TLC

CONSTANTS d1, d2, e1, e2

MCOwner == [d \in Docs |-> IF d = d1 THEN e1 ELSE e2]
MCOwnerOne == [d \in Docs |-> e1]
MCEvents == Event
Symmetry == Permutations(Sessions) \cup Permutations(Docs) \cup Permutations(AuditIds)
=============================================================================
