------------------------------ MODULE MCGateway ------------------------------
(* Gateway on small instances: entity a lives on shard 0, b on shard 1, and the *)
(* documents of both mention the concepts c1 and c2.                            *)
EXTENDS Gateway, TLC

CONSTANTS a, b, c1, c2, none, short, long

MCHome == [e \in Entities |-> IF e = b THEN 1 ELSE 0]
MCTripletsOf == [t \in Texts |-> CASE t = none  -> <<>>
                                   [] t = short -> <<<<c1, c2>>>>
                                   [] t = long  -> <<<<c1, c2>>, <<c2, c1>>>>]

IngestOf(e, t) == [kind |-> "ingest", entity |-> e, text |-> t]
UnlearnOf(e) == [kind |-> "unlearn", entity |-> e]
AuditOf(e, s) == [kind |-> "audit", entity |-> e, shard |-> s]

\* Everything about both entities.
MenuAll == {IngestOf(a, short), IngestOf(b, long), UnlearnOf(a), UnlearnOf(b),
            AuditOf(a, 0), AuditOf(a, 1)}
\* One entity whose documents have no triplets, with audits; the name of the other
\* one is not well-formed.
MenuOne == {IngestOf(a, none), UnlearnOf(a), UnlearnOf(b), AuditOf(a, 0)}
\* One entity, and another one that only ingests.
MenuTwo == {IngestOf(a, short), IngestOf(b, short), UnlearnOf(a)}

ReqSymmetry == Permutations(Reqs)
=============================================================================
