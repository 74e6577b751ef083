---------------------------- MODULE GatewayProofs ----------------------------
(***************************************************************************)
(* Proofs about Gateway for all sets of requests, entities, shards,        *)
(* concepts and documents, every menu of requests and every combination of *)
(* faults (where a theorem excludes silent statement errors, it says so).  *)
(***************************************************************************)
EXTENDS Gateway, SequenceTheorems, TLAPS

IngestPcs == {"embed", "insert", "extract", "sub", "obj", "relate", "announce"}
UnlearnPcs == {"findShard", "findGraph", "purge", "delKnow", "delConcept", "recEntity",
               "recShard", "recEdge", "certify", "save", "deleted", "audited"}
AuditPcs == {"affected", "lookup"}

\* Every handler is at a place of its own kind, and inside its loop.
Fits(r) ==
    /\ pc[r] = "idle" <=> req[r] = NoReq
    /\ pc[r] \in IngestPcs => Kind(r) = "ingest"
    /\ pc[r] \in UnlearnPcs => Kind(r) = "unlearn"
    /\ pc[r] \in AuditPcs => Kind(r) = "audit"
    /\ pc[r] \in {"idle", "embed", "insert", "extract"} => idx[r] = 1
    /\ pc[r] \in {"sub", "obj", "relate"} => idx[r] \in 1 .. Len(Triplets(r))

Typed == TypeOK /\ \A r \in Reqs : Fits(r)

\* A request that arrived has an entity; an ingest has a text, an audit a shard.
LEMMA ReqFields ==
    ASSUME Typed, NEW r \in Reqs, pc[r] # "idle"
    PROVE  /\ req[r] \in Ingest \cup Unlearn \cup Audit
           /\ Entity(r) \in Entities
           /\ ShardOf(r) \in Shards
           /\ Kind(r) = "ingest" => req[r] \in Ingest /\ Triplets(r) \in Seq(Concepts \X Concepts)
           /\ Kind(r) = "unlearn" => req[r] \in Unlearn
           /\ Kind(r) = "audit" => req[r] \in Audit /\ req[r].shard \in Shards
<1>1. req[r] \in Ingest \cup Unlearn \cup Audit
    BY DEF Typed, TypeOK, Fits
<1>2. Entity(r) \in Entities
    BY <1>1 DEF Entity, Ingest, Unlearn, Audit
<1>3. Kind(r) = "ingest" => req[r] \in Ingest
    BY <1>1 DEF Kind, Unlearn, Audit
<1>4. Kind(r) = "unlearn" => req[r] \in Unlearn
    BY <1>1 DEF Kind, Ingest, Audit
<1>5. Kind(r) = "audit" => req[r] \in Audit
    BY <1>1 DEF Kind, Ingest, Unlearn
<1>6. req[r] \in Ingest => Triplets(r) \in Seq(Concepts \X Concepts)
    BY TripletsAssumption DEF Ingest, Triplets
<1>7. req[r] \in Audit => req[r].shard \in Shards
    BY DEF Audit
<1> QED
    BY <1>1, <1>2, <1>3, <1>4, <1>5, <1>6, <1>7, HomeAssumption DEF ShardOf

LEMMA TypedInit == Init => Typed
BY NoReqAssumption, NoNodeAssumption
   DEF Init, GraphInit, Typed, TypeOK, GraphTypeOK, Fits, Steps, QueryStart, QueryMid, Ended,
       IngestPcs, UnlearnPcs, AuditPcs

---------------------------------------------------------------------------
(* Type correctness.                                                       *)

Places == Steps \cup QueryStart \cup QueryMid \cup Ended

\* A handler in flight takes a step.
Moves(r) ==
    /\ pc[r] \in Places \ Ended
    /\ pc'[r] \in Places
    /\ pc' = [pc EXCEPT ![r] = pc'[r]]
    /\ UNCHANGED <<req, preceded>>

LEMMA MoveTyped ==
    ASSUME Typed, NEW r \in Reqs, Moves(r), idx' = [idx EXCEPT ![r] = idx'[r]],
           idx'[r] \in Nat, Fits(r)'
    PROVE  /\ \A q \in Reqs : Fits(q)'
           /\ pc' \in [Reqs -> Places \cup {"idle"}]
           /\ req' \in [Reqs -> Ingest \cup Unlearn \cup Audit \cup {NoReq}]
           /\ idx' \in [Reqs -> Nat]
           /\ preceded' \in [Reqs -> SUBSET Reqs]
<1>1. ASSUME NEW q \in Reqs, q # r PROVE Fits(q)'
    BY <1>1 DEF Typed, TypeOK, Fits, Moves, Kind, Triplets
<1> QED
    BY <1>1 DEF Typed, TypeOK, Moves, Places

\* The successors of every place.
Succ(l) ==
    CASE l = "embed" -> {"insert"}
      [] l = "insert" -> {"extract"}
      [] l = "extract" -> {"sub", "announce"}
      [] l = "sub" -> {"obj"}
      [] l = "obj" -> {"relate"}
      [] l = "relate" -> {"sub", "announce"}
      [] l = "findShard" -> {"findGraph"}
      [] l = "findGraph" -> {"purge"}
      [] l = "purge" -> {"delKnow"}
      [] l = "delKnow" -> {"delConcept"}
      [] l = "delConcept" -> {"recEntity"}
      [] l = "recEntity" -> {"recShard"}
      [] l = "recShard" -> {"recEdge"}
      [] l = "recEdge" -> {"certify"}
      [] l = "certify" -> {"save"}
      [] l = "save" -> {"deleted"}
      [] l = "deleted" -> {"audited"}
      [] l = "affected" -> {"lookup"}
      [] l \in {"announce", "audited", "lookup"} -> {"ok"}
      [] OTHER -> {}

LEMMA SuccFits ==
    ASSUME Typed, NEW r \in Reqs, Moves(r),
           pc'[r] \in Succ(pc[r]) \cup Ended,
           idx'[r] = idx[r], pc[r] \notin {"extract", "relate"}
    PROVE  Fits(r)'
<1> USE DEF Typed, TypeOK, Fits, Moves, Kind, Triplets
<1>1. CASE pc'[r] \in Ended
    BY <1>1 DEF Ended, IngestPcs, UnlearnPcs, AuditPcs, Places, Steps, QueryStart, QueryMid
<1>2. CASE pc'[r] \in Succ(pc[r])
    BY <1>2 DEF Succ, Ended, IngestPcs, UnlearnPcs, AuditPcs, Places, Steps, QueryStart, QueryMid
<1> QED
    BY <1>1, <1>2

\* Where a handler may end instead, from anywhere.
Stops == {"notfound", "failed", "dropped"}

HandlerStep(r) ==
    IngestStep(r) \/ UnlearnStep(r) \/ AuditStep(r) \/ QueryFails(r) \/ Drop(r)

LEMMA StepMoves ==
    ASSUME Typed, NEW r \in Reqs, HandlerStep(r)
    PROVE  /\ Moves(r)
           /\ pc'[r] \in Succ(pc[r]) \cup Stops
           /\ pc[r] # "relate" => UNCHANGED idx
           /\ idx' = [idx EXCEPT ![r] = idx'[r]]
<1> DEFINE Shape == /\ Moves(r)
                    /\ pc'[r] \in Succ(pc[r]) \cup Stops
                    /\ pc[r] # "relate" => UNCHANGED idx
                    /\ idx' = [idx EXCEPT ![r] = idx'[r]]
<1>0. ASSUME NEW l, NEW n, pc[r] \in Places \ Ended, pc' = [pc EXCEPT ![r] = l],
             l \in Places, l \in Succ(pc[r]) \cup Stops,
             UNCHANGED <<req, preceded>>, idx' = [idx EXCEPT ![r] = n],
             pc[r] # "relate" => n = idx[r]
      PROVE  Shape
    <2>1. pc'[r] = l /\ idx'[r] = n
        BY <1>0 DEF Typed, TypeOK
    <2>2. pc[r] # "relate" => UNCHANGED idx
        BY <1>0 DEF Typed, TypeOK
    <2> QED
        BY <1>0, <2>1, <2>2 DEF Moves
<1>00. idx = [idx EXCEPT ![r] = idx[r]] /\ Stops \subseteq Places
    BY DEF Typed, TypeOK, Places, Stops, Ended
<1> USE DEF Goto, Resume
<1> HIDE DEF Shape
<1>1. ASSUME Embed(r) PROVE Shape
    <2>1. PICK l : pc' = [pc EXCEPT ![r] = l] /\ l \in Succ("embed") \cup Stops
        BY <1>1 DEF Embed, Succ, Stops
    <2>2. "embed" \in Places \ Ended /\ Succ("embed") \subseteq Places
        BY DEF Succ, Places, Steps, QueryStart, QueryMid, Ended
    <2> QED
        BY <1>0, <1>00, <1>1, <2>1, <2>2 DEF Embed, RestOfPc
<1>2. ASSUME InsertVector(r) PROVE Shape
    <2>1. PICK l : pc' = [pc EXCEPT ![r] = l] /\ l \in Succ("insert") \cup Stops
        BY <1>2 DEF InsertVector, Succ, Stops
    <2>2. "insert" \in Places \ Ended /\ Succ("insert") \subseteq Places
        BY DEF Succ, Places, Steps, QueryStart, QueryMid, Ended
    <2> QED
        BY <1>0, <1>00, <1>2, <2>1, <2>2 DEF InsertVector, RestOfPc
<1>3. ASSUME Extract(r) PROVE Shape
    <2>1. PICK l : pc' = [pc EXCEPT ![r] = l] /\ l \in Succ("extract") \cup Stops
        BY <1>3 DEF Extract, Succ, Stops, NextTriplet
    <2>2. "extract" \in Places \ Ended /\ Succ("extract") \subseteq Places
        BY DEF Succ, Places, Steps, QueryStart, QueryMid, Ended
    <2> QED
        BY <1>0, <1>00, <1>3, <2>1, <2>2 DEF Extract, RestOfPc
<1>4. ASSUME UpsertSubject(r) PROVE Shape
    <2>1. PICK l : pc' = [pc EXCEPT ![r] = l] /\ l \in Succ("sub") \cup Stops
        BY <1>4 DEF UpsertSubject, Succ, Stops
    <2>2. "sub" \in Places \ Ended /\ Succ("sub") \subseteq Places
        BY DEF Succ, Places, Steps, QueryStart, QueryMid, Ended
    <2> QED
        BY <1>0, <1>00, <1>4, <2>1, <2>2 DEF UpsertSubject, RestOfPc
<1>5. ASSUME UpsertObject(r) PROVE Shape
    <2>1. PICK l : pc' = [pc EXCEPT ![r] = l] /\ l \in Succ("obj") \cup Stops
        BY <1>5 DEF UpsertObject, Succ, Stops
    <2>2. "obj" \in Places \ Ended /\ Succ("obj") \subseteq Places
        BY DEF Succ, Places, Steps, QueryStart, QueryMid, Ended
    <2> QED
        BY <1>0, <1>00, <1>5, <2>1, <2>2 DEF UpsertObject, RestOfPc
<1>6. ASSUME RelateTriplet(r) PROVE Shape
    <2>1. PICK l : pc' = [pc EXCEPT ![r] = l] /\ l \in Succ("relate") \cup Stops
        BY <1>6 DEF RelateTriplet, Succ, Stops, NextTriplet
    <2>2. "relate" \in Places \ Ended /\ Succ("relate") \subseteq Places
        BY DEF Succ, Places, Steps, QueryStart, QueryMid, Ended
    <2> QED
        BY <1>0, <1>00, <1>6, <2>1, <2>2 DEF RelateTriplet, RestOfPc
<1>7. ASSUME Announce(r) PROVE Shape
    <2>1. PICK l : pc' = [pc EXCEPT ![r] = l] /\ l \in Succ("announce") \cup Stops
        BY <1>7 DEF Announce, Succ, Stops
    <2>2. "announce" \in Places \ Ended /\ Succ("announce") \subseteq Places
        BY DEF Succ, Places, Steps, QueryStart, QueryMid, Ended
    <2> QED
        BY <1>0, <1>00, <1>7, <2>1, <2>2 DEF Announce, RestOfPc
<1>8. ASSUME FindInShard(r) PROVE Shape
    <2>1. PICK l : pc' = [pc EXCEPT ![r] = l] /\ l \in Succ("findShard") \cup Stops
        BY <1>8 DEF FindInShard, Succ, Stops
    <2>2. "findShard" \in Places \ Ended /\ Succ("findShard") \subseteq Places
        BY DEF Succ, Places, Steps, QueryStart, QueryMid, Ended
    <2> QED
        BY <1>0, <1>00, <1>8, <2>1, <2>2 DEF FindInShard, RestOfPc
<1>9. ASSUME FindInGraph(r) PROVE Shape
    <2>1. PICK l : pc' = [pc EXCEPT ![r] = l] /\ l \in Succ("findGraph") \cup Stops
        BY <1>9 DEF FindInGraph, Succ, Stops
    <2>2. "findGraph" \in Places \ Ended /\ Succ("findGraph") \subseteq Places
        BY DEF Succ, Places, Steps, QueryStart, QueryMid, Ended
    <2> QED
        BY <1>0, <1>00, <1>9, <2>1, <2>2 DEF FindInGraph, RestOfPc
<1>10. ASSUME PurgeVectors(r) PROVE Shape
    <2>1. PICK l : pc' = [pc EXCEPT ![r] = l] /\ l \in Succ("purge") \cup Stops
        BY <1>10 DEF PurgeVectors, Succ, Stops
    <2>2. "purge" \in Places \ Ended /\ Succ("purge") \subseteq Places
        BY DEF Succ, Places, Steps, QueryStart, QueryMid, Ended
    <2> QED
        BY <1>0, <1>00, <1>10, <2>1, <2>2 DEF PurgeVectors, RestOfPc
<1>11. ASSUME PurgeEdges(r) PROVE Shape
    <2>1. PICK l : pc' = [pc EXCEPT ![r] = l] /\ l \in Succ("delKnow") \cup Stops
        BY <1>11 DEF PurgeEdges, Succ, Stops
    <2>2. "delKnow" \in Places \ Ended /\ Succ("delKnow") \subseteq Places
        BY DEF Succ, Places, Steps, QueryStart, QueryMid, Ended
    <2> QED
        BY <1>0, <1>00, <1>11, <2>1, <2>2 DEF PurgeEdges, RestOfPc
<1>12. ASSUME PurgeNodes(r) PROVE Shape
    <2>1. PICK l : pc' = [pc EXCEPT ![r] = l] /\ l \in Succ("delConcept") \cup Stops
        BY <1>12 DEF PurgeNodes, Succ, Stops
    <2>2. "delConcept" \in Places \ Ended /\ Succ("delConcept") \subseteq Places
        BY DEF Succ, Places, Steps, QueryStart, QueryMid, Ended
    <2> QED
        BY <1>0, <1>00, <1>12, <2>1, <2>2 DEF PurgeNodes, RestOfPc
<1>13. ASSUME RecordEntity(r) PROVE Shape
    <2>1. PICK l : pc' = [pc EXCEPT ![r] = l] /\ l \in Succ("recEntity") \cup Stops
        BY <1>13 DEF RecordEntity, Succ, Stops
    <2>2. "recEntity" \in Places \ Ended /\ Succ("recEntity") \subseteq Places
        BY DEF Succ, Places, Steps, QueryStart, QueryMid, Ended
    <2> QED
        BY <1>0, <1>00, <1>13, <2>1, <2>2 DEF RecordEntity, RestOfPc
<1>14. ASSUME RecordShard(r) PROVE Shape
    <2>1. PICK l : pc' = [pc EXCEPT ![r] = l] /\ l \in Succ("recShard") \cup Stops
        BY <1>14 DEF RecordShard, Succ, Stops
    <2>2. "recShard" \in Places \ Ended /\ Succ("recShard") \subseteq Places
        BY DEF Succ, Places, Steps, QueryStart, QueryMid, Ended
    <2> QED
        BY <1>0, <1>00, <1>14, <2>1, <2>2 DEF RecordShard, RestOfPc
<1>15. ASSUME RecordEdge(r) PROVE Shape
    <2>1. PICK l : pc' = [pc EXCEPT ![r] = l] /\ l \in Succ("recEdge") \cup Stops
        BY <1>15 DEF RecordEdge, Succ, Stops
    <2>2. "recEdge" \in Places \ Ended /\ Succ("recEdge") \subseteq Places
        BY DEF Succ, Places, Steps, QueryStart, QueryMid, Ended
    <2> QED
        BY <1>0, <1>00, <1>15, <2>1, <2>2 DEF RecordEdge, RestOfPc
<1>16. ASSUME Certify(r) PROVE Shape
    <2>1. PICK l : pc' = [pc EXCEPT ![r] = l] /\ l \in Succ("certify") \cup Stops
        BY <1>16 DEF Certify, Succ, Stops
    <2>2. "certify" \in Places \ Ended /\ Succ("certify") \subseteq Places
        BY DEF Succ, Places, Steps, QueryStart, QueryMid, Ended
    <2> QED
        BY <1>0, <1>00, <1>16, <2>1, <2>2 DEF Certify, RestOfPc
<1>17. ASSUME SaveCertificate(r) PROVE Shape
    <2>1. PICK l : pc' = [pc EXCEPT ![r] = l] /\ l \in Succ("save") \cup Stops
        BY <1>17 DEF SaveCertificate, Succ, Stops
    <2>2. "save" \in Places \ Ended /\ Succ("save") \subseteq Places
        BY DEF Succ, Places, Steps, QueryStart, QueryMid, Ended
    <2> QED
        BY <1>0, <1>00, <1>17, <2>1, <2>2 DEF SaveCertificate, RestOfPc
<1>18. ASSUME SendDeleted(r) PROVE Shape
    <2>1. PICK l : pc' = [pc EXCEPT ![r] = l] /\ l \in Succ("deleted") \cup Stops
        BY <1>18 DEF SendDeleted, Succ, Stops
    <2>2. "deleted" \in Places \ Ended /\ Succ("deleted") \subseteq Places
        BY DEF Succ, Places, Steps, QueryStart, QueryMid, Ended
    <2> QED
        BY <1>0, <1>00, <1>18, <2>1, <2>2 DEF SendDeleted, RestOfPc
<1>19. ASSUME SendAudit(r) PROVE Shape
    <2>1. PICK l : pc' = [pc EXCEPT ![r] = l] /\ l \in Succ("audited") \cup Stops
        BY <1>19 DEF SendAudit, Succ, Stops
    <2>2. "audited" \in Places \ Ended /\ Succ("audited") \subseteq Places
        BY DEF Succ, Places, Steps, QueryStart, QueryMid, Ended
    <2> QED
        BY <1>0, <1>00, <1>19, <2>1, <2>2 DEF SendAudit, RestOfPc
<1>20. ASSUME QueryAffected(r) PROVE Shape
    <2>1. PICK l : pc' = [pc EXCEPT ![r] = l] /\ l \in Succ("affected") \cup Stops
        BY <1>20 DEF QueryAffected, Succ, Stops
    <2>2. "affected" \in Places \ Ended /\ Succ("affected") \subseteq Places
        BY DEF Succ, Places, Steps, QueryStart, QueryMid, Ended
    <2> QED
        BY <1>0, <1>00, <1>20, <2>1, <2>2 DEF QueryAffected, RestOfPc
<1>21. ASSUME LookupCertificate(r) PROVE Shape
    <2>1. PICK l : pc' = [pc EXCEPT ![r] = l] /\ l \in Succ("lookup") \cup Stops
        BY <1>21 DEF LookupCertificate, Succ, Stops
    <2>2. "lookup" \in Places \ Ended /\ Succ("lookup") \subseteq Places
        BY DEF Succ, Places, Steps, QueryStart, QueryMid, Ended
    <2> QED
        BY <1>0, <1>00, <1>21, <2>1, <2>2 DEF LookupCertificate, RestOfPc
<1>22. ASSUME QueryFails(r) PROVE Shape
    <2>1. PICK l : pc' = [pc EXCEPT ![r] = l] /\ l \in Stops
        BY <1>22 DEF QueryFails, Stops
    <2>2. pc[r] \in Places \ Ended
        BY <1>22 DEF QueryFails, Places, QueryStart, Ended
    <2> QED
        BY <1>0, <1>00, <1>22, <2>1, <2>2 DEF QueryFails, RestOfPc
<1>23. ASSUME Drop(r) PROVE Shape
    <2>1. pc[r] \in Places \ Ended /\ "dropped" \in Stops
        BY <1>23 DEF Drop, InFlight, Places, Ended, Stops, Typed, TypeOK
    <2> QED
        BY <1>0, <1>00, <1>23, <2>1 DEF Drop, RestOfPc
<1>24. ASSUME IngestStep(r) PROVE Shape
    BY <1>1, <1>2, <1>3, <1>4, <1>5, <1>6, <1>7, <1>24 DEF IngestStep
<1>25. ASSUME UnlearnStep(r) PROVE Shape
    BY <1>8, <1>9, <1>10, <1>11, <1>12, <1>13, <1>14, <1>15, <1>16, <1>17, <1>18, <1>19,
       <1>25 DEF UnlearnStep
<1>26. ASSUME AuditStep(r) PROVE Shape
    BY <1>20, <1>21, <1>26 DEF AuditStep
<1>27. Shape
    BY <1>22, <1>23, <1>24, <1>25, <1>26 DEF HandlerStep
<1> QED
    BY <1>27 DEF Shape

LEMMA StepFits ==
    ASSUME Typed, NEW r \in Reqs, HandlerStep(r)
    PROVE  /\ \A q \in Reqs : Fits(q)'
           /\ pc' \in [Reqs -> Places \cup {"idle"}]
           /\ req' \in [Reqs -> Ingest \cup Unlearn \cup Audit \cup {NoReq}]
           /\ idx' \in [Reqs -> Nat]
           /\ preceded' \in [Reqs -> SUBSET Reqs]
<1>1. /\ Moves(r) /\ pc'[r] \in Succ(pc[r]) \cup Ended
      /\ pc[r] # "relate" => UNCHANGED idx
      /\ idx' = [idx EXCEPT ![r] = idx'[r]]
    BY StepMoves DEF Stops, Ended
<1>2. idx[r] \in Nat
    BY DEF Typed, TypeOK
<1>3. CASE pc[r] \notin {"extract", "relate"}
    <2>1. idx'[r] = idx[r]
        BY <1>1, <1>3
    <2>2. Fits(r)'
        BY <1>1, <1>3, <2>1, SuccFits
    <2> QED
        BY <1>1, <1>2, <2>1, <2>2, MoveTyped
<1>4. ASSUME NEW i \in Nat, i >= 1, Kind(r) = "ingest", idx'[r] = i,
             pc'[r] \in Ended \/ pc'[r] = NextTriplet(r, i)
      PROVE  Fits(r)'
    <2>1. Len(Triplets(r)) \in Nat /\ pc[r] # "idle" /\ req[r] # NoReq
        BY <1>1, <1>4, ReqFields DEF Moves, Places, Steps, QueryStart, QueryMid, Ended, Typed, Fits
    <2>2. pc'[r] \in Ended \/ pc'[r] = "announce" \/ (pc'[r] = "sub" /\ i <= Len(Triplets(r)))
        BY <1>4 DEF NextTriplet
    <2>3. req' = req /\ Kind(r)' = "ingest" /\ Triplets(r)' = Triplets(r)
        BY <1>1, <1>4 DEF Moves, Kind, Triplets
    <2>4. pc'[r] = "sub" => idx'[r] \in 1 .. Len(Triplets(r))
        BY <1>4, <2>1, <2>2 DEF Ended
    <2> QED
        BY <1>4, <2>1, <2>2, <2>3, <2>4 DEF Fits, Ended, IngestPcs, UnlearnPcs, AuditPcs
<1>5. CASE pc[r] = "extract"
    <2>1. idx'[r] = 1 /\ Kind(r) = "ingest"
        BY <1>1, <1>5 DEF Typed, Fits, IngestPcs
    <2>2. pc'[r] \in Ended \/ pc'[r] = NextTriplet(r, 1)
        <3>1. Extract(r) \/ Drop(r)
            BY <1>5 DEF HandlerStep, IngestStep, UnlearnStep, AuditStep, Embed, InsertVector,
                UpsertSubject, UpsertObject, RelateTriplet, Announce, FindInShard, FindInGraph,
                PurgeVectors, PurgeEdges, PurgeNodes, RecordEntity, RecordShard, RecordEdge,
                Certify, SaveCertificate, SendDeleted, SendAudit, QueryAffected,
                LookupCertificate, QueryFails, QueryStart
        <3> QED
            BY <3>1 DEF Extract, Drop, Goto, Ended, Typed, TypeOK
    <2>3. Fits(r)'
        BY <1>4, <2>1, <2>2
    <2> QED
        BY <1>1, <2>1, <2>3, MoveTyped
<1>6. CASE pc[r] = "relate"
    <2>1. idx[r] >= 1 /\ Kind(r) = "ingest"
        BY <1>2, <1>6 DEF Typed, Fits, IngestPcs
    <2>2. RelateTriplet(r)
        BY <1>6 DEF HandlerStep, IngestStep, UnlearnStep, AuditStep, Embed, InsertVector,
            UpsertSubject, UpsertObject, Extract, Announce, FindInShard, FindInGraph,
            PurgeVectors, PurgeEdges, PurgeNodes, RecordEntity, RecordShard, RecordEdge,
            Certify, SaveCertificate, SendDeleted, SendAudit, QueryAffected,
            LookupCertificate, QueryFails, QueryStart, Drop, QueryMid
    <2>3. /\ idx'[r] = idx[r] + 1
          /\ pc'[r] \in Ended \/ pc'[r] = NextTriplet(r, idx[r] + 1)
        BY <2>2 DEF RelateTriplet, Resume, Goto, Ended, Typed, TypeOK
    <2>4. Fits(r)'
        BY <1>2, <1>4, <2>1, <2>3
    <2> QED
        BY <1>1, <1>2, <2>3, <2>4, MoveTyped
<1> QED
    BY <1>3, <1>5, <1>6

LEMMA StepData ==
    ASSUME Typed, NEW r \in Reqs, HandlerStep(r)
    PROVE  /\ GraphTypeOK'
           /\ vectors' \subseteq Reqs
           /\ inShard' \in [Reqs -> BOOLEAN]
           /\ verified' \in [Reqs -> BOOLEAN]
           /\ stamp' \in [Reqs -> Nat]
           /\ gone' \subseteq Reqs
           /\ sent' \subseteq {"NodeIngested", "NodeDeleted", "AuditGenerated"} \X Reqs
           /\ now' \in Nat
<1> DEFINE Others == /\ vectors' \subseteq Reqs
                     /\ inShard' \in [Reqs -> BOOLEAN]
                     /\ verified' \in [Reqs -> BOOLEAN]
                     /\ stamp' \in [Reqs -> Nat]
                     /\ gone' \subseteq Reqs
                     /\ sent' \subseteq {"NodeIngested", "NodeDeleted", "AuditGenerated"} \X Reqs
                     /\ now' \in Nat
<1>0. /\ GraphTypeOK /\ vectors \subseteq Reqs /\ inShard \in [Reqs -> BOOLEAN]
      /\ verified \in [Reqs -> BOOLEAN] /\ stamp \in [Reqs -> Nat] /\ gone \subseteq Reqs
      /\ sent \subseteq {"NodeIngested", "NodeDeleted", "AuditGenerated"} \X Reqs
      /\ now \in Nat
    BY DEF Typed, TypeOK
<1>00. ASSUME pc[r] # "idle" PROVE Entity(r) \in Entities /\ ShardOf(r) \in Shards
    BY <1>00, ReqFields
<1>000. UNCHANGED graphVars => GraphTypeOK'
    BY <1>0 DEF GraphTypeOK, graphVars
<1>0000. ASSUME pc[r] \in {"sub", "obj", "relate"}
         PROVE  /\ Triplets(r)[idx[r]][1] \in Concepts
                /\ Triplets(r)[idx[r]][2] \in Concepts
    <2>1. Triplets(r) \in Seq(Concepts \X Concepts) /\ idx[r] \in 1 .. Len(Triplets(r))
        BY <1>0000, ReqFields DEF Typed, Fits, IngestPcs
    <2> QED
        BY <2>1
<1>1. ASSUME UpsertSubject(r) PROVE GraphTypeOK' /\ Others
    <2>1. pc[r] = "sub" /\ pc[r] # "idle"
        BY <1>1 DEF UpsertSubject
    <2>2. UpsertConcept(Triplets(r)[idx[r]][1], Entity(r), r) => GraphTypeOK'
        BY <1>0, <1>00, <1>0000, <2>1 DEF UpsertConcept, GraphTypeOK, Node
    <2>3. UpsertConcept(Triplets(r)[idx[r]][1], Entity(r), r) \/ UNCHANGED graphVars
        BY <1>1 DEF UpsertSubject, Statement
    <2> QED
        BY <1>0, <1>000, <1>1, <2>2, <2>3 DEF UpsertSubject, RestOfPc
<1>2. ASSUME UpsertObject(r) PROVE GraphTypeOK' /\ Others
    <2>1. pc[r] = "obj" /\ pc[r] # "idle"
        BY <1>2 DEF UpsertObject
    <2>2. UpsertConcept(Triplets(r)[idx[r]][2], Entity(r), r) => GraphTypeOK'
        BY <1>0, <1>00, <1>0000, <2>1 DEF UpsertConcept, GraphTypeOK, Node
    <2>3. UpsertConcept(Triplets(r)[idx[r]][2], Entity(r), r) \/ UNCHANGED graphVars
        BY <1>2 DEF UpsertObject, Statement
    <2> QED
        BY <1>0, <1>000, <1>2, <2>2, <2>3 DEF UpsertObject, RestOfPc
<1>3. ASSUME RelateTriplet(r) PROVE GraphTypeOK' /\ Others
    <2>1. pc[r] = "relate" /\ pc[r] # "idle"
        BY <1>3 DEF RelateTriplet
    <2>2. RelateKnowledge(Triplets(r)[idx[r]][1], Triplets(r)[idx[r]][2], Entity(r), ShardOf(r), r) => GraphTypeOK'
        BY <1>0, <1>00, <1>0000, <2>1 DEF RelateKnowledge, GraphTypeOK, Edge
    <2>3. RelateKnowledge(Triplets(r)[idx[r]][1], Triplets(r)[idx[r]][2], Entity(r), ShardOf(r), r) \/ UNCHANGED graphVars
        BY <1>3 DEF RelateTriplet, Statement
    <2> QED
        BY <1>0, <1>000, <1>3, <2>2, <2>3 DEF RelateTriplet, RestOfPc
<1>4. ASSUME PurgeEdges(r) PROVE GraphTypeOK' /\ Others
    <2>1. pc[r] = "delKnow" /\ pc[r] # "idle"
        BY <1>4 DEF PurgeEdges
    <2>2. DeleteKnowledge(Entity(r)) => GraphTypeOK'
        BY <1>0, <1>00, <2>1 DEF DeleteKnowledge, GraphTypeOK
    <2>3. DeleteKnowledge(Entity(r)) \/ UNCHANGED graphVars
        BY <1>4 DEF PurgeEdges, Statement
    <2> QED
        BY <1>0, <1>000, <1>4, <2>2, <2>3 DEF PurgeEdges, RestOfPc
<1>5. ASSUME PurgeNodes(r) PROVE GraphTypeOK' /\ Others
    <2>1. pc[r] = "delConcept" /\ pc[r] # "idle"
        BY <1>5 DEF PurgeNodes
    <2>2. DeleteConcepts(Entity(r)) => GraphTypeOK'
        BY <1>0, <1>00, <2>1 DEF DeleteConcepts, GraphTypeOK
    <2>3. DeleteConcepts(Entity(r)) \/ UNCHANGED graphVars
        BY <1>5 DEF PurgeNodes, Statement
    <2> QED
        BY <1>0, <1>000, <1>5, <2>2, <2>3 DEF PurgeNodes, RestOfPc
<1>6. ASSUME RecordEntity(r) PROVE GraphTypeOK' /\ Others
    <2>1. pc[r] = "recEntity" /\ pc[r] # "idle"
        BY <1>6 DEF RecordEntity
    <2>2. UpsertEntity(Entity(r)) => GraphTypeOK'
        BY <1>0, <1>00, <2>1 DEF UpsertEntity, GraphTypeOK
    <2>3. UpsertEntity(Entity(r)) \/ UNCHANGED graphVars
        BY <1>6 DEF RecordEntity, Statement
    <2> QED
        BY <1>0, <1>000, <1>6, <2>2, <2>3 DEF RecordEntity, RestOfPc
<1>7. ASSUME RecordShard(r) PROVE GraphTypeOK' /\ Others
    <2>1. pc[r] = "recShard" /\ pc[r] # "idle"
        BY <1>7 DEF RecordShard
    <2>2. UpsertShard(ShardOf(r)) => GraphTypeOK'
        BY <1>0, <1>00, <2>1 DEF UpsertShard, GraphTypeOK
    <2>3. UpsertShard(ShardOf(r)) \/ UNCHANGED graphVars
        BY <1>7 DEF RecordShard, Statement
    <2> QED
        BY <1>0, <1>000, <1>7, <2>2, <2>3 DEF RecordShard, RestOfPc
<1>8. ASSUME RecordEdge(r) PROVE GraphTypeOK' /\ Others
    <2>1. pc[r] = "recEdge" /\ pc[r] # "idle"
        BY <1>8 DEF RecordEdge
    <2>2. RelatePurged(Entity(r), ShardOf(r), r) => GraphTypeOK'
        BY <1>0, <1>00, <2>1 DEF RelatePurged, GraphTypeOK, PurgeEdge
    <2>3. RelatePurged(Entity(r), ShardOf(r), r) \/ UNCHANGED graphVars
        BY <1>8 DEF RecordEdge, Statement
    <2> QED
        BY <1>0, <1>000, <1>8, <2>2, <2>3 DEF RecordEdge, RestOfPc
<1>9. ASSUME SaveCertificate(r) PROVE GraphTypeOK' /\ Others
    <2>1. pc[r] = "save" /\ pc[r] # "idle"
        BY <1>9 DEF SaveCertificate
    <2>2. CreateCertificate(Entity(r), ShardOf(r), stamp[r], r) => GraphTypeOK'
        BY <1>0, <1>00, <2>1 DEF CreateCertificate, GraphTypeOK, Entry
    <2>3. CreateCertificate(Entity(r), ShardOf(r), stamp[r], r) \/ UNCHANGED graphVars
        BY <1>9 DEF SaveCertificate, Statement
    <2> QED
        BY <1>0, <1>000, <1>9, <2>2, <2>3 DEF SaveCertificate, RestOfPc
<1>10. ASSUME Embed(r) PROVE GraphTypeOK' /\ Others
    BY <1>0, <1>000, <1>10 DEF Embed, RestOfPc
<1>11. ASSUME InsertVector(r) PROVE GraphTypeOK' /\ Others
    BY <1>0, <1>000, <1>11 DEF InsertVector, RestOfPc
<1>12. ASSUME Extract(r) PROVE GraphTypeOK' /\ Others
    BY <1>0, <1>000, <1>12 DEF Extract, RestOfPc
<1>13. ASSUME Announce(r) PROVE GraphTypeOK' /\ Others
    BY <1>0, <1>000, <1>13 DEF Announce, RestOfPc
<1>14. ASSUME FindInGraph(r) PROVE GraphTypeOK' /\ Others
    BY <1>0, <1>000, <1>14 DEF FindInGraph, RestOfPc
<1>15. ASSUME PurgeVectors(r) PROVE GraphTypeOK' /\ Others
    BY <1>0, <1>000, <1>15 DEF PurgeVectors, RestOfPc
<1>16. ASSUME Certify(r) PROVE GraphTypeOK' /\ Others
    BY <1>0, <1>000, <1>16 DEF Certify, RestOfPc
<1>17. ASSUME SendDeleted(r) PROVE GraphTypeOK' /\ Others
    BY <1>0, <1>000, <1>17 DEF SendDeleted, RestOfPc
<1>18. ASSUME SendAudit(r) PROVE GraphTypeOK' /\ Others
    BY <1>0, <1>000, <1>18 DEF SendAudit, RestOfPc
<1>19. ASSUME FindInShard(r) PROVE GraphTypeOK' /\ Others
    <2>1. PICK b \in BOOLEAN : inShard' = [inShard EXCEPT ![r] = b]
        BY <1>19 DEF FindInShard
    <2> QED
        BY <1>0, <1>000, <1>19, <2>1 DEF FindInShard
<1>20. ASSUME QueryAffected(r) PROVE GraphTypeOK' /\ Others
    <2>1. verified' \in [Reqs -> BOOLEAN]
        <3>1. (req[r].shard \in AffectedShards(Entity(r))) \in BOOLEAN
            OBVIOUS
        <3>2. PICK b \in BOOLEAN : verified' = [verified EXCEPT ![r] = b] \/ verified' = verified
            BY <1>20, <3>1 DEF QueryAffected
        <3> QED
            BY <1>0, <3>2
    <2> QED
        BY <1>0, <1>000, <1>20, <2>1 DEF QueryAffected
<1>21. ASSUME LookupCertificate(r) PROVE GraphTypeOK' /\ Others
    <2>1. \A c \in ledger : c.ts \in Nat
        BY <1>0 DEF GraphTypeOK, Entry
    <2>2. PICK t \in Nat : stamp' = [stamp EXCEPT ![r] = t]
        BY <1>0, <1>21, <2>1 DEF LookupCertificate, Newest, Certificates
    <2> QED
        BY <1>0, <1>000, <1>21, <2>2 DEF LookupCertificate
<1>22. ASSUME QueryFails(r) \/ Drop(r) PROVE GraphTypeOK' /\ Others
    BY <1>0, <1>000, <1>22 DEF QueryFails, Drop, RestOfPc
<1> HIDE DEF Others
<1>23. ASSUME IngestStep(r) PROVE GraphTypeOK' /\ Others
    BY <1>1, <1>2, <1>3, <1>10, <1>11, <1>12, <1>13, <1>23 DEF IngestStep
<1>24. ASSUME UnlearnStep(r) PROVE GraphTypeOK' /\ Others
    BY <1>4, <1>5, <1>6, <1>7, <1>8, <1>9, <1>14, <1>15, <1>16, <1>17, <1>18, <1>19,
       <1>24 DEF UnlearnStep
<1>25. ASSUME AuditStep(r) PROVE GraphTypeOK' /\ Others
    BY <1>20, <1>21, <1>25 DEF AuditStep
<1>26. GraphTypeOK' /\ Others
    BY <1>22, <1>23, <1>24, <1>25 DEF HandlerStep
<1> QED
    BY <1>26 DEF Others

LEMMA TypedNext == Typed /\ [Next]_vars => Typed'
<1> SUFFICES ASSUME Typed, [Next]_vars PROVE Typed'
    OBVIOUS
<1>1. ASSUME NEW r \in Reqs, Arrive(r) PROVE Typed'
    <2>1. PICK m \in Menu : req' = [req EXCEPT ![r] = m] /\ pc' = [pc EXCEPT ![r] = FirstStep(m)]
        BY <1>1 DEF Arrive, Goto
    <2>2. m \in Ingest \cup Unlearn \cup Audit /\ m # NoReq
        BY MenuAssumption, NoReqAssumption
    <2>3. CASE m.kind = "audit" /\ FirstStep(m) = "affected"
        BY <1>1, <2>1, <2>2, <2>3 DEF Arrive, Typed, TypeOK, GraphTypeOK, graphVars, Fits, Kind,
           Triplets, Steps, QueryStart, QueryMid, Ended, IngestPcs, UnlearnPcs, AuditPcs
    <2>4. CASE FirstStep(m) = "rejected"
        BY <1>1, <2>1, <2>2, <2>4 DEF Arrive, Typed, TypeOK, GraphTypeOK, graphVars, Fits, Kind,
           Triplets, Steps, QueryStart, QueryMid, Ended, IngestPcs, UnlearnPcs, AuditPcs
    <2>5. CASE m.kind = "ingest" /\ FirstStep(m) = "embed"
        BY <1>1, <2>1, <2>2, <2>5 DEF Arrive, Typed, TypeOK, GraphTypeOK, graphVars, Fits, Kind,
           Triplets, Steps, QueryStart, QueryMid, Ended, IngestPcs, UnlearnPcs, AuditPcs
    <2>6. CASE m.kind = "unlearn" /\ FirstStep(m) = "findShard"
        BY <1>1, <2>1, <2>2, <2>6 DEF Arrive, Typed, TypeOK, GraphTypeOK, graphVars, Fits, Kind,
           Triplets, Steps, QueryStart, QueryMid, Ended, IngestPcs, UnlearnPcs, AuditPcs
    <2>7. m.kind \in {"ingest", "unlearn", "audit"}
        BY <2>2 DEF Ingest, Unlearn, Audit
    <2> QED
        BY <2>3, <2>4, <2>5, <2>6, <2>7 DEF FirstStep
<1>2. ASSUME NEW r \in Reqs, HandlerStep(r) PROVE Typed'
    BY <1>2, StepFits, StepData DEF Typed, TypeOK, Places
<1>3. ASSUME NEW r \in Reqs, Detach(r) PROVE Typed'
    BY <1>3 DEF Detach, Typed, TypeOK, GraphTypeOK, graphVars, Fits, Kind, Triplets
<1>4. CASE Tick
    BY <1>4 DEF Tick, handlerVars, Typed, TypeOK, GraphTypeOK, graphVars, Fits, Kind, Triplets
<1>5. CASE UNCHANGED vars
    BY <1>5 DEF vars, handlerVars, Typed, TypeOK, GraphTypeOK, graphVars, Fits, Kind, Triplets
<1> QED
    BY <1>1, <1>2, <1>3, <1>4, <1>5 DEF Next, HandlerStep

\* Every variable of the gateway keeps its type, whatever fails.
THEOREM TypeCorrect == Spec => []TypeOK
<1>1. Init => Typed
    BY TypedInit
<1>2. Typed /\ [Next]_vars => Typed'
    BY TypedNext
<1>3. Typed => TypeOK
    BY DEF Typed
<1> QED
    BY <1>1, <1>2, <1>3, PTL DEF Spec

---------------------------------------------------------------------------
(* What a step may write.                                                  *)

\* Only an ingest adds rows, edges and nodes, its own; only an unlearn adds
\* PURGED_FROM edges, its own.
Writes(r) ==
    /\ \A i \in vectors' : i \in vectors \/ (i = r /\ Kind(r) = "ingest")
    /\ \A k \in knowledge' :
          k \in knowledge \/ (Kind(r) = "ingest" /\ k.by = r /\ k.entity = Entity(r))
    /\ \A c \in Concepts :
          \/ concept'[c] = concept[c] \/ concept'[c] = NoNode
          \/ Kind(r) = "ingest" /\ concept'[c].by = r /\ concept'[c].entity = Entity(r)
    /\ \A x \in purgedFrom' :
          \/ x \in purgedFrom
          \/ /\ Kind(r) = "unlearn" /\ pc[r] = "recEdge"
             /\ x.by = r /\ x.entity = Entity(r) /\ x.shard = ShardOf(r)
    /\ \A c \in ledger' :
          c \in ledger \/ (Kind(r) = "unlearn" /\ pc[r] = "save" /\ c.by = r)
    /\ purgedFrom \subseteq purgedFrom'
    /\ entityNodes \subseteq entityNodes'
    /\ shardNodes \subseteq shardNodes'

LEMMA StepWrites ==
    ASSUME Typed, NEW r \in Reqs, HandlerStep(r)
    PROVE  Writes(r)
<1>1. ASSUME UNCHANGED <<graphVars, vectors>> PROVE Writes(r)
    BY <1>1 DEF Writes, graphVars
<1>2. concept \in [Concepts -> Node \cup {NoNode}]
    BY DEF Typed, TypeOK, GraphTypeOK
<1>3. ASSUME InsertVector(r) PROVE Writes(r)
    <2>1. Kind(r) = "ingest"
        BY <1>3 DEF InsertVector, Typed, Fits, IngestPcs
    <2> QED
        BY <1>3, <2>1 DEF InsertVector, Writes, graphVars
<1>4. ASSUME PurgeVectors(r) PROVE Writes(r)
    BY <1>4 DEF PurgeVectors, Writes, graphVars
<1>5. ASSUME NEW c \in Concepts, pc[r] \in {"sub", "obj"}, UpsertConcept(c, Entity(r), r),
             UNCHANGED vectors
      PROVE  Writes(r)
    <2>1. Kind(r) = "ingest"
        BY <1>5 DEF Typed, Fits, IngestPcs
    <2> QED
        BY <1>2, <1>5, <2>1 DEF UpsertConcept, Writes
<1>6. ASSUME pc[r] \in {"sub", "obj", "relate"}
      PROVE  Triplets(r)[idx[r]][1] \in Concepts /\ Triplets(r)[idx[r]][2] \in Concepts
    <2>1. Triplets(r) \in Seq(Concepts \X Concepts) /\ idx[r] \in 1 .. Len(Triplets(r))
        BY <1>6, ReqFields DEF Typed, Fits, IngestPcs
    <2> QED
        BY <2>1
<1>7. ASSUME UpsertSubject(r) PROVE Writes(r)
    BY <1>1, <1>5, <1>6, <1>7 DEF UpsertSubject, Statement
<1>8. ASSUME UpsertObject(r) PROVE Writes(r)
    BY <1>1, <1>5, <1>6, <1>8 DEF UpsertObject, Statement
<1>9. ASSUME RelateTriplet(r) PROVE Writes(r)
    <2>1. Kind(r) = "ingest"
        BY <1>9 DEF RelateTriplet, Typed, Fits, IngestPcs
    <2> QED
        BY <1>1, <1>9, <2>1 DEF RelateTriplet, Statement, RelateKnowledge, Writes
<1>10. ASSUME PurgeEdges(r) PROVE Writes(r)
    BY <1>1, <1>10 DEF PurgeEdges, Statement, DeleteKnowledge, Writes
<1>11. ASSUME PurgeNodes(r) PROVE Writes(r)
    BY <1>1, <1>11 DEF PurgeNodes, Statement, DeleteConcepts, Writes
<1>12. ASSUME RecordEntity(r) PROVE Writes(r)
    BY <1>1, <1>12 DEF RecordEntity, Statement, UpsertEntity, Writes
<1>13. ASSUME RecordShard(r) PROVE Writes(r)
    BY <1>1, <1>13 DEF RecordShard, Statement, UpsertShard, Writes
<1>14. ASSUME RecordEdge(r) PROVE Writes(r)
    <2>1. Kind(r) = "unlearn" /\ pc[r] = "recEdge"
        BY <1>14 DEF RecordEdge, Typed, Fits, UnlearnPcs
    <2> QED
        BY <1>1, <1>14, <2>1 DEF RecordEdge, Statement, RelatePurged, Writes
<1>15. ASSUME SaveCertificate(r) PROVE Writes(r)
    <2>1. Kind(r) = "unlearn" /\ pc[r] = "save"
        BY <1>15 DEF SaveCertificate, Typed, Fits, UnlearnPcs
    <2> QED
        BY <1>1, <1>15, <2>1 DEF SaveCertificate, Statement, CreateCertificate, Writes
<1>16. ASSUME IngestStep(r) PROVE Writes(r)
    <2>1. Embed(r) \/ Extract(r) \/ Announce(r) => Writes(r)
        BY <1>1 DEF Embed, Extract, Announce
    <2> QED
        BY <1>3, <1>7, <1>8, <1>9, <1>16, <2>1 DEF IngestStep
<1>17. ASSUME UnlearnStep(r) PROVE Writes(r)
    <2>1. FindInShard(r) \/ FindInGraph(r) \/ Certify(r) \/ SendDeleted(r) \/ SendAudit(r)
              => Writes(r)
        BY <1>1 DEF FindInShard, FindInGraph, Certify, SendDeleted, SendAudit
    <2> QED
        BY <1>4, <1>10, <1>11, <1>12, <1>13, <1>14, <1>15, <1>17, <2>1 DEF UnlearnStep
<1>18. ASSUME AuditStep(r) \/ QueryFails(r) \/ Drop(r) PROVE Writes(r)
    BY <1>1, <1>18 DEF AuditStep, QueryAffected, LookupCertificate, QueryFails, Drop
<1> QED
    BY <1>16, <1>17, <1>18 DEF HandlerStep

---------------------------------------------------------------------------
(* What a step leaves alone.                                               *)

\* A request keeps its content and what preceded it; one that ended is over.
LEMMA Frame ==
    ASSUME Typed, [Next]_vars, NEW q \in Reqs, pc[q] # "idle"
    PROVE  /\ req'[q] = req[q] /\ preceded'[q] = preceded[q] /\ pc'[q] # "idle"
           /\ pc[q] \in Ended => pc'[q] = pc[q]
<1>1. ASSUME NEW r \in Reqs, HandlerStep(r)
      PROVE  /\ req' = req /\ preceded' = preceded /\ pc'[q] # "idle"
             /\ pc[q] \in Ended => pc'[q] = pc[q]
    BY <1>1, StepMoves DEF Moves, Typed, TypeOK, Places, Steps, QueryStart, QueryMid, Ended
<1>2. ASSUME NEW r \in Reqs, Arrive(r)
      PROVE  req'[q] = req[q] /\ preceded'[q] = preceded[q] /\ pc'[q] = pc[q]
    <2>1. q # r
        BY <1>2 DEF Arrive
    <2> QED
        BY <1>2, <2>1 DEF Arrive, Goto, Typed, TypeOK
<1>3. ASSUME NEW r \in Reqs, Detach(r) PROVE UNCHANGED <<req, preceded, pc>>
    BY <1>3 DEF Detach
<1>4. ASSUME Tick \/ UNCHANGED vars PROVE UNCHANGED <<req, preceded, pc>>
    BY <1>4 DEF Tick, vars, handlerVars
<1>5. \/ \E r \in Reqs : HandlerStep(r) \/ Arrive(r) \/ Detach(r)
      \/ Tick \/ UNCHANGED vars
    BY DEF Next, HandlerStep
<1> QED
    BY <1>1, <1>2, <1>3, <1>4, <1>5

\* A step of no handler writes nothing.
LEMMA QuietStep ==
    ASSUME [Next]_vars, \A r \in Reqs : ~HandlerStep(r)
    PROVE  UNCHANGED <<graphVars, vectors, sent, verified>>
BY DEF Next, HandlerStep, Arrive, Detach, Tick, vars, handlerVars

ByEdge(i) == \E k \in knowledge : k.by = i
ByNode(i) == \E c \in Concepts : concept[c] # NoNode /\ concept[c].by = i

\* A document whose ingestion has ended gains no data any more.
LEMMA Fade ==
    ASSUME Typed, [Next]_vars, NEW i \in Reqs, pc[i] \in Ended
    PROVE  /\ i \in vectors' => i \in vectors
           /\ ByEdge(i)' => ByEdge(i)
           /\ ByNode(i)' => ByNode(i)
<1>1. ASSUME NEW r \in Reqs, HandlerStep(r)
      PROVE  /\ i \in vectors' => i \in vectors
             /\ ByEdge(i)' => ByEdge(i)
             /\ ByNode(i)' => ByNode(i)
    <2>1. Writes(r) /\ r # i
        BY <1>1, StepWrites, StepMoves DEF Moves
    <2>2. i \in vectors' => i \in vectors
        BY <2>1 DEF Writes
    <2>3. ByEdge(i)' => ByEdge(i)
        BY <2>1 DEF Writes, ByEdge
    <2>4. ByNode(i)' => ByNode(i)
        BY <2>1 DEF Writes, ByNode
    <2> QED
        BY <2>2, <2>3, <2>4
<1>2. ASSUME \A r \in Reqs : ~HandlerStep(r)
      PROVE  /\ i \in vectors' => i \in vectors
             /\ ByEdge(i)' => ByEdge(i)
             /\ ByNode(i)' => ByNode(i)
    BY <1>2, QuietStep DEF graphVars, ByEdge, ByNode
<1> QED
    BY <1>1, <1>2

---------------------------------------------------------------------------
(* Whose data is whose.                                                    *)

Provenance ==
    /\ \A i \in vectors : Is(i, "ingest")
    /\ \A k \in knowledge : Is(k.by, "ingest") /\ k.entity = Entity(k.by)
    /\ \A c \in Concepts : concept[c] # NoNode =>
          Is(concept[c].by, "ingest") /\ concept[c].entity = Entity(concept[c].by)
    /\ \A x \in purgedFrom :
          Is(x.by, "unlearn") /\ x.entity = Entity(x.by) /\ x.shard = ShardOf(x.by)
    /\ \A r \in Reqs : \A i \in preceded[r] : pc[i] \in Ended

LEMMA ProvenanceInit == Init => Provenance
BY DEF Init, GraphInit, Provenance

LEMMA ProvenanceNext == Typed /\ Provenance /\ [Next]_vars => Provenance'
<1> SUFFICES ASSUME Typed, Provenance, [Next]_vars PROVE Provenance'
    OBVIOUS
<1>1. ASSUME NEW q \in Reqs, NEW kind, Is(q, kind)
      PROVE  Is(q, kind)' /\ Entity(q)' = Entity(q) /\ ShardOf(q)' = ShardOf(q)
    BY <1>1, Frame DEF Is, Arrived, Kind, Entity, ShardOf
<1>2. /\ vectors \subseteq Reqs /\ \A k \in knowledge : k.by \in Reqs
      /\ \A x \in purgedFrom : x.by \in Reqs
      /\ \A c \in Concepts : concept[c] # NoNode => concept[c].by \in Reqs
    BY DEF Typed, TypeOK, GraphTypeOK, Node, Edge, PurgeEdge
<1>3. \A r \in Reqs : \A i \in preceded'[r] : pc'[i] \in Ended
    <2>1. ASSUME NEW r \in Reqs, NEW i \in preceded[r] PROVE pc'[i] \in Ended
        <3>1. i \in Reqs /\ pc[i] \in Ended /\ pc[i] # "idle"
            BY <2>1 DEF Provenance, Typed, TypeOK, Ended
        <3> QED
            BY <3>1, Frame
    <2>2. ASSUME NEW r \in Reqs, Arrive(r), NEW q \in Reqs, NEW i \in preceded'[q]
          PROVE  pc'[i] \in Ended
        <3>1. i \in preceded[q] \/ (i \in Reqs /\ pc[i] \in Ended /\ pc[i] # "idle")
            BY <2>2 DEF Arrive, Typed, TypeOK, Ended
        <3> QED
            BY <2>1, <3>1, Frame
    <2>3. (\E r \in Reqs : Arrive(r)) \/ preceded' = preceded
        BY StepMoves DEF Next, HandlerStep, Moves, Detach, Tick, vars, handlerVars
    <2> QED
        BY <2>1, <2>2, <2>3
<1>4. ASSUME NEW r \in Reqs, HandlerStep(r) PROVE Provenance'
    <2>1. Writes(r) /\ Is(r, Kind(r))
        BY <1>4, StepWrites, StepMoves
           DEF Moves, Is, Arrived, Places, Steps, QueryStart, QueryMid, Ended
    <2>2. \A i \in vectors' : Is(i, "ingest")'
        BY <1>1, <1>2, <2>1 DEF Writes, Provenance
    <2>3. \A k \in knowledge' : (Is(k.by, "ingest") /\ k.entity = Entity(k.by))'
        BY <1>1, <1>2, <2>1 DEF Writes, Provenance
    <2>4. ASSUME NEW c \in Concepts, concept'[c] # NoNode
          PROVE  (Is(concept[c].by, "ingest") /\ concept[c].entity = Entity(concept[c].by))'
        BY <1>1, <1>2, <2>1, <2>4 DEF Writes, Provenance
    <2>5. \A x \in purgedFrom' : (/\ Is(x.by, "unlearn") /\ x.entity = Entity(x.by)
                                  /\ x.shard = ShardOf(x.by))'
        BY <1>1, <1>2, <2>1 DEF Writes, Provenance
    <2> QED
        BY <1>3, <2>2, <2>3, <2>4, <2>5 DEF Provenance
<1>5. ASSUME \A r \in Reqs : ~HandlerStep(r) PROVE Provenance'
    <2>1. UNCHANGED <<graphVars, vectors>>
        BY <1>5, QuietStep
    <2> QED
        BY <1>1, <1>2, <1>3, <2>1 DEF Provenance, graphVars
<1> QED
    BY <1>4, <1>5

\* What an unlearn has to purge is fixed when it arrives.
LEMMA BeforeKept ==
    ASSUME Typed, Provenance, [Next]_vars, NEW u \in Reqs, pc[u] # "idle"
    PROVE  /\ Before(u)' = Before(u)
           /\ \A i \in Before(u) : i \in Reqs /\ pc[i] \in Ended /\ Is(i, "ingest")
<1>1. \A i \in preceded[u] : i \in Reqs /\ pc[i] \in Ended /\ pc[i] # "idle"
    BY DEF Provenance, Typed, TypeOK, Ended
<1>2. preceded'[u] = preceded[u] /\ req'[u] = req[u]
    BY Frame
<1>3. \A i \in preceded[u] : req'[i] = req[i]
    BY <1>1, Frame
<1> QED
    BY <1>1, <1>2, <1>3 DEF Before, Kind, Entity, Is, Arrived

---------------------------------------------------------------------------
(* The stages of an unlearn: each deletion is final for what came before.  *)

AfterKnow == AfterPurge \ {"delKnow"}
AfterConcept == AfterKnow \ {"delConcept"}

EdgesPurged ==
    \A u \in Reqs : Is(u, "unlearn") /\ pc[u] \in AfterKnow
        => \A i \in Before(u) : ~ByEdge(i)

NodesPurged ==
    \A u \in Reqs : Is(u, "unlearn") /\ pc[u] \in AfterConcept
        => \A i \in Before(u) : ~ByNode(i)

\* What the unlearn that is at place l does to get past it.
LEMMA UnlearnAt ==
    ASSUME NEW u \in Reqs, HandlerStep(u)
    PROVE  /\ pc[u] = "purge" => PurgeVectors(u) \/ Drop(u)
           /\ pc[u] = "delKnow" => PurgeEdges(u) \/ QueryFails(u) \/ Drop(u)
           /\ pc[u] = "delConcept" => PurgeNodes(u)
           /\ pc[u] = "recEntity" => RecordEntity(u) \/ QueryFails(u) \/ Drop(u)
           /\ pc[u] = "recShard" => RecordShard(u)
           /\ pc[u] = "recEdge" => RecordEdge(u)
           /\ pc[u] = "affected" => QueryAffected(u) \/ Drop(u)
BY DEF HandlerStep, IngestStep, UnlearnStep, AuditStep, Embed, InsertVector, Extract,
       UpsertSubject, UpsertObject, RelateTriplet, Announce, FindInShard, FindInGraph,
       PurgeVectors, PurgeEdges, PurgeNodes, RecordEntity, RecordShard, RecordEdge,
       Certify, SaveCertificate, SendDeleted, SendAudit, QueryAffected,
       LookupCertificate, QueryFails, QueryStart, Drop, QueryMid

\* Only the step of its own handler moves a request on.
LEMMA WhoMoved ==
    ASSUME Typed, [Next]_vars, NEW u \in Reqs, pc[u] # "idle", pc'[u] # pc[u]
    PROVE  HandlerStep(u) /\ pc'[u] \in Succ(pc[u]) \cup Stops
<1>1. ASSUME NEW r \in Reqs, HandlerStep(r), r # u PROVE pc'[u] = pc[u]
    BY <1>1, StepMoves DEF Moves, Typed, TypeOK
<1>2. ASSUME NEW r \in Reqs, Arrive(r) PROVE pc'[u] = pc[u]
    BY <1>2 DEF Arrive, Goto, Typed, TypeOK
<1>3. ASSUME NEW r \in Reqs, Detach(r) PROVE pc'[u] = pc[u]
    BY <1>3 DEF Detach
<1>4. ASSUME Tick \/ UNCHANGED vars PROVE pc'[u] = pc[u]
    BY <1>4 DEF Tick, vars, handlerVars
<1>5. \/ \E r \in Reqs : HandlerStep(r) \/ Arrive(r) \/ Detach(r)
      \/ Tick \/ UNCHANGED vars
    BY DEF Next, HandlerStep
<1> QED
    BY <1>1, <1>2, <1>3, <1>4, <1>5, StepMoves

\* An unlearn arrives before all of its stages.
LEMMA Fresh ==
    ASSUME Typed, [Next]_vars, NEW u \in Reqs, pc[u] = "idle"
    PROVE  pc'[u] \in {"idle", "rejected", "embed", "findShard", "affected"}
<1>1. ASSUME NEW r \in Reqs, HandlerStep(r) PROVE pc'[u] = pc[u]
    BY <1>1, StepMoves DEF Moves, Typed, TypeOK, Places, Steps, QueryStart, QueryMid, Ended
<1>2. ASSUME NEW r \in Reqs, Arrive(r)
      PROVE  pc'[u] \in {"idle", "rejected", "embed", "findShard", "affected"}
    <2>1. PICK m \in Menu : pc' = [pc EXCEPT ![r] = FirstStep(m)]
        BY <1>2 DEF Arrive, Goto
    <2>2. m.kind \in {"ingest", "unlearn", "audit"}
        BY MenuAssumption DEF Ingest, Unlearn, Audit
    <2>3. FirstStep(m) \in {"rejected", "embed", "findShard", "affected"}
        BY <2>2 DEF FirstStep
    <2> QED
        BY <2>1, <2>3 DEF Typed, TypeOK
<1>3. ASSUME NEW r \in Reqs, Detach(r) PROVE pc'[u] = pc[u]
    BY <1>3 DEF Detach
<1>4. ASSUME Tick \/ UNCHANGED vars PROVE pc'[u] = pc[u]
    BY <1>4 DEF Tick, vars, handlerVars
<1>5. \/ \E r \in Reqs : HandlerStep(r) \/ Arrive(r) \/ Detach(r)
      \/ Tick \/ UNCHANGED vars
    BY DEF Next, HandlerStep
<1> QED
    BY <1>1, <1>2, <1>3, <1>4, <1>5

\* An unlearn that is past a stage after a step was past it before, or took it.
LEMMA StageEntered ==
    ASSUME Typed, [Next]_vars, NEW u \in Reqs, Is(u, "unlearn")'
    PROVE  /\ pc[u] # "idle" \/ pc'[u] \notin AfterPurge
           /\ pc'[u] \in AfterPurge => pc[u] \in AfterPurge \/ PurgeVectors(u)
           /\ pc'[u] \in AfterKnow => pc[u] \in AfterKnow \/ PurgeEdges(u)
           /\ pc'[u] \in AfterConcept => pc[u] \in AfterConcept \/ PurgeNodes(u)
           /\ pc'[u] \in AfterPurge => Is(u, "unlearn")
<1>1. CASE pc[u] = "idle"
    BY <1>1, Fresh DEF AfterPurge, AfterKnow, AfterConcept
<1>2. CASE pc[u] # "idle" /\ pc'[u] = pc[u]
    BY <1>2, Frame DEF Is, Arrived, Kind
<1>3. CASE pc[u] # "idle" /\ pc'[u] # pc[u]
    <2>1. HandlerStep(u) /\ pc'[u] \in Succ(pc[u]) \cup Stops
        BY <1>3, WhoMoved
    <2>2. Is(u, "unlearn") /\ pc[u] \notin AuditPcs \cup IngestPcs
        BY <1>3, Frame DEF Is, Arrived, Kind, Typed, Fits
    <2>3. Drop(u) \/ QueryFails(u) => pc'[u] \notin AfterPurge
        BY DEF Drop, QueryFails, Goto, Resume, Typed, TypeOK, AfterPurge
    <2>4. pc'[u] \in AfterPurge => pc[u] \in AfterPurge \cup {"purge"}
        BY <2>1, <2>2 DEF Succ, Stops, AfterPurge, AuditPcs, IngestPcs
    <2>5. pc'[u] \in AfterKnow => pc[u] \in AfterKnow \cup {"delKnow"}
        BY <2>1, <2>2 DEF Succ, Stops, AfterPurge, AfterKnow, AuditPcs, IngestPcs
    <2>6. pc'[u] \in AfterConcept => pc[u] \in AfterConcept \cup {"delConcept"}
        BY <2>1, <2>2 DEF Succ, Stops, AfterPurge, AfterKnow, AfterConcept, AuditPcs, IngestPcs
    <2>7. AfterConcept \subseteq AfterKnow /\ AfterKnow \subseteq AfterPurge
        BY DEF AfterConcept, AfterKnow
    <2>8. pc'[u] \in AfterPurge => pc[u] \in AfterPurge \/ PurgeVectors(u)
        BY <2>1, <2>3, <2>4, UnlearnAt
    <2>9. pc'[u] \in AfterKnow => pc[u] \in AfterKnow \/ PurgeEdges(u)
        BY <2>1, <2>3, <2>5, <2>7, UnlearnAt
    <2>10. pc'[u] \in AfterConcept => pc[u] \in AfterConcept \/ PurgeNodes(u)
        BY <2>1, <2>3, <2>6, <2>7, UnlearnAt
    <2> QED
        BY <1>3, <2>2, <2>8, <2>9, <2>10
<1> QED
    BY <1>1, <1>2, <1>3

LEMMA VectorsPurgedNext ==
    Typed /\ Provenance /\ VectorsPurged /\ [Next]_vars => VectorsPurged'
<1> SUFFICES ASSUME Typed, Provenance, VectorsPurged, [Next]_vars,
                    NEW u \in Reqs, Is(u, "unlearn")', pc'[u] \in AfterPurge
             PROVE  Before(u)' \cap vectors' = {}
    BY DEF VectorsPurged
<1>1. Is(u, "unlearn") /\ pc[u] # "idle"
    BY StageEntered
<1>2. /\ Before(u)' = Before(u)
      /\ \A i \in Before(u) : i \in Reqs /\ pc[i] \in Ended
    BY <1>1, BeforeKept
<1>3. CASE pc[u] \in AfterPurge
    BY <1>1, <1>2, <1>3, Fade DEF VectorsPurged
<1>4. CASE PurgeVectors(u)
    <2>1. vectors' = vectors \ RowsOf(Entity(u))
        BY <1>4 DEF PurgeVectors, Goto, AfterPurge, Typed, TypeOK
    <2>2. \A i \in Before(u) : Entity(i) = Entity(u)
        BY DEF Before
    <2> QED
        BY <1>2, <2>1, <2>2 DEF RowsOf
<1> QED
    BY <1>3, <1>4, StageEntered

\* Past purge_entity, no row of a document ingested before is left: the vector
\* half of an unlearning is sound whatever fails, silent statements included.
THEOREM VectorsArePurged == Spec => []VectorsPurged
<1> DEFINE I == Typed /\ Provenance /\ VectorsPurged
<1>1. Init => I
    BY TypedInit, ProvenanceInit DEF Init, VectorsPurged, Is, Arrived
<1>2. I /\ [Next]_vars => I'
    BY TypedNext, ProvenanceNext, VectorsPurgedNext
<1>3. I => VectorsPurged
    OBVIOUS
<1> QED
    BY <1>1, <1>2, <1>3, PTL DEF Spec

---------------------------------------------------------------------------
(* The graph half, as long as no statement fails silently.                 *)

LEMMA EdgesPurgedNext ==
    ASSUME "statement" \notin Faults
    PROVE  Typed /\ Provenance /\ EdgesPurged /\ [Next]_vars => EdgesPurged'
<1> SUFFICES ASSUME Typed, Provenance, EdgesPurged, [Next]_vars,
                    NEW u \in Reqs, Is(u, "unlearn")', pc'[u] \in AfterKnow
             PROVE  \A i \in Before(u)' : ~ByEdge(i)'
    BY DEF EdgesPurged
<1>1. Is(u, "unlearn") /\ pc[u] # "idle"
    BY StageEntered DEF AfterKnow
<1>2. /\ Before(u)' = Before(u)
      /\ \A i \in Before(u) : i \in Reqs /\ pc[i] \in Ended
    BY <1>1, BeforeKept
<1>3. CASE pc[u] \in AfterKnow
    BY <1>1, <1>2, <1>3, Fade DEF EdgesPurged
<1>4. CASE PurgeEdges(u)
    <2>1. knowledge' = {k \in knowledge : k.entity # Entity(u)}
        BY <1>4 DEF PurgeEdges, Statement, DeleteKnowledge
    <2>2. \A i \in Before(u) : Entity(i) = Entity(u)
        BY DEF Before
    <2>3. \A k \in knowledge : k.entity = Entity(k.by)
        BY DEF Provenance
    <2> QED
        BY <1>2, <2>1, <2>2, <2>3 DEF ByEdge
<1> QED
    BY <1>3, <1>4, StageEntered

LEMMA NodesPurgedNext ==
    ASSUME "statement" \notin Faults
    PROVE  Typed /\ Provenance /\ NodesPurged /\ [Next]_vars => NodesPurged'
<1> SUFFICES ASSUME Typed, Provenance, NodesPurged, [Next]_vars,
                    NEW u \in Reqs, Is(u, "unlearn")', pc'[u] \in AfterConcept
             PROVE  \A i \in Before(u)' : ~ByNode(i)'
    BY DEF NodesPurged
<1>1. Is(u, "unlearn") /\ pc[u] # "idle"
    BY StageEntered DEF AfterKnow, AfterConcept
<1>2. /\ Before(u)' = Before(u)
      /\ \A i \in Before(u) : i \in Reqs /\ pc[i] \in Ended
    BY <1>1, BeforeKept
<1>3. CASE pc[u] \in AfterConcept
    BY <1>1, <1>2, <1>3, Fade DEF NodesPurged
<1>4. CASE PurgeNodes(u)
    <2>1. concept' = [c \in Concepts |->
                         IF c \in OwnedBy(Entity(u)) THEN NoNode ELSE concept[c]]
        BY <1>4 DEF PurgeNodes, Statement, DeleteConcepts
    <2>2. \A i \in Before(u) : Entity(i) = Entity(u)
        BY DEF Before
    <2>3. \A c \in Concepts : concept'[c] # NoNode =>
              concept'[c] = concept[c] /\ concept[c].entity # Entity(u)
        BY <2>1 DEF OwnedBy
    <2>4. \A c \in Concepts : concept[c] # NoNode => concept[c].entity = Entity(concept[c].by)
        BY DEF Provenance
    <2> QED
        BY <1>2, <2>2, <2>3, <2>4 DEF ByNode
<1> QED
    BY <1>3, <1>4, StageEntered

LEMMA RecordedMeansPurgedNext ==
    Typed /\ Provenance /\ VectorsPurged /\ EdgesPurged /\ NodesPurged
        /\ RecordedMeansPurged /\ [Next]_vars => RecordedMeansPurged'
<1> SUFFICES ASSUME Typed, Provenance, VectorsPurged, EdgesPurged, NodesPurged,
                    RecordedMeansPurged, [Next]_vars,
                    NEW x \in purgedFrom', NEW i \in Before(x.by)'
             PROVE  i \notin vectors' /\ ~InGraph(i)'
    BY DEF RecordedMeansPurged
<1>1. ASSUME NEW u \in Reqs, pc[u] # "idle", i \in Before(u)',
             \A d \in Before(u) : d \notin vectors /\ ~ByEdge(d) /\ ~ByNode(d)
      PROVE  i \notin vectors' /\ ~InGraph(i)'
    <2>1. i \in Before(u) /\ i \in Reqs /\ pc[i] \in Ended
        BY <1>1, BeforeKept
    <2> QED
        BY <1>1, <2>1, Fade DEF InGraph, ByEdge, ByNode
<1>2. CASE x \in purgedFrom
    <2>1. x.by \in Reqs /\ pc[x.by] # "idle"
        BY <1>2 DEF Typed, TypeOK, GraphTypeOK, PurgeEdge, Provenance, Is, Arrived
    <2>2. \A d \in Before(x.by) : d \notin vectors /\ ~ByEdge(d) /\ ~ByNode(d)
        BY <1>2 DEF RecordedMeansPurged, InGraph, ByEdge, ByNode
    <2> QED
        BY <1>1, <2>1, <2>2
<1>3. CASE x \notin purgedFrom
    <2>1. PICK r \in Reqs : HandlerStep(r)
        BY <1>3, QuietStep DEF graphVars
    <2>2. Writes(r)
        BY <2>1, StepWrites
    <2>3. Kind(r) = "unlearn" /\ pc[r] = "recEdge" /\ x.by = r
        BY <1>3, <2>2 DEF Writes
    <2>4. Is(r, "unlearn") /\ pc[r] \in AfterPurge \cap AfterKnow \cap AfterConcept
        BY <2>3 DEF Is, Arrived, AfterPurge, AfterKnow, AfterConcept
    <2>5. ASSUME NEW d \in Before(r) PROVE d \notin vectors /\ ~ByEdge(d) /\ ~ByNode(d)
        BY <2>4 DEF VectorsPurged, EdgesPurged, NodesPurged
    <2> QED
        BY <1>1, <2>3, <2>5
<1> QED
    BY <1>2, <1>3

Purging == /\ Typed /\ Provenance
           /\ VectorsPurged /\ EdgesPurged /\ NodesPurged
           /\ RecordedMeansPurged

LEMMA PurgingInvariant ==
    ASSUME "statement" \notin Faults
    PROVE  Spec => []Purging
<1>1. Init => Purging
    BY TypedInit, ProvenanceInit
       DEF Init, GraphInit, Purging, VectorsPurged, EdgesPurged, NodesPurged,
           RecordedMeansPurged, Is, Arrived
<1>2. Purging /\ [Next]_vars => Purging'
    BY TypedNext, ProvenanceNext, VectorsPurgedNext, EdgesPurgedNext, NodesPurgedNext,
       RecordedMeansPurgedNext DEF Purging
<1> QED
    BY <1>1, <1>2, PTL DEF Spec

\* A PURGED_FROM edge is true of everything ingested before its unlearn arrived,
\* under every interleaving, hang-up and failed call, as long as no statement of
\* the embedded database fails silently.
THEOREM RecordsAreTrue ==
    ASSUME "statement" \notin Faults
    PROVE  Spec => []RecordedMeansPurged
<1>1. Purging => RecordedMeansPurged
    BY DEF Purging
<1> QED
    BY <1>1, PurgingInvariant, PTL

---------------------------------------------------------------------------
(* Certificates and audits.                                                *)

AfterRecord == {"certify", "save", "deleted", "audited", "ok"}

Recorded(u) ==
    /\ Entity(u) \in entityNodes
    /\ ShardOf(u) \in shardNodes
    /\ [entity |-> Entity(u), shard |-> ShardOf(u), by |-> u] \in purgedFrom

Recording ==
    /\ \A u \in Reqs : Is(u, "unlearn") =>
          /\ pc[u] \in AfterRecord \cup {"recShard", "recEdge"} => Entity(u) \in entityNodes
          /\ pc[u] \in AfterRecord \cup {"recEdge"} => ShardOf(u) \in shardNodes
          /\ pc[u] \in AfterRecord => Recorded(u)
    /\ \A m \in sent : m[1] = "AuditGenerated" => Is(m[2], "unlearn") /\ Recorded(m[2])
    /\ \A c \in ledger : Is(c.by, "unlearn") /\ Recorded(c.by)

LEMMA RecordedStays ==
    ASSUME Typed, [Next]_vars, NEW u \in Reqs, Is(u, "unlearn")
    PROVE  /\ Is(u, "unlearn")' /\ Entity(u)' = Entity(u) /\ ShardOf(u)' = ShardOf(u)
           /\ Entity(u) \in entityNodes => Entity(u) \in entityNodes'
           /\ ShardOf(u) \in shardNodes => ShardOf(u) \in shardNodes'
           /\ Recorded(u) => Recorded(u)'
<1>1. Is(u, "unlearn")' /\ Entity(u)' = Entity(u) /\ ShardOf(u)' = ShardOf(u)
    BY Frame DEF Is, Arrived, Kind, Entity, ShardOf
<1>2. /\ entityNodes \subseteq entityNodes' /\ shardNodes \subseteq shardNodes'
      /\ purgedFrom \subseteq purgedFrom'
    BY StepWrites, QuietStep DEF Writes, graphVars
<1> QED
    BY <1>1, <1>2 DEF Recorded

\* The only way to send an AuditGenerated event.
LEMMA StepSends ==
    ASSUME Typed, NEW r \in Reqs, HandlerStep(r), NEW m \in sent', m[1] = "AuditGenerated"
    PROVE  m \in sent \/ (m[2] = r /\ Is(r, "unlearn") /\ pc[r] = "audited")
<1>1. CASE SendAudit(r)
    <2>1. Is(r, "unlearn")
        BY <1>1 DEF SendAudit, Is, Arrived, Typed, Fits, UnlearnPcs
    <2> QED
        BY <1>1, <2>1 DEF SendAudit
<1>2. CASE Announce(r) \/ SendDeleted(r)
    BY <1>2 DEF Announce, SendDeleted
<1>3. CASE sent' = sent
    BY <1>3
<1> QED
    BY <1>1, <1>2, <1>3
       DEF HandlerStep, IngestStep, UnlearnStep, AuditStep, Embed, InsertVector, Extract,
           UpsertSubject, UpsertObject, RelateTriplet, FindInShard, FindInGraph,
           PurgeVectors, PurgeEdges, PurgeNodes, RecordEntity, RecordShard, RecordEdge,
           Certify, SaveCertificate, QueryAffected, LookupCertificate, QueryFails, Drop

LEMMA RecordingNext ==
    ASSUME "statement" \notin Faults
    PROVE  Typed /\ Recording /\ [Next]_vars => Recording'
<1> SUFFICES ASSUME Typed, Recording, [Next]_vars PROVE Recording'
    OBVIOUS
<1>1. ASSUME NEW u \in Reqs, Is(u, "unlearn")'
      PROVE  /\ pc'[u] \in AfterRecord \cup {"recShard", "recEdge"} => Entity(u)' \in entityNodes'
             /\ pc'[u] \in AfterRecord \cup {"recEdge"} => ShardOf(u)' \in shardNodes'
             /\ pc'[u] \in AfterRecord => Recorded(u)'
    <2>1. CASE pc[u] = "idle"
        BY <2>1, Fresh DEF AfterRecord
    <2>2. CASE pc[u] # "idle" /\ pc'[u] = pc[u]
        <3>1. Is(u, "unlearn")
            BY <1>1, <2>2, Frame DEF Is, Arrived, Kind
        <3> QED
            BY <2>2, <3>1, RecordedStays DEF Recording
    <2>3. CASE pc[u] # "idle" /\ pc'[u] # pc[u]
        <3>1. HandlerStep(u) /\ pc'[u] \in Succ(pc[u]) \cup Stops
            BY <2>3, WhoMoved
        <3>2. Is(u, "unlearn") /\ pc[u] \notin AuditPcs \cup IngestPcs
            BY <1>1, <2>3, Frame DEF Is, Arrived, Kind, Typed, Fits
        <3>3. Drop(u) \/ QueryFails(u) => pc'[u] \notin AfterRecord \cup {"recShard", "recEdge"}
            BY DEF Drop, QueryFails, Goto, Resume, Typed, TypeOK, AfterRecord
        <3>4. CASE pc'[u] = "recShard"
            <4>1. RecordEntity(u)
                BY <3>1, <3>2, <3>3, <3>4, UnlearnAt DEF Succ, Stops, AuditPcs, IngestPcs
            <4> QED
                BY <3>2, <3>4, <4>1, RecordedStays
                   DEF RecordEntity, Statement, UpsertEntity, AfterRecord
        <3>5. CASE pc'[u] = "recEdge"
            <4>1. RecordShard(u) /\ pc[u] = "recShard"
                BY <3>1, <3>2, <3>3, <3>5, UnlearnAt DEF Succ, Stops, AuditPcs, IngestPcs
            <4>2. ShardOf(u) \in shardNodes'
                BY <4>1 DEF RecordShard, Statement, UpsertShard
            <4>3. Entity(u) \in entityNodes
                BY <3>2, <4>1 DEF Recording
            <4> QED
                BY <3>2, <3>5, <4>2, <4>3, RecordedStays DEF AfterRecord
        <3>6. CASE pc'[u] = "certify"
            <4>1. RecordEdge(u) /\ pc[u] = "recEdge"
                BY <3>1, <3>2, <3>3, <3>6, UnlearnAt DEF Succ, Stops, AuditPcs, IngestPcs
            <4>2. [entity |-> Entity(u), shard |-> ShardOf(u), by |-> u] \in purgedFrom'
                BY <4>1 DEF RecordEdge, Statement, RelatePurged
            <4>3. Entity(u) \in entityNodes /\ ShardOf(u) \in shardNodes
                BY <3>2, <4>1 DEF Recording
            <4> QED
                BY <3>2, <4>2, <4>3, RecordedStays DEF Recorded
        <3>7. CASE pc'[u] \in AfterRecord \ {"certify"}
            <4>1. pc[u] \in AfterRecord
                BY <3>1, <3>2, <3>7 DEF Succ, Stops, AuditPcs, IngestPcs, AfterRecord
            <4> QED
                BY <3>2, <4>1, RecordedStays DEF Recording, AfterRecord
        <3> QED
            BY <3>4, <3>5, <3>6, <3>7 DEF AfterRecord
    <2> QED
        BY <2>1, <2>2, <2>3
<1>2. ASSUME NEW m \in sent', m[1] = "AuditGenerated"
      PROVE  Is(m[2], "unlearn")' /\ Recorded(m[2])'
    <2>1. CASE m \in sent
        <3>1. m[2] \in Reqs
            BY <2>1 DEF Typed, TypeOK
        <3> QED
            BY <1>2, <2>1, <3>1, RecordedStays DEF Recording
    <2>2. CASE m \notin sent
        <3>1. PICK r \in Reqs : HandlerStep(r)
            BY <2>2, QuietStep
        <3>2. m[2] = r /\ Is(r, "unlearn") /\ pc[r] = "audited"
            BY <1>2, <2>2, <3>1, StepSends
        <3>3. Recorded(r)
            BY <3>2 DEF Recording, AfterRecord
        <3> QED
            BY <3>2, <3>3, RecordedStays
    <2> QED
        BY <2>1, <2>2
<1>3. ASSUME NEW c \in ledger' PROVE Is(c.by, "unlearn")' /\ Recorded(c.by)'
    <2>1. CASE c \in ledger
        <3>1. c.by \in Reqs
            BY <2>1 DEF Typed, TypeOK, GraphTypeOK, Entry
        <3> QED
            BY <2>1, <3>1, RecordedStays DEF Recording
    <2>2. CASE c \notin ledger
        <3>1. PICK r \in Reqs : HandlerStep(r)
            BY <2>2, QuietStep DEF graphVars
        <3>2. Kind(r) = "unlearn" /\ pc[r] = "save" /\ c.by = r
            BY <2>2, <3>1, StepWrites DEF Writes
        <3>3. Is(r, "unlearn") /\ Recorded(r)
            BY <3>2 DEF Is, Arrived, Recording, AfterRecord
        <3> QED
            BY <3>2, <3>3, RecordedStays
    <2> QED
        BY <2>1, <2>2
<1> QED
    BY <1>1, <1>2, <1>3 DEF Recording

LEMMA RecordingInvariant ==
    ASSUME "statement" \notin Faults
    PROVE  Spec => [](Typed /\ Recording)
<1>1. Init => Typed /\ Recording
    BY TypedInit DEF Init, GraphInit, Recording, Is, Arrived
<1>2. Typed /\ Recording /\ [Next]_vars => (Typed /\ Recording)'
    BY TypedNext, RecordingNext
<1> QED
    BY <1>1, <1>2, PTL DEF Spec

\* Every certificate that was saved, broadcast or answered has its relation in
\* the graph, as long as no statement fails silently.
THEOREM CertificatesAreRecorded ==
    ASSUME "statement" \notin Faults
    PROVE  Spec => []CertifiedIsRecorded
<1>1. ASSUME Typed, Recording PROVE CertifiedIsRecorded
    <2>1. ASSUME NEW u \in Certified PROVE Recorded(u)
        <3>1. u \in Reqs
            BY DEF Certified
        <3>2. CASE Is(u, "unlearn") /\ pc[u] \in {"save", "deleted", "audited", "ok"}
            BY <1>1, <3>1, <3>2 DEF Recording, AfterRecord
        <3>3. CASE <<"AuditGenerated", u>> \in sent
            BY <1>1, <3>3 DEF Recording
        <3>4. CASE \E c \in ledger : c.by = u
            BY <1>1, <3>4 DEF Recording
        <3> QED
            BY <3>2, <3>3, <3>4 DEF Certified
    <2>2. ASSUME NEW u \in Reqs, Recorded(u) PROVE ShardOf(u) \in AffectedShards(Entity(u))
        BY <2>2 DEF Recorded, AffectedShards
    <2> QED
        BY <2>1, <2>2 DEF CertifiedIsRecorded, Certified
<1> QED
    BY <1>1, RecordingInvariant, PTL

---------------------------------------------------------------------------
(* What audits answer.                                                     *)

LEMMA WhoVerified ==
    ASSUME [Next]_vars, Typed, NEW a \in Reqs, verified'[a] # verified[a]
    PROVE  QueryAffected(a)
<1>1. ASSUME NEW r \in Reqs, QueryAffected(r) PROVE r = a
    BY <1>1 DEF QueryAffected, Typed, TypeOK
<1>2. ASSUME NEW r \in Reqs, HandlerStep(r) PROVE QueryAffected(r)
    BY <1>2
       DEF HandlerStep, IngestStep, UnlearnStep, AuditStep, Embed, InsertVector, Extract,
           UpsertSubject, UpsertObject, RelateTriplet, Announce, FindInShard, FindInGraph,
           PurgeVectors, PurgeEdges, PurgeNodes, RecordEntity, RecordShard, RecordEdge,
           Certify, SaveCertificate, SendDeleted, SendAudit, LookupCertificate,
           QueryFails, Drop, RestOfPc
<1> QED
    BY <1>1, <1>2, QuietStep

\* An audit found an edge of its entity and shard, and edges stay.
AuditsTrue ==
    \A a \in Reqs : verified[a] =>
        /\ Is(a, "audit")
        /\ \E x \in purgedFrom : x.entity = Entity(a) /\ x.shard = req[a].shard

\* An audit that read the graph after an unlearn was answered found its edge.
AuditsFull ==
    \A a, u \in Reqs :
        /\ Is(a, "audit") /\ pc[a] \in {"lookup", "ok"}
        /\ Answered(u, "unlearn") /\ u \in preceded[a]
        /\ Entity(a) = Entity(u) /\ req[a].shard = ShardOf(u)
        => verified[a]

LEMMA AuditsTrueNext == Typed /\ AuditsTrue /\ [Next]_vars => AuditsTrue'
<1> SUFFICES ASSUME Typed, AuditsTrue, [Next]_vars, NEW a \in Reqs, verified'[a]
             PROVE  /\ Is(a, "audit")'
                    /\ \E x \in purgedFrom' : x.entity = Entity(a)' /\ x.shard = req'[a].shard
    BY DEF AuditsTrue
<1>1. /\ Is(a, "audit")
      /\ \E x \in purgedFrom : x.entity = Entity(a) /\ x.shard = req[a].shard
    <2>1. CASE verified'[a] = verified[a]
        BY <2>1 DEF AuditsTrue
    <2>2. CASE QueryAffected(a)
        <3>1. Is(a, "audit")
            BY <2>2 DEF QueryAffected, Typed, Fits, AuditPcs, Is, Arrived
        <3>2. verified'[a] = (req[a].shard \in AffectedShards(Entity(a))) \/ verified'[a] = verified[a]
            BY <2>2 DEF QueryAffected, Typed, TypeOK
        <3>3. CASE req[a].shard \in AffectedShards(Entity(a))
            BY <3>1, <3>3 DEF AffectedShards
        <3> QED
            BY <2>1, <3>2, <3>3
    <2> QED
        BY <2>1, <2>2, WhoVerified
<1>2. Is(a, "audit")' /\ req'[a] = req[a]
    BY <1>1, Frame DEF Is, Arrived, Kind
<1>3. purgedFrom \subseteq purgedFrom'
    BY StepWrites, QuietStep DEF Writes, graphVars
<1> QED
    BY <1>1, <1>2, <1>3 DEF Entity

LEMMA AuditsFullNext ==
    ASSUME "statement" \notin Faults,
           Typed, Provenance, Recording, AuditsFull, [Next]_vars
    PROVE  AuditsFull'
<1> SUFFICES ASSUME NEW a \in Reqs, NEW u \in Reqs,
                    Is(a, "audit")', pc'[a] \in {"lookup", "ok"},
                    Answered(u, "unlearn")', u \in preceded'[a],
                    Entity(a)' = Entity(u)', req'[a].shard = ShardOf(u)'
             PROVE  verified'[a]
    BY DEF AuditsFull
<1>1. pc[a] # "idle" /\ req'[a] = req[a] /\ preceded'[a] = preceded[a]
    BY Fresh, Frame
<1>2. pc[u] \in Ended /\ pc[u] # "idle"
    BY <1>1 DEF Provenance, Ended
<1>3. Answered(u, "unlearn") /\ req'[u] = req[u]
    BY <1>2, Frame DEF Answered, Is, Arrived, Kind
<1>4. Is(a, "audit") /\ Entity(a) = Entity(u) /\ req[a].shard = ShardOf(u)
    BY <1>1, <1>3 DEF Is, Arrived, Kind, Entity, ShardOf
<1>5. CASE pc[a] \in {"lookup", "ok"}
    <2>1. verified[a]
        BY <1>1, <1>3, <1>4, <1>5 DEF AuditsFull
    <2>2. ~QueryAffected(a)
        BY <1>5 DEF QueryAffected
    <2> QED
        BY <2>1, <2>2, WhoVerified
<1>6. CASE pc[a] \notin {"lookup", "ok"}
    <2>1. HandlerStep(a) /\ pc'[a] \in Succ(pc[a]) \cup Stops
        BY <1>1, <1>6, WhoMoved
    <2>2. pc[a] \notin IngestPcs \cup UnlearnPcs
        BY <1>4 DEF Is, Typed, Fits
    <2>3. pc[a] = "affected"
        BY <1>6, <2>1, <2>2 DEF Succ, Stops, IngestPcs, UnlearnPcs
    <2>4. QueryAffected(a) /\ pc'[a] # "failed"
        BY <2>1, <2>3, UnlearnAt DEF Drop, Goto, Typed, TypeOK
    <2>5. verified'[a] = (req[a].shard \in AffectedShards(Entity(a)))
        BY <2>4 DEF QueryAffected, Goto, Typed, TypeOK
    <2>6. Recorded(u)
        BY <1>3 DEF Recording, Answered, AfterRecord
    <2> QED
        BY <1>4, <2>5, <2>6 DEF Recorded, AffectedShards
<1> QED
    BY <1>5, <1>6

\* An audit that says is_valid is right, as long as no statement fails silently.
THEOREM AuditsAreSound ==
    ASSUME "statement" \notin Faults
    PROVE  Spec => []AuditSound
<1> DEFINE I == Typed /\ AuditsTrue
<1>1. Init => I
    BY TypedInit DEF Init, AuditsTrue
<1>2. I /\ [Next]_vars => I'
    BY TypedNext, AuditsTrueNext
<1>3. ASSUME Purging, AuditsTrue PROVE AuditSound
    <2> SUFFICES ASSUME NEW a \in Reqs, verified[a]
                 PROVE  \E u \in Reqs :
                           /\ Is(u, "unlearn") /\ Entity(u) = Entity(a)
                           /\ ShardOf(u) = req[a].shard
                           /\ \A i \in Before(u) : i \notin vectors /\ ~InGraph(i)
        BY DEF AuditSound
    <2>1. PICK x \in purgedFrom : x.entity = Entity(a) /\ x.shard = req[a].shard
        BY <1>3 DEF AuditsTrue
    <2>2. /\ x.by \in Reqs /\ Is(x.by, "unlearn")
          /\ x.entity = Entity(x.by) /\ x.shard = ShardOf(x.by)
        BY <1>3 DEF Purging, Provenance, Typed, TypeOK, GraphTypeOK, PurgeEdge
    <2> QED
        BY <1>3, <2>1, <2>2 DEF Purging, RecordedMeansPurged
<1> QED
    BY <1>1, <1>2, <1>3, PurgingInvariant, PTL DEF Spec

\* An audit that begins after an unlearn was answered says is_valid, as long as
\* no statement fails silently.
THEOREM AuditsAreComplete ==
    ASSUME "statement" \notin Faults
    PROVE  Spec => []AuditComplete
<1> DEFINE I == Typed /\ Provenance /\ Recording /\ AuditsFull
<1>1. Init => I
    BY TypedInit, ProvenanceInit DEF Init, GraphInit, Recording, AuditsFull, Is, Arrived
<1>2. I /\ [Next]_vars => I'
    BY TypedNext, ProvenanceNext, RecordingNext, AuditsFullNext
<1>3. I => AuditComplete
    BY DEF AuditsFull, AuditComplete, Answered
<1> QED
    BY <1>1, <1>2, <1>3, PTL DEF Spec
=============================================================================
