---------------------------- MODULE AnswerProofs ----------------------------
(***************************************************************************)
(* Proofs about what the gateway answers: a 404, the certificate of an     *)
(* audit, PURGED_AND_VERIFIED.  The handlers take a failed lookup for an   *)
(* absence and only log a failed save: a 404 is true as long as the vector *)
(* store does not fail, and the certificate is measured against those that *)
(* were saved.                                                             *)
(*                                                                         *)
(* Three of the promises made for these answers are broken in the runs     *)
(* gateway_silent, gateway_halfpurge and gateway_isolation.  The theorems  *)
(* AnswersAreTrue, OnlyOverlapsTear and OnlySharingTouches say when they   *)
(* hold: what those runs show is the only way to break them.               *)
(***************************************************************************)
EXTENDS GatewayProofs

---------------------------------------------------------------------------
(* 404.                                                                    *)

\* The handler of u has found no row in its shard, and has not asked the graph yet or
\* has found nothing there either.
SawNone(u) == (pc[u] = "findGraph" /\ ~inShard[u]) \/ pc[u] = "notfound"

Absent == \A u \in Reqs : SawNone(u) => Before(u) \cap vectors = {}

\* What makes a handler see nothing.
LEMMA SawNoneEntered ==
    ASSUME Typed, [Next]_vars, NEW u \in Reqs, SawNone(u)'
    PROVE  pc[u] # "idle" /\ (SawNone(u) \/ FindInShard(u))
<1> USE DEF Goto, Resume, Typed, TypeOK
<1>1. pc[u] # "idle"
    BY Fresh DEF SawNone
<1>2. ASSUME NEW r \in Reqs, HandlerStep(r), r # u
      PROVE  pc'[u] = pc[u] /\ inShard'[u] = inShard[u]
    <2>1. pc'[u] = pc[u]
        BY <1>2, StepMoves DEF Moves
    <2>2. FindInShard(r) => inShard'[u] = inShard[u]
        BY <1>2 DEF FindInShard
    <2>3. ~FindInShard(r) => inShard' = inShard
        BY <1>2
           DEF HandlerStep, IngestStep, UnlearnStep, AuditStep, Embed, InsertVector, Extract,
               UpsertSubject, UpsertObject, RelateTriplet, Announce, FindInGraph,
               PurgeVectors, PurgeEdges, PurgeNodes, RecordEntity, RecordShard, RecordEdge,
               Certify, SaveCertificate, SendDeleted, SendAudit, QueryAffected,
               LookupCertificate, QueryFails, Drop, RestOfPc
    <2> QED  BY <2>1, <2>2, <2>3
<1>3. CASE \A r \in Reqs : HandlerStep(r) => r # u
    <2>1. pc'[u] = pc[u] /\ inShard'[u] = inShard[u]
        <3>1. CASE \E r \in Reqs : HandlerStep(r)
            BY <1>2, <1>3, <3>1
        <3>2. CASE \A r \in Reqs : ~HandlerStep(r)
            <4>1. inShard' = inShard
                BY <3>2 DEF Next, HandlerStep, Arrive, Detach, Tick, vars, handlerVars
            <4>2. pc'[u] = pc[u]
                BY <1>1, <3>2, WhoMoved
            <4> QED  BY <4>1, <4>2
        <3> QED  BY <3>1, <3>2
    <2> QED  BY <1>1, <2>1 DEF SawNone
<1>4. CASE HandlerStep(u)
    <2>1. pc'[u] \in Succ(pc[u]) \cup Stops /\ pc[u] \notin Ended
        BY <1>4, StepMoves DEF Moves
    <2>2. CASE pc'[u] = "findGraph"
        <3>1. pc[u] = "findShard"
            BY <2>1, <2>2 DEF Succ, Stops
        <3>2. FindInShard(u) \/ Drop(u)
            BY <1>4, <3>1
               DEF HandlerStep, IngestStep, UnlearnStep, AuditStep, Embed, InsertVector,
                   Extract, UpsertSubject, UpsertObject, RelateTriplet, Announce, FindInGraph,
                   PurgeVectors, PurgeEdges, PurgeNodes, RecordEntity, RecordShard,
                   RecordEdge, Certify, SaveCertificate, SendDeleted, SendAudit,
                   QueryAffected, LookupCertificate, QueryFails, QueryStart
        <3> QED  BY <1>1, <2>2, <3>2 DEF Drop
    <2>3. CASE pc'[u] = "notfound"
        <3>1. FindInGraph(u)
            BY <1>4, <2>3
               DEF HandlerStep, IngestStep, UnlearnStep, AuditStep, Embed, InsertVector,
                   Extract, NextTriplet, UpsertSubject, UpsertObject, RelateTriplet, Announce,
                   FindInShard, PurgeVectors, PurgeEdges, PurgeNodes, RecordEntity,
                   RecordShard, RecordEdge, Certify, SaveCertificate, SendDeleted, SendAudit,
                   QueryAffected, LookupCertificate, QueryFails, Drop
        <3>2. pc[u] = "findGraph" /\ ~inShard[u]
            BY <2>3, <3>1 DEF FindInGraph
        <3> QED  BY <1>1, <3>2 DEF SawNone
    <2> QED  BY <2>2, <2>3 DEF SawNone
<1> QED  BY <1>3, <1>4

LEMMA AbsentNext ==
    ASSUME "lance" \notin Faults
    PROVE  Typed /\ Provenance /\ Absent /\ [Next]_vars => Absent'
<1> SUFFICES ASSUME Typed, Provenance, Absent, [Next]_vars, NEW u \in Reqs, SawNone(u)'
             PROVE  Before(u)' \cap vectors' = {}
    BY DEF Absent
<1>1. pc[u] # "idle" /\ (SawNone(u) \/ FindInShard(u))
    BY SawNoneEntered
<1>2. /\ Before(u)' = Before(u)
      /\ \A i \in Before(u) : i \in Reqs /\ pc[i] \in Ended
    BY <1>1, BeforeKept
<1>3. Before(u) \cap vectors = {}
    <2>1. CASE SawNone(u)
        BY <2>1 DEF Absent
    <2>2. CASE FindInShard(u)
        <3>1. pc'[u] = "findGraph" /\ inShard'[u] = (RowsOf(Entity(u)) # {})
            BY <2>2 DEF FindInShard, Goto, Typed, TypeOK
        <3>2. RowsOf(Entity(u)) = {}
            BY <3>1 DEF SawNone
        <3> QED  BY <3>2 DEF RowsOf, Before
    <2> QED  BY <1>1, <2>1, <2>2
<1> QED  BY <1>2, <1>3, Fade

\* Unless the vector store fails, an unlearning that is answered 404 leaves no row of a
\* document that was ingested before it, although it asked without a lock and others
\* insert and purge meanwhile.
THEOREM NotFoundIsTrue ==
    ASSUME "lance" \notin Faults
    PROVE  Spec => []NotFoundMeansNoRow
<1> DEFINE I == Typed /\ Provenance /\ Absent
<1>1. Init => I
    BY TypedInit, ProvenanceInit DEF Init, Absent, SawNone
<1>2. I /\ [Next]_vars => I'
    BY TypedNext, ProvenanceNext, AbsentNext
<1>3. I => NotFoundMeansNoRow
    BY DEF Absent, SawNone, NotFoundMeansNoRow
<1> QED  BY <1>1, <1>2, <1>3, PTL DEF Spec

---------------------------------------------------------------------------
(* The certificate of an audit.                                            *)

AfterSave == {"deleted", "audited", "ok", "dropped"}

Certificate(u) == [entity |-> Entity(u), shard |-> ShardOf(u), ts |-> stamp[u], by |-> u]

\* No certificate is from the future, and a saved one is still that of its unlearning,
\* which is past the saving.
Saved ==
    /\ \A r \in Reqs : stamp[r] <= now
    /\ \A c \in ledger : /\ c.ts <= now /\ c = Certificate(c.by)
                         /\ Is(c.by, "unlearn") /\ pc[c.by] \in AfterSave

\* The steps that give a handler a certificate; entries of the ledger stay.
LEMMA WhoStamped ==
    ASSUME Typed, [Next]_vars
    PROVE  /\ ledger \subseteq ledger' /\ now <= now'
           /\ \A r \in Reqs : stamp'[r] = stamp[r] \/ Certify(r) \/ LookupCertificate(r)
           /\ \A c \in ledger' :
                 c \in ledger \/ \E r \in Reqs : (SaveCertificate(r) /\ c = Certificate(r))
<1>1. ASSUME NEW r \in Reqs, HandlerStep(r)
      PROVE  /\ ledger \subseteq ledger' /\ now' = now
             /\ \A q \in Reqs : stamp'[q] = stamp[q] \/ Certify(q) \/ LookupCertificate(q)
             /\ \A c \in ledger' :
                   c \in ledger \/ (SaveCertificate(r) /\ c = Certificate(r))
    <2>1. CASE Certify(r) \/ LookupCertificate(r)
        <3>1. \A q \in Reqs : q # r => stamp'[q] = stamp[q]
            BY <2>1 DEF Certify, LookupCertificate, Typed, TypeOK
        <3> QED  BY <2>1, <3>1 DEF Certify, LookupCertificate, graphVars
    <2>2. CASE SaveCertificate(r)
        BY <2>2
           DEF SaveCertificate, Statement, CreateCertificate, Certificate, graphVars, RestOfPc
    <2>3. CASE UpsertSubject(r) \/ UpsertObject(r) \/ RelateTriplet(r)
        BY <2>3 DEF UpsertSubject, UpsertObject, RelateTriplet, Statement, UpsertConcept,
                    RelateKnowledge, graphVars, RestOfPc
    <2>4. CASE PurgeEdges(r) \/ PurgeNodes(r)
        BY <2>4 DEF PurgeEdges, PurgeNodes, Statement, DeleteKnowledge, DeleteConcepts,
                    graphVars, RestOfPc
    <2>5. CASE RecordEntity(r) \/ RecordShard(r) \/ RecordEdge(r)
        BY <2>5 DEF RecordEntity, RecordShard, RecordEdge, Statement, UpsertEntity,
                    UpsertShard, RelatePurged, graphVars, RestOfPc
    <2>6. CASE \/ Embed(r) \/ InsertVector(r) \/ Extract(r) \/ Announce(r)
               \/ FindInShard(r) \/ FindInGraph(r) \/ PurgeVectors(r)
               \/ SendDeleted(r) \/ SendAudit(r) \/ QueryAffected(r)
               \/ QueryFails(r) \/ Drop(r)
        BY <2>6 DEF Embed, InsertVector, Extract, Announce, FindInShard, FindInGraph,
                    PurgeVectors, SendDeleted, SendAudit, QueryAffected, QueryFails, Drop,
                    graphVars, RestOfPc
    <2> QED
        BY <1>1, <2>1, <2>2, <2>3, <2>4, <2>5, <2>6
           DEF HandlerStep, IngestStep, UnlearnStep, AuditStep
<1>2. now \in Nat
    BY DEF Typed, TypeOK
<1>3. ASSUME \A r \in Reqs : ~HandlerStep(r)
      PROVE  ledger' = ledger /\ stamp' = stamp /\ now <= now'
    BY <1>2, <1>3 DEF Next, HandlerStep, Arrive, Detach, Tick, vars, handlerVars, graphVars
<1> QED  BY <1>1, <1>2, <1>3

\* A certificate in the ledger stays that of its unlearning.
LEMMA SavedStays ==
    ASSUME Typed, Saved, [Next]_vars, NEW c \in ledger
    PROVE  Certificate(c.by)' = c /\ Is(c.by, "unlearn")' /\ pc'[c.by] \in AfterSave
<1> DEFINE u == c.by
<1>1. u \in Reqs /\ Is(u, "unlearn") /\ pc[u] \in AfterSave /\ c = Certificate(u)
    BY DEF Saved, Typed, TypeOK, GraphTypeOK, Entry
<1>2. req'[u] = req[u] /\ pc[u] # "idle"
    BY <1>1, Frame DEF Is, Arrived
<1>3. stamp'[u] = stamp[u]
    <2>1. ~Certify(u) /\ ~LookupCertificate(u)
        BY <1>1 DEF AfterSave, Certify, LookupCertificate
    <2> QED  BY <1>1, <2>1, WhoStamped
<1>4. pc'[u] \in AfterSave
    <2>1. CASE HandlerStep(u)
        <3>1. SendDeleted(u) \/ SendAudit(u) \/ Drop(u)
            BY <1>1, <2>1
               DEF AfterSave, HandlerStep, IngestStep, UnlearnStep, AuditStep, Embed,
                   InsertVector, Extract, UpsertSubject, UpsertObject, RelateTriplet, Announce,
                   FindInShard, FindInGraph, PurgeVectors, PurgeEdges, PurgeNodes,
                   RecordEntity, RecordShard, RecordEdge, Certify, SaveCertificate,
                   QueryAffected, LookupCertificate, QueryFails, QueryStart
        <3> QED
            BY <1>1, <3>1 DEF AfterSave, SendDeleted, SendAudit, Drop, Goto, Typed, TypeOK
    <2>2. CASE ~HandlerStep(u)
        BY <1>1, <1>2, <2>2, WhoMoved
    <2> QED  BY <2>1, <2>2
<1>5. pc'[u] # "idle"
    BY <1>4 DEF AfterSave
<1>6. Is(u, "unlearn")'
    BY <1>1, <1>2, <1>5 DEF Is, Arrived, Kind
<1>7. Certificate(u)' = Certificate(u)
    BY <1>2, <1>3 DEF Certificate, Entity, ShardOf
<1> QED  BY <1>1, <1>4, <1>6, <1>7

LEMMA SavedNext ==
    Typed /\ Saved /\ [Next]_vars => Saved'
<1> SUFFICES ASSUME Typed, Saved, [Next]_vars PROVE Saved'
    OBVIOUS
<1>0. /\ now \in Nat /\ now' \in Nat /\ now <= now'
      /\ \A r \in Reqs : stamp[r] \in Nat /\ stamp[r] <= now
    BY WhoStamped, TypedNext DEF Saved, Typed, TypeOK
<1>1. ASSUME NEW r \in Reqs PROVE stamp'[r] <= now'
    <2>2. CASE stamp'[r] = stamp[r]
        BY <1>0, <2>2
    <2>3. CASE Certify(r)
        BY <1>0, <2>3 DEF Certify, Typed, TypeOK
    <2>4. CASE LookupCertificate(r)
        <3>1. now' = now /\ \A c \in Newest(Entity(r), req[r].shard) : c.ts <= now
            BY <2>4 DEF LookupCertificate, Newest, Certificates, Saved
        <3> QED  BY <1>0, <2>4, <3>1 DEF LookupCertificate, Typed, TypeOK
    <2> QED  BY <2>2, <2>3, <2>4, WhoStamped
<1>2. ASSUME NEW c \in ledger'
      PROVE  /\ c.ts <= now' /\ c = Certificate(c.by)'
             /\ Is(c.by, "unlearn")' /\ pc'[c.by] \in AfterSave
    <2>1. CASE c \in ledger
        <3>1. c.ts \in Nat /\ c.ts <= now
            BY <2>1 DEF Saved, Typed, TypeOK, GraphTypeOK, Entry
        <3> QED  BY <1>0, <2>1, <3>1, SavedStays
    <2>2. ASSUME NEW u \in Reqs, SaveCertificate(u), c = Certificate(u)
          PROVE  /\ c.ts <= now' /\ c = Certificate(c.by)'
                 /\ Is(c.by, "unlearn")' /\ pc'[c.by] \in AfterSave
        <3>1. c.by = u /\ c.ts = stamp[u]
            BY <2>2 DEF Certificate
        <3>2. pc[u] = "save" /\ pc'[u] \in {"deleted", "dropped"}
            BY <2>2 DEF SaveCertificate, Resume, Goto, Typed, TypeOK
        <3>3. Is(u, "unlearn")
            BY <3>2 DEF Typed, Fits, Is, Arrived, UnlearnPcs
        <3>4. req' = req /\ stamp' = stamp /\ now' = now
            BY <2>2 DEF SaveCertificate, RestOfPc
        <3>5. Is(u, "unlearn")' /\ Certificate(u)' = Certificate(u)
            BY <3>2, <3>3, <3>4 DEF Is, Arrived, Kind, Certificate, Entity, ShardOf
        <3> QED  BY <1>0, <2>2, <3>1, <3>2, <3>4, <3>5 DEF AfterSave
    <2> QED  BY <2>1, <2>2, WhoStamped
<1> QED  BY <1>1, <1>2 DEF Saved

LEMMA AuditNewestNext ==
    Typed /\ Provenance /\ Saved /\ AuditNewest /\ [Next]_vars => AuditNewest'
<1> SUFFICES ASSUME Typed, Provenance, Saved, AuditNewest, [Next]_vars,
                    NEW a \in Reqs, NEW u \in Reqs,
                    Answered(a, "audit")', Answered(u, "unlearn")', u \in preceded'[a],
                    Entity(a)' = Entity(u)', req'[a].shard = ShardOf(u)',
                    NEW c \in ledger', c.by = u
             PROVE  stamp'[u] <= stamp'[a]
    BY DEF AuditNewest
<1>1. pc[a] # "idle" /\ req'[a] = req[a] /\ preceded'[a] = preceded[a]
    BY Fresh, Frame DEF Answered
<1>2. pc[u] \in Ended /\ pc[u] # "idle"
    BY <1>1 DEF Provenance, Ended
<1>3. Answered(u, "unlearn") /\ req'[u] = req[u]
    BY <1>2, Frame DEF Answered, Is, Arrived, Kind
<1>4. Is(a, "audit") /\ Entity(a) = Entity(u) /\ req[a].shard = ShardOf(u)
    BY <1>1, <1>3 DEF Answered, Is, Arrived, Kind, Entity, ShardOf
<1>5. stamp'[u] = stamp[u]
    <2>1. ~Certify(u) /\ ~LookupCertificate(u)
        BY <1>3 DEF Answered, Certify, LookupCertificate
    <2> QED  BY <2>1, WhoStamped
<1>9. c \in ledger /\ c = Certificate(u)
    <2>1. ~SaveCertificate(u)
        BY <1>2 DEF SaveCertificate, Ended
    <2>2. ASSUME NEW r \in Reqs, c = Certificate(r) PROVE r = u
        BY <2>2 DEF Certificate
    <2> QED  BY <2>1, <2>2, WhoStamped DEF Saved
<1>6. CASE pc[a] = "ok"
    <2>1. ~Certify(a) /\ ~LookupCertificate(a)
        BY <1>6 DEF Certify, LookupCertificate
    <2>2. stamp'[a] = stamp[a] /\ stamp[u] <= stamp[a]
        BY <1>1, <1>3, <1>4, <1>6, <1>9, <2>1, WhoStamped DEF AuditNewest, Answered
    <2> QED  BY <1>5, <2>2
<1>7. CASE pc[a] # "ok"
    <2>1. HandlerStep(a) /\ pc'[a] = "ok" /\ pc'[a] \in Succ(pc[a]) \cup Stops
        BY <1>1, <1>7, WhoMoved DEF Answered
    <2>2. pc[a] \notin IngestPcs \cup UnlearnPcs
        BY <1>4 DEF Is, Typed, Fits
    <2>3. pc[a] = "lookup"
        BY <2>1, <2>2 DEF Succ, Stops, IngestPcs, UnlearnPcs
    <2>4. LookupCertificate(a)
        BY <2>1, <2>3
           DEF HandlerStep, IngestStep, UnlearnStep, AuditStep, Embed, InsertVector,
               Extract, UpsertSubject, UpsertObject, RelateTriplet, Announce, FindInShard,
               FindInGraph, PurgeVectors, PurgeEdges, PurgeNodes, RecordEntity,
               RecordShard, RecordEdge, Certify, SaveCertificate, SendDeleted, SendAudit,
               QueryAffected, QueryFails, QueryStart, Drop, Goto, Typed, TypeOK
    <2>5. c \in Certificates(Entity(a), req[a].shard) /\ c.ts = stamp[u] /\ stamp[u] <= now
        BY <1>4, <1>9 DEF Saved, Certificates, Certificate
    <2>6. CASE stamp'[a] = now
        BY <1>5, <2>5, <2>6
    <2>7. CASE \E x \in Newest(Entity(a), req[a].shard) : stamp'[a] = x.ts
        BY <1>5, <2>5, <2>7 DEF Newest
    <2>8. \/ stamp'[a] = now
          \/ \E x \in Newest(Entity(a), req[a].shard) : stamp'[a] = x.ts
        BY <2>4 DEF LookupCertificate, Typed, TypeOK
    <2> QED  BY <2>6, <2>7, <2>8
<1> QED  BY <1>6, <1>7

\* The certificate that an audit answers with is not older than one that an unlearning
\* saved and was answered with before the audit began, whichever faults happen.
THEOREM AuditsAreNewest == Spec => []AuditNewest
<1> DEFINE I == Typed /\ Provenance /\ Saved /\ AuditNewest
<1>1. Init => I
    BY TypedInit, ProvenanceInit DEF Init, GraphInit, Saved, AuditNewest, Answered, Is, Arrived
<1>2. I /\ [Next]_vars => I'
    BY TypedNext, ProvenanceNext, SavedNext, AuditNewestNext
<1> QED  BY <1>1, <1>2, PTL DEF Spec
---------------------------------------------------------------------------
(* PURGED_AND_VERIFIED.                                                    *)

\* An answer PURGED_AND_VERIFIED is true of both stores, whatever overlapped, failed or
\* hung up, unless a statement fails silently.
THEOREM AnswersAreTrue ==
    ASSUME "statement" \notin Faults
    PROVE  Spec => []PurgedAndVerified
<1>1. Purging => PurgedAndVerified
    BY DEF Purging, VectorsPurged, EdgesPurged, NodesPurged, PurgedAndVerified, Answered,
           InGraph, ByEdge, ByNode, AfterPurge, AfterKnow, AfterConcept
<1> QED  BY <1>1, PurgingInvariant, PTL

---------------------------------------------------------------------------
(* A document is purged in whole unless its ingestion overlaps with the    *)
(* unlearning.                                                             *)

AfterInsert == {"extract", "sub", "obj", "relate", "announce", "ok"}

\* One had ended when the other arrived.
Apart(i, u) == i \in preceded[u] \/ u \in preceded[i]

\* PurgedWhole, of the documents with which no unlearning of their entity overlaps.
WholeUnlessOverlapping ==
    InFlight = {} =>
        \A i \in Reqs :
            /\ Answered(i, "ingest") /\ i \notin vectors
            /\ \A u \in Reqs : Is(u, "unlearn") /\ Entity(u) = Entity(i) => Apart(i, u)
            => ~InGraph(i)

\* A row that is gone was taken by an unlearning of its entity that had not ended when
\* the document arrived, and which no failure stopped after that.
TakenBy(i, u) ==
    /\ Is(u, "unlearn") /\ Entity(u) = Entity(i)
    /\ pc[u] \in AfterPurge /\ u \notin preceded[i]

Taken ==
    \A i \in Reqs :
        Is(i, "ingest") /\ pc[i] \in AfterInsert /\ i \notin vectors
            => \E u \in Reqs : TakenBy(i, u)

\* Only a client that hangs up leaves its query behind.
LEMMA NobodyGone ==
    ASSUME "cancel" \notin Faults, gone = {}, [Next]_vars
    PROVE  gone' = {}
BY DEF Next, Arrive, IngestStep, UnlearnStep, AuditStep, Embed, InsertVector, Extract,
       UpsertSubject, UpsertObject, RelateTriplet, Announce, FindInShard, FindInGraph,
       PurgeVectors, PurgeEdges, PurgeNodes, RecordEntity, RecordShard, RecordEdge,
       Certify, SaveCertificate, SendDeleted, SendAudit, QueryAffected, LookupCertificate,
       QueryFails, Drop, Detach, Tick, RestOfPc, vars, handlerVars

\* Without failures of the graph and hang-ups an unlearning that is past purge_entity goes
\* on to its answer.
LEMMA StaysAfterPurge ==
    ASSUME Faults \cap {"graph", "cancel"} = {}, gone = {}, Typed, [Next]_vars,
           NEW u \in Reqs, Is(u, "unlearn"), pc[u] \in AfterPurge
    PROVE  Is(u, "unlearn")' /\ pc'[u] \in AfterPurge
<1>1. pc[u] # "idle"
    BY DEF AfterPurge
<1>2. Is(u, "unlearn")'
    BY <1>1, Frame DEF Is, Arrived, Kind
<1>3. CASE pc'[u] = pc[u]
    BY <1>2, <1>3
<1>4. CASE pc'[u] # pc[u]
    <2>1. HandlerStep(u) /\ pc'[u] \in Succ(pc[u]) \cup Stops
        BY <1>1, <1>4, WhoMoved
    <2>2. pc[u] \in AfterPurge \ {"ok"}
        BY <2>1, StepMoves DEF AfterPurge, Moves, Ended
    <2>3. UnlearnStep(u)
        BY <2>1, <2>2
           DEF HandlerStep, IngestStep, AuditStep, Embed, InsertVector, Extract, UpsertSubject,
               UpsertObject, RelateTriplet, Announce, QueryAffected, LookupCertificate,
               QueryFails, Drop, AfterPurge
    <2>4. pc'[u] \notin Stops
        BY <2>2, <2>3
           DEF UnlearnStep, FindInShard, FindInGraph, PurgeVectors, PurgeEdges, PurgeNodes,
               RecordEntity, RecordShard, RecordEdge, Certify, SaveCertificate, SendDeleted,
               SendAudit, Goto, Resume, Stops, AfterPurge, Typed, TypeOK
    <2> QED  BY <1>2, <2>1, <2>2, <2>4 DEF Succ, AfterPurge
<1> QED  BY <1>3, <1>4

\* Only purge_entity takes rows, those of its entity.
LEMMA WhoTookRows ==
    ASSUME Typed, [Next]_vars, NEW i \in vectors, i \notin vectors'
    PROVE  \E u \in Reqs : PurgeVectors(u) /\ Entity(i) = Entity(u) /\ pc'[u] = "delKnow"
<1>1. PICK u \in Reqs : HandlerStep(u)
    BY QuietStep
<1>2. PurgeVectors(u)
    BY <1>1
       DEF HandlerStep, IngestStep, UnlearnStep, AuditStep, Embed, InsertVector, Extract,
           UpsertSubject, UpsertObject, RelateTriplet, Announce, FindInShard, FindInGraph,
           PurgeEdges, PurgeNodes, RecordEntity, RecordShard, RecordEdge, Certify,
           SaveCertificate, SendDeleted, SendAudit, QueryAffected, LookupCertificate,
           QueryFails, Drop
<1>3. i \in RowsOf(Entity(u)) /\ pc'[u] = "delKnow"
    BY <1>2 DEF PurgeVectors, Goto, Typed, TypeOK
<1> QED  BY <1>2, <1>3 DEF RowsOf

\* An ingestion that has stored its row after a step had stored it before, or does so.
LEMMA InsertEntered ==
    ASSUME Typed, [Next]_vars, NEW i \in Reqs, Is(i, "ingest")', pc'[i] \in AfterInsert,
           pc[i] \notin AfterInsert
    PROVE  i \in vectors'
<1>1. pc[i] # "idle"
    BY Fresh DEF AfterInsert
<1>2. HandlerStep(i) /\ pc'[i] \in Succ(pc[i]) \cup Stops
    BY <1>1, WhoMoved
<1>3. Kind(i) = "ingest"
    BY <1>1, Frame DEF Is, Kind
<1>4. pc[i] = "insert"
    BY <1>2, <1>3 DEF Succ, Stops, AfterInsert, Typed, Fits, UnlearnPcs, AuditPcs
<1>5. InsertVector(i) \/ Drop(i)
    BY <1>2, <1>4
       DEF HandlerStep, IngestStep, UnlearnStep, AuditStep, Embed, Extract, UpsertSubject,
           UpsertObject, RelateTriplet, Announce, FindInShard, FindInGraph, PurgeVectors,
           PurgeEdges, PurgeNodes, RecordEntity, RecordShard, RecordEdge, Certify,
           SaveCertificate, SendDeleted, SendAudit, QueryAffected, LookupCertificate,
           QueryFails, QueryStart
<1> QED  BY <1>5 DEF InsertVector, Drop, Goto, AfterInsert, Typed, TypeOK

LEMMA TakenNext ==
    ASSUME Faults \cap {"graph", "cancel"} = {}, gone = {}, Typed, Provenance, Taken,
           [Next]_vars
    PROVE  Taken'
<1> SUFFICES ASSUME NEW i \in Reqs, Is(i, "ingest")', pc'[i] \in AfterInsert, i \notin vectors'
             PROVE  \E u \in Reqs : TakenBy(i, u)'
    BY DEF Taken
<1>1. pc[i] \in AfterInsert /\ pc[i] # "idle"
    BY InsertEntered DEF AfterInsert
<1>2. Is(i, "ingest") /\ Entity(i)' = Entity(i) /\ preceded'[i] = preceded[i]
    BY <1>1, Frame DEF Is, Arrived, Kind, Entity
<1>3. ASSUME NEW u \in Reqs, Is(u, "unlearn")
      PROVE  Entity(u)' = Entity(u)
    BY <1>3, Frame DEF Is, Arrived, Entity
<1>4. CASE i \notin vectors
    <2>1. PICK u \in Reqs : TakenBy(i, u)
        BY <1>1, <1>2, <1>4 DEF Taken
    <2>2. Is(u, "unlearn")' /\ pc'[u] \in AfterPurge
        BY <2>1, StaysAfterPurge DEF TakenBy
    <2> QED  BY <1>2, <1>3, <2>1, <2>2 DEF TakenBy
<1>5. CASE i \in vectors
    <2>1. PICK u \in Reqs : PurgeVectors(u) /\ Entity(i) = Entity(u) /\ pc'[u] = "delKnow"
        BY <1>5, WhoTookRows
    <2>2. Is(u, "unlearn") /\ pc[u] = "purge"
        BY <2>1 DEF PurgeVectors, Is, Arrived, Typed, Fits, UnlearnPcs
    <2>3. u \notin preceded[i]
        BY <2>2 DEF Provenance, Ended
    <2>4. Is(u, "unlearn")'
        BY <2>2, Frame DEF Is, Arrived, Kind
    <2> QED  BY <1>2, <1>3, <2>1, <2>2, <2>3, <2>4 DEF TakenBy, AfterPurge
<1> QED  BY <1>4, <1>5

\* When nothing runs, no document is half there, provided its ingestion did not overlap
\* with an unlearning of its entity and neither the graph failed nor a client hung up: the
\* overlap is the only way in which sound stores come apart.
THEOREM OnlyOverlapsTear ==
    ASSUME Faults \cap {"graph", "cancel", "statement"} = {}
    PROVE  Spec => []WholeUnlessOverlapping
<1> DEFINE I == gone = {} /\ Taken
<1>1. Init => I
    BY DEF Init, Taken, AfterInsert
<1>2. Purging /\ I /\ [Next]_vars => I'
    BY NobodyGone, TakenNext DEF Purging
<1>3. Purging /\ Taken => WholeUnlessOverlapping
    <2> SUFFICES ASSUME Purging, Taken, InFlight = {}, NEW i \in Reqs,
                        Answered(i, "ingest"), i \notin vectors,
                        \A u \in Reqs : Is(u, "unlearn") /\ Entity(u) = Entity(i) => Apart(i, u)
                 PROVE  ~InGraph(i)
        BY DEF WholeUnlessOverlapping
    <2>1. PICK u \in Reqs : TakenBy(i, u)
        BY DEF Taken, Answered, AfterInsert
    <2>2. i \in Before(u)
        BY <2>1 DEF TakenBy, Apart, Before, Answered, Is
    <2>3. pc[u] = "ok"
        BY <2>1 DEF TakenBy, InFlight, AfterPurge, Ended
    <2>4. ~ByEdge(i) /\ ~ByNode(i)
        BY <2>1, <2>2, <2>3
           DEF Purging, EdgesPurged, NodesPurged, TakenBy, AfterPurge, AfterKnow, AfterConcept
    <2> QED  BY <2>4 DEF InGraph, ByEdge, ByNode
<1>4. Spec => []Purging
    BY PurgingInvariant
<1> QED  BY <1>1, <1>2, <1>3, <1>4, PTL DEF Spec
---------------------------------------------------------------------------
(* A document stays whole unless it shares a concept with one of an entity *)
(* that somebody unlearns.                                                 *)

ConceptsOf(i) == UNION {{Triplets(i)[n][1], Triplets(i)[n][2]} : n \in DOMAIN Triplets(i)}
Unlearned(e) == \E u \in Reqs : Is(u, "unlearn") /\ Entity(u) = e

Unshared(i) ==
    /\ ~Unlearned(Entity(i))
    /\ \A j \in Reqs :
          Is(j, "ingest") /\ Unlearned(Entity(j)) => ConceptsOf(i) \cap ConceptsOf(j) = {}

HasEdge(i, n) == \E k \in knowledge : k.by = i /\ <<k.sub, k.obj>> = Triplets(i)[n]

\* OthersUntouched, of the documents that share nothing with what is unlearned.
UntouchedUnlessShared ==
    \A i \in Reqs :
        Answered(i, "ingest") /\ Unshared(i) => \A n \in 1 .. Len(Triplets(i)) : HasEdge(i, n)

\* A node belongs to a document that mentions its concept.
NodesMentioned ==
    \A c \in Concepts : concept[c] # NoNode => c \in ConceptsOf(concept[c].by)

\* The triplets that the loop is past are in the graph, and it ends past all of them.
Stored ==
    \A i \in Reqs : Is(i, "ingest") /\ Unshared(i) => \A n \in 1 .. idx[i] - 1 : HasEdge(i, n)
LoopOver ==
    \A i \in Reqs : Is(i, "ingest") =>
        /\ idx[i] <= Len(Triplets(i)) + 1
        /\ pc[i] \in {"announce", "ok"} => idx[i] > Len(Triplets(i))

\* The triplet at hand.
LEMMA TripletAtHand ==
    ASSUME Typed, NEW r \in Reqs, pc[r] \in {"sub", "obj", "relate"}
    PROVE  /\ Is(r, "ingest") /\ Triplets(r) \in Seq(Concepts \X Concepts)
           /\ idx[r] \in DOMAIN Triplets(r) /\ idx[r] \in Nat
           /\ Triplets(r)[idx[r]] = <<Triplets(r)[idx[r]][1], Triplets(r)[idx[r]][2]>>
           /\ Triplets(r)[idx[r]][1] \in ConceptsOf(r) \cap Concepts
           /\ Triplets(r)[idx[r]][2] \in ConceptsOf(r) \cap Concepts
<1>1. Is(r, "ingest") /\ Triplets(r) \in Seq(Concepts \X Concepts)
    BY ReqFields DEF Is, Arrived, Typed, Fits, IngestPcs
<1>2. idx[r] \in 1 .. Len(Triplets(r))
    BY DEF Typed, Fits
<1>3. idx[r] \in DOMAIN Triplets(r) /\ Triplets(r)[idx[r]] \in Concepts \X Concepts
    BY <1>1, <1>2
<1> QED  BY <1>1, <1>2, <1>3 DEF ConceptsOf

\* A request's documents do not change.
LEMMA ContentKept ==
    ASSUME Typed, [Next]_vars, NEW i \in Reqs, pc[i] # "idle"
    PROVE  /\ Entity(i)' = Entity(i) /\ Triplets(i)' = Triplets(i)
           /\ ConceptsOf(i)' = ConceptsOf(i)
           /\ \A kind : Is(i, kind)' = Is(i, kind)
BY Frame DEF Entity, Triplets, ConceptsOf, Is, Arrived, Kind

\* Who is unlearned stays so, and who is not shared was not shared before.
LEMMA UnsharedBefore ==
    ASSUME Typed, [Next]_vars, NEW i \in Reqs, pc[i] # "idle", Unshared(i)'
    PROVE  Unshared(i)
<1>1. ASSUME NEW e, Unlearned(e) PROVE Unlearned(e)'
    <2>1. PICK u \in Reqs : Is(u, "unlearn") /\ Entity(u) = e
        BY <1>1 DEF Unlearned
    <2>2. Is(u, "unlearn")' /\ Entity(u)' = e
        BY <2>1, ContentKept DEF Is, Arrived
    <2> QED  BY <2>2 DEF Unlearned
<1>2. Entity(i)' = Entity(i) /\ ConceptsOf(i)' = ConceptsOf(i)
    BY ContentKept
<1>3. ~Unlearned(Entity(i))
    <2>1. Entity(i)' = req[i].entity
        BY <1>2 DEF Entity
    <2> QED  BY <1>1, <1>2, <2>1 DEF Unshared, Unlearned
<1>4. ASSUME NEW j \in Reqs, Is(j, "ingest"), Unlearned(Entity(j))
      PROVE  ConceptsOf(i) \cap ConceptsOf(j) = {}
    <2>1. Is(j, "ingest")' /\ Entity(j)' = Entity(j) /\ ConceptsOf(j)' = ConceptsOf(j)
        BY <1>4, ContentKept DEF Is, Arrived
    <2>2. PICK u \in Reqs : Is(u, "unlearn") /\ Entity(u) = Entity(j)
        BY <1>4 DEF Unlearned
    <2>3. Is(u, "unlearn")' /\ Entity(u)' = Entity(u)
        BY <2>2, ContentKept DEF Is, Arrived
    <2> QED  BY <1>2, <2>1, <2>2, <2>3 DEF Unshared, Unlearned
<1> QED  BY <1>3, <1>4 DEF Unshared

\* Only the two statements for nodes write one, for a concept of their document.
LEMMA WhoWroteNode ==
    ASSUME Typed, [Next]_vars, NEW c \in Concepts, concept'[c] # concept[c], concept'[c] # NoNode
    PROVE  \E r \in Reqs : pc[r] # "idle" /\ c \in ConceptsOf(r) /\ concept'[c].by = r
<1> USE DEF Typed, TypeOK, GraphTypeOK
<1>1. PICK r \in Reqs : HandlerStep(r)
    BY QuietStep DEF graphVars
<1>2. ASSUME UpsertSubject(r) \/ UpsertObject(r)
      PROVE  pc[r] # "idle" /\ c \in ConceptsOf(r) /\ concept'[c].by = r
    <2>1. /\ Triplets(r)[idx[r]][1] \in ConceptsOf(r)
          /\ Triplets(r)[idx[r]][2] \in ConceptsOf(r)
        BY <1>2, TripletAtHand DEF UpsertSubject, UpsertObject
    <2> QED
        BY <1>2, <2>1 DEF UpsertSubject, UpsertObject, Statement, UpsertConcept, graphVars
<1>3. ~PurgeNodes(r)
    BY DEF PurgeNodes, Statement, DeleteConcepts, graphVars
<1>4. UpsertSubject(r) \/ UpsertObject(r)
    BY <1>1, <1>3
       DEF HandlerStep, IngestStep, UnlearnStep, AuditStep, Embed, InsertVector, Extract,
           RelateTriplet, Announce, FindInShard, FindInGraph, PurgeVectors, PurgeEdges,
           RecordEntity, RecordShard, RecordEdge, Certify, SaveCertificate, SendDeleted,
           SendAudit, QueryAffected, LookupCertificate, QueryFails, Drop, Statement,
           RelateKnowledge, DeleteKnowledge, UpsertEntity, UpsertShard, RelatePurged,
           CreateCertificate, graphVars
<1> QED  BY <1>2, <1>4

LEMMA NodesMentionedNext ==
    Typed /\ Provenance /\ NodesMentioned /\ [Next]_vars => NodesMentioned'
<1> SUFFICES ASSUME Typed, Provenance, NodesMentioned, [Next]_vars,
                    NEW c \in Concepts, concept'[c] # NoNode
             PROVE  \E n \in Reqs : concept'[c].by = n /\ c \in ConceptsOf(n)'
    BY DEF NodesMentioned, ConceptsOf, Triplets
<1>1. CASE concept'[c] = concept[c]
    <2>1. concept[c].by \in Reqs /\ pc[concept[c].by] # "idle"
        BY <1>1 DEF Typed, TypeOK, GraphTypeOK, Node, Provenance, Is, Arrived
    <2>2. PICK n \in Reqs : n = concept[c].by
        BY <2>1
    <2> QED  BY <1>1, <2>1, <2>2, ContentKept DEF NodesMentioned
<1>2. CASE concept'[c] # concept[c]
    BY <1>2, WhoWroteNode, ContentKept
<1> QED  BY <1>1, <1>2

\* Only an unlearning takes edges: those of its entity, and those at its nodes.
LEMMA WhoTookEdges ==
    ASSUME Typed, [Next]_vars, NEW k \in knowledge, k \notin knowledge'
    PROVE  \E u \in Reqs :
              /\ Is(u, "unlearn")
              /\ \/ k.entity = Entity(u)
                 \/ k.sub \in OwnedBy(Entity(u))
                 \/ k.obj \in OwnedBy(Entity(u))
<1>1. PICK u \in Reqs : HandlerStep(u)
    BY QuietStep DEF graphVars
<1>2. PurgeEdges(u) \/ PurgeNodes(u)
    BY <1>1
       DEF HandlerStep, IngestStep, UnlearnStep, AuditStep, Embed, InsertVector, Extract,
           UpsertSubject, UpsertObject, RelateTriplet, Announce, FindInShard, FindInGraph,
           PurgeVectors, RecordEntity, RecordShard, RecordEdge, Certify, SaveCertificate,
           SendDeleted, SendAudit, QueryAffected, LookupCertificate, QueryFails, Drop,
           Statement, UpsertConcept, RelateKnowledge, UpsertEntity, UpsertShard, RelatePurged,
           CreateCertificate, graphVars
<1>3. Is(u, "unlearn")
    BY <1>2 DEF PurgeEdges, PurgeNodes, Is, Arrived, Typed, Fits, UnlearnPcs
<1> QED
    BY <1>2, <1>3 DEF PurgeEdges, PurgeNodes, Statement, DeleteKnowledge, DeleteConcepts,
       graphVars

\* The edges of a document that shares nothing with what is unlearned stay.
LEMMA EdgesStay ==
    ASSUME Typed, Provenance, NodesMentioned, [Next]_vars,
           NEW i \in Reqs, Is(i, "ingest"), Unshared(i)', NEW n \in DOMAIN Triplets(i),
           HasEdge(i, n)
    PROVE  HasEdge(i, n)'
<1>1. Unshared(i) /\ Triplets(i)' = Triplets(i) /\ Triplets(i) \in Seq(Concepts \X Concepts)
    BY UnsharedBefore, ContentKept, ReqFields DEF Is, Arrived
<1>2. PICK k \in knowledge : k.by = i /\ <<k.sub, k.obj>> = Triplets(i)[n]
    BY DEF HasEdge
<1>3. CASE k \in knowledge'
    BY <1>1, <1>2, <1>3 DEF HasEdge
<1>4. CASE k \notin knowledge'
    <2>1. PICK u \in Reqs : /\ Is(u, "unlearn")
                            /\ \/ k.entity = Entity(u)
                               \/ k.sub \in OwnedBy(Entity(u))
                               \/ k.obj \in OwnedBy(Entity(u))
        BY <1>4, WhoTookEdges
    <2>2. Unlearned(Entity(u)) /\ Entity(u) # Entity(i)
        BY <1>1, <2>1 DEF Unlearned, Unshared
    <2>3. k.entity = Entity(i)
        BY <1>2 DEF Provenance
    <2>4. k.sub \in ConceptsOf(i) /\ k.obj \in ConceptsOf(i)
        BY <1>2 DEF ConceptsOf
    <2>5. ASSUME NEW c \in OwnedBy(Entity(u)) PROVE c \notin ConceptsOf(i)
        <3>1. /\ c \in ConceptsOf(concept[c].by) /\ concept[c].by \in Reqs
              /\ Is(concept[c].by, "ingest") /\ Entity(concept[c].by) = Entity(u)
            BY DEF OwnedBy, NodesMentioned, Provenance, Typed, TypeOK, GraphTypeOK, Node
        <3> QED  BY <1>1, <2>2, <3>1 DEF Unshared
    <2> QED  BY <2>1, <2>2, <2>3, <2>4, <2>5
<1> QED  BY <1>3, <1>4

\* The loop counts a triplet in the step that stores its edge.
LEMMA Counted ==
    ASSUME "statement" \notin Faults, Typed, [Next]_vars, NEW i \in Reqs,
           idx'[i] # idx[i]
    PROVE  /\ pc[i] = "relate" /\ idx'[i] = idx[i] + 1
           /\ \A n : n = idx[i] => HasEdge(i, n)'
           /\ pc'[i] \in {"announce", "ok"} => idx'[i] > Len(Triplets(i))
<1>1. PICK r \in Reqs : HandlerStep(r)
    BY DEF Next, HandlerStep, Arrive, Detach, Tick, vars, handlerVars
<1>2. r = i /\ pc[i] = "relate"
    BY <1>1, StepMoves DEF Typed, TypeOK
<1>3. RelateTriplet(i) \/ Drop(i)
    BY <1>1, <1>2
       DEF HandlerStep, IngestStep, UnlearnStep, AuditStep, Embed, InsertVector, Extract,
           UpsertSubject, UpsertObject, Announce, FindInShard, FindInGraph, PurgeVectors,
           PurgeEdges, PurgeNodes, RecordEntity, RecordShard, RecordEdge, Certify,
           SaveCertificate, SendDeleted, SendAudit, QueryAffected, LookupCertificate,
           QueryFails, QueryStart
<1>4. RelateTriplet(i)
    BY <1>2, <1>3 DEF Drop, QueryMid
<1>5. idx'[i] = idx[i] + 1
    BY <1>4 DEF RelateTriplet, Typed, TypeOK
<1>6. PICK t \in Concepts \X Concepts : t = Triplets(i)[idx[i]]
    BY <1>2, TripletAtHand
<1>7. knowledge' = knowledge \cup {[sub |-> t[1], obj |-> t[2], entity |-> Entity(i),
                                    shard |-> ShardOf(i), by |-> i]}
    BY <1>4, <1>6 DEF RelateTriplet, Statement, RelateKnowledge
<1>8. \E k \in knowledge' : k.by = i /\ <<k.sub, k.obj>> = t
    <2> DEFINE edge == [sub |-> t[1], obj |-> t[2], entity |-> Entity(i),
                        shard |-> ShardOf(i), by |-> i]
    <2>1. edge \in knowledge'
        BY <1>7
    <2>2. edge.by = i /\ edge.sub = t[1] /\ edge.obj = t[2]
        OBVIOUS
    <2>3. t = <<t[1], t[2]>>
        OBVIOUS
    <2> HIDE DEF edge
    <2> QED  BY <2>1, <2>2, <2>3
<1>9. Triplets(i)' = Triplets(i) /\ idx[i] \in Nat
    BY <1>2, ContentKept, TripletAtHand
<1>10. ASSUME NEW n, n = idx[i] PROVE HasEdge(i, n)'
    <2>1. TripletsOf[req'[i].text][n] = t
        BY <1>6, <1>9, <1>10 DEF Triplets
    <2> QED  BY <1>8, <2>1 DEF HasEdge, Triplets
<1>11. pc'[i] \in {"announce", "ok"} => idx'[i] > Len(Triplets(i))
    <2>1. pc'[i] \in {"sub", "announce", "dropped"}
          /\ (pc'[i] = "announce" => ~(idx[i] + 1 <= Len(Triplets(i))))
        BY <1>4 DEF RelateTriplet, Resume, Goto, NextTriplet, Typed, TypeOK
    <2>2. Len(Triplets(i)) \in Nat
        BY <1>2, TripletAtHand
    <2> QED  BY <1>5, <1>9, <2>1, <2>2
<1> QED  BY <1>2, <1>5, <1>10, <1>11

\* The loop ends after the last triplet.
LEMMA LoopLeft ==
    ASSUME Typed, [Next]_vars, NEW i \in Reqs, pc[i] # "idle", Kind(i) = "ingest",
           pc'[i] \in {"announce", "ok"}, pc[i] \notin {"announce", "ok"}, idx'[i] = idx[i]
    PROVE  idx[i] > Len(Triplets(i))
<1>1. HandlerStep(i) /\ pc'[i] \in Succ(pc[i]) \cup Stops
    BY WhoMoved
<1>2. pc[i] \in {"extract", "relate"}
    BY <1>1 DEF Succ, Stops, Typed, Fits, UnlearnPcs, AuditPcs
<1>3. Extract(i) \/ RelateTriplet(i)
    BY <1>1, <1>2
       DEF HandlerStep, IngestStep, UnlearnStep, AuditStep, Embed, InsertVector, UpsertSubject,
           UpsertObject, Announce, FindInShard, FindInGraph, PurgeVectors, PurgeEdges,
           PurgeNodes, RecordEntity, RecordShard, RecordEdge, Certify, SaveCertificate,
           SendDeleted, SendAudit, QueryAffected, LookupCertificate, QueryFails, QueryStart,
           Drop, Goto, Typed, TypeOK
<1>4. ~RelateTriplet(i)
    BY DEF RelateTriplet, Typed, TypeOK
<1>5. Extract(i) /\ idx[i] = 1 /\ ~(1 <= Len(Triplets(i)))
    BY <1>3, <1>4 DEF Extract, NextTriplet, Goto, Typed, TypeOK, Fits
<1>6. Len(Triplets(i)) \in Nat
    BY ReqFields
<1> QED  BY <1>5, <1>6

LEMMA LoopOverNext ==
    ASSUME "statement" \notin Faults, Typed, LoopOver, [Next]_vars
    PROVE  LoopOver'
<1> SUFFICES ASSUME NEW i \in Reqs, Is(i, "ingest")'
             PROVE  /\ idx'[i] <= Len(Triplets(i)') + 1
                    /\ pc'[i] \in {"announce", "ok"} => idx'[i] > Len(Triplets(i)')
    BY DEF LoopOver
<1>0. idx[i] \in Nat
    BY DEF Typed, TypeOK
<1>1. CASE pc[i] = "idle"
    <2>1. idx'[i] = 1
        BY <1>1, Counted DEF Typed, Fits
    <2>2. pc'[i] \notin {"announce", "ok"}
        BY <1>1, Fresh
    <2>3. Typed'
        BY TypedNext
    <2>4. Len(Triplets(i)') \in Nat
        BY <2>3, TripletsAssumption DEF Typed, TypeOK, Fits, Is, Arrived, Kind, Triplets, Ingest,
           Unlearn, Audit
    <2> QED  BY <2>1, <2>2, <2>4
<1>2. CASE pc[i] # "idle"
    <2>1. Is(i, "ingest") /\ Kind(i) = "ingest" /\ Triplets(i)' = Triplets(i)
        BY <1>2, ContentKept DEF Is
    <2>2. Len(Triplets(i)) \in Nat
        BY <1>2, <2>1, ReqFields
    <2>3. CASE idx'[i] = idx[i]
        BY <1>2, <2>1, <2>3, LoopLeft DEF LoopOver
    <2>4. CASE idx'[i] # idx[i]
        <3>1. pc[i] = "relate" /\ idx'[i] = idx[i] + 1
              /\ (pc'[i] \in {"announce", "ok"} => idx'[i] > Len(Triplets(i)))
            BY <2>4, Counted
        <3>2. idx[i] <= Len(Triplets(i))
            BY <3>1 DEF Typed, Fits
        <3> QED  BY <1>0, <2>1, <2>2, <3>1, <3>2
    <2> QED  BY <2>3, <2>4
<1> QED  BY <1>1, <1>2

LEMMA StoredNext ==
    ASSUME "statement" \notin Faults, Typed, Provenance, NodesMentioned, Stored, LoopOver,
           [Next]_vars
    PROVE  Stored'
<1> SUFFICES ASSUME NEW i \in Reqs, Is(i, "ingest")', Unshared(i)', NEW n \in 1 .. idx'[i] - 1
             PROVE  HasEdge(i, n)'
    BY DEF Stored
<1>0. idx[i] \in Nat
    BY DEF Typed, TypeOK
<1>1. CASE pc[i] = "idle"
    <2>1. idx'[i] = idx[i]
        BY <1>1, Counted
    <2>2. idx[i] = 1
        BY <1>1 DEF Typed, Fits
    <2> QED  BY <2>1, <2>2
<1>2. ASSUME pc[i] # "idle", n \in 1 .. idx[i] - 1
      PROVE  HasEdge(i, n)'
    <2>1. Is(i, "ingest") /\ Unshared(i)
        BY <1>2, ContentKept, UnsharedBefore
    <2>2. HasEdge(i, n)
        BY <1>2, <2>1 DEF Stored
    <2>3. Triplets(i) \in Seq(Concepts \X Concepts)
        BY <1>2, <2>1, ReqFields DEF Is
    <2>4. n \in DOMAIN Triplets(i)
        BY <1>0, <1>2, <2>1, <2>3 DEF LoopOver
    <2> QED  BY <2>1, <2>2, <2>4, EdgesStay
<1>3. CASE pc[i] # "idle" /\ n \notin 1 .. idx[i] - 1
    <2>1. idx'[i] # idx[i]
        BY <1>3
    <2>2. n = idx[i]
        BY <1>0, <1>3, <2>1, Counted
    <2> QED  BY <2>1, <2>2, Counted
<1> QED  BY <1>1, <1>2, <1>3

\* An answered document keeps every one of its triplets while nobody unlearns its entity
\* or one whose documents mention a concept of it, whatever else fails or overlaps: the
\* shared nodes are the only way in which an unlearning reaches other entities.
THEOREM OnlySharingTouches ==
    ASSUME "statement" \notin Faults
    PROVE  Spec => []UntouchedUnlessShared
<1> DEFINE I == Typed /\ Provenance /\ NodesMentioned /\ LoopOver /\ Stored
<1>1. Init => I
    BY TypedInit, ProvenanceInit
       DEF Init, GraphInit, NodesMentioned, LoopOver, Stored, Is, Arrived
<1>2. I /\ [Next]_vars => I'
    BY TypedNext, ProvenanceNext, NodesMentionedNext, LoopOverNext, StoredNext
<1>3. I => UntouchedUnlessShared
    <2> SUFFICES ASSUME I, NEW i \in Reqs, Answered(i, "ingest"), Unshared(i),
                        NEW n \in 1 .. Len(Triplets(i))
                 PROVE  HasEdge(i, n)
        BY DEF UntouchedUnlessShared
    <2>1. Is(i, "ingest") /\ idx[i] > Len(Triplets(i)) /\ idx[i] \in Nat
        BY DEF Answered, LoopOver, Typed, TypeOK
    <2>2. Len(Triplets(i)) \in Nat
        BY <2>1, ReqFields DEF Is, Arrived
    <2>3. n \in 1 .. idx[i] - 1
        BY <2>1, <2>2
    <2> QED  BY <2>1, <2>3 DEF Stored
<1> QED  BY <1>1, <1>2, <1>3, PTL DEF Spec
=============================================================================
