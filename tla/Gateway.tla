------------------------------- MODULE Gateway -------------------------------
(***************************************************************************)
(* The request handlers of the gateway (rust_gateway/src/api): one ingest, *)
(* unlearn or audit request at a time runs through its steps, any number   *)
(* of them interleaved, over three services that know nothing of each      *)
(* other: the vector store, the graph and the ML worker.                   *)
(*                                                                         *)
(*  - The vector store is the atomic store of EntityStore, which the locks *)
(*    and tables of ShardStore implement; a row is named by the ingest     *)
(*    request that wrote it.                                               *)
(*  - The graph is GraphStore, one statement at a time.                    *)
(*  - A handler's future is dropped when its client hangs up.  Statements  *)
(*    of a query it has submitted still run: the embedded database has its *)
(*    own task.                                                            *)
(***************************************************************************)
EXTENDS GraphStore, Sequences, FiniteSets

CONSTANTS
    Texts,        \* document texts
    TripletsOf,   \* TripletsOf[t]: the <<subject, object>> pairs extracted from t
    Home,         \* Home[e]: get_shard_id(e)
    WellFormed,   \* the entities that validate_identifier accepts
    Menu,         \* the requests that clients may send
    NoReq,        \* the content of a request that has not arrived
    Faults,       \* which of "ml", "lance", "graph", "statement", "cancel" happen
    MaxInFlight,  \* bound: requests served at the same time
    MaxClock      \* bound: seconds that pass

Ingest == [kind: {"ingest"}, entity: Entities, text: Texts]
Unlearn == [kind: {"unlearn"}, entity: Entities]
Audit == [kind: {"audit"}, entity: Entities, shard: Shards]

ASSUME HomeAssumption == Home \in [Entities -> Shards]
ASSUME TripletsAssumption == TripletsOf \in [Texts -> Seq(Concepts \X Concepts)]
ASSUME MenuAssumption == Menu \subseteq Ingest \cup Unlearn \cup Audit
ASSUME NoReqAssumption == NoReq \notin Ingest \cup Unlearn \cup Audit

VARIABLES
    vectors,   \* the ingest requests whose row is in the vector store
    req,       \* req[r]: what request r asks for
    pc,        \* where its handler is
    idx,       \* an ingest's loop over its triplets
    inShard,   \* an unlearn's exists_in_shard
    verified,  \* an audit's is_graph_verified
    stamp,     \* the timestamp_epoch of the certificate in the handler's hands
    gone,      \* requests whose client hung up while a query of theirs runs on
    sent,      \* the events sent to the WebSocket channel
    now,       \* the wall clock, in seconds
    preceded   \* preceded[r]: the requests that had ended when r arrived

handlerVars == <<req, pc, idx, inShard, verified, stamp, gone, sent, preceded>>
vars == <<graphVars, vectors, handlerVars, now>>

Ended == {"ok", "notfound", "failed", "rejected", "dropped"}
InFlight == {r \in Reqs : pc[r] # "idle" /\ pc[r] \notin Ended}

\* The first and the later statements of the queries that write.
QueryStart == {"sub", "delKnow", "recEntity", "save"}
QueryMid == {"obj", "relate", "delConcept", "recShard", "recEdge"}

Steps == {"embed", "insert", "extract", "announce",
          "findShard", "findGraph", "purge", "certify", "deleted", "audited",
          "affected", "lookup"}

Entity(r) == req[r].entity
Kind(r) == req[r].kind
ShardOf(r) == Home[Entity(r)]
Triplets(r) == TripletsOf[req[r].text]

Init ==
    /\ GraphInit
    /\ vectors = {}
    /\ req = [r \in Reqs |-> NoReq]
    /\ pc = [r \in Reqs |-> "idle"]
    /\ idx = [r \in Reqs |-> 1]
    /\ inShard = [r \in Reqs |-> FALSE]
    /\ verified = [r \in Reqs |-> FALSE]
    /\ stamp = [r \in Reqs |-> 0]
    /\ gone = {}
    /\ sent = {}
    /\ now = 0
    /\ preceded = [r \in Reqs |-> {}]

Goto(r, l) == pc' = [pc EXCEPT ![r] = l]

\* On to l, unless nobody waits for the end of the query any more.
Resume(r, l) == Goto(r, IF r \in gone THEN "dropped" ELSE l)

\* A statement that writes: its error is in the response, where no handler looks.
Statement(Effect) ==
    Effect \/ ("statement" \in Faults /\ UNCHANGED graphVars)

\* What can go wrong with a SELECT: the query fails, which its handler is told, or its
\* statement does, and then take(0).unwrap_or_default() makes the answer empty.
ReadFaults == Faults \cap {"graph", "statement"}

FirstStep(m) ==
    CASE m.kind = "audit" -> "affected"
      [] m.entity \notin WellFormed -> "rejected"
      [] m.kind = "ingest" -> "embed"
      [] m.kind = "unlearn" -> "findShard"

\* A request arrives and its handler validates it.
Arrive(r) ==
    /\ pc[r] = "idle"
    /\ Cardinality(InFlight) < MaxInFlight
    /\ \E m \in Menu :
          /\ req' = [req EXCEPT ![r] = m]
          /\ Goto(r, FirstStep(m))
    /\ preceded' = [preceded EXCEPT ![r] = {q \in Reqs : pc[q] \in Ended}]
    /\ UNCHANGED <<graphVars, vectors, idx, inShard, verified, stamp, gone, sent, now>>

\* The parts of the state that the steps below leave alone.
RestOfPc == <<req, inShard, verified, stamp, gone, preceded, now>>

---------------------------------------------------------------------------
(* handle_ingest.                                                          *)

\* get_embedding over gRPC.
Embed(r) ==
    /\ pc[r] = "embed"
    /\ \/ Goto(r, "insert")
       \/ "ml" \in Faults /\ Goto(r, "failed")
    /\ UNCHANGED <<graphVars, vectors, idx, sent, RestOfPc>>

\* insert_vector.
InsertVector(r) ==
    /\ pc[r] = "insert"
    /\ \/ vectors' = vectors \cup {r} /\ Goto(r, "extract")
       \/ "lance" \in Faults /\ Goto(r, "failed") /\ UNCHANGED vectors
    /\ UNCHANGED <<graphVars, idx, sent, RestOfPc>>

NextTriplet(r, i) == IF i <= Len(Triplets(r)) THEN "sub" ELSE "announce"

\* extract_triplets over gRPC; the loop begins.
Extract(r) ==
    /\ pc[r] = "extract"
    /\ \/ Goto(r, NextTriplet(r, 1))
       \/ "ml" \in Faults /\ Goto(r, "failed")
    /\ UNCHANGED <<graphVars, vectors, idx, sent, RestOfPc>>

\* insert_triplet, statement by statement.
UpsertSubject(r) ==
    /\ pc[r] = "sub"
    /\ Statement(UpsertConcept(Triplets(r)[idx[r]][1], Entity(r), r))
    /\ Goto(r, "obj")
    /\ UNCHANGED <<vectors, idx, sent, RestOfPc>>

UpsertObject(r) ==
    /\ pc[r] = "obj"
    /\ Statement(UpsertConcept(Triplets(r)[idx[r]][2], Entity(r), r))
    /\ Goto(r, "relate")
    /\ UNCHANGED <<vectors, idx, sent, RestOfPc>>

RelateTriplet(r) ==
    /\ pc[r] = "relate"
    /\ LET t == Triplets(r)[idx[r]]
       IN  Statement(RelateKnowledge(t[1], t[2], Entity(r), ShardOf(r), r))
    /\ idx' = [idx EXCEPT ![r] = @ + 1]
    /\ Resume(r, NextTriplet(r, idx[r] + 1))
    /\ UNCHANGED <<vectors, sent, RestOfPc>>

\* The NodeIngested event and the answer.
Announce(r) ==
    /\ pc[r] = "announce"
    /\ sent' = sent \cup {<<"NodeIngested", r>>}
    /\ Goto(r, "ok")
    /\ UNCHANGED <<graphVars, vectors, idx, RestOfPc>>

---------------------------------------------------------------------------
(* handle_unlearn.                                                         *)

RowsOf(e) == {i \in vectors : Entity(i) = e}

\* exists_in_shard: an error counts as absent.
FindInShard(r) ==
    /\ pc[r] = "findShard"
    /\ \/ inShard' = [inShard EXCEPT ![r] = RowsOf(Entity(r)) # {}]
       \/ "lance" \in Faults /\ inShard' = [inShard EXCEPT ![r] = FALSE]
    /\ Goto(r, "findGraph")
    /\ UNCHANGED <<graphVars, vectors, req, idx, verified, stamp, gone, sent, now, preceded>>

\* Mutant: absent in one of the stores is a 404.
FindInBoth(r) ==
    /\ pc[r] = "findGraph"
    /\ Goto(r, IF inShard[r] /\ EntityInGraph(Entity(r)) THEN "purge" ELSE "notfound")
    /\ UNCHANGED <<graphVars, vectors, idx, sent, RestOfPc>>

\* exists_in_graph: an error, of the query or of its statement, counts as absent;
\* absent in both is a 404.
FindInGraph(r) ==
    /\ pc[r] = "findGraph"
    /\ \E inGraph \in {EntityInGraph(Entity(r))} \cup {FALSE : f \in ReadFaults} :
          Goto(r, IF inShard[r] \/ inGraph THEN "purge" ELSE "notfound")
    /\ UNCHANGED <<graphVars, vectors, idx, sent, RestOfPc>>

\* Mutant: an error of purge_entity is logged and the handler goes on.
PurgeVectorsOrLog(r) ==
    /\ pc[r] = "purge"
    /\ \/ vectors' = vectors \ RowsOf(Entity(r))
       \/ "lance" \in Faults /\ UNCHANGED vectors
    /\ Goto(r, "delKnow")
    /\ UNCHANGED <<graphVars, idx, sent, RestOfPc>>

\* purge_entity.
PurgeVectors(r) ==
    /\ pc[r] = "purge"
    /\ \/ vectors' = vectors \ RowsOf(Entity(r)) /\ Goto(r, "delKnow")
       \/ "lance" \in Faults /\ Goto(r, "failed") /\ UNCHANGED vectors
    /\ UNCHANGED <<graphVars, idx, sent, RestOfPc>>

\* purge_entity_subgraph, statement by statement.
PurgeEdges(r) ==
    /\ pc[r] = "delKnow"
    /\ Statement(DeleteKnowledge(Entity(r)))
    /\ Goto(r, "delConcept")
    /\ UNCHANGED <<vectors, idx, sent, RestOfPc>>

PurgeNodes(r) ==
    /\ pc[r] = "delConcept"
    /\ Statement(DeleteConcepts(Entity(r)))
    /\ Resume(r, "recEntity")
    /\ UNCHANGED <<vectors, idx, sent, RestOfPc>>

\* record_unlearn_relation, statement by statement.
RecordEntity(r) ==
    /\ pc[r] = "recEntity"
    /\ Statement(UpsertEntity(Entity(r)))
    /\ Goto(r, "recShard")
    /\ UNCHANGED <<vectors, idx, sent, RestOfPc>>

RecordShard(r) ==
    /\ pc[r] = "recShard"
    /\ Statement(UpsertShard(ShardOf(r)))
    /\ Goto(r, "recEdge")
    /\ UNCHANGED <<vectors, idx, sent, RestOfPc>>

RecordEdge(r) ==
    /\ pc[r] = "recEdge"
    /\ Statement(RelatePurged(Entity(r), ShardOf(r), r))
    /\ Resume(r, "certify")
    /\ UNCHANGED <<vectors, idx, sent, RestOfPc>>

\* generate_certificate.
Certify(r) ==
    /\ pc[r] = "certify"
    /\ stamp' = [stamp EXCEPT ![r] = now]
    /\ Goto(r, "save")
    /\ UNCHANGED <<graphVars, vectors, req, idx, inShard, verified, gone, sent, now, preceded>>

\* save_audit_certificate; its failure is only logged.
SaveCertificate(r) ==
    /\ pc[r] = "save"
    /\ \/ Statement(CreateCertificate(Entity(r), ShardOf(r), stamp[r], r))
       \/ "graph" \in Faults /\ UNCHANGED graphVars
    /\ Resume(r, "deleted")
    /\ UNCHANGED <<vectors, idx, sent, RestOfPc>>

\* The NodeDeleted event; other handlers may send theirs before the next one.
SendDeleted(r) ==
    /\ pc[r] = "deleted"
    /\ sent' = sent \cup {<<"NodeDeleted", r>>}
    /\ Goto(r, "audited")
    /\ UNCHANGED <<graphVars, vectors, idx, RestOfPc>>

\* The AuditGenerated event and the answer PURGED_AND_VERIFIED.
SendAudit(r) ==
    /\ pc[r] = "audited"
    /\ sent' = sent \cup {<<"AuditGenerated", r>>}
    /\ Goto(r, "ok")
    /\ UNCHANGED <<graphVars, vectors, idx, RestOfPc>>

---------------------------------------------------------------------------
(* handle_verify_audit.                                                    *)

\* get_affected_shards: no shards when its statement fails, the end when the query does.
QueryAffected(r) ==
    /\ pc[r] = "affected"
    /\ \/ /\ verified' = [verified EXCEPT ![r] = req[r].shard \in AffectedShards(Entity(r))]
          /\ Goto(r, "lookup")
       \/ /\ "statement" \in Faults
          /\ verified' = [verified EXCEPT ![r] = FALSE]
          /\ Goto(r, "lookup")
       \/ "graph" \in Faults /\ Goto(r, "failed") /\ UNCHANGED verified
    /\ UNCHANGED <<graphVars, vectors, req, idx, inShard, stamp, gone, sent, now, preceded>>

\* The newest saved certificate, or a new one when there is none or the lookup fails;
\* and the answer.
LookupCertificate(r) ==
    /\ pc[r] = "lookup"
    /\ LET newest == Newest(Entity(r), req[r].shard)
       IN  \/ \E c \in newest : stamp' = [stamp EXCEPT ![r] = c.ts]
           \/ /\ newest = {} \/ ReadFaults # {}
              /\ stamp' = [stamp EXCEPT ![r] = now]
    /\ Goto(r, "ok")
    /\ UNCHANGED <<graphVars, vectors, req, idx, inShard, verified, gone, sent, now, preceded>>

---------------------------------------------------------------------------
(* Faults, and time.                                                       *)

\* Mutant: an error of record_unlearn_relation is logged and the handler goes on.
QueryFailsOrLogs(r) ==
    /\ "graph" \in Faults
    /\ pc[r] \in QueryStart \ {"save"}
    /\ Resume(r, IF pc[r] = "recEntity" THEN "certify" ELSE "failed")
    /\ UNCHANGED <<graphVars, vectors, idx, sent, RestOfPc>>

\* A query that writes fails as a whole (save_audit_certificate has its own
\* way to go on).
QueryFails(r) ==
    /\ "graph" \in Faults
    /\ pc[r] \in QueryStart \ {"save"}
    /\ Resume(r, "failed")
    /\ UNCHANGED <<graphVars, vectors, idx, sent, RestOfPc>>

\* The client hangs up: the handler ends at its await ...
Drop(r) ==
    /\ "cancel" \in Faults
    /\ r \in InFlight \ gone
    /\ pc[r] \notin QueryMid \cup {"audited"}
    /\ Goto(r, "dropped")
    /\ UNCHANGED <<graphVars, vectors, idx, sent, RestOfPc>>

\* ... or, when it waits for a query it has submitted, after that query.
Detach(r) ==
    /\ "cancel" \in Faults
    /\ r \notin gone
    /\ pc[r] \in QueryStart \cup QueryMid
    /\ gone' = gone \cup {r}
    /\ UNCHANGED <<graphVars, vectors, req, pc, idx, inShard, verified, stamp, sent, now, preceded>>

Tick ==
    /\ now < MaxClock
    /\ now' = now + 1
    /\ UNCHANGED <<graphVars, vectors, handlerVars>>

IngestStep(r) ==
    \/ Embed(r) \/ InsertVector(r) \/ Extract(r)
    \/ UpsertSubject(r) \/ UpsertObject(r) \/ RelateTriplet(r) \/ Announce(r)

UnlearnStep(r) ==
    \/ FindInShard(r) \/ FindInGraph(r) \/ PurgeVectors(r)
    \/ PurgeEdges(r) \/ PurgeNodes(r)
    \/ RecordEntity(r) \/ RecordShard(r) \/ RecordEdge(r)
    \/ Certify(r) \/ SaveCertificate(r) \/ SendDeleted(r) \/ SendAudit(r)

AuditStep(r) == QueryAffected(r) \/ LookupCertificate(r)

Next ==
    \/ \E r \in Reqs :
          \/ Arrive(r)
          \/ IngestStep(r) \/ UnlearnStep(r) \/ AuditStep(r)
          \/ QueryFails(r) \/ Drop(r) \/ Detach(r)
    \/ Tick

Spec == Init /\ [][Next]_vars

---------------------------------------------------------------------------
(* Correctness.                                                            *)

Arrived(r) == pc[r] # "idle"
Is(r, kind) == Arrived(r) /\ Kind(r) = kind
Answered(r, kind) == Is(r, kind) /\ pc[r] = "ok"

\* The type of every variable.
TypeOK ==
    /\ GraphTypeOK
    /\ vectors \subseteq Reqs
    /\ req \in [Reqs -> Ingest \cup Unlearn \cup Audit \cup {NoReq}]
    /\ pc \in [Reqs -> Steps \cup QueryStart \cup QueryMid \cup Ended \cup {"idle"}]
    /\ idx \in [Reqs -> Nat]
    /\ inShard \in [Reqs -> BOOLEAN]
    /\ verified \in [Reqs -> BOOLEAN]
    /\ stamp \in [Reqs -> Nat]
    /\ gone \subseteq Reqs
    /\ sent \subseteq {"NodeIngested", "NodeDeleted", "AuditGenerated"} \X Reqs
    /\ now \in Nat
    /\ preceded \in [Reqs -> SUBSET Reqs]

\* The documents of its entity that were ingested, in whole or in part, before
\* unlearn request u arrived: what u promises to make unlearned.
Before(u) == {i \in preceded[u] : Kind(i) = "ingest" /\ Entity(i) = Entity(u)}

\* What document i left in the graph.
InGraph(i) ==
    \/ \E k \in knowledge : k.by = i
    \/ \E c \in Concepts : concept[c] # NoNode /\ concept[c].by = i

AfterPurge == {"delKnow", "delConcept", "recEntity", "recShard", "recEdge",
               "certify", "save", "deleted", "audited", "ok"}

\* Once an unlearn is past purge_entity, no row of a document ingested before it
\* arrived is left or comes back, whatever else is being ingested and whichever
\* step of it fails later.
VectorsPurged ==
    \A u \in Reqs :
        Is(u, "unlearn") /\ pc[u] \in AfterPurge => Before(u) \cap vectors = {}

\* A PURGED_FROM edge is true: nothing that its entity's documents, ingested
\* before the unlearn arrived, ever stored is left in either store, although
\* the two stores are purged by three separate transactions.
RecordedMeansPurged ==
    \A x \in purgedFrom : \A i \in Before(x.by) : i \notin vectors /\ ~InGraph(i)

\* The unlearns whose certificate exists: saved, broadcast or answered.
Certified ==
    {u \in Reqs : \/ Is(u, "unlearn") /\ pc[u] \in {"save", "deleted", "audited", "ok"}
                  \/ <<"AuditGenerated", u>> \in sent
                  \/ \E c \in ledger : c.by = u}

\* A certificate of an unlearning has its relation in the graph: no failure or hang-up
\* between record_unlearn_relation and the answer separates the two.  (What an audit
\* makes up when it finds no certificate, audit.rs:59, is not one of these.)
CertifiedIsRecorded ==
    \A u \in Certified : ShardOf(u) \in AffectedShards(Entity(u))

\* An audit that begins after an unlearn was answered says is_valid, as long as no
\* statement fails silently: neither one that records the relation nor the SELECT of
\* the audit itself, whose failure reads as "no shard" (surreal_client.rs:125).
AuditComplete ==
    \A a, u \in Reqs :
        /\ Answered(a, "audit") /\ Answered(u, "unlearn") /\ u \in preceded[a]
        /\ Entity(a) = Entity(u) /\ req[a].shard = ShardOf(u)
        => verified[a]

\* An audit that says is_valid is right: some unlearn of that entity on that
\* shard purged everything ingested before it.
AuditSound ==
    \A a \in Reqs :
        Answered(a, "audit") /\ verified[a]
            => \E u \in Reqs :
                  /\ Is(u, "unlearn") /\ Entity(u) = Entity(a) /\ ShardOf(u) = req[a].shard
                  /\ \A i \in Before(u) : i \notin vectors /\ ~InGraph(i)

\* The certificate of an audit is not older than the one saved by an unlearn that
\* was answered before the audit began, whichever lookups and other savings fail.
AuditNewest ==
    \A a, u \in Reqs :
        /\ Answered(a, "audit") /\ Answered(u, "unlearn") /\ u \in preceded[a]
        /\ Entity(a) = Entity(u) /\ req[a].shard = ShardOf(u)
        /\ \E c \in ledger : c.by = u
        => stamp[u] <= stamp[a]

\* An unlearn answered 404 leaves no row of a document ingested before it (as
\* long as entity_exists does not fail).
NotFoundMeansNoRow ==
    \A u \in Reqs : pc[u] = "notfound" => Before(u) \cap vectors = {}

---------------------------------------------------------------------------
(* What the documentation says and the code does not do.                   *)

\* README.md:36: deleting data on one shard leaves all others untouched.  The
\* triplets of an answered ingestion stay as long as nobody unlearns its entity.
OthersUntouched ==
    \A i \in Reqs :
        Answered(i, "ingest") /\ (\A u \in Reqs : Is(u, "unlearn") => Entity(u) # Entity(i))
            => \A n \in 1 .. Len(Triplets(i)) :
                  \E k \in knowledge : k.by = i /\ <<k.sub, k.obj>> = Triplets(i)[n]

\* README.md:39-41: an unlearning takes the vectors and the triplets.  When
\* nothing is running, no answered document is half there: its row gone, its
\* triplets not.
PurgedWhole ==
    InFlight = {} =>
        \A i \in Reqs : Answered(i, "ingest") /\ i \notin vectors => ~InGraph(i)

\* unlearn.rs:137: an unlearn answered PURGED_AND_VERIFIED has purged every
\* document that was ingested before it arrived.
PurgedAndVerified ==
    \A u \in Reqs : Answered(u, "unlearn")
        => \A i \in Before(u) : i \notin vectors /\ ~InGraph(i)
=============================================================================
