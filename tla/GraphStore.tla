----------------------------- MODULE GraphStore -----------------------------
(***************************************************************************)
(* GraphClient (rust_gateway/src/graph/surreal_client.rs): the embedded    *)
(* SurrealDB graph.  A query of several statements is not one transaction: *)
(* each statement is, so each is an action here and the callers of other   *)
(* queries run between them.  LET statements only name record ids.         *)
(*                                                                         *)
(* `by' names the request that wrote a record.  It is not in the database: *)
(* it stands for the random id of an edge or a certificate, and lets the   *)
(* properties say whose data is left.                                      *)
(***************************************************************************)
EXTENDS Naturals

CONSTANTS
    Reqs,       \* the requests that the gateway serves
    Entities,   \* entity identifiers
    Shards,     \* shard numbers
    Concepts,   \* the names of subjects and objects of extracted triplets
    NoNode      \* the value of a concept without a node

VARIABLES
    concept,      \* concept[c]: the node `concept:c', or NoNode
    knowledge,    \* the KNOWLEDGE edges
    entityNodes,  \* the entities that have an `entity' node
    shardNodes,   \* the shards that have a `shard' node
    purgedFrom,   \* the PURGED_FROM edges
    ledger        \* the table audit_certificates

graphVars == <<concept, knowledge, entityNodes, shardNodes, purgedFrom, ledger>>

Node == [entity: Entities, by: Reqs]
Edge == [sub: Concepts, obj: Concepts, entity: Entities, shard: Shards, by: Reqs]
PurgeEdge == [entity: Entities, shard: Shards, by: Reqs]
Entry == [entity: Entities, shard: Shards, ts: Nat, by: Reqs]

ASSUME NoNodeAssumption == NoNode \notin Node

GraphTypeOK ==
    /\ concept \in [Concepts -> Node \cup {NoNode}]
    /\ knowledge \subseteq Edge
    /\ entityNodes \subseteq Entities
    /\ shardNodes \subseteq Shards
    /\ purgedFrom \subseteq PurgeEdge
    /\ ledger \subseteq Entry

GraphInit ==
    /\ concept = [c \in Concepts |-> NoNode]
    /\ knowledge = {}
    /\ entityNodes = {}
    /\ shardNodes = {}
    /\ purgedFrom = {}
    /\ ledger = {}

OwnedBy(e) == {c \in Concepts : concept[c] # NoNode /\ concept[c].entity = e}

---------------------------------------------------------------------------
(* insert_triplet: one node per concept name, shared by every entity whose *)
(* documents mention it; the last writer's entity_id stays.                *)

UpsertConcept(c, e, r) ==
    /\ concept' = [concept EXCEPT ![c] = [entity |-> e, by |-> r]]
    /\ UNCHANGED <<knowledge, entityNodes, shardNodes, purgedFrom, ledger>>

\* RELATE gives every edge an id of its own and does not require the nodes.
RelateKnowledge(s, o, e, shard, r) ==
    /\ knowledge' = knowledge \cup
           {[sub |-> s, obj |-> o, entity |-> e, shard |-> shard, by |-> r]}
    /\ UNCHANGED <<concept, entityNodes, shardNodes, purgedFrom, ledger>>

---------------------------------------------------------------------------
(* purge_entity_subgraph.                                                  *)

DeleteKnowledge(e) ==
    /\ knowledge' = {k \in knowledge : k.entity # e}
    /\ UNCHANGED <<concept, entityNodes, shardNodes, purgedFrom, ledger>>

\* Mutant: the statement that deletes the nodes is forgotten.
KeepConcepts(e) == e \in Entities /\ UNCHANGED graphVars

\* Deleting a node deletes the edges attached to it, whoever's they are.
DeleteConcepts(e) ==
    /\ concept' = [c \in Concepts |-> IF c \in OwnedBy(e) THEN NoNode ELSE concept[c]]
    /\ knowledge' = {k \in knowledge : k.sub \notin OwnedBy(e) /\ k.obj \notin OwnedBy(e)}
    /\ UNCHANGED <<entityNodes, shardNodes, purgedFrom, ledger>>

---------------------------------------------------------------------------
(* record_unlearn_relation.                                                *)

UpsertEntity(e) ==
    /\ entityNodes' = entityNodes \cup {e}
    /\ UNCHANGED <<concept, knowledge, shardNodes, purgedFrom, ledger>>

UpsertShard(s) ==
    /\ shardNodes' = shardNodes \cup {s}
    /\ UNCHANGED <<concept, knowledge, entityNodes, purgedFrom, ledger>>

\* Mutant: the edge points the wrong way.
RelateBackwards(e, s, r) ==
    /\ purgedFrom' = purgedFrom \cup {[entity |-> s, shard |-> e, by |-> r]}
    /\ UNCHANGED <<concept, knowledge, entityNodes, shardNodes, ledger>>

RelatePurged(e, s, r) ==
    /\ purgedFrom' = purgedFrom \cup {[entity |-> e, shard |-> s, by |-> r]}
    /\ UNCHANGED <<concept, knowledge, entityNodes, shardNodes, ledger>>

---------------------------------------------------------------------------
(* save_audit_certificate.                                                 *)

CreateCertificate(e, s, ts, r) ==
    /\ ledger' = ledger \cup {[entity |-> e, shard |-> s, ts |-> ts, by |-> r]}
    /\ UNCHANGED <<concept, knowledge, entityNodes, shardNodes, purgedFrom>>

---------------------------------------------------------------------------
(* The queries that only read.                                             *)

\* Mutants: FROM concept instead of entity; the WHERE clause is lost.
AffectedByConcept(e) ==
    IF OwnedBy(e) # {}
    THEN {s \in shardNodes : \E x \in purgedFrom : x.entity = e /\ x.shard = s}
    ELSE {}
AffectedOfAnyone(e) == {s \in shardNodes : e \in Entities /\ \E x \in purgedFrom : x.shard = s}

\* get_affected_shards: entity -> PURGED_FROM -> shard.shard_id.
AffectedShards(e) ==
    IF e \in entityNodes
    THEN {s \in shardNodes : \E x \in purgedFrom : x.entity = e /\ x.shard = s}
    ELSE {}

\* entity_exists: it counts the concept nodes; edges do not count.
EntityInGraph(e) == OwnedBy(e) # {}

\* get_audit_certificate: ORDER BY timestamp_epoch DESC LIMIT 1; among entries
\* of the same second any may come first.
Certificates(e, s) == {c \in ledger : c.entity = e /\ c.shard = s}
\* Mutant: ORDER BY ... ASC.
Oldest(e, s) == {c \in Certificates(e, s) : \A d \in Certificates(e, s) : d.ts >= c.ts}
Newest(e, s) == {c \in Certificates(e, s) : \A d \in Certificates(e, s) : d.ts <= c.ts}
=============================================================================
