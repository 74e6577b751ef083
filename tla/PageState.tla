----------------------------- MODULE PageState -----------------------------
(***************************************************************************)
(* The state that the dashboard page keeps (frontend/src/app/page.tsx):    *)
(* nodes, links and certificates, and what changes them, an event of the   *)
(* gateway or the answer to a request of the page.                         *)
(*                                                                         *)
(*  - A document is known by its node id, entity_<entity_id>_<id>.         *)
(*  - A certificate is known by its audit_id and its entity.               *)
(*  - A state update by a function, setNodes(prev => ...), is atomic and   *)
(*    the updates of one callback are rendered together.                   *)
(***************************************************************************)
EXTENDS Naturals, Sequences, FiniteSets

CONSTANTS
    Docs,     \* the documents
    Owner,    \* Owner[d]: the entity of document d
    AuditIds  \* audit_id: shard and second

Entities == {Owner[d] : d \in Docs}
Certificate == [id: AuditIds, entity: Entities]
Ingested(d) == [type |-> "NodeIngested", doc |-> d]
Deleted(e) == [type |-> "NodeDeleted", entity |-> e]
Audited(c) == [type |-> "AuditGenerated", cert |-> c]
Event == {Ingested(d) : d \in Docs} \cup {Deleted(e) : e \in Entities}
             \cup {Audited(c) : c \in Certificate}

VARIABLES
    nodes,      \* what the page shows of each document
    links,      \* how many links it has to each node
    ledger      \* its certificates, newest first

pageVars == <<nodes, links, ledger>>

PageInit ==
    /\ nodes = [d \in Docs |-> "absent"]
    /\ links = [d \in Docs |-> 0]
    /\ ledger = <<>>

---------------------------------------------------------------------------
(* Events.                                                                 *)

\* Mutant: a node that is there already is replaced.
ReplaceNodes(ds) == nodes' = [d \in Docs |-> IF d \in ds THEN "active" ELSE nodes[d]]

AddNodes(ds) ==
    nodes' = [d \in Docs |-> IF d \in ds /\ nodes[d] = "absent" THEN "active" ELSE nodes[d]]

\* Mutant: purged nodes are dropped from the list.
DropPurged(e) ==
    nodes' = [d \in Docs |-> IF Owner[d] = e THEN "absent" ELSE nodes[d]]

MarkPurged(e) ==
    nodes' = [d \in Docs |->
                 IF Owner[d] = e /\ nodes[d] # "absent" THEN "purged" ELSE nodes[d]]

\* Mutant: the event path leaves the link to the answer.
LeaveLink(d) == d \in Docs /\ UNCHANGED links

LinkOnce(d) == links' = [links EXCEPT ![d] = IF @ = 0 THEN 1 ELSE @]

Listed(c) == \E i \in DOMAIN ledger : ledger[i].id = c.id

\* Mutant: certificates are left to the answers.
ShowNodesOnly(m) ==
    \/ /\ m.type = "NodeIngested"
       /\ AddNodes({m.doc})
       /\ LinkOnce(m.doc)
       /\ UNCHANGED ledger
    \/ /\ m.type = "NodeDeleted"
       /\ MarkPurged(m.entity)
       /\ UNCHANGED <<links, ledger>>
    \/ /\ m.type = "AuditGenerated"
       /\ UNCHANGED pageVars

\* The effect on lastEvent.
ShowEvent(m) ==
    \/ /\ m.type = "NodeIngested"
       /\ AddNodes({m.doc})
       /\ LinkOnce(m.doc)
       /\ UNCHANGED ledger
    \/ /\ m.type = "NodeDeleted"
       /\ MarkPurged(m.entity)
       /\ UNCHANGED <<links, ledger>>
    \/ /\ m.type = "AuditGenerated"
       /\ ledger' = IF Listed(m.cert) THEN ledger ELSE <<m.cert>> \o ledger
       /\ UNCHANGED <<nodes, links>>

---------------------------------------------------------------------------
(* Answers.                                                                *)

\* handleIngestSuccess, for each of the documents that an answer reports.
handleIngestSuccess(ds) ==
    /\ AddNodes(ds)
    /\ links' = [d \in Docs |-> IF d \in ds THEN links[d] + 1 ELSE links[d]]
    /\ UNCHANGED ledger

\* Mutant: the whole answer is kept instead of its certificate.
KeepAnswer(e, c) ==
    /\ MarkPurged(e)
    /\ ledger' = <<[entity |-> e, audit_certificate |-> c]>> \o ledger
    /\ UNCHANGED links

\* The answer names the entity and carries its certificate, which is put first
\* without asking whether it is listed.
handleUnlearnSuccess(e, c) ==
    /\ MarkPurged(e)
    /\ ledger' = <<c>> \o ledger
    /\ UNCHANGED links

---------------------------------------------------------------------------
(* The entities of the list to pick from, derived at every render.         *)

activeEntityIds == {Owner[d] : d \in {n \in Docs : nodes[n] = "active"}}

\* The type of the page's state.
PageTypeOK ==
    /\ nodes \in [Docs -> {"absent", "active", "purged"}]
    /\ links \in [Docs -> Nat]
    /\ ledger \in Seq(Certificate)

\* Nodes and links are separate states of the page, and two handlers update them:
\* a node has a link and a link has its node.
LinksJoin == \A d \in Docs : nodes[d] = "absent" <=> links[d] = 0
=============================================================================
