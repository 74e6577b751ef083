----------------------------- MODULE PageProofs -----------------------------
(* What every update of the page's state preserves, for the proofs about the  *)
(* modules that update it.                                                    *)
EXTENDS PageState, TLAPS

PageStep ==
    \/ UNCHANGED pageVars
    \/ \E m \in Event : ShowEvent(m)
    \/ \E ds \in SUBSET Docs : handleIngestSuccess(ds)
    \/ \E c \in Certificate : handleUnlearnSuccess(c.entity, c)

\* An event is of one of three kinds, which its type tells.
LEMMA EventKinds ==
    ASSUME NEW m \in Event
    PROVE  /\ m.type = "NodeIngested" => m.doc \in Docs /\ m = Ingested(m.doc)
           /\ m.type = "AuditGenerated" => m.cert \in Certificate
           /\ m.type \in {"NodeIngested", "NodeDeleted", "AuditGenerated"}
<1>1. CASE \E d \in Docs : m = Ingested(d)
  BY <1>1 DEF Ingested
<1>2. CASE \E e \in Entities : m = Deleted(e)
  BY <1>2 DEF Deleted
<1>3. CASE \E c \in Certificate : m = Audited(c)
  BY <1>3 DEF Audited
<1>4. QED  BY <1>1, <1>2, <1>3 DEF Event

\* A new first certificate leaves a list of certificates.
LEMMA ListGrows ==
    ASSUME NEW l \in Seq(Certificate), NEW c \in Certificate
    PROVE  <<c>> \o l \in Seq(Certificate)
OBVIOUS

\* The type of the page's state is kept by all of its updates.
LEMMA PageTypeStep ==
    ASSUME PageTypeOK, PageStep
    PROVE  PageTypeOK'
<1>1. CASE UNCHANGED pageVars
  BY <1>1 DEF PageTypeOK, pageVars
<1>2. ASSUME NEW m \in Event, ShowEvent(m)
      PROVE  PageTypeOK'
  <2>1. CASE m.type = "NodeIngested"
    BY <1>2, <2>1, EventKinds DEF ShowEvent, AddNodes, LinkOnce, PageTypeOK
  <2>2. CASE m.type = "NodeDeleted"
    BY <1>2, <2>2 DEF ShowEvent, MarkPurged, PageTypeOK
  <2>3. CASE m.type = "AuditGenerated"
    <3>1. m.cert \in Certificate
      BY <2>3, EventKinds
    <3>2. <<m.cert>> \o ledger \in Seq(Certificate)
      BY <3>1, ListGrows DEF PageTypeOK
    <3>3. QED  BY <1>2, <2>3, <3>2 DEF ShowEvent, PageTypeOK
  <2>4. QED  BY <2>1, <2>2, <2>3, EventKinds
<1>3. ASSUME NEW ds \in SUBSET Docs, handleIngestSuccess(ds)
      PROVE  PageTypeOK'
  BY <1>3 DEF handleIngestSuccess, AddNodes, PageTypeOK
<1>4. ASSUME NEW c \in Certificate, handleUnlearnSuccess(c.entity, c)
      PROVE  PageTypeOK'
  BY <1>4, ListGrows DEF handleUnlearnSuccess, MarkPurged, PageTypeOK
<1>5. QED  BY <1>1, <1>2, <1>3, <1>4 DEF PageStep

\* A node that the page has is never taken away again.
LEMMA NodesStay ==
    ASSUME PageTypeOK, PageStep, NEW d \in Docs, nodes[d] # "absent"
    PROVE  nodes'[d] # "absent"
<1>1. CASE UNCHANGED pageVars
  BY <1>1 DEF pageVars
<1>2. ASSUME NEW m \in Event, ShowEvent(m)
      PROVE  nodes'[d] # "absent"
  BY <1>2, EventKinds DEF ShowEvent, AddNodes, MarkPurged
<1>3. ASSUME NEW ds \in SUBSET Docs, handleIngestSuccess(ds)
      PROVE  nodes'[d] # "absent"
  BY <1>3 DEF handleIngestSuccess, AddNodes
<1>4. ASSUME NEW c \in Certificate, handleUnlearnSuccess(c.entity, c)
      PROVE  nodes'[d] # "absent"
  BY <1>4 DEF handleUnlearnSuccess, MarkPurged
<1>5. QED  BY <1>1, <1>2, <1>3, <1>4 DEF PageStep

\* A node that is purged is not shown as active again.
LEMMA PurgedStay ==
    ASSUME PageTypeOK, PageStep, NEW d \in Docs, nodes[d] = "purged"
    PROVE  nodes'[d] = "purged"
<1>1. CASE UNCHANGED pageVars
  BY <1>1 DEF pageVars
<1>2. ASSUME NEW m \in Event, ShowEvent(m)
      PROVE  nodes'[d] = "purged"
  BY <1>2, EventKinds DEF ShowEvent, AddNodes, MarkPurged
<1>3. ASSUME NEW ds \in SUBSET Docs, handleIngestSuccess(ds)
      PROVE  nodes'[d] = "purged"
  BY <1>3 DEF handleIngestSuccess, AddNodes
<1>4. ASSUME NEW c \in Certificate, handleUnlearnSuccess(c.entity, c)
      PROVE  nodes'[d] = "purged"
  BY <1>4 DEF handleUnlearnSuccess, MarkPurged
<1>5. QED  BY <1>1, <1>2, <1>3, <1>4 DEF PageStep

\* Whichever handler adds a node adds its link.
LEMMA LinksJoinStep ==
    ASSUME PageTypeOK, LinksJoin, PageStep
    PROVE  LinksJoin'
<1>1. CASE UNCHANGED pageVars
  BY <1>1 DEF pageVars, LinksJoin
<1>2. ASSUME NEW m \in Event, ShowEvent(m)
      PROVE  LinksJoin'
  <2>1. CASE m.type = "NodeIngested"
    BY <1>2, <2>1, EventKinds DEF ShowEvent, AddNodes, LinkOnce, PageTypeOK, LinksJoin
  <2>2. CASE m.type = "NodeDeleted"
    BY <1>2, <2>2 DEF ShowEvent, MarkPurged, PageTypeOK, LinksJoin
  <2>3. CASE m.type = "AuditGenerated"
    BY <1>2, <2>3 DEF ShowEvent, LinksJoin
  <2>4. QED  BY <2>1, <2>2, <2>3, EventKinds
<1>3. ASSUME NEW ds \in SUBSET Docs, handleIngestSuccess(ds)
      PROVE  LinksJoin'
  BY <1>3 DEF handleIngestSuccess, AddNodes, PageTypeOK, LinksJoin
<1>4. ASSUME NEW c \in Certificate, handleUnlearnSuccess(c.entity, c)
      PROVE  LinksJoin'
  BY <1>4 DEF handleUnlearnSuccess, MarkPurged, PageTypeOK, LinksJoin
<1>5. QED  BY <1>1, <1>2, <1>3, <1>4 DEF PageStep
=============================================================================
