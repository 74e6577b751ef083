---------------------------- MODULE UnlearnForm ----------------------------
(***************************************************************************)
(* The forms of the dashboard (frontend/src/components/UnlearnForm.tsx):   *)
(* three tabs, the dialog that asks before an unlearning, and the requests *)
(* that are on their way (src/lib/api.ts).                                 *)
(*                                                                         *)
(*  - Texts are reduced to what a handler tells apart: the fields of the   *)
(*    ingest tab hold a document or are not all filled in; the batch text  *)
(*    is blank, not a JSON array, or an array of documents.                *)
(*  - AnimatePresence keeps a dialog on the page while it fades out, as it *)
(*    was last rendered: its buttons work and run the handlers of that     *)
(*    render, with the entity it shows.                                    *)
(*  - The gateway answers a request in any order relative to the others,   *)
(*    with success or with an error.                                       *)
(***************************************************************************)
EXTENDS PageState

CONSTANTS
    NoEntity,     \* an empty entity field
    Partial,      \* the fields of the ingest tab, not all filled in
    NoText,       \* a blank batch text
    Malformed,    \* a batch text that is no JSON array
    Typed,        \* bound: what the user types as the entity to unlearn
    MaxRequests   \* bound: requests that the forms ever send

ASSUME NoEntityAssumption == NoEntity \notin Entities
ASSUME PartialAssumption == Partial \notin Docs
ASSUME TypedAssumption == Typed \subseteq Entities \cup {NoEntity}
ASSUME MaxRequestsAssumption == MaxRequests \in Nat

Tabs == {"ingest", "unlearn", "batch"}
Ingest(d) == [form |-> "ingest", docs |-> {d}]
Batch(ds) == [form |-> "batch", docs |-> ds]
Unlearn(e) == [form |-> "unlearn", entity |-> e]
Request == {Ingest(d) : d \in Docs} \cup {Batch(ds) : ds \in SUBSET Docs}
               \cup {Unlearn(e) : e \in Entities}

VARIABLES
    activeTab,
    draft,            \* ingestId, ingestEntityId and ingestText
    batchJson,
    unlearnEntityId,
    busy,             \* the forms whose flag (isIngesting, ...) is set
    modal,            \* the dialog: "closed", "open" or "leaving"
    asked,            \* the entity that a leaving dialog shows and its handler has
    selectedEntityId, \* of the page: the node that was clicked last
    calls,            \* how many requests of each kind await their answer
    sent              \* history: how many requests were ever sent

fieldVars == <<draft, batchJson, unlearnEntityId>>
modalVars == <<modal, asked>>
callVars == <<busy, calls, sent>>
formVars == <<activeTab, fieldVars, modalVars, selectedEntityId, callVars>>

FormInit ==
    /\ activeTab = "ingest"
    /\ draft = Partial
    /\ batchJson = NoText
    /\ unlearnEntityId = NoEntity
    /\ busy = {}
    /\ modal = "closed"
    /\ asked = NoEntity
    /\ selectedEntityId = NoEntity
    /\ calls = [r \in Request |-> 0]
    /\ sent = 0

---------------------------------------------------------------------------
(* Controls.  The dialog covers the page until it is gone.                 *)

Uncovered == modal = "closed"

SwitchTab(t) ==
    /\ Uncovered
    /\ activeTab # t
    /\ activeTab' = t
    /\ UNCHANGED <<fieldVars, modalVars, selectedEntityId, callVars, pageVars>>

\* The ingest tab: the user types, or takes sample data, which also fills in the
\* entity of the unlearn tab.
EditDraft(x) ==
    /\ Uncovered /\ activeTab = "ingest"
    /\ draft' = x
    /\ UNCHANGED <<activeTab, batchJson, unlearnEntityId, modalVars, selectedEntityId,
                   callVars, pageVars>>

fillSampleData(d) ==
    /\ Uncovered /\ activeTab = "ingest"
    /\ draft' = d
    /\ unlearnEntityId' = Owner[d]
    /\ UNCHANGED <<activeTab, batchJson, modalVars, selectedEntityId, callVars, pageVars>>

\* The batch tab: the user types, or takes the sample batch.
EditBatch(x) ==
    /\ Uncovered /\ activeTab = "batch"
    /\ batchJson' = x
    /\ UNCHANGED <<activeTab, draft, unlearnEntityId, modalVars, selectedEntityId,
                   callVars, pageVars>>

\* The unlearn tab: the user types, or picks an entity from the list of active ones.
EditTarget(e) ==
    /\ Uncovered /\ activeTab = "unlearn"
    /\ e \in Typed \cup activeEntityIds
    /\ unlearnEntityId' = e
    /\ UNCHANGED <<activeTab, draft, batchJson, modalVars, selectedEntityId, callVars, pageVars>>

\* The graph reports a click on a node of e: the effect runs if selectedEntityId changes.
SelectEntity(e) ==
    /\ selectedEntityId' = e
    /\ IF e = selectedEntityId
         THEN UNCHANGED <<activeTab, unlearnEntityId>>
         ELSE activeTab' = "unlearn" /\ unlearnEntityId' = e
    /\ UNCHANGED <<draft, batchJson, modalVars, callVars>>

---------------------------------------------------------------------------
(* Requests.                                                               *)

Call(r) ==
    /\ sent < MaxRequests
    /\ calls' = [calls EXCEPT ![r] = @ + 1]
    /\ busy' = busy \cup {r.form}
    /\ sent' = sent + 1

\* A submission that is not valid leaves a notice and nothing else.
handleIngestSubmit ==
    /\ Uncovered /\ activeTab = "ingest" /\ "ingest" \notin busy
    /\ draft # Partial
    /\ Call(Ingest(draft))
    /\ UNCHANGED <<activeTab, fieldVars, modalVars, selectedEntityId, pageVars>>

handleBatchSubmit ==
    /\ Uncovered /\ activeTab = "batch" /\ "batch" \notin busy
    /\ batchJson \notin {NoText, Malformed}
    /\ Call(Batch(batchJson))
    /\ UNCHANGED <<activeTab, fieldVars, modalVars, selectedEntityId, pageVars>>

\* "Execute Machine Unlearn" opens the dialog.
Execute ==
    /\ Uncovered /\ activeTab = "unlearn" /\ "unlearn" \notin busy
    /\ unlearnEntityId # NoEntity
    /\ modal' = "open"
    /\ UNCHANGED <<activeTab, fieldVars, asked, selectedEntityId, callVars, pageVars>>

\* What the dialog asks about, and its handlers were rendered with.
Shown == IF modal = "leaving" THEN asked ELSE unlearnEntityId

HideModal ==
    /\ modal # "closed"
    /\ modal' = "leaving"
    /\ asked' = Shown

Cancel ==
    /\ HideModal
    /\ UNCHANGED <<activeTab, fieldVars, selectedEntityId, callVars, pageVars>>

ModalGone ==
    /\ modal = "leaving"
    /\ modal' = "closed"
    /\ asked' = NoEntity
    /\ UNCHANGED <<activeTab, fieldVars, selectedEntityId, callVars, pageVars>>

\* Mutant: the flag is set before the field is looked at.
BusyThenCheck ==
    /\ HideModal
    /\ IF Shown = NoEntity
         THEN busy' = busy \cup {"unlearn"} /\ UNCHANGED <<calls, sent>>
         ELSE Call(Unlearn(Shown))
    /\ UNCHANGED <<activeTab, fieldVars, selectedEntityId, pageVars>>

\* "Confirm & Purge".
confirmAndExecuteUnlearn ==
    /\ HideModal
    /\ IF Shown = NoEntity THEN UNCHANGED callVars ELSE Call(Unlearn(Shown))
    /\ UNCHANGED <<activeTab, fieldVars, selectedEntityId, pageVars>>

---------------------------------------------------------------------------
(* Answers.                                                                *)

Settle(r) ==
    /\ calls[r] > 0
    /\ calls' = [calls EXCEPT ![r] = @ - 1]
    /\ busy' = busy \ {r.form}
    /\ UNCHANGED <<activeTab, modalVars, selectedEntityId, sent>>

\* The fields are emptied, whatever they hold by now.
IngestAnswered(d) ==
    /\ Settle(Ingest(d))
    /\ handleIngestSuccess({d})
    /\ draft' = Partial
    /\ UNCHANGED <<batchJson, unlearnEntityId>>

\* Documents that failed are missing from the answer.
BatchAnswered(ds) ==
    /\ Settle(Batch(ds))
    /\ \E rs \in SUBSET ds : handleIngestSuccess(rs)
    /\ batchJson' = NoText
    /\ UNCHANGED <<draft, unlearnEntityId>>

UnlearnAnswered(c) ==
    /\ Settle(Unlearn(c.entity))
    /\ handleUnlearnSuccess(c.entity, c)
    /\ unlearnEntityId' = NoEntity
    /\ UNCHANGED <<draft, batchJson>>

CallFails(r) ==
    /\ Settle(r)
    /\ UNCHANGED <<fieldVars, pageVars>>

IngestTab ==
    \/ \E x \in Docs \cup {Partial} : EditDraft(x)
    \/ \E d \in Docs : fillSampleData(d)
    \/ handleIngestSubmit

BatchTab ==
    \/ \E x \in {NoText, Malformed} \cup SUBSET Docs : EditBatch(x)
    \/ handleBatchSubmit

UnlearnTab ==
    \/ \E e \in Entities \cup {NoEntity} : EditTarget(e)
    \/ Execute \/ Cancel \/ ModalGone \/ confirmAndExecuteUnlearn

---------------------------------------------------------------------------
(* Correctness.                                                            *)

\* The type of the form's state.
FormTypeOK ==
    /\ activeTab \in Tabs
    /\ draft \in Docs \cup {Partial}
    /\ batchJson \in {NoText, Malformed} \cup SUBSET Docs
    /\ {unlearnEntityId, asked, selectedEntityId} \subseteq Entities \cup {NoEntity}
    /\ busy \subseteq Tabs
    /\ modal \in {"closed", "open", "leaving"}
    /\ calls \in [Request -> Nat]
    /\ sent \in 0 .. MaxRequests

\* A button that is disabled because its form is busy has a request that will
\* enable it again.  The dialog can be open over a field that a late answer has
\* emptied, after a second confirmation, so the handler's own check is not idle.
NoStuckButton ==
    \A f \in busy : \E r \in Request : r.form = f /\ calls[r] > 0
=============================================================================
