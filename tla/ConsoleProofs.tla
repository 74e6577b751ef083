--------------------------- MODULE ConsoleProofs ---------------------------
(***************************************************************************)
(* Proofs about Console for every set of documents and entities and every  *)
(* bound.                                                                  *)
(*                                                                         *)
(* The argument: the panels change the page's nodes and links only by the  *)
(* updates of PageState (NextPage), which never take a node away.  So a    *)
(* node that the canvas has copied (SimKnown), and one that the pointer    *)
(* remembers (HoverKnown), is one that the page still has: it can only     *)
(* have become purged, and a click on it names an entity of the page.      *)
(***************************************************************************)
EXTENDS Console, PageProofs

\* Every step updates the page's state in one of the ways of PageState.
LEMMA NextPage ==
    ASSUME Next
    PROVE  PageStep
<1>1. CASE \E m \in Event : EventShown(m)
  BY <1>1 DEF EventShown, PageStep
<1>2. CASE UseForm
  BY <1>2 DEF UseForm, IngestTab, BatchTab, UnlearnTab, SwitchTab, EditDraft, fillSampleData,
       handleIngestSubmit, EditBatch, handleBatchSubmit, EditTarget, Execute, Cancel,
       ModalGone, confirmAndExecuteUnlearn, PageStep
<1>3. CASE FormAnswer
  <2>1. ASSUME NEW d \in Docs, IngestAnswered(d)
        PROVE  PageStep
    BY <2>1 DEF IngestAnswered, PageStep
  <2>2. ASSUME NEW ds \in SUBSET Docs, BatchAnswered(ds)
        PROVE  PageStep
    BY <2>2 DEF BatchAnswered, PageStep
  <2>3. ASSUME NEW c \in Certificate, UnlearnAnswered(c)
        PROVE  PageStep
    BY <2>3 DEF UnlearnAnswered, PageStep
  <2>4. ASSUME NEW r \in Request, CallFails(r)
        PROVE  PageStep
    BY <2>4 DEF CallFails, PageStep
  <2>5. QED  BY <1>3, <2>1, <2>2, <2>3, <2>4 DEF FormAnswer
<1>4. CASE Animate
  BY <1>4 DEF Animate, Sync, Fade, PageStep
<1>5. CASE MovePointer
  BY <1>5 DEF MovePointer, handlePointerDown, handlePointerMove, PageStep
<1>6. CASE handlePointerUp
  BY <1>6 DEF handlePointerUp, ReleasePointer, PageStep
<1>7. CASE UseLedger
  BY <1>7 DEF UseLedger, handleVerifyClick, CloseDrawer, SettleVerification, PageStep
<1>8. QED  BY <1>1, <1>2, <1>3, <1>4, <1>5, <1>6, <1>7 DEF Next

---------------------------------------------------------------------------
(* Type correctness.                                                       *)

\* The forms that a request can come from, and what each request names.
LEMMA RequestKinds ==
    /\ \A r \in Request : r.form \in Tabs
    /\ \A d \in Docs : Ingest(d) \in Request
    /\ \A ds \in SUBSET Docs : Batch(ds) \in Request
    /\ \A e \in Entities : Unlearn(e) \in Request
<1>1. \A d \in Docs : Ingest(d).form \in Tabs
  BY DEF Ingest, Tabs
<1>2. \A ds \in SUBSET Docs : Batch(ds).form \in Tabs
  BY DEF Batch, Tabs
<1>3. \A e \in Entities : Unlearn(e).form \in Tabs
  BY DEF Unlearn, Tabs
<1>4. QED  BY <1>1, <1>2, <1>3 DEF Request

\* Sending a request keeps the types of what counts them.
LEMMA CallTypes ==
    ASSUME FormTypeOK, NEW r \in Request, Call(r)
    PROVE  /\ busy' \subseteq Tabs
           /\ calls' \in [Request -> Nat]
           /\ sent' \in 0 .. MaxRequests
BY RequestKinds, MaxRequestsAssumption DEF Call, FormTypeOK

\* So does its answer.
LEMMA SettleTypes ==
    ASSUME FormTypeOK, NEW r \in Request, Settle(r)
    PROVE  /\ busy' \subseteq Tabs
           /\ calls' \in [Request -> Nat]
           /\ UNCHANGED <<activeTab, modalVars, selectedEntityId, sent>>
BY DEF Settle, FormTypeOK

\* The user's steps on the forms keep their types.
LEMMA UseFormTypes ==
    ASSUME TypeOK, UseForm
    PROVE  FormTypeOK'
<1> USE DEF FormTypeOK, fieldVars, modalVars, callVars
<1>0. FormTypeOK
  BY DEF TypeOK
<1>1. ASSUME NEW t \in Tabs, SwitchTab(t)
      PROVE  FormTypeOK'
  BY <1>0, <1>1 DEF SwitchTab
<1>2. CASE IngestTab
  <2>1. ASSUME NEW x \in Docs \cup {Partial}, EditDraft(x)
        PROVE  FormTypeOK'
    BY <1>0, <2>1 DEF EditDraft
  <2>2. ASSUME NEW d \in Docs, fillSampleData(d)
        PROVE  FormTypeOK'
    BY <1>0, <2>2 DEF fillSampleData, Entities
  <2>3. ASSUME handleIngestSubmit
        PROVE  FormTypeOK'
    <3>1. Ingest(draft) \in Request /\ Call(Ingest(draft))
      BY <1>0, <2>3, RequestKinds DEF handleIngestSubmit
    <3>2. QED  BY <1>0, <2>3, <3>1, CallTypes DEF handleIngestSubmit
  <2>4. QED  BY <1>2, <2>1, <2>2, <2>3 DEF IngestTab
<1>3. CASE BatchTab
  <2>1. ASSUME NEW x \in {NoText, Malformed} \cup SUBSET Docs, EditBatch(x)
        PROVE  FormTypeOK'
    BY <1>0, <2>1 DEF EditBatch
  <2>2. ASSUME handleBatchSubmit
        PROVE  FormTypeOK'
    <3>1. Batch(batchJson) \in Request /\ Call(Batch(batchJson))
      BY <1>0, <2>2, RequestKinds DEF handleBatchSubmit
    <3>2. QED  BY <1>0, <2>2, <3>1, CallTypes DEF handleBatchSubmit
  <2>3. QED  BY <1>3, <2>1, <2>2 DEF BatchTab
<1>4. CASE UnlearnTab
  <2>1. ASSUME NEW e \in Entities \cup {NoEntity}, EditTarget(e)
        PROVE  FormTypeOK'
    BY <1>0, <2>1 DEF EditTarget
  <2>2. CASE Execute
    BY <1>0, <2>2 DEF Execute
  <2>3. CASE Cancel
    BY <1>0, <2>3 DEF Cancel, HideModal, Shown
  <2>4. CASE ModalGone
    BY <1>0, <2>4 DEF ModalGone
  <2>5. CASE confirmAndExecuteUnlearn
    <3>1. Shown \in Entities \cup {NoEntity}
      BY <1>0 DEF Shown
    <3>2. /\ busy' \subseteq Tabs
          /\ calls' \in [Request -> Nat]
          /\ sent' \in 0 .. MaxRequests
      <4>1. CASE Shown = NoEntity
        BY <1>0, <2>5, <4>1 DEF confirmAndExecuteUnlearn
      <4>2. CASE Shown # NoEntity
        BY <1>0, <2>5, <3>1, <4>2, RequestKinds, CallTypes DEF confirmAndExecuteUnlearn
      <4>3. QED  BY <4>1, <4>2
    <3>3. QED  BY <1>0, <2>5, <3>1, <3>2 DEF confirmAndExecuteUnlearn, HideModal
  <2>6. QED  BY <1>4, <2>1, <2>2, <2>3, <2>4, <2>5 DEF UnlearnTab
<1>5. QED  BY <1>1, <1>2, <1>3, <1>4 DEF UseForm

\* The answers keep the types of the forms.
LEMMA FormAnswerTypes ==
    ASSUME TypeOK, FormAnswer
    PROVE  FormTypeOK'
<1> USE DEF FormTypeOK, fieldVars, modalVars
<1>0. FormTypeOK
  BY DEF TypeOK
<1>1. ASSUME NEW d \in Docs, IngestAnswered(d)
      PROVE  FormTypeOK'
  BY <1>0, <1>1, RequestKinds, SettleTypes DEF IngestAnswered
<1>2. ASSUME NEW ds \in SUBSET Docs, BatchAnswered(ds)
      PROVE  FormTypeOK'
  BY <1>0, <1>2, RequestKinds, SettleTypes DEF BatchAnswered
<1>3. ASSUME NEW c \in Certificate, UnlearnAnswered(c)
      PROVE  FormTypeOK'
  <2>1. Unlearn(c.entity) \in Request
    BY RequestKinds DEF Certificate
  <2>2. QED  BY <1>0, <1>3, <2>1, SettleTypes DEF UnlearnAnswered
<1>4. ASSUME NEW r \in Request, CallFails(r)
      PROVE  FormTypeOK'
  BY <1>0, <1>4, SettleTypes DEF CallFails
<1>5. QED  BY <1>1, <1>2, <1>3, <1>4 DEF FormAnswer

\* Every step keeps the types of the forms.
LEMMA FormTypes ==
    ASSUME TypeOK, Next
    PROVE  FormTypeOK'
<1> USE DEF FormTypeOK, formVars, fieldVars, modalVars, callVars
<1>0. FormTypeOK
  BY DEF TypeOK
<1>1. CASE UNCHANGED formVars
  BY <1>0, <1>1
<1>2. CASE handlePointerUp /\ ~UNCHANGED formVars
  <2>1. hoveredNode \in Docs /\ SelectEntity(Owner[hoveredNode])
    BY <1>2 DEF handlePointerUp, TypeOK, CanvasTypeOK
  <2>2. Owner[hoveredNode] \in Entities
    BY <2>1 DEF Entities
  <2>3. QED  BY <1>0, <2>1, <2>2 DEF SelectEntity, Tabs
<1>3. QED
  BY <1>1, <1>2, UseFormTypes, FormAnswerTypes
  DEF Next, EventShown, Animate, MovePointer, UseLedger

\* Every step keeps the types of the canvas.
LEMMA CanvasTypes ==
    ASSUME TypeOK, Next
    PROVE  CanvasTypeOK'
<1> USE DEF CanvasTypeOK, canvasVars, pointerVars
<1>0. CanvasTypeOK /\ PageTypeOK
  BY DEF TypeOK
<1>1. ASSUME NEW b \in BOOLEAN, Rerender(b), UNCHANGED <<sim, exploding, pointerVars>>
      PROVE  CanvasTypeOK'
  BY <1>0, <1>1 DEF Rerender
<1>2. CASE \E m \in Event : EventShown(m)
  BY <1>1, <1>2 DEF EventShown
<1>3. CASE FormAnswer
  BY <1>0, <1>1, <1>3 DEF FormAnswer
<1>4. CASE Animate
  BY <1>0, <1>4 DEF Animate, Sync, Fade, CopyNodes, spawnExplosions, Purged, PageTypeOK
<1>5. CASE MovePointer \/ handlePointerUp
  BY <1>0, <1>5 DEF MovePointer, handlePointerDown, handlePointerMove, handlePointerUp,
       ReleasePointer
<1>6. CASE UseForm \/ UseLedger
  BY <1>0, <1>6 DEF UseForm, UseLedger
<1>7. QED  BY <1>2, <1>3, <1>4, <1>5, <1>6 DEF Next

\* Every step keeps the types of the ledger's drawer.
LEMMA AuditTypes ==
    ASSUME TypeOK, Next
    PROVE  AuditTypeOK'
<1> USE DEF AuditTypeOK, auditVars, drawerVars
<1>0. AuditTypeOK
  BY DEF TypeOK
<1>1. CASE UNCHANGED auditVars
  BY <1>0, <1>1
<1>2. CASE UseLedger
  <2>1. ASSUME NEW c \in Certificate, handleVerifyClick(c)
        PROVE  AuditTypeOK'
    <3>1. [verifications EXCEPT ![c] = @ + 1] \in [Certificate -> Nat]
      BY <1>0
    <3>2. QED  BY <1>0, <2>1, <3>1 DEF handleVerifyClick
  <2>2. CASE CloseDrawer
    BY <1>0, <2>2 DEF CloseDrawer
  <2>3. ASSUME NEW c \in Certificate, SettleVerification(c)
        PROVE  AuditTypeOK'
    <3>1. [verifications EXCEPT ![c] = @ - 1] \in [Certificate -> Nat]
      BY <1>0, <2>3 DEF SettleVerification
    <3>2. QED  BY <1>0, <2>3, <3>1 DEF SettleVerification
  <2>4. QED  BY <1>2, <2>1, <2>2, <2>3 DEF UseLedger
<1>3. QED
  BY <1>1, <1>2 DEF Next, EventShown, UseForm, FormAnswer, Animate, MovePointer, handlePointerUp

\* The type of every variable is kept.
LEMMA TypeStep ==
    ASSUME TypeOK, [Next]_vars
    PROVE  TypeOK'
<1>1. CASE UNCHANGED vars
  BY <1>1 DEF TypeOK, PageTypeOK, FormTypeOK, CanvasTypeOK, AuditTypeOK, vars, pageVars,
       formVars, fieldVars, modalVars, callVars, canvasVars, pointerVars, auditVars, drawerVars
<1>2. CASE Next
  <2>1. followed' \in Panels
    BY <1>2 DEF TypeOK, Next, EventShown, UseForm, FormAnswer, Animate, MovePointer,
         handlePointerUp, UseLedger
  <2>2. PageTypeOK'
    BY <1>2, NextPage, PageTypeStep DEF TypeOK
  <2>3. QED
    BY <1>2, <2>1, <2>2, FormTypes, CanvasTypes, AuditTypes DEF TypeOK
<1>3. QED  BY <1>1, <1>2

\* The initial state has the types.
LEMMA TypeInit ==
    ASSUME Init
    PROVE  TypeOK
<1>1. PageTypeOK
  BY DEF Init, PageInit, PageTypeOK
<1>2. FormTypeOK
  BY MaxRequestsAssumption DEF Init, FormInit, FormTypeOK, Tabs
<1>3. CanvasTypeOK /\ AuditTypeOK
  BY DEF Init, CanvasInit, CanvasTypeOK, AuditInit, AuditTypeOK
<1>4. QED  BY <1>1, <1>2, <1>3 DEF Init, TypeOK

\* Every variable of the page and its panels has its type throughout: requests that
\* are answered were sent, whichever handler sent them.
THEOREM TypeCorrect == Spec => []TypeOK
BY TypeInit, TypeStep, PTL DEF Spec

---------------------------------------------------------------------------
(* The forms.                                                              *)

\* A request that is sent is one that its busy form waits for.
LEMMA CallBusies ==
    ASSUME FormTypeOK, NoStuckButton, NEW r \in Request, Call(r)
    PROVE  NoStuckButton'
<1> SUFFICES ASSUME NEW f \in busy'
             PROVE  \E q \in Request : q.form = f /\ calls'[q] > 0
  BY DEF NoStuckButton
<1>1. CASE f = r.form
  BY <1>1 DEF Call, FormTypeOK
<1>2. CASE f # r.form
  <2>1. PICK q \in Request : q.form = f /\ calls[q] > 0
    BY <1>2 DEF NoStuckButton, Call
  <2>2. calls'[q] > 0
    BY <2>1 DEF Call, FormTypeOK
  <2>3. QED  BY <2>1, <2>2
<1>3. QED  BY <1>1, <1>2

\* An answer enables its form, and leaves the requests of the others.
LEMMA SettleEnables ==
    ASSUME FormTypeOK, NoStuckButton, NEW r \in Request, Settle(r)
    PROVE  NoStuckButton'
<1> SUFFICES ASSUME NEW f \in busy'
             PROVE  \E q \in Request : q.form = f /\ calls'[q] > 0
  BY DEF NoStuckButton
<1>1. f \in busy /\ f # r.form
  BY DEF Settle
<1>2. PICK q \in Request : q.form = f /\ calls[q] > 0
  BY <1>1 DEF NoStuckButton
<1>3. calls'[q] = calls[q]
  BY <1>1, <1>2 DEF Settle, FormTypeOK
<1>4. QED  BY <1>2, <1>3

\* The user's steps on the forms set no flag without a request.
LEMMA UseFormBusies ==
    ASSUME TypeOK, NoStuckButton, UseForm
    PROVE  NoStuckButton'
<1>0. FormTypeOK
  BY DEF TypeOK
<1>1. CASE UNCHANGED callVars
  BY <1>1 DEF callVars, NoStuckButton
<1>2. CASE handleIngestSubmit
  <2>1. draft \in Docs /\ Call(Ingest(draft))
    BY <1>0, <1>2 DEF handleIngestSubmit, FormTypeOK
  <2>2. QED  BY <1>0, <2>1, CallBusies, RequestKinds
<1>3. CASE handleBatchSubmit
  <2>1. batchJson \in SUBSET Docs /\ Call(Batch(batchJson))
    BY <1>0, <1>3 DEF handleBatchSubmit, FormTypeOK
  <2>2. QED  BY <1>0, <2>1, CallBusies, RequestKinds
<1>4. CASE confirmAndExecuteUnlearn /\ ~UNCHANGED callVars
  <2>1. Shown \in Entities /\ Call(Unlearn(Shown))
    BY <1>0, <1>4 DEF confirmAndExecuteUnlearn, Shown, FormTypeOK
  <2>2. QED  BY <1>0, <2>1, CallBusies, RequestKinds
<1>5. QED
  BY <1>1, <1>2, <1>3, <1>4 DEF UseForm, IngestTab, BatchTab, UnlearnTab, SwitchTab,
     EditDraft, fillSampleData, EditBatch, EditTarget, Execute, Cancel, ModalGone

\* A form whose button is disabled waits for an answer that will enable it: no order
\* of clicks on a leaving dialog, answers and errors leaves a button disabled for good.
THEOREM ButtonsComeBack == Spec => []NoStuckButton
<1>1. Init => NoStuckButton
  BY DEF Init, FormInit, NoStuckButton
<1>2. TypeOK /\ NoStuckButton /\ [Next]_vars => NoStuckButton'
  <2> SUFFICES ASSUME TypeOK, NoStuckButton, [Next]_vars
               PROVE  NoStuckButton'
    OBVIOUS
  <2>1. CASE UNCHANGED callVars
    BY <2>1 DEF callVars, NoStuckButton
  <2>2. CASE FormAnswer
    <3>1. PICK r \in Request : Settle(r)
      <4>1. ASSUME NEW c \in Certificate, UnlearnAnswered(c)
            PROVE  \E r \in Request : Settle(r)
        BY <4>1, RequestKinds DEF UnlearnAnswered, Certificate
      <4>2. ASSUME NEW d \in Docs, IngestAnswered(d)
            PROVE  \E r \in Request : Settle(r)
        BY <4>2, RequestKinds DEF IngestAnswered
      <4>3. ASSUME NEW ds \in SUBSET Docs, BatchAnswered(ds)
            PROVE  \E r \in Request : Settle(r)
        BY <4>3, RequestKinds DEF BatchAnswered
      <4>4. QED  BY <2>2, <4>1, <4>2, <4>3 DEF FormAnswer, CallFails
    <3>2. QED  BY <3>1, SettleEnables DEF TypeOK
  <2>3. CASE UseForm
    BY <2>3, UseFormBusies
  <2>4. CASE handlePointerUp
    BY <2>1, <2>4 DEF handlePointerUp, SelectEntity, formVars
  <2>5. QED
    BY <2>1, <2>2, <2>3, <2>4 DEF vars, Next, EventShown, Animate, MovePointer, UseLedger, formVars
<1>3. QED  BY <1>1, <1>2, TypeCorrect, PTL DEF Spec

---------------------------------------------------------------------------
(* The canvas.                                                             *)

\* The page has every node that the canvas has copied, and the one that the pointer
\* was over last.
SimKnown == \A d \in Docs : sim[d] # "absent" => nodes[d] # "absent"
HoverKnown == hoveredNode # NoDoc => nodes[hoveredNode] # "absent"

CanvasInv == SimKnown /\ HoverKnown /\ SelectedIsKnown

LEMMA CanvasInvInit ==
    ASSUME Init
    PROVE  CanvasInv
BY DEF Init, PageInit, FormInit, CanvasInit, CanvasInv, SimKnown, HoverKnown,
   SelectedIsKnown

\* The pointer is only over what is drawn, the copy is of the page's nodes, and
\* these stay.
LEMMA KnownStep ==
    ASSUME TypeOK, SimKnown, HoverKnown, Next
    PROVE  SimKnown' /\ HoverKnown'
<1>0. PageTypeOK /\ CanvasTypeOK /\ PageStep
  BY NextPage DEF TypeOK
<1>1. \A d \in Docs : nodes[d] # "absent" => nodes'[d] # "absent"
  BY <1>0, NodesStay
<1>2. CASE UNCHANGED <<sim, hoveredNode>>
  BY <1>0, <1>1, <1>2 DEF SimKnown, HoverKnown, CanvasTypeOK
<1>3. CASE Sync
  BY <1>0, <1>1, <1>3 DEF Sync, CopyNodes, pageVars, pointerVars, SimKnown, HoverKnown,
     CanvasTypeOK
<1>4. ASSUME NEW d \in Docs \cup {NoDoc}, handlePointerMove(d)
      PROVE  SimKnown' /\ HoverKnown'
  BY <1>0, <1>4 DEF handlePointerMove, Drawn, pageVars, SimKnown, HoverKnown
<1>5. QED
  BY <1>2, <1>3, <1>4 DEF Next, EventShown, UseForm, FormAnswer, Animate, Fade, MovePointer,
     handlePointerDown, handlePointerUp, ReleasePointer, UseLedger, canvasVars, pointerVars

\* What a click selects is the entity of a node of the page.
LEMMA SelectedStep ==
    ASSUME TypeOK, HoverKnown, SelectedIsKnown, Next
    PROVE  SelectedIsKnown'
<1>0. PageTypeOK /\ CanvasTypeOK /\ PageStep
  BY NextPage DEF TypeOK
<1>1. \A d \in Docs : nodes[d] # "absent" => nodes'[d] # "absent"
  BY <1>0, NodesStay
<1>2. CASE UNCHANGED selectedEntityId
  BY <1>1, <1>2 DEF SelectedIsKnown
<1>3. CASE handlePointerUp /\ ~UNCHANGED selectedEntityId
  <2>1. hoveredNode \in Docs /\ selectedEntityId' = Owner[hoveredNode]
    BY <1>0, <1>3 DEF handlePointerUp, SelectEntity, formVars, CanvasTypeOK
  <2>2. nodes'[hoveredNode] # "absent"
    BY <1>1, <2>1, NoDocAssumption DEF HoverKnown
  <2>3. QED  BY <2>1, <2>2 DEF SelectedIsKnown
<1>4. CASE UseForm
  BY <1>2, <1>4 DEF UseForm, IngestTab, BatchTab, UnlearnTab, SwitchTab, EditDraft,
     fillSampleData, handleIngestSubmit, EditBatch, handleBatchSubmit, EditTarget, Execute,
     Cancel, ModalGone, confirmAndExecuteUnlearn
<1>5. CASE FormAnswer
  BY <1>2, <1>5 DEF FormAnswer, IngestAnswered, BatchAnswered, UnlearnAnswered, CallFails, Settle
<1>6. QED
  BY <1>2, <1>3, <1>4, <1>5 DEF Next, EventShown, Animate, MovePointer, UseLedger, formVars

LEMMA CanvasInvStep ==
    ASSUME TypeOK, CanvasInv, [Next]_vars
    PROVE  CanvasInv'
<1>1. CASE Next
  BY <1>1, KnownStep, SelectedStep DEF CanvasInv
<1>2. CASE UNCHANGED vars
  BY <1>2 DEF vars, pageVars, formVars, canvasVars, pointerVars, CanvasInv,
     SimKnown, HoverKnown, SelectedIsKnown
<1>3. QED  BY <1>1, <1>2

LEMMA CanvasInvariant == Spec => []CanvasInv
BY CanvasInvInit, CanvasInvStep, TypeCorrect, PTL DEF Spec

\* A click, even one that comes after its node was purged, selects an entity of which
\* the page has a node.
THEOREM SelectedIsAlwaysKnown == Spec => []SelectedIsKnown
<1>1. CanvasInv => SelectedIsKnown
  BY DEF CanvasInv
<1>2. QED  BY <1>1, CanvasInvariant, PTL

\* Of what the animation draws only purged nodes go, and they go up in particles.
THEOREM PurgesExplode == Spec => PurgeExplodes
<1>1. TypeOK /\ CanvasInv /\ [Next]_vars => [Drawn \ Drawn' \subseteq exploding']_canvasVars
  <2> SUFFICES ASSUME TypeOK, CanvasInv, [Next]_vars
               PROVE  Drawn \ Drawn' \subseteq exploding'
    OBVIOUS
  <2>1. CASE UNCHANGED sim
    BY <2>1 DEF Drawn
  <2>2. CASE Sync
    <3> SUFFICES ASSUME NEW d \in Drawn \ Drawn'
                 PROVE  d \in exploding'
      OBVIOUS
    <3>1. d \in Docs /\ sim[d] = "active" /\ nodes[d] # "active"
      BY <2>2 DEF Sync, CopyNodes, Drawn
    <3>2. nodes[d] = "purged"
      BY <3>1 DEF TypeOK, PageTypeOK, CanvasInv, SimKnown
    <3>3. QED  BY <2>2, <3>1, <3>2 DEF Sync, spawnExplosions, Purged
  <2>3. QED
    BY <2>1, <2>2 DEF vars, Next, EventShown, UseForm, FormAnswer, Animate, Fade, MovePointer,
       handlePointerDown, handlePointerMove, handlePointerUp, ReleasePointer, UseLedger,
       canvasVars
<1>2. QED  BY <1>1, TypeCorrect, CanvasInvariant, PTL DEF Spec, PurgeExplodes

---------------------------------------------------------------------------
(* The ledger's drawer.                                                    *)

\* The drawer is never blank and, while it turns, waits for a call: closing it and
\* opening it for another certificate does not change that.
THEOREM DrawerAlwaysSettles == Spec => []DrawerSettles
<1> USE DEF DrawerSettles, DrawerOpen, DrawerBody, UnderWay
<1>1. Init => DrawerSettles
  BY DEF Init, AuditInit
<1>2. TypeOK /\ DrawerSettles /\ [Next]_vars => DrawerSettles'
  <2> SUFFICES ASSUME TypeOK, DrawerSettles, [Next]_vars
               PROVE  DrawerSettles'
    OBVIOUS
  <2>1. CASE UNCHANGED auditVars
    BY <2>1 DEF auditVars, drawerVars
  <2>2. ASSUME NEW c \in Certificate, handleVerifyClick(c)
        PROVE  DrawerSettles'
    <3>1. verifications'[c] > 0
      BY <2>2 DEF handleVerifyClick, TypeOK, AuditTypeOK
    <3>2. QED  BY <2>2, <3>1 DEF handleVerifyClick
  <2>3. CASE CloseDrawer
    BY <2>3 DEF CloseDrawer
  <2>4. ASSUME NEW c \in Certificate, SettleVerification(c)
        PROVE  DrawerSettles'
    BY <2>4, NoCertAssumption DEF SettleVerification
  <2>5. QED
    BY <2>1, <2>2, <2>3, <2>4 DEF vars, Next, EventShown, UseForm, FormAnswer, Animate,
       MovePointer, handlePointerUp, UseLedger
<1>3. QED  BY <1>1, <1>2, TypeCorrect, PTL DEF Spec
=============================================================================
