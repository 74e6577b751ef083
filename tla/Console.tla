------------------------------ MODULE Console ------------------------------
(***************************************************************************)
(* One user at the dashboard: the page, its forms, its graph and its       *)
(* ledger, while events of other clients arrive.  Dashboard follows the    *)
(* events from the gateway through the socket; here any event may arrive   *)
(* at any time, and what the panels make of the page's state is followed.  *)
(***************************************************************************)
EXTENDS UnlearnForm, GraphCanvas, AuditLogs

CONSTANT Panels  \* bound: sets of panels; a behaviour follows those of one set

ASSUME PanelsAssumption == Panels \subseteq SUBSET (Tabs \cup {"graph", "ledger"})

VARIABLE followed

vars == <<followed, pageVars, formVars, canvasVars, auditVars>>

Init ==
    /\ followed \in Panels
    /\ PageInit
    /\ FormInit
    /\ CanvasInit
    /\ AuditInit

\* The dialog of the form and the drawer of the ledger cover the page.
Reachable == Uncovered /\ ~DrawerOpen

\* The page's effect processes an event that another client caused.
EventShown(m) ==
    /\ ShowEvent(m)
    /\ Rerender(m.type = "NodeDeleted")
    /\ UNCHANGED <<followed, formVars, sim, exploding, pointerVars, auditVars>>

UseForm ==
    /\ ~DrawerOpen
    /\ \/ \E t \in Tabs \cap followed : SwitchTab(t)
       \/ "ingest" \in followed /\ IngestTab
       \/ "batch" \in followed /\ BatchTab
       \/ "unlearn" \in followed /\ UnlearnTab
    /\ UNCHANGED <<followed, canvasVars, auditVars>>

FormAnswer ==
    /\ \/ \E d \in Docs : IngestAnswered(d) /\ Rerender(FALSE)
       \/ \E ds \in SUBSET Docs : BatchAnswered(ds) /\ Rerender(FALSE)
       \/ \E c \in Certificate : UnlearnAnswered(c) /\ Rerender(TRUE)
       \/ \E r \in Request : CallFails(r) /\ UNCHANGED stale
    /\ UNCHANGED <<followed, sim, exploding, pointerVars, auditVars>>

Animate ==
    /\ "graph" \in followed
    /\ Sync \/ \E d \in Docs : Fade(d)
    /\ UNCHANGED <<followed, formVars, auditVars>>

MovePointer ==
    /\ "graph" \in followed /\ Reachable
    /\ handlePointerDown \/ \E d \in Docs \cup {NoDoc} : handlePointerMove(d)
    /\ UNCHANGED <<followed, formVars, auditVars>>

\* The node that was hovered last is selected, as hoveredNode remembers it.
handlePointerUp ==
    /\ "graph" \in followed /\ Reachable
    /\ ReleasePointer
    /\ IF hoveredNode = NoDoc THEN UNCHANGED formVars ELSE SelectEntity(Owner[hoveredNode])
    /\ UNCHANGED <<followed, auditVars>>

UseLedger ==
    /\ "ledger" \in followed
    /\ \/ \E c \in Certificate : Uncovered /\ handleVerifyClick(c)
       \/ CloseDrawer
       \/ \E c \in Certificate : SettleVerification(c)
    /\ UNCHANGED <<followed, formVars, canvasVars>>

Next ==
    \/ \E m \in Event : EventShown(m)
    \/ UseForm \/ FormAnswer
    \/ Animate \/ MovePointer \/ handlePointerUp
    \/ UseLedger

Spec == Init /\ [][Next]_vars

---------------------------------------------------------------------------
(* Correctness.                                                            *)

\* The type of every variable.
TypeOK ==
    /\ followed \in Panels
    /\ PageTypeOK /\ FormTypeOK /\ CanvasTypeOK /\ AuditTypeOK

\* What a click on the graph put into the form is an entity of which the page
\* has a node, whatever happened to the node between the pointer's move and click.
SelectedIsKnown ==
    selectedEntityId # NoEntity =>
        \E d \in Docs : Owner[d] = selectedEntityId /\ nodes[d] # "absent"
=============================================================================
