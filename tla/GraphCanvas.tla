---------------------------- MODULE GraphCanvas ----------------------------
(***************************************************************************)
(* The graph of the dashboard (frontend/src/components/GraphCanvas.tsx):   *)
(* the copy of the page's nodes that its animation draws, the particles of *)
(* purged nodes, and the pointer.                                          *)
(*                                                                         *)
(*  - An effect copies the page's nodes when React has rendered a new      *)
(*    array; the pointer reads the copy, and may do so before.             *)
(*  - Positions, forces, zoom and colours are left out: the pointer may be *)
(*    over any node that is drawn.  A shard's hub has no entity, so that   *)
(*    the pointer over a hub is the pointer over nothing.                  *)
(***************************************************************************)
EXTENDS PageState

CONSTANT NoDoc  \* no node of a document

ASSUME NoDocAssumption == NoDoc \notin Docs

VARIABLES
    sim,        \* nodesRef.current: the status of each node that it has
    stale,      \* the page has a new array that the effect has not seen
    exploding,  \* the nodes whose particles are on the canvas
    hoveredNode,
    isDragging

pointerVars == <<hoveredNode, isDragging>>
canvasVars == <<sim, stale, exploding, pointerVars>>

CanvasInit ==
    /\ sim = [d \in Docs |-> "absent"]
    /\ stale = FALSE
    /\ exploding = {}
    /\ hoveredNode = NoDoc
    /\ isDragging = FALSE

\* What the animation draws and the pointer can hit.
Drawn == {d \in Docs : sim[d] = "active"}

\* Mutant: only a change of status counts, and the copy is replaced before the look.
PurgedSinceCopy == {d \in Docs : sim'[d] # "purged" /\ nodes[d] = "purged"}

\* The nodes that the effect finds purged, those it found purged before included.
Purged == {d \in Docs : sim[d] # "absent" /\ nodes[d] = "purged"}

CopyNodes == sim' = [d \in Docs |-> nodes[d]]

spawnExplosions(ds) == exploding' = exploding \cup ds

\* The effect on nodes.
Sync ==
    /\ stale
    /\ stale' = FALSE
    /\ CopyNodes
    /\ spawnExplosions(Purged)
    /\ UNCHANGED <<pointerVars, pageVars>>

\* The particles of a node have faded (the animation takes 40 frames).
Fade(d) ==
    /\ d \in exploding
    /\ exploding' = exploding \ {d}
    /\ UNCHANGED <<sim, stale, pointerVars, pageVars>>

\* The page updates its nodes: an addition leaves the array alone if it adds nothing,
\* a purge maps it to a new one (mapped) even if it marks nothing.
Rerender(mapped) == stale' = (stale \/ mapped \/ nodes' # nodes)

handlePointerDown ==
    /\ ~isDragging
    /\ isDragging' = TRUE
    /\ UNCHANGED <<sim, stale, exploding, hoveredNode, pageVars>>

\* The pointer moves over d, or over no node; a drag leaves hoveredNode alone.
handlePointerMove(d) ==
    /\ ~isDragging
    /\ d \in Drawn \cup {NoDoc}
    /\ hoveredNode' = d
    /\ UNCHANGED <<sim, stale, exploding, isDragging, pageVars>>

\* The pointer is released on the canvas.
ReleasePointer ==
    /\ isDragging' = FALSE
    /\ UNCHANGED <<sim, stale, exploding, hoveredNode, pageVars>>

---------------------------------------------------------------------------
(* Correctness.                                                            *)

\* The type of the canvas's state.
CanvasTypeOK ==
    /\ sim \in [Docs -> {"absent", "active", "purged"}]
    /\ stale \in BOOLEAN /\ isDragging \in BOOLEAN
    /\ exploding \subseteq Docs
    /\ hoveredNode \in Docs \cup {NoDoc}

\* A node that the animation draws does not just vanish: when its entity is purged
\* it goes up in particles, however many updates are rendered together.
PurgeExplodes ==
    [][Drawn \ Drawn' \subseteq exploding']_canvasVars
=============================================================================
