----------------------------- MODULE MCConsole -----------------------------
(* Console on small instances: two documents, of two entities; all tabs of   *)
(* the form together, and the panels two by two.                             *)
EXTENDS Console

CONSTANTS d1, d2, e1, e2

MCOwner == [d \in Docs |-> IF d = d1 THEN e1 ELSE e2]
MCPanels == {Tabs, {"ingest", "graph"}, {"unlearn", "graph"}, {"unlearn", "ledger"},
             {"graph", "ledger"}}
=============================================================================
