---------------------------- MODULE EntityStore ----------------------------
(***************************************************************************)
(* What the vector side of the gateway promises its handlers, without its  *)
(* shards, its locks and its tables: a store of rows, each owned by one    *)
(* entity, whose three operations (insert_vector, purge_entity and         *)
(* entity_exists of SisaShardManager) each take effect at one instant      *)
(* between the call and the return.  A call may fail without any effect,   *)
(* and a caller may vanish: its call then took effect or did not.          *)
(***************************************************************************)
EXTENDS Naturals

CONSTANTS
    Tasks,      \* the tokio tasks that call the store
    Entities,   \* entity identifiers
    NoCall      \* the call of a task that has none in flight

VARIABLES
    rows,       \* rows[e]: how many vectors of entity e are stored
    call,       \* call[p]: the call task p has in flight, or NoCall
    phase,      \* phase[p]: "idle", "called", "done" or "failed"
    found       \* found[p]: the answer of an entity_exists that is done

vars == <<rows, call, phase, found>>

Ops == {"insert", "purge", "exists"}
Call == [op: Ops, entity: Entities]

Init ==
    /\ rows = [e \in Entities |-> 0]
    /\ call = [p \in Tasks |-> NoCall]
    /\ phase = [p \in Tasks |-> "idle"]
    /\ found = [p \in Tasks |-> FALSE]

Begin(p) ==
    /\ phase[p] = "idle"
    /\ \E c \in Call : call' = [call EXCEPT ![p] = c]
    /\ phase' = [phase EXCEPT ![p] = "called"]
    /\ UNCHANGED <<rows, found>>

\* The instant at which the call of p takes effect.
Insert(p) ==
    /\ call[p].op = "insert"
    /\ rows' = [rows EXCEPT ![call[p].entity] = @ + 1]
    /\ UNCHANGED found

Purge(p) ==
    /\ call[p].op = "purge"
    /\ rows' = [rows EXCEPT ![call[p].entity] = 0]
    /\ UNCHANGED found

Exists(p) ==
    /\ call[p].op = "exists"
    /\ found' = [found EXCEPT ![p] = rows[call[p].entity] > 0]
    /\ UNCHANGED rows

Apply(p) ==
    /\ phase[p] = "called"
    /\ Insert(p) \/ Purge(p) \/ Exists(p)
    /\ phase' = [phase EXCEPT ![p] = "done"]
    /\ UNCHANGED call

Fail(p) ==
    /\ phase[p] = "called"
    /\ phase' = [phase EXCEPT ![p] = "failed"]
    /\ UNCHANGED <<rows, call, found>>

\* The task returns to its caller, or its future is dropped before it does.
End(p) ==
    /\ phase[p] # "idle"
    /\ phase' = [phase EXCEPT ![p] = "idle"]
    /\ call' = [call EXCEPT ![p] = NoCall]
    /\ found' = [found EXCEPT ![p] = FALSE]
    /\ UNCHANGED rows

Next == \E p \in Tasks : Begin(p) \/ Apply(p) \/ Fail(p) \/ End(p)

Spec == Init /\ [][Next]_vars
=============================================================================
