----------------------------- MODULE ShardStore -----------------------------
(***************************************************************************)
(* SisaShardManager (rust_gateway/src/sisa/shard_manager.rs): the LanceDB  *)
(* tables of the SISA shards, one table per shard created by its first     *)
(* insertion, and one tokio RwLock per shard.  insert_vector holds the     *)
(* READ side of its shard's lock, purge_entity the WRITE side, and         *)
(* entity_exists takes no lock.  Between two awaits of an operation every  *)
(* other task may run, so each LanceDB call is a step of its own, and the  *)
(* future of a task may be dropped at any of them (the client hung up):    *)
(* dropping it releases the guard or leaves the lock's queue.              *)
(***************************************************************************)
EXTENDS Naturals, Sequences, FiniteSets

CONSTANTS
    Tasks,        \* the tokio tasks that call the manager
    Entities,     \* entity identifiers
    Shards,       \* 0 .. num_shards - 1
    Home,         \* Home[e]: get_shard_id(e), DefaultHasher modulo num_shards
    NoCall,       \* the call of a task that has none in flight
    LanceFaults,  \* may a LanceDB call fail for a reason of its own?
    MaxRows       \* bound: rows of one entity, those being inserted included

Ops == {"insert", "purge", "exists"}
Call == [op: Ops, entity: Entities]

ASSUME HomeAssumption == Home \in [Entities -> Shards]
ASSUME NoCallAssumption == NoCall \notin Call

VARIABLES
    created,   \* the shards whose table exists
    tables,    \* tables[s][e]: the rows of entity e in the table of shard s
    holders,   \* holders[s]: the tasks that hold a guard of shard s's lock
    queue,     \* queue[s]: the tasks that wait for it, first come first served
    pc,        \* where each task is
    call,      \* the call it has in flight
    snap,      \* a purge's open table: the rows of its entity in that version
    found      \* the answer of an entity_exists that is done

vars == <<created, tables, holders, queue, pc, call, snap, found>>

\* The places where a task waits for LanceDB, and those where it holds a guard.
Working == {"list", "add", "create", "open", "delete"}
Guarded == Working \cup {"done", "failed"}

HomeOf(p) == Home[call[p].entity]
Locks(p) == call[p].op \in {"insert", "purge"}

Init ==
    /\ created = {}
    /\ tables = [s \in Shards |-> [e \in Entities |-> 0]]
    /\ holders = [s \in Shards |-> {}]
    /\ queue = [s \in Shards |-> <<>>]
    /\ pc = [p \in Tasks |-> "idle"]
    /\ call = [p \in Tasks |-> NoCall]
    /\ snap = [p \in Tasks |-> 0]
    /\ found = [p \in Tasks |-> FALSE]

Goto(p, l) == pc' = [pc EXCEPT ![p] = l]

---------------------------------------------------------------------------
(* The lock.  tokio's RwLock is a fair semaphore: a reader does not pass a *)
(* writer that waits before it.                                            *)

\* Mutant: the lock is not fair, whoever comes last is served first.
EnqueueFirst(p, e) == queue' = [queue EXCEPT ![Home[e]] = <<p>> \o @]

Enqueue(p, e) == queue' = [queue EXCEPT ![Home[e]] = Append(@, p)]

Inserting(e) == {p \in Tasks : call[p] = [op |-> "insert", entity |-> e]}
Room(e) == tables[Home[e]][e] + Cardinality(Inserting(e)) < MaxRows

\* insert_vector asks for the read guard of the entity's shard.
CallInsert(p, e) ==
    /\ pc[p] = "idle"
    /\ Room(e)
    /\ call' = [call EXCEPT ![p] = [op |-> "insert", entity |-> e]]
    /\ Enqueue(p, e)
    /\ Goto(p, "queued")
    /\ UNCHANGED <<created, tables, holders, snap, found>>

\* purge_entity asks for its write guard.
CallPurge(p, e) ==
    /\ pc[p] = "idle"
    /\ call' = [call EXCEPT ![p] = [op |-> "purge", entity |-> e]]
    /\ Enqueue(p, e)
    /\ Goto(p, "queued")
    /\ UNCHANGED <<created, tables, holders, snap, found>>

\* entity_exists asks LanceDB at once.
CallExists(p, e) ==
    /\ pc[p] = "idle"
    /\ call' = [call EXCEPT ![p] = [op |-> "exists", entity |-> e]]
    /\ Goto(p, "list")
    /\ UNCHANGED <<created, tables, holders, queue, snap, found>>

\* Mutants: one lock per entity instead of per shard; purge_entity takes the read
\* side too.
CompatiblePerEntity(p) ==
    \A q \in holders[HomeOf(p)] :
        call[p].entity = call[q].entity => call[p].op = "insert" /\ call[q].op = "insert"
CompatibleAlways(p) == pc[p] = "queued"

\* A read guard is compatible with read guards, a write guard with none.
Compatible(p) ==
    \A q \in holders[HomeOf(p)] : call[p].op = "insert" /\ call[q].op = "insert"

Grant(p) ==
    /\ pc[p] = "queued"
    /\ queue[HomeOf(p)] # <<>>
    /\ Head(queue[HomeOf(p)]) = p
    /\ Compatible(p)
    /\ queue' = [queue EXCEPT ![HomeOf(p)] = Tail(@)]
    /\ holders' = [holders EXCEPT ![HomeOf(p)] = @ \cup {p}]
    /\ Goto(p, "list")
    /\ UNCHANGED <<created, tables, call, snap, found>>

---------------------------------------------------------------------------
(* The LanceDB calls of the three operations.                              *)

AfterList(p) ==
    IF HomeOf(p) \in created
    THEN IF call[p].op = "insert" THEN "add" ELSE "open"
    ELSE IF call[p].op = "insert" THEN "create" ELSE "done"

\* table_names(): a missing table is created by an insertion; a purge has
\* nothing to delete in it and entity_exists answers false.
ListTables(p) ==
    /\ pc[p] = "list"
    /\ Goto(p, AfterList(p))
    /\ UNCHANGED <<created, tables, holders, queue, call, snap, found>>

\* Mutant: the shard is that of the document, not of its entity.
StoreAnywhere(p) ==
    \E s \in Shards : tables' = [tables EXCEPT ![s][call[p].entity] = @ + 1]

Store(p) == tables' = [tables EXCEPT ![HomeOf(p)][call[p].entity] = @ + 1]

\* open_table() and add() of insert_vector: an append to the latest version.
AddRow(p) ==
    /\ pc[p] = "add"
    /\ Store(p)
    /\ Goto(p, "done")
    /\ UNCHANGED <<created, holders, queue, call, snap, found>>

\* create_table() of insert_vector, with the row in it: an error when another
\* task has created the table since table_names() did not list it.
CreateTable(p) ==
    /\ pc[p] = "create"
    /\ \/ /\ HomeOf(p) \notin created
          /\ created' = created \cup {HomeOf(p)}
          /\ Store(p)
          /\ Goto(p, "done")
       \/ /\ HomeOf(p) \in created
          /\ Goto(p, "failed")
          /\ UNCHANGED <<created, tables>>
    /\ UNCHANGED <<holders, queue, call, snap, found>>

\* What entity_exists answers for a count.
Answer(n) == n > 0

\* open_table(): the handle is a version of the table.  entity_exists counts
\* the rows of that version; purge_entity will delete its matching rows.
OpenTable(p) ==
    /\ pc[p] = "open"
    /\ LET n == tables[HomeOf(p)][call[p].entity]
       IN  \/ /\ call[p].op = "purge"
              /\ snap' = [snap EXCEPT ![p] = n]
              /\ Goto(p, "delete")
              /\ UNCHANGED found
           \/ /\ call[p].op = "exists"
              /\ found' = [found EXCEPT ![p] = Answer(n)]
              /\ Goto(p, "done")
              /\ UNCHANGED snap
    /\ UNCHANGED <<created, tables, holders, queue, call>>

\* Mutant: one row too many is taken for deleted.
BeyondOne(n, version) == n - (version + 1)

\* The rows of the table that were appended after the version was opened stay.
Beyond(n, version) == IF version <= n THEN n - version ELSE 0

\* Mutants: the filter is lost and the whole table is emptied; one row is deleted.
DeleteTable(p) ==
    /\ pc[p] = "delete"
    /\ tables' = [tables EXCEPT ![HomeOf(p)] = [e \in Entities |-> 0]]
    /\ snap' = [snap EXCEPT ![p] = 0]
    /\ Goto(p, "done")
    /\ UNCHANGED <<created, holders, queue, call, found>>

DeleteOneRow(p) ==
    /\ pc[p] = "delete"
    /\ tables' = [tables EXCEPT ![HomeOf(p)][call[p].entity] = Beyond(@, 1)]
    /\ snap' = [snap EXCEPT ![p] = 0]
    /\ Goto(p, "done")
    /\ UNCHANGED <<created, holders, queue, call, found>>

DeleteRows(p) ==
    /\ pc[p] = "delete"
    /\ tables' = [tables EXCEPT ![HomeOf(p)][call[p].entity] = Beyond(@, snap[p])]
    /\ snap' = [snap EXCEPT ![p] = 0]
    /\ Goto(p, "done")
    /\ UNCHANGED <<created, holders, queue, call, found>>

\* A LanceDB call of the operation fails; the operation returns its error.
StoreFails(p) ==
    /\ LanceFaults
    /\ pc[p] \in Working
    /\ snap' = [snap EXCEPT ![p] = 0]
    /\ Goto(p, "failed")
    /\ UNCHANGED <<created, tables, holders, queue, call, found>>

---------------------------------------------------------------------------
(* The end of a call: the guard, if any, is dropped with the future.       *)

Forget(p) ==
    /\ call' = [call EXCEPT ![p] = NoCall]
    /\ snap' = [snap EXCEPT ![p] = 0]
    /\ found' = [found EXCEPT ![p] = FALSE]
    /\ Goto(p, "idle")

\* Mutant: an early return keeps the guard.
ReleaseIfDone(p) ==
    holders' = IF pc[p] = "failed" THEN holders
               ELSE [holders EXCEPT ![HomeOf(p)] = @ \ {p}]

Release(p) ==
    holders' = [holders EXCEPT ![HomeOf(p)] = @ \ {p}]

Return(p) ==
    /\ pc[p] \in {"done", "failed"}
    /\ Release(p)
    /\ Forget(p)
    /\ UNCHANGED <<created, tables, queue>>

\* The future is dropped while it waits for the lock ...
DropQueued(p) ==
    /\ pc[p] = "queued"
    /\ \E i \in DOMAIN queue[HomeOf(p)] :
          /\ queue[HomeOf(p)][i] = p
          /\ queue' = [queue EXCEPT ![HomeOf(p)] =
                          SubSeq(@, 1, i - 1) \o SubSeq(@, i + 1, Len(@))]
    /\ Forget(p)
    /\ UNCHANGED <<created, tables, holders>>

\* ... or while it waits for LanceDB.
DropWorking(p) ==
    /\ pc[p] \in Working
    /\ Release(p)
    /\ Forget(p)
    /\ UNCHANGED <<created, tables, queue>>

Step(p) ==
    \/ Grant(p) \/ ListTables(p) \/ AddRow(p) \/ CreateTable(p)
    \/ OpenTable(p) \/ DeleteRows(p) \/ Return(p)

Next ==
    \E p \in Tasks :
        \/ \E e \in Entities : CallInsert(p, e) \/ CallPurge(p, e) \/ CallExists(p, e)
        \/ Step(p)
        \/ StoreFails(p)
        \/ DropQueued(p) \/ DropWorking(p)

Spec == Init /\ [][Next]_vars

\* The runtime polls every task that can make progress; nothing obliges a
\* client to call or to hang up, or LanceDB to fail.
FairSpec == Spec /\ \A p \in Tasks : WF_vars(Step(p))

---------------------------------------------------------------------------
(* Correctness.                                                            *)

\* The type of every variable.
TypeOK ==
    /\ created \subseteq Shards
    /\ tables \in [Shards -> [Entities -> Nat]]
    /\ holders \in [Shards -> SUBSET Tasks]
    /\ queue \in [Shards -> Seq(Tasks)]
    /\ pc \in [Tasks -> Guarded \cup {"idle", "queued"}]
    /\ call \in [Tasks -> Call \cup {NoCall}]
    /\ snap \in [Tasks -> Nat]
    /\ found \in [Tasks -> BOOLEAN]

\* Which operation is where: part of the inductive invariant.
Places ==
    \A p \in Tasks :
        /\ pc[p] = "idle" <=> call[p] = NoCall
        /\ pc[p] = "queued" => call[p].op \in {"insert", "purge"}
        /\ pc[p] \in {"add", "create"} => call[p].op = "insert"
        /\ pc[p] = "add" => HomeOf(p) \in created
        /\ pc[p] = "open" => call[p].op \in {"purge", "exists"}
        /\ pc[p] = "delete" => call[p].op = "purge"
        /\ pc[p] # "done" => ~found[p]

\* A task holds the guard of a shard exactly while its insert_vector or
\* purge_entity runs on that shard: none leaks from an early return, an error
\* or a dropped future, none is given back early.
GuardsMatch ==
    \A s \in Shards, p \in Tasks :
        p \in holders[s] <=> pc[p] \in Guarded /\ Locks(p) /\ HomeOf(p) = s

\* While a purge_entity is anywhere between its guard and its return, no
\* insert_vector and no other purge_entity of the same shard is: the lock
\* isolates a purge although insertions only ever take the read side.
PurgeExclusive ==
    \A p, q \in Tasks :
        /\ p # q
        /\ pc[p] \in Guarded /\ call[p].op = "purge"
        /\ pc[q] \in Guarded /\ Locks(q)
        => HomeOf(p) # HomeOf(q)

\* The version of the table that purge_entity opened before its await is still
\* the current one for its entity when it deletes from it: no row slips in
\* between the two LanceDB calls.
FreshSnapshot ==
    \A p \in Tasks :
        pc[p] = "delete" => snap[p] = tables[HomeOf(p)][call[p].entity]

\* When purge_entity returns Ok, no shard table holds a row of its entity,
\* whatever was inserted or dropped meanwhile, the missing-table exit included.
PurgeLeavesNothing ==
    \A p \in Tasks :
        pc[p] = "done" /\ call[p].op = "purge"
            => \A s \in Shards : tables[s][call[p].entity] = 0

\* A row is only ever in an existing table, that of its entity's home shard:
\* what get_shard_id says is enough for a purge to find every row.
RowsAreHome ==
    \A s \in Shards, e \in Entities :
        tables[s][e] > 0 => s \in created /\ s = Home[e]

DeletesOwnRows ==
    \A s \in Shards, e \in Entities :
        tables'[s][e] < tables[s][e]
            => \E p \in Tasks : /\ call[p] = [op |-> "purge", entity |-> e]
                                /\ pc[p] = "delete" /\ pc'[p] = "done"

\* A step that deletes rows of an entity is a step of a purge_entity of that
\* very entity: no other entity of the shared table ever loses a row.
OnlyOwnRowsDeleted == [][DeletesOwnRows]_vars

\* Without LanceDB faults an insertion never fails: what batch ingestion of
\* the documents of a fresh shard relies on.
InsertSucceeds ==
    \A p \in Tasks : pc[p] = "failed" => call[p].op # "insert"

\* Every call comes to its end: a purge waiting behind a stream of insertions,
\* and insertions waiting behind a purge, are not starved, and no guard leaks
\* when a future is dropped.
CallsEnd == \A p \in Tasks : pc[p] # "idle" ~> pc[p] = "idle"

---------------------------------------------------------------------------
(* Refinement: the rows of an entity are those of all shards; a task that  *)
(* waits for the lock or for LanceDB has called and not yet taken effect.  *)

Phase(l) == CASE l = "idle" -> "idle"
              [] l \in {"done", "failed"} -> l
              [] OTHER -> "called"

Abs == INSTANCE EntityStore WITH
           rows <- [e \in Entities |-> tables[Home[e]][e]],
           phase <- [p \in Tasks |-> Phase(pc[p])]

\* The sharded store with its locks behaves as one store whose operations are
\* atomic: insert_vector, purge_entity and entity_exists are linearizable.
Linearizable == Abs!Spec
=============================================================================
