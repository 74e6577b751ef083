-------------------------- MODULE ShardStoreProofs --------------------------
(***************************************************************************)
(* Proofs about ShardStore for every set of tasks, entities and shards and *)
(* every assignment of entities to shards.                                 *)
(*                                                                         *)
(* The argument: a guard is held exactly from grant to return              *)
(* (GuardsMatch), so the lock keeps every other insertion and purge of the *)
(* shard away from a running purge (PurgeExclusive); then the version it   *)
(* opened stays current (FreshSnapshot) and its deletion leaves nothing    *)
(* (PurgeLeavesNothing), which is what makes the purge of the sharded      *)
(* store the atomic purge of EntityStore.                                  *)
(*                                                                         *)
(* The last section is about the lock's queue: it holds the tasks that     *)
(* wait, each once (QueuesMatch), although a dropped future may leave it   *)
(* from the middle; so guards are granted in turn and whoever waits has    *)
(* somebody before it who can go on.                                       *)
(***************************************************************************)
EXTENDS ShardStore, SequenceTheorems, TLAPS

Typed == TypeOK /\ Places

\* A task that is not idle has a call, of an entity that has a home shard.
LEMMA BusyCall ==
    ASSUME Typed, NEW p \in Tasks, pc[p] # "idle"
    PROVE  /\ call[p] \in Call
           /\ call[p].op \in Ops
           /\ call[p].entity \in Entities
           /\ HomeOf(p) \in Shards
BY HomeAssumption DEF Typed, TypeOK, Places, HomeOf, Call

\* The fields of the three calls.
LEMMA NewCall ==
    ASSUME NEW e \in Entities, NEW o \in Ops
    PROVE  /\ [op |-> o, entity |-> e] \in Call
           /\ [op |-> o, entity |-> e] # NoCall
           /\ [op |-> o, entity |-> e].op = o
           /\ [op |-> o, entity |-> e].entity = e
BY NoCallAssumption DEF Call

---------------------------------------------------------------------------
(* Type correctness.                                                       *)

LEMMA TypedInit == Init => Typed
<1> SUFFICES ASSUME Init PROVE Typed
    OBVIOUS
<1>1. \A s \in Shards : queue[s] \in Seq(Tasks)
    BY DEF Init
<1> QED
    BY <1>1, NoCallAssumption DEF Init, Typed, TypeOK, Places, Guarded, Working

\* Taking one task out of a queue leaves a queue.
LEMMA WithoutOne ==
    ASSUME NEW q \in Seq(Tasks), NEW i \in DOMAIN q
    PROVE  SubSeq(q, 1, i - 1) \o SubSeq(q, i + 1, Len(q)) \in Seq(Tasks)
<1>1. i \in 1 .. Len(q)
    OBVIOUS
<1>2. SubSeq(q, 1, i - 1) \in Seq(Tasks)
    BY <1>1, SubSeqProperties
<1>3. SubSeq(q, i + 1, Len(q)) \in Seq(Tasks)
    BY <1>1, SubSeqProperties
<1> QED
    BY <1>2, <1>3, ConcatProperties

LEMMA TypedNext == Typed /\ [Next]_vars => Typed'
<1> SUFFICES ASSUME Typed, [Next]_vars PROVE Typed'
    OBVIOUS
<1> USE DEF Typed, TypeOK, Places, Guarded, Working, Goto
<1>1. ASSUME NEW p \in Tasks, NEW e \in Entities, CallInsert(p, e) PROVE Typed'
    <2> DEFINE c == [op |-> "insert", entity |-> e]
    <2>1. c \in Call /\ c # NoCall /\ c.op = "insert" /\ c.entity = e
        BY NewCall DEF Ops
    <2>2. queue[Home[e]] \in Seq(Tasks) /\ Append(queue[Home[e]], p) \in Seq(Tasks)
        BY HomeAssumption
    <2> HIDE DEF c
    <2>3. call' = [call EXCEPT ![p] = c]
        BY <1>1 DEF CallInsert, c
    <2>6. /\ pc' = [pc EXCEPT ![p] = "queued"]
          /\ queue' = [queue EXCEPT ![Home[e]] = Append(@, p)]
          /\ UNCHANGED <<created, tables, holders, snap, found>>
        BY <1>1 DEF CallInsert, Enqueue
    <2>4. TypeOK'
        BY <2>1, <2>2, <2>3, <2>6
    <2>5. Places'
        BY <1>1, <2>1, <2>3 DEF CallInsert, HomeOf
    <2> QED
        BY <2>4, <2>5
<1>2. ASSUME NEW p \in Tasks, NEW e \in Entities, CallPurge(p, e) PROVE Typed'
    <2> DEFINE c == [op |-> "purge", entity |-> e]
    <2>1. c \in Call /\ c # NoCall /\ c.op = "purge" /\ c.entity = e
        BY NewCall DEF Ops
    <2>2. queue[Home[e]] \in Seq(Tasks) /\ Append(queue[Home[e]], p) \in Seq(Tasks)
        BY HomeAssumption
    <2> HIDE DEF c
    <2>3. call' = [call EXCEPT ![p] = c]
        BY <1>2 DEF CallPurge, c
    <2>6. /\ pc' = [pc EXCEPT ![p] = "queued"]
          /\ queue' = [queue EXCEPT ![Home[e]] = Append(@, p)]
          /\ UNCHANGED <<created, tables, holders, snap, found>>
        BY <1>2 DEF CallPurge, Enqueue
    <2>4. TypeOK'
        BY <2>1, <2>2, <2>3, <2>6
    <2>5. Places'
        BY <1>2, <2>1, <2>3 DEF CallPurge, HomeOf
    <2> QED
        BY <2>4, <2>5
<1>3. ASSUME NEW p \in Tasks, NEW e \in Entities, CallExists(p, e) PROVE Typed'
    <2> DEFINE c == [op |-> "exists", entity |-> e]
    <2>1. c \in Call /\ c # NoCall /\ c.op = "exists" /\ c.entity = e
        BY NewCall DEF Ops
    <2> HIDE DEF c
    <2>3. call' = [call EXCEPT ![p] = c]
        BY <1>3 DEF CallExists, c
    <2>4. TypeOK'
        BY <1>3, <2>1, <2>3 DEF CallExists
    <2>5. Places'
        BY <1>3, <2>1, <2>3 DEF CallExists, HomeOf
    <2> QED
        BY <2>4, <2>5
<1>4. ASSUME NEW p \in Tasks, Grant(p) PROVE Typed'
    <2>1. Tail(queue[HomeOf(p)]) \in Seq(Tasks)
        BY <1>4, BusyCall, HeadTailProperties DEF Grant
    <2> QED
        BY <1>4, <2>1, BusyCall DEF Grant, HomeOf
<1>5. ASSUME NEW p \in Tasks, ListTables(p) PROVE Typed'
    BY <1>5, BusyCall DEF ListTables, AfterList, HomeOf, Ops
<1>6. ASSUME NEW p \in Tasks, AddRow(p) PROVE Typed'
    <2>1. HomeOf(p) \in Shards /\ call[p].entity \in Entities
        BY <1>6, BusyCall DEF AddRow
    <2>2. tables' \in [Shards -> [Entities -> Nat]]
        BY <1>6, <2>1 DEF AddRow, Store
    <2>3. TypeOK'
        BY <1>6, <2>1, <2>2 DEF AddRow
    <2>4. Places'
        BY <1>6 DEF AddRow, HomeOf
    <2> QED
        BY <2>3, <2>4
<1>7. ASSUME NEW p \in Tasks, CreateTable(p) PROVE Typed'
    <2>1. HomeOf(p) \in Shards /\ call[p].entity \in Entities
        BY <1>7, BusyCall DEF CreateTable
    <2>2. CASE /\ HomeOf(p) \notin created /\ created' = created \cup {HomeOf(p)}
               /\ Store(p) /\ Goto(p, "done")
        <3>1. tables' \in [Shards -> [Entities -> Nat]]
            BY <2>1, <2>2 DEF Store
        <3> QED
            BY <1>7, <2>1, <2>2, <3>1 DEF CreateTable, HomeOf
    <2>3. CASE Goto(p, "failed") /\ UNCHANGED <<created, tables>>
        BY <1>7, <2>3 DEF CreateTable, HomeOf
    <2> QED
        BY <1>7, <2>2, <2>3 DEF CreateTable
<1>8. ASSUME NEW p \in Tasks, OpenTable(p) PROVE Typed'
    <2>1. tables[HomeOf(p)][call[p].entity] \in Nat
        BY <1>8, BusyCall DEF OpenTable, Answer
    <2>2. CASE call[p].op = "purge" /\ Goto(p, "delete") /\ UNCHANGED found
               /\ snap' = [snap EXCEPT ![p] = tables[HomeOf(p)][call[p].entity]]
        BY <1>8, <2>1, <2>2 DEF OpenTable, Answer, HomeOf
    <2>3. CASE call[p].op = "exists" /\ Goto(p, "done") /\ UNCHANGED snap
               /\ found' = [found EXCEPT ![p] = tables[HomeOf(p)][call[p].entity] > 0]
        <3>1. (tables[HomeOf(p)][call[p].entity] > 0) \in BOOLEAN
            OBVIOUS
        <3>2. found' \in [Tasks -> BOOLEAN]
            BY <2>3, <3>1
        <3> QED
            BY <1>8, <2>3, <3>2 DEF OpenTable, Answer, HomeOf
    <2> QED
        BY <1>8, <2>2, <2>3 DEF OpenTable, Answer
<1>9. ASSUME NEW p \in Tasks, DeleteRows(p) PROVE Typed'
    BY <1>9, BusyCall DEF DeleteRows, Beyond, HomeOf
<1>10. ASSUME NEW p \in Tasks, StoreFails(p) PROVE Typed'
    BY <1>10 DEF StoreFails, HomeOf
<1>11. ASSUME NEW p \in Tasks, Return(p) PROVE Typed'
    BY <1>11, BusyCall DEF Return, Release, Forget, HomeOf
<1>12. ASSUME NEW p \in Tasks, DropQueued(p) PROVE Typed'
    <2>1. PICK i \in DOMAIN queue[HomeOf(p)] :
              queue' = [queue EXCEPT ![HomeOf(p)] =
                           SubSeq(@, 1, i - 1) \o SubSeq(@, i + 1, Len(@))]
        BY <1>12 DEF DropQueued
    <2>2. queue' \in [Shards -> Seq(Tasks)]
        BY <1>12, <2>1, BusyCall, WithoutOne DEF DropQueued
    <2> QED
        BY <1>12, <2>2 DEF DropQueued, Forget, HomeOf
<1>13. ASSUME NEW p \in Tasks, DropWorking(p) PROVE Typed'
    BY <1>13, BusyCall DEF DropWorking, Release, Forget, HomeOf
<1>14. CASE UNCHANGED vars
    BY <1>14 DEF vars, HomeOf
<1> QED
    BY <1>1, <1>2, <1>3, <1>4, <1>5, <1>6, <1>7, <1>8, <1>9, <1>10, <1>11,
       <1>12, <1>13, <1>14 DEF Next, Step

\* Every variable of SisaShardManager's model keeps its type.
THEOREM TypeCorrect == Spec => []TypeOK
<1>1. Init => Typed
    BY TypedInit
<1>2. Typed /\ [Next]_vars => Typed'
    BY TypedNext
<1>3. Typed => TypeOK
    BY DEF Typed
<1> QED
    BY <1>1, <1>2, <1>3, PTL DEF Spec

---------------------------------------------------------------------------
(* The lock.  What a step does to the guards depends on its shape only.    *)

\* A task makes a call and waits, or asks LanceDB without a guard.
Starts(p) ==
    /\ pc[p] = "idle"
    /\ pc'[p] = "queued" \/ (pc'[p] = "list" /\ call'[p].op = "exists")
    /\ call' = [call EXCEPT ![p] = call'[p]]
    /\ pc' = [pc EXCEPT ![p] = pc'[p]]
    /\ UNCHANGED holders

\* A task that has what it needs goes on.
Works(p) ==
    /\ pc[p] \in Working
    /\ pc'[p] \in Guarded
    /\ pc' = [pc EXCEPT ![p] = pc'[p]]
    /\ UNCHANGED <<call, holders>>

\* A task ends, and with it its guard.
Leaves(p) ==
    /\ pc[p] \in Guarded
    /\ pc' = [pc EXCEPT ![p] = "idle"]
    /\ call' = [call EXCEPT ![p] = NoCall]
    /\ holders' = [holders EXCEPT ![HomeOf(p)] = @ \ {p}]

LEMMA Shapes ==
    ASSUME Typed, NEW p \in Tasks
    PROVE  /\ \A e \in Entities : CallInsert(p, e) \/ CallPurge(p, e) \/ CallExists(p, e)
                  => Starts(p)
           /\ (ListTables(p) \/ AddRow(p) \/ CreateTable(p) \/ OpenTable(p)
                  \/ DeleteRows(p) \/ StoreFails(p)) => Works(p)
           /\ Return(p) \/ DropWorking(p) => Leaves(p)
<1> USE DEF Typed, TypeOK, Goto
<1>1. ASSUME NEW e \in Entities, CallInsert(p, e) PROVE Starts(p)
    BY <1>1 DEF CallInsert, Starts
<1>2. ASSUME NEW e \in Entities, CallPurge(p, e) PROVE Starts(p)
    BY <1>2 DEF CallPurge, Starts
<1>3. ASSUME NEW e \in Entities, CallExists(p, e) PROVE Starts(p)
    BY <1>3 DEF CallExists, Starts
<1>4. ASSUME ListTables(p) PROVE Works(p)
    BY <1>4 DEF ListTables, AfterList, Works, Working, Guarded
<1>5. ASSUME AddRow(p) PROVE Works(p)
    BY <1>5 DEF AddRow, Works, Working, Guarded
<1>6. ASSUME CreateTable(p) PROVE Works(p)
    <2>1. Goto(p, "done") \/ Goto(p, "failed")
        BY <1>6 DEF CreateTable
    <2> QED
        BY <1>6, <2>1 DEF CreateTable, Works, Working, Guarded
<1>7. ASSUME OpenTable(p) PROVE Works(p)
    <2>1. Goto(p, "done") \/ Goto(p, "delete")
        BY <1>7 DEF OpenTable, Answer
    <2> QED
        BY <1>7, <2>1 DEF OpenTable, Answer, Works, Working, Guarded
<1>8. ASSUME DeleteRows(p) PROVE Works(p)
    BY <1>8 DEF DeleteRows, Works, Working, Guarded
<1>9. ASSUME StoreFails(p) PROVE Works(p)
    BY <1>9 DEF StoreFails, Works, Guarded
<1>10. ASSUME Return(p) PROVE Leaves(p)
    BY <1>10 DEF Return, Release, Forget, Leaves, Guarded
<1>11. ASSUME DropWorking(p) PROVE Leaves(p)
    BY <1>11 DEF DropWorking, Release, Forget, Leaves, Guarded
<1> QED
    BY <1>1, <1>2, <1>3, <1>4, <1>5, <1>6, <1>7, <1>8, <1>9, <1>10, <1>11

LockInv == GuardsMatch /\ PurgeExclusive

LEMMA LockInvInit == Init => LockInv
BY DEF Init, LockInv, GuardsMatch, PurgeExclusive, Guarded, Working

LEMMA LockInvNext == Typed /\ LockInv /\ [Next]_vars => LockInv'
<1> SUFFICES ASSUME Typed, LockInv, [Next]_vars PROVE LockInv'
    OBVIOUS
<1> USE DEF LockInv, GuardsMatch, PurgeExclusive
<1>0. Typed'
    BY TypedNext
<1>1. ASSUME NEW p \in Tasks, Starts(p) PROVE LockInv'
    <2>1. \A q \in Tasks \ {p} : pc'[q] = pc[q] /\ call'[q] = call[q]
        BY <1>1 DEF Starts, Typed, TypeOK
    <2>2. ~(pc[p] \in Guarded) /\ ~(pc'[p] \in Guarded /\ Locks(p)')
        BY <1>1 DEF Starts, Guarded, Working, Locks
    <2>3. pc'[p] \in Guarded => call'[p].op # "purge"
        BY <1>1 DEF Starts, Guarded, Working
    <2> QED
        BY <1>1, <2>1, <2>2, <2>3 DEF Starts, Locks, HomeOf
<1>2. ASSUME NEW p \in Tasks, Works(p) PROVE LockInv'
    <2>1. \A q \in Tasks \ {p} : pc'[q] = pc[q]
        BY <1>2 DEF Works, Typed, TypeOK
    <2>2. pc[p] \in Guarded /\ pc'[p] \in Guarded
        BY <1>2 DEF Works, Guarded
    <2> QED
        BY <1>2, <2>1, <2>2 DEF Works, Locks, HomeOf
<1>3. ASSUME NEW p \in Tasks, Leaves(p) PROVE LockInv'
    <2>1. \A q \in Tasks \ {p} : pc'[q] = pc[q] /\ call'[q] = call[q]
        BY <1>3 DEF Leaves, Typed, TypeOK
    <2>2. pc'[p] \notin Guarded
        BY <1>3 DEF Leaves, Guarded, Working, Typed, TypeOK
    <2>3. \A s \in Shards, q \in Tasks : q \in holders'[s] <=> q \in holders[s] /\ q # p
        BY <1>3, BusyCall DEF Leaves, Guarded, Working, Typed, TypeOK, Locks
    <2> QED
        BY <2>1, <2>2, <2>3 DEF Locks, HomeOf
<1>4. ASSUME NEW p \in Tasks, Grant(p) PROVE LockInv'
    <2>1. \A q \in Tasks \ {p} : pc'[q] = pc[q]
        BY <1>4 DEF Grant, Goto, Typed, TypeOK
    <2>2. pc'[p] = "list" /\ pc[p] = "queued" /\ HomeOf(p) \in Shards /\ Locks(p)
        BY <1>4, BusyCall DEF Grant, Goto, Typed, TypeOK, Places, Locks
    <2>3. \A s \in Shards, q \in Tasks :
              q \in holders'[s] <=> q \in holders[s] \/ (q = p /\ s = HomeOf(p))
        BY <1>4 DEF Grant, Typed, TypeOK
    <2>4. GuardsMatch'
        BY <1>4, <2>1, <2>2, <2>3 DEF Grant, Guarded, Working, Locks, HomeOf
    <2>5. ASSUME NEW q \in Tasks, q # p, pc[q] \in Guarded, Locks(q), HomeOf(q) = HomeOf(p)
          PROVE  call[p].op = "insert" /\ call[q].op = "insert"
        BY <1>4, <2>2, <2>5 DEF Grant, Compatible
    <2>6. PurgeExclusive'
        BY <1>4, <2>1, <2>2, <2>5 DEF Grant, Locks, HomeOf
    <2> QED
        BY <2>4, <2>6
<1>5. ASSUME NEW p \in Tasks, DropQueued(p) PROVE LockInv'
    <2>1. \A q \in Tasks \ {p} : pc'[q] = pc[q] /\ call'[q] = call[q]
        BY <1>5 DEF DropQueued, Forget, Goto, Typed, TypeOK
    <2>2. pc[p] \notin Guarded /\ pc'[p] \notin Guarded /\ UNCHANGED holders
        BY <1>5 DEF DropQueued, Forget, Goto, Guarded, Working, Typed, TypeOK
    <2> QED
        BY <2>1, <2>2 DEF Locks, HomeOf
<1>6. CASE UNCHANGED vars
    BY <1>6 DEF vars, Locks, HomeOf
<1>7. ASSUME Next PROVE \E p \in Tasks :
          Starts(p) \/ Works(p) \/ Leaves(p) \/ Grant(p) \/ DropQueued(p)
    <2>1. PICK p \in Tasks :
              \/ \E e \in Entities : CallInsert(p, e) \/ CallPurge(p, e) \/ CallExists(p, e)
              \/ Step(p) \/ StoreFails(p) \/ DropQueued(p) \/ DropWorking(p)
        BY <1>7 DEF Next
    <2>2. CASE \E e \in Entities : CallInsert(p, e) \/ CallPurge(p, e) \/ CallExists(p, e)
        BY <2>2, Shapes
    <2>3. CASE Step(p)
        <3>1. CASE Grant(p)
            BY <3>1
        <3>2. CASE Return(p)
            BY <3>2, Shapes
        <3>3. CASE ListTables(p) \/ AddRow(p) \/ CreateTable(p)
                       \/ OpenTable(p) \/ DeleteRows(p)
            BY <3>3, Shapes
        <3> QED
            BY <2>3, <3>1, <3>2, <3>3 DEF Step
    <2>4. CASE StoreFails(p)
        BY <2>4, Shapes
    <2>5. CASE DropQueued(p) \/ DropWorking(p)
        BY <2>5, Shapes
    <2> QED
        BY <2>1, <2>2, <2>3, <2>4, <2>5
<1> QED
    BY <1>1, <1>2, <1>3, <1>4, <1>5, <1>6, <1>7

---------------------------------------------------------------------------
(* The rows.  A step writes at most the rows of its own task's entity, in  *)
(* the entity's home shard and under the shard's guard.                    *)

WritesOwn(p) ==
    /\ pc[p] \in Guarded /\ Locks(p)
    /\ \A s \in Shards, e \in Entities :
           s # HomeOf(p) \/ e # call[p].entity => tables'[s][e] = tables[s][e]

\* What a step leaves alone for every other task.
Apart(p) ==
    /\ \A q \in Tasks \ {p} : /\ pc'[q] = pc[q] /\ call'[q] = call[q]
                              /\ snap'[q] = snap[q]
    /\ UNCHANGED tables \/ WritesOwn(p)

DataInv == FreshSnapshot /\ PurgeLeavesNothing /\ RowsAreHome

\* The stepping task's own part of the invariant.
OwnData(p) ==
    /\ pc[p] = "delete" => snap[p] = tables[HomeOf(p)][call[p].entity]
    /\ pc[p] = "done" /\ call[p].op = "purge"
           => \A s \in Shards : tables[s][call[p].entity] = 0

\* The rows another purge relies on are safe from a step of p.
LEMMA OthersSafe ==
    ASSUME Typed, Typed', LockInv, DataInv, NEW p \in Tasks, Apart(p), OwnData(p)'
    PROVE  FreshSnapshot' /\ PurgeLeavesNothing'
<1>1. ASSUME NEW q \in Tasks, q # p, pc[q] \in Guarded, call[q].op = "purge",
             NEW s \in Shards
      PROVE  tables'[s][call[q].entity] = tables[s][call[q].entity]
    <2>1. pc[q] # "idle" /\ call[q].entity \in Entities
        BY <1>1, BusyCall DEF Guarded, Working
    <2>2. CASE UNCHANGED tables
        BY <2>2
    <2>3. CASE WritesOwn(p)
        <3>1. HomeOf(q) # HomeOf(p)
            BY <1>1, <2>3 DEF WritesOwn, LockInv, PurgeExclusive
        <3>2. call[q].entity # call[p].entity
            BY <3>1 DEF HomeOf
        <3> QED
            BY <1>1, <2>1, <2>3, <3>2 DEF WritesOwn
    <2> QED
        BY <2>2, <2>3 DEF Apart
<1>2. ASSUME NEW q \in Tasks, q # p PROVE OwnData(q)'
    <2>1. pc'[q] = pc[q] /\ call'[q] = call[q] /\ snap'[q] = snap[q]
        BY <1>2 DEF Apart
    <2>2. ASSUME pc[q] = "delete" PROVE snap'[q] = tables'[HomeOf(q)'][call'[q].entity]
        <3>1. call[q].op = "purge" /\ HomeOf(q) \in Shards /\ HomeOf(q)' = HomeOf(q)
            BY <2>1, <2>2, BusyCall DEF Typed, Places, HomeOf
        <3> QED
            BY <1>1, <1>2, <2>1, <2>2, <3>1 DEF DataInv, FreshSnapshot, Guarded, Working
    <2>3. ASSUME pc[q] = "done", call[q].op = "purge", NEW s \in Shards
          PROVE  tables'[s][call'[q].entity] = 0
        BY <1>1, <1>2, <2>1, <2>3 DEF DataInv, PurgeLeavesNothing, Guarded
    <2> QED
        BY <2>1, <2>2, <2>3 DEF OwnData
<1> QED
    BY <1>2 DEF OwnData, FreshSnapshot, PurgeLeavesNothing

LEMMA DataInvInit == Init => DataInv
BY DEF Init, DataInv, FreshSnapshot, PurgeLeavesNothing, RowsAreHome

LEMMA DataInvNext == Typed /\ LockInv /\ DataInv /\ [Next]_vars => DataInv'
<1> SUFFICES ASSUME Typed, LockInv, DataInv, [Next]_vars PROVE DataInv'
    OBVIOUS
<1>0. Typed'
    BY TypedNext
<1> USE DEF Goto
\* A step that leaves the tables alone and neither opens one nor finishes.
<1>1. ASSUME NEW p \in Tasks, UNCHANGED <<tables, created>>, Apart(p),
             pc'[p] \notin {"delete", "done"}
      PROVE  DataInv'
    <2>1. OwnData(p)'
        BY <1>1 DEF OwnData
    <2>2. FreshSnapshot' /\ PurgeLeavesNothing'
        BY <1>0, <1>1, <2>1, OthersSafe
    <2>3. RowsAreHome'
        BY <1>1 DEF DataInv, RowsAreHome
    <2> QED
        BY <2>2, <2>3 DEF DataInv
<1>2. ASSUME NEW p \in Tasks, NEW e \in Entities,
             CallInsert(p, e) \/ CallPurge(p, e) \/ CallExists(p, e)
      PROVE  DataInv'
    <2>1. CASE CallInsert(p, e)
        BY <1>1, <2>1 DEF CallInsert, Apart, Typed, TypeOK
    <2>2. CASE CallPurge(p, e)
        BY <1>1, <2>2 DEF CallPurge, Apart, Typed, TypeOK
    <2>3. CASE CallExists(p, e)
        BY <1>1, <2>3 DEF CallExists, Apart, Typed, TypeOK
    <2> QED
        BY <1>2, <2>1, <2>2, <2>3
<1>3. ASSUME NEW p \in Tasks, Grant(p) PROVE DataInv'
    BY <1>1, <1>3 DEF Grant, Apart, Typed, TypeOK
<1>4. ASSUME NEW p \in Tasks, ListTables(p) PROVE DataInv'
    <2>1. Apart(p) /\ UNCHANGED <<tables, created>>
        BY <1>4 DEF ListTables, Apart, Typed, TypeOK
    <2>2. HomeOf(p) \in Shards /\ call[p].entity \in Entities
        BY <1>4, BusyCall DEF ListTables
    <2>3. pc'[p] = AfterList(p) /\ call'[p] = call[p]
        BY <1>4 DEF ListTables, Typed, TypeOK
    <2>4. CASE HomeOf(p) \in created \/ call[p].op = "insert"
        BY <1>1, <2>1, <2>3, <2>4 DEF AfterList
    <2>5. CASE HomeOf(p) \notin created /\ call[p].op # "insert"
        <3>1. ASSUME NEW s \in Shards PROVE tables[s][call[p].entity] = 0
            <4>1. tables[s][call[p].entity] \in Nat
                BY <2>2 DEF Typed, TypeOK
            <4>2. ~(tables[s][call[p].entity] > 0)
                BY <2>2, <2>5 DEF DataInv, RowsAreHome, HomeOf
            <4> QED
                BY <4>1, <4>2
        <3>2. OwnData(p)'
            BY <2>1, <2>3, <2>5, <3>1 DEF OwnData, AfterList
        <3>3. FreshSnapshot' /\ PurgeLeavesNothing'
            BY <1>0, <2>1, <3>2, OthersSafe
        <3>4. RowsAreHome'
            BY <2>1 DEF DataInv, RowsAreHome
        <3> QED
            BY <3>3, <3>4 DEF DataInv
    <2> QED
        BY <2>4, <2>5
\* A step that stores a row of an insertion in an existing or new table.
<1>5. ASSUME NEW p \in Tasks, pc[p] \in {"add", "create"}, Goto(p, "done"), Store(p),
             created' = created \cup {HomeOf(p)}, UNCHANGED <<call, snap>>
      PROVE  DataInv'
    <2>1. HomeOf(p) \in Shards /\ call[p].entity \in Entities /\ call[p].op = "insert"
        BY <1>5, BusyCall DEF Typed, Places
    <2>2. \A s \in Shards, e \in Entities :
              tables'[s][e] = IF s = HomeOf(p) /\ e = call[p].entity
                              THEN tables[s][e] + 1 ELSE tables[s][e]
        BY <1>5, <2>1 DEF Store, Typed, TypeOK
    <2>3. WritesOwn(p)
        BY <1>5, <2>1, <2>2 DEF WritesOwn, Guarded, Working, Locks
    <2>4. Apart(p)
        BY <1>5, <2>3 DEF Apart, Typed, TypeOK
    <2>5. OwnData(p)'
        BY <1>5, <2>1 DEF OwnData, Typed, TypeOK
    <2>6. FreshSnapshot' /\ PurgeLeavesNothing'
        BY <1>0, <2>4, <2>5, OthersSafe
    <2>7. RowsAreHome'
        BY <1>5, <2>1, <2>2 DEF DataInv, RowsAreHome, HomeOf
    <2> QED
        BY <2>6, <2>7 DEF DataInv
<1>6. ASSUME NEW p \in Tasks, AddRow(p) PROVE DataInv'
    <2>1. created' = created \cup {HomeOf(p)}
        BY <1>6 DEF AddRow, Typed, Places
    <2> QED
        BY <1>5, <1>6, <2>1 DEF AddRow
<1>7. ASSUME NEW p \in Tasks, CreateTable(p) PROVE DataInv'
    <2>1. CASE created' = created \cup {HomeOf(p)} /\ Store(p) /\ Goto(p, "done")
        BY <1>5, <1>7, <2>1 DEF CreateTable
    <2>2. CASE Goto(p, "failed") /\ UNCHANGED <<created, tables>>
        BY <1>1, <1>7, <2>2 DEF CreateTable, Apart, Typed, TypeOK
    <2> QED
        BY <1>7, <2>1, <2>2 DEF CreateTable
<1>8. ASSUME NEW p \in Tasks, OpenTable(p) PROVE DataInv'
    <2>1. UNCHANGED <<created, tables, call>>
        BY <1>8 DEF OpenTable, Answer
    <2>2. OwnData(p)' /\ Apart(p)
        <3>1. CASE /\ call[p].op = "purge" /\ Goto(p, "delete")
                   /\ snap' = [snap EXCEPT ![p] = tables[HomeOf(p)][call[p].entity]]
            BY <2>1, <3>1 DEF OwnData, Apart, HomeOf, Typed, TypeOK
        <3>2. CASE call[p].op = "exists" /\ Goto(p, "done") /\ UNCHANGED snap
            BY <2>1, <3>2 DEF OwnData, Apart, HomeOf, Typed, TypeOK
        <3> QED
            BY <1>8, <3>1, <3>2 DEF OpenTable, Answer
    <2>3. FreshSnapshot' /\ PurgeLeavesNothing'
        BY <1>0, <2>2, OthersSafe
    <2>4. RowsAreHome'
        BY <2>1 DEF DataInv, RowsAreHome
    <2> QED
        BY <2>3, <2>4 DEF DataInv
<1>9. ASSUME NEW p \in Tasks, DeleteRows(p) PROVE DataInv'
    <2>1. HomeOf(p) \in Shards /\ call[p].entity \in Entities /\ call[p].op = "purge"
        BY <1>9, BusyCall DEF DeleteRows, Typed, Places
    <2>2. \A s \in Shards, e \in Entities :
              tables'[s][e] = IF s = HomeOf(p) /\ e = call[p].entity
                              THEN 0 ELSE tables[s][e]
        BY <1>9, <2>1 DEF DeleteRows, Beyond, DataInv, FreshSnapshot, Typed, TypeOK
    <2>3. WritesOwn(p)
        BY <1>9, <2>1, <2>2 DEF DeleteRows, WritesOwn, Guarded, Working, Locks
    <2>4. Apart(p)
        BY <1>9, <2>3 DEF DeleteRows, Apart, Typed, TypeOK
    <2>5. \A s \in Shards : tables'[s][call[p].entity] = 0
        BY <2>1, <2>2 DEF DataInv, RowsAreHome, HomeOf, Typed, TypeOK
    <2>6. OwnData(p)'
        BY <1>9, <2>5 DEF DeleteRows, OwnData, Typed, TypeOK
    <2>7. FreshSnapshot' /\ PurgeLeavesNothing'
        BY <1>0, <2>4, <2>6, OthersSafe
    <2>8. RowsAreHome'
        BY <1>9, <2>2 DEF DeleteRows, DataInv, RowsAreHome
    <2> QED
        BY <2>7, <2>8 DEF DataInv
<1>10. ASSUME NEW p \in Tasks, StoreFails(p) PROVE DataInv'
    BY <1>1, <1>10 DEF StoreFails, Apart, Typed, TypeOK
<1>11. ASSUME NEW p \in Tasks, Return(p) PROVE DataInv'
    BY <1>1, <1>11 DEF Return, Forget, Apart, Typed, TypeOK
<1>12. ASSUME NEW p \in Tasks, DropQueued(p) PROVE DataInv'
    BY <1>1, <1>12 DEF DropQueued, Forget, Apart, Typed, TypeOK
<1>13. ASSUME NEW p \in Tasks, DropWorking(p) PROVE DataInv'
    BY <1>1, <1>13 DEF DropWorking, Forget, Apart, Typed, TypeOK
<1>14. CASE UNCHANGED vars
    BY <1>14 DEF vars, DataInv, FreshSnapshot, PurgeLeavesNothing, RowsAreHome, HomeOf
<1>15. ASSUME Next PROVE DataInv'
    <2>1. PICK p \in Tasks :
              \/ \E e \in Entities : CallInsert(p, e) \/ CallPurge(p, e) \/ CallExists(p, e)
              \/ Step(p) \/ StoreFails(p) \/ DropQueued(p) \/ DropWorking(p)
        BY <1>15 DEF Next
    <2>2. CASE Step(p)
        BY <1>3, <1>4, <1>6, <1>7, <1>8, <1>9, <1>11, <2>2 DEF Step
    <2> QED
        BY <1>2, <1>10, <1>12, <1>13, <2>1, <2>2
<1> QED
    BY <1>14, <1>15

---------------------------------------------------------------------------
(* The inductive invariant, and what it gives.                             *)

Inv == Typed /\ LockInv /\ DataInv

LEMMA Invariance == Spec => []Inv
<1>1. Init => Inv
    BY TypedInit, LockInvInit, DataInvInit DEF Inv
<1>2. Inv /\ [Next]_vars => Inv'
    BY TypedNext, LockInvNext, DataInvNext DEF Inv
<1> QED
    BY <1>1, <1>2, PTL DEF Spec

\* A guard of a shard is held exactly from its grant to the return.
THEOREM GuardsAlwaysMatch == Spec => []GuardsMatch
<1>1. Inv => GuardsMatch
    BY DEF Inv, LockInv
<1> QED
    BY <1>1, Invariance, PTL

\* No insertion and no other purge of a shard runs beside a purge_entity.
THEOREM PurgeIsExclusive == Spec => []PurgeExclusive
<1>1. Inv => PurgeExclusive
    BY DEF Inv, LockInv
<1> QED
    BY <1>1, Invariance, PTL

\* purge_entity deletes from the current version of its entity's rows.
THEOREM SnapshotIsFresh == Spec => []FreshSnapshot
<1>1. Inv => FreshSnapshot
    BY DEF Inv, DataInv
<1> QED
    BY <1>1, Invariance, PTL

\* When purge_entity returns Ok no shard holds a row of its entity.
THEOREM PurgeIsComplete == Spec => []PurgeLeavesNothing
<1>1. Inv => PurgeLeavesNothing
    BY DEF Inv, DataInv
<1> QED
    BY <1>1, Invariance, PTL

\* Rows are only ever in the existing table of their entity's home shard.
THEOREM RowsStayHome == Spec => []RowsAreHome
<1>1. Inv => RowsAreHome
    BY DEF Inv, DataInv
<1> QED
    BY <1>1, Invariance, PTL

\* Rows are deleted by a purge_entity of their own entity only.
THEOREM OthersKeepRows == Spec => OnlyOwnRowsDeleted
<1>1. ASSUME Inv, [Next]_vars PROVE [DeletesOwnRows]_vars
    <2>0. Typed /\ tables \in [Shards -> [Entities -> Nat]]
        BY <1>1 DEF Inv, Typed, TypeOK
    <2>1. CASE UNCHANGED vars
        BY <2>1
    <2>2. ASSUME UNCHANGED tables PROVE DeletesOwnRows
        BY <2>0, <2>2 DEF DeletesOwnRows
    <2>3. ASSUME NEW p \in Tasks, pc[p] # "idle", Store(p) PROVE DeletesOwnRows
        <3>1. \A s \in Shards, e \in Entities :
                  tables'[s][e] \in {tables[s][e], tables[s][e] + 1}
            BY <2>0, <2>3, BusyCall DEF Store
        <3> QED
            BY <2>0, <3>1 DEF DeletesOwnRows
    <2>4. ASSUME NEW p \in Tasks, DeleteRows(p) PROVE DeletesOwnRows
        <3>1. call[p] = [op |-> "purge", entity |-> call[p].entity]
            BY <2>0, <2>4, BusyCall DEF DeleteRows, Call, Typed, Places
        <3>2. pc[p] = "delete" /\ pc'[p] = "done"
            BY <2>0, <2>4 DEF DeleteRows, Goto, Typed, TypeOK
        <3>3. \A s \in Shards, e \in Entities :
                  e # call[p].entity => tables'[s][e] = tables[s][e]
            BY <2>0, <2>4, BusyCall DEF DeleteRows
        <3>4. \A s \in Shards, e \in Entities :
                  tables'[s][e] < tables[s][e] => e = call[p].entity
            BY <2>0, <3>3
        <3> QED
            BY <3>1, <3>2, <3>4 DEF DeletesOwnRows
    <2>5. ASSUME Next PROVE DeletesOwnRows
        <3>1. PICK p \in Tasks :
                  \/ \E e \in Entities : CallInsert(p, e) \/ CallPurge(p, e) \/ CallExists(p, e)
                  \/ Step(p) \/ StoreFails(p) \/ DropQueued(p) \/ DropWorking(p)
            BY <2>5 DEF Next
        <3>2. CASE \E e \in Entities : CallInsert(p, e) \/ CallPurge(p, e) \/ CallExists(p, e)
            BY <2>2, <3>2 DEF CallInsert, CallPurge, CallExists
        <3>3. CASE Grant(p) \/ ListTables(p) \/ OpenTable(p) \/ Return(p)
            BY <2>2, <3>3 DEF Grant, ListTables, OpenTable, Answer, Return
        <3>4. CASE StoreFails(p) \/ DropQueued(p) \/ DropWorking(p)
            BY <2>2, <3>4 DEF StoreFails, DropQueued, DropWorking
        <3>5. CASE AddRow(p)
            BY <2>3, <3>5 DEF AddRow
        <3>6. CASE CreateTable(p)
            BY <2>2, <2>3, <3>6 DEF CreateTable
        <3>7. CASE DeleteRows(p)
            BY <2>4, <3>7
        <3> QED
            BY <3>1, <3>2, <3>3, <3>4, <3>5, <3>6, <3>7 DEF Step
    <2> QED
        BY <1>1, <2>1, <2>5
<1>2. Inv /\ [Next]_vars => [DeletesOwnRows]_vars
    BY <1>1
<1> QED
    BY <1>2, Invariance, PTL DEF Spec, OnlyOwnRowsDeleted

---------------------------------------------------------------------------
(* What a step does to the rows, and the refinement of EntityStore.        *)

\* The rows of an entity, wherever its home is.
Stored == [e \in Entities |-> tables[Home[e]][e]]
Phases == [p \in Tasks |-> Phase(pc[p])]

LEMMA StoreAddsOne ==
    ASSUME Typed, NEW p \in Tasks, pc[p] # "idle", Store(p)
    PROVE  Stored' = [Stored EXCEPT ![call[p].entity] = @ + 1]
BY BusyCall, HomeAssumption DEF Store, Stored, HomeOf, Typed, TypeOK

LEMMA DeleteTakesAll ==
    ASSUME Typed, DataInv, NEW p \in Tasks, DeleteRows(p)
    PROVE  Stored' = [Stored EXCEPT ![call[p].entity] = 0]
<1>1. HomeOf(p) \in Shards /\ call[p].entity \in Entities
    BY BusyCall DEF DeleteRows
<1>2. Beyond(tables[HomeOf(p)][call[p].entity], snap[p]) = 0
    BY <1>1 DEF DeleteRows, Beyond, DataInv, FreshSnapshot, Typed, TypeOK
<1> QED
    BY <1>1, <1>2, HomeAssumption DEF DeleteRows, Stored, HomeOf, Typed, TypeOK

LEMMA Moves ==
    ASSUME Typed, NEW p \in Tasks, NEW l, Goto(p, l)
    PROVE  Phases' = [Phases EXCEPT ![p] = Phase(l)]
BY DEF Goto, Phases, Typed, TypeOK

\* The initial states of the sharded store are initial for the atomic store.
LEMMA InitRefines == Init => Abs!Init
BY HomeAssumption DEF Init, Abs!Init, Phase

\* Every step of the sharded store is a step of the atomic store or none.
LEMMA StepRefines ==
    Inv /\ [Next]_vars => [Abs!Next]_(Abs!vars)
<1> SUFFICES ASSUME Inv, [Next]_vars PROVE [Abs!Next]_(Abs!vars)
    OBVIOUS
<1>0. Typed /\ DataInv
    BY DEF Inv
<1> USE DEF Abs!Call, Call, Abs!Ops, Ops
<1>1. ASSUME NEW p \in Tasks, NEW c \in Call, NEW l, Phase(l) = "called", pc[p] = "idle",
             call' = [call EXCEPT ![p] = c], Goto(p, l), UNCHANGED <<tables, found>>
      PROVE  Abs!Begin(p)
    <2>1. Phases[p] = "idle" /\ Phases' = [Phases EXCEPT ![p] = "called"]
        BY <1>0, <1>1, Moves DEF Phases, Phase
    <2>2. Stored' = Stored
        BY <1>1 DEF Stored
    <2> QED
        BY <1>1, <2>1, <2>2 DEF Abs!Begin, Stored, Phases
<1>2. ASSUME NEW p \in Tasks, NEW e \in Entities,
             CallInsert(p, e) \/ CallPurge(p, e) \/ CallExists(p, e)
      PROVE  Abs!Begin(p)
    <2>1. \A o \in Ops : [op |-> o, entity |-> e] \in Call
        OBVIOUS
    <2>2. Phase("queued") = "called" /\ Phase("list") = "called"
        BY DEF Phase
    <2>3. CASE CallInsert(p, e)
        BY <1>1, <2>1, <2>2, <2>3 DEF CallInsert
    <2>4. CASE CallPurge(p, e)
        BY <1>1, <2>1, <2>2, <2>4 DEF CallPurge
    <2>5. CASE CallExists(p, e)
        BY <1>1, <2>1, <2>2, <2>5 DEF CallExists
    <2> QED
        BY <1>2, <2>3, <2>4, <2>5
\* A step that moves a task from one place before its effect to another.
<1>3. ASSUME NEW p \in Tasks, NEW l, Goto(p, l), Phase(l) = Phase(pc[p]),
             UNCHANGED <<tables, call, found>>
      PROVE  UNCHANGED Abs!vars
    <2>1. Phases' = Phases
        <3>1. Phases' = [Phases EXCEPT ![p] = Phase(l)]
            BY <1>0, <1>3, Moves
        <3>2. Phases[p] = Phase(l)
            BY <1>3 DEF Phases
        <3>3. Phases = [q \in Tasks |-> Phases[q]]
            BY DEF Phases
        <3> QED
            BY <3>1, <3>2, <3>3
    <2> QED
        BY <1>3, <2>1 DEF Abs!vars, Phases
\* A step that takes effect.
<1>4. ASSUME NEW p \in Tasks, pc[p] \in Working, Goto(p, "done"), UNCHANGED call,
             \/ call[p].op = "insert" /\ UNCHANGED found
                   /\ Stored' = [Stored EXCEPT ![call[p].entity] = @ + 1]
             \/ call[p].op = "purge" /\ UNCHANGED found
                   /\ Stored' = [Stored EXCEPT ![call[p].entity] = 0]
             \/ call[p].op = "exists" /\ Stored' = Stored
                   /\ found' = [found EXCEPT ![p] = Stored[call[p].entity] > 0]
      PROVE  Abs!Apply(p)
    <2>1. Phases[p] = "called" /\ Phases' = [Phases EXCEPT ![p] = "done"]
        BY <1>0, <1>4, Moves DEF Phases, Phase, Working
    <2> QED
        BY <1>4, <2>1 DEF Abs!Apply, Abs!Insert, Abs!Purge, Abs!Exists, Stored, Phases
<1>5. ASSUME NEW p \in Tasks, pc[p] \in Working, Goto(p, "failed"),
             UNCHANGED <<call, tables, found>>
      PROVE  Abs!Fail(p)
    <2>1. Phases[p] = "called" /\ Phases' = [Phases EXCEPT ![p] = "failed"]
        BY <1>0, <1>5, Moves DEF Phases, Phase, Working
    <2> QED
        BY <1>5, <2>1 DEF Abs!Fail, Phases
<1>6. ASSUME NEW p \in Tasks, pc[p] # "idle", Forget(p), UNCHANGED tables
      PROVE  Abs!End(p)
    <2>1. Phases[p] # "idle" /\ Phases' = [Phases EXCEPT ![p] = "idle"]
        BY <1>0, <1>6, Moves DEF Forget, Phases, Phase
    <2> QED
        BY <1>6, <2>1 DEF Abs!End, Forget, Phases
<1>7. ASSUME NEW p \in Tasks, Grant(p) PROVE UNCHANGED Abs!vars
    BY <1>3, <1>7 DEF Grant, Phase
<1>8. ASSUME NEW p \in Tasks, ListTables(p) PROVE [Abs!Next]_(Abs!vars)
    <2>1. CASE AfterList(p) = "done"
        <3>1. call[p].op \in {"purge", "exists"} /\ call[p].entity \in Entities
            BY <1>0, <1>8, <2>1, BusyCall DEF ListTables, AfterList
        <3>2. HomeOf(p) \notin created /\ HomeOf(p) \in Shards
            BY <1>0, <1>8, <2>1, BusyCall DEF ListTables, AfterList
        <3>3. tables[HomeOf(p)][call[p].entity] \in Nat
            BY <1>0, <3>1, <3>2 DEF Typed, TypeOK
        <3>4. Stored[call[p].entity] = 0
            BY <1>0, <3>1, <3>2, <3>3 DEF DataInv, RowsAreHome, HomeOf, Stored
        <3>5. Stored' = Stored /\ Stored = [Stored EXCEPT ![call[p].entity] = 0]
            BY <1>8, <3>4 DEF ListTables, Stored
        <3>6. found' = found /\ found = [found EXCEPT ![p] = Stored[call[p].entity] > 0]
            <4>1. ~(Stored[call[p].entity] > 0)
                BY <3>4
            <4>2. found \in [Tasks -> BOOLEAN] /\ ~found[p]
                BY <1>0, <1>8 DEF ListTables, Typed, TypeOK, Places
            <4>3. found[p] = (Stored[call[p].entity] > 0)
                BY <4>1, <4>2
            <4> QED
                BY <1>8, <4>2, <4>3 DEF ListTables
        <3>7. pc[p] \in Working /\ Goto(p, "done") /\ UNCHANGED call
            BY <1>8, <2>1 DEF ListTables, Working
        <3>8. Abs!Apply(p)
            BY <1>4, <3>1, <3>5, <3>6, <3>7
        <3> QED
            BY <3>8 DEF Abs!Next
    <2>2. CASE AfterList(p) # "done"
        <3>1. Phase(AfterList(p)) = "called" /\ Phase(pc[p]) = "called"
            BY <1>8, <2>2 DEF ListTables, AfterList, Phase
        <3> QED
            BY <1>3, <1>8, <3>1 DEF ListTables
    <2> QED
        BY <2>1, <2>2
<1>9. ASSUME NEW p \in Tasks, AddRow(p) PROVE Abs!Apply(p)
    <2>1. pc[p] \in Working /\ pc[p] # "idle" /\ call[p].op = "insert"
        BY <1>0, <1>9 DEF AddRow, Working, Typed, Places
    <2>2. Stored' = [Stored EXCEPT ![call[p].entity] = @ + 1]
        BY <1>0, <1>9, <2>1, StoreAddsOne DEF AddRow
    <2> QED
        BY <1>4, <1>9, <2>1, <2>2 DEF AddRow
<1>10. ASSUME NEW p \in Tasks, CreateTable(p) PROVE Abs!Apply(p) \/ Abs!Fail(p)
    <2>1. pc[p] \in Working /\ pc[p] # "idle" /\ call[p].op = "insert"
        BY <1>0, <1>10 DEF CreateTable, Working, Typed, Places
    <2>2. CASE Store(p) /\ Goto(p, "done")
        <3>1. Stored' = [Stored EXCEPT ![call[p].entity] = @ + 1]
            BY <1>0, <2>1, <2>2, StoreAddsOne
        <3> QED
            BY <1>4, <1>10, <2>1, <2>2, <3>1 DEF CreateTable
    <2>3. CASE Goto(p, "failed") /\ UNCHANGED <<created, tables>>
        BY <1>5, <1>10, <2>1, <2>3 DEF CreateTable
    <2> QED
        BY <1>10, <2>2, <2>3 DEF CreateTable
<1>11. ASSUME NEW p \in Tasks, OpenTable(p) PROVE [Abs!Next]_(Abs!vars)
    <2>1. pc[p] \in Working /\ call[p].entity \in Entities
        BY <1>0, <1>11, BusyCall DEF OpenTable, Answer, Working
    <2>2. CASE call[p].op = "purge" /\ Goto(p, "delete") /\ UNCHANGED found
        BY <1>3, <1>11, <2>2 DEF OpenTable, Answer, Phase
    <2>3. CASE /\ call[p].op = "exists" /\ Goto(p, "done")
               /\ found' = [found EXCEPT ![p] = tables[HomeOf(p)][call[p].entity] > 0]
        <3>1. Stored' = Stored /\ Stored[call[p].entity] = tables[HomeOf(p)][call[p].entity]
            BY <1>11, <2>1 DEF OpenTable, Answer, Stored, HomeOf
        <3>2. Abs!Apply(p)
            BY <1>4, <1>11, <2>1, <2>3, <3>1 DEF OpenTable, Answer
        <3> QED
            BY <3>2 DEF Abs!Next
    <2> QED
        BY <1>11, <2>2, <2>3 DEF OpenTable, Answer
<1>12. ASSUME NEW p \in Tasks, DeleteRows(p) PROVE Abs!Apply(p)
    <2>1. pc[p] \in Working /\ call[p].op = "purge"
        BY <1>0, <1>12 DEF DeleteRows, Working, Typed, Places
    <2> QED
        BY <1>0, <1>4, <1>12, <2>1, DeleteTakesAll DEF DeleteRows
<1>13. ASSUME NEW p \in Tasks, StoreFails(p) PROVE Abs!Fail(p)
    BY <1>5, <1>13 DEF StoreFails
<1>14. ASSUME NEW p \in Tasks, Return(p) \/ DropQueued(p) \/ DropWorking(p)
       PROVE  Abs!End(p)
    <2>1. CASE Return(p)
        BY <1>6, <2>1 DEF Return
    <2>2. CASE DropQueued(p)
        BY <1>6, <2>2 DEF DropQueued
    <2>3. CASE DropWorking(p)
        BY <1>6, <2>3 DEF DropWorking, Working
    <2> QED
        BY <1>14, <2>1, <2>2, <2>3
<1>15. CASE UNCHANGED vars
    BY <1>15 DEF vars, Abs!vars
<1>16. ASSUME Next PROVE [Abs!Next]_(Abs!vars)
    <2>1. PICK p \in Tasks :
              \/ \E e \in Entities : CallInsert(p, e) \/ CallPurge(p, e) \/ CallExists(p, e)
              \/ Step(p) \/ StoreFails(p) \/ DropQueued(p) \/ DropWorking(p)
        BY <1>16 DEF Next
    <2>2. CASE Step(p)
        BY <1>7, <1>8, <1>9, <1>10, <1>11, <1>12, <1>14, <2>2 DEF Step, Abs!Next
    <2>3. CASE StoreFails(p) \/ DropQueued(p) \/ DropWorking(p)
        BY <1>13, <1>14, <2>3 DEF Abs!Next
    <2>4. CASE \E e \in Entities : CallInsert(p, e) \/ CallPurge(p, e) \/ CallExists(p, e)
        BY <1>2, <2>4 DEF Abs!Next
    <2> QED
        BY <2>1, <2>2, <2>3, <2>4
<1> QED
    BY <1>15, <1>16

\* insert_vector, purge_entity and entity_exists are linearizable: the sharded
\* store with its locks and its LanceDB calls implements EntityStore.
THEOREM StoreIsLinearizable == Spec => Linearizable
<1>1. Init => Abs!Init
    BY InitRefines
<1>2. Inv /\ [Next]_vars => [Abs!Next]_(Abs!vars)
    BY StepRefines
<1> QED
    BY <1>1, <1>2, Invariance, PTL DEF Spec, Linearizable, Abs!Spec

---------------------------------------------------------------------------
(* The queue: nobody is overtaken and nobody waits for nothing, which is   *)
(* what the liveness of the calls rests on.                                *)

\* Who is in a queue, who is before whom, and whether each is there once.
In(q) == {q[i] : i \in DOMAIN q}
Precedes(a, b, q) == \E i, j \in DOMAIN q : i < j /\ q[i] = a /\ q[j] = b
Once(q) == \A i, j \in DOMAIN q : q[i] = q[j] => i = j
Without(q, i) == SubSeq(q, 1, i - 1) \o SubSeq(q, i + 1, Len(q))

\* What is at each place once place i is empty.
LEMMA Closing ==
    ASSUME NEW q \in Seq(Tasks), NEW i \in 1 .. Len(q)
    PROVE  /\ Without(q, i) \in Seq(Tasks) /\ Len(Without(q, i)) = Len(q) - 1
           /\ \A j \in 1 .. Len(q) - 1 :
                 Without(q, i)[j] = IF j < i THEN q[j] ELSE q[j + 1]
<1> DEFINE a == SubSeq(q, 1, i - 1)
           b == SubSeq(q, i + 1, Len(q))
<1>1. Len(q) \in Nat /\ i \in Nat /\ i - 1 \in Int /\ \A j \in 1 .. Len(q) : q[j] \in Tasks
    OBVIOUS
<1>2. a \in Seq(Tasks) /\ Len(a) = i - 1 /\ \A j \in 1 .. i - 1 : a[j] = q[j]
    <2>1. \A j \in 1 .. i - 1 : q[j] \in Tasks
        BY <1>1
    <2>2. /\ a \in Seq(Tasks)
          /\ Len(a) = IF 1 <= i - 1 THEN i - 1 - 1 + 1 ELSE 0
          /\ \A j \in 1 .. i - 1 - 1 + 1 : a[j] = q[1 + j - 1]
        <3> HIDE DEF a
        <3> QED  BY <1>1, <2>1, SubSeqProperties DEF a
    <2> QED  BY <1>1, <2>2
<1>3. b \in Seq(Tasks) /\ Len(b) = Len(q) - i /\ \A j \in 1 .. Len(q) - i : b[j] = q[i + j]
    <2>1. \A j \in i + 1 .. Len(q) : q[j] \in Tasks
        BY <1>1
    <2>2. /\ b \in Seq(Tasks)
          /\ Len(b) = IF i + 1 <= Len(q) THEN Len(q) - (i + 1) + 1 ELSE 0
          /\ \A j \in 1 .. Len(q) - (i + 1) + 1 : b[j] = q[i + 1 + j - 1]
        <3> HIDE DEF b
        <3> QED  BY <1>1, <2>1, SubSeqProperties DEF b
    <2> QED  BY <1>1, <2>2
<1> HIDE DEF a, b
<1>4. /\ a \o b \in Seq(Tasks) /\ Len(a \o b) = Len(a) + Len(b)
      /\ \A j \in 1 .. Len(a) + Len(b) :
            (a \o b)[j] = IF j <= Len(a) THEN a[j] ELSE b[j - Len(a)]
    BY <1>2, <1>3, ConcatProperties
<1>5. Without(q, i) = a \o b
    BY DEF Without, a, b
<1> DEFINE r == a \o b
<1> HIDE DEF r
<1>6. /\ r \in Seq(Tasks) /\ Len(r) = Len(q) - 1
      /\ \A j \in 1 .. Len(q) - 1 : r[j] = IF j < i THEN a[j] ELSE b[j - (i - 1)]
    BY <1>1, <1>2, <1>3, <1>4 DEF r
<1>7. ASSUME NEW j \in 1 .. Len(q) - 1 PROVE r[j] = IF j < i THEN q[j] ELSE q[j + 1]
    <2>1. CASE j < i
        <3>1. j \in 1 .. i - 1
            BY <1>1, <2>1
        <3> QED  BY <1>2, <1>6, <2>1, <3>1
    <2>2. CASE ~(j < i)
        <3>1. j - (i - 1) \in 1 .. Len(q) - i /\ i + (j - (i - 1)) = j + 1
            BY <1>1, <2>2
        <3> QED  BY <1>3, <1>6, <2>2, <3>1
    <2> QED  BY <2>1, <2>2
<1> QED  BY <1>5, <1>6, <1>7 DEF r

\* One who goes: the others stay in their order.
LEMMA OneGoes ==
    ASSUME NEW q \in Seq(Tasks), NEW i \in 1 .. Len(q), NEW r, r = Without(q, i)
    PROVE  /\ \A a, b : Precedes(a, b, r) => Precedes(a, b, q)
           /\ Once(q) => Once(r) /\ In(r) = In(q) \ {q[i]}
<1> DEFINE Old(j) == IF j < i THEN j ELSE j + 1
<1>1. /\ Len(q) \in Nat /\ i \in Nat /\ DOMAIN q = 1 .. Len(q)
      /\ r \in Seq(Tasks) /\ Len(r) = Len(q) - 1 /\ DOMAIN r = 1 .. Len(q) - 1
    BY Closing
<1>2. \A j \in DOMAIN r : /\ j \in Nat
                          /\ Old(j) \in DOMAIN q /\ Old(j) # i
                          /\ r[j] = q[Old(j)]
    <2>1. \A j \in 1 .. Len(q) - 1 : r[j] = IF j < i THEN q[j] ELSE q[j + 1]
        BY Closing
    <2>2. ASSUME NEW j \in 1 .. Len(q) - 1
          PROVE  j \in Nat /\ Old(j) \in 1 .. Len(q) /\ Old(j) # i
        BY <1>1
    <2> QED  BY <1>1, <2>1, <2>2
<1>3. \A j, k \in DOMAIN r : /\ j < k => Old(j) < Old(k)
                             /\ Old(j) = Old(k) => j = k
    BY <1>1
<1>4. ASSUME NEW j \in DOMAIN q, j # i PROVE \E k \in DOMAIN r : Old(k) = j
    <2>1. CASE j < i
        <3>1. j \in DOMAIN r /\ Old(j) = j
            BY <1>1, <2>1
        <3> QED  BY <3>1
    <2>2. CASE ~(j < i)
        <3>1. j - 1 \in DOMAIN r /\ Old(j - 1) = j
            BY <1>1, <1>4, <2>2
        <3> QED  BY <3>1
    <2> QED  BY <2>1, <2>2
<1> HIDE DEF Old
<1>5. ASSUME NEW a, NEW b, Precedes(a, b, r) PROVE Precedes(a, b, q)
    <2>1. PICK j, k \in DOMAIN r : j < k /\ r[j] = a /\ r[k] = b
        BY <1>5 DEF Precedes
    <2>2. /\ Old(j) \in DOMAIN q /\ Old(k) \in DOMAIN q /\ Old(j) < Old(k)
          /\ q[Old(j)] = a /\ q[Old(k)] = b
        BY <1>2, <1>3, <2>1
    <2> QED  BY <2>2 DEF Precedes
<1>6. ASSUME Once(q) PROVE Once(r) /\ In(r) = In(q) \ {q[i]}
    <2>1. Once(r)
        BY <1>2, <1>3, <1>6 DEF Once
    <2>2. ASSUME NEW j \in DOMAIN r PROVE r[j] \in In(q) \ {q[i]}
        <3>1. Old(j) \in DOMAIN q /\ Old(j) # i /\ r[j] = q[Old(j)] /\ i \in DOMAIN q
            BY <1>1, <1>2
        <3> QED  BY <1>6, <3>1 DEF Once, In
    <2>3. ASSUME NEW j \in DOMAIN q, q[j] # q[i] PROVE q[j] \in In(r)
        <3>1. PICK k \in DOMAIN r : Old(k) = j
            BY <1>4, <2>3
        <3> QED  BY <1>2, <3>1 DEF In
    <2> QED  BY <2>1, <2>2, <2>3 DEF In
<1> QED  BY <1>5, <1>6

\* One who comes is the last.
LEMMA OneComes ==
    ASSUME NEW q \in Seq(Tasks), NEW p \in Tasks, NEW r, r = Append(q, p)
    PROVE  /\ \A a, b : Precedes(a, b, r) => b = p \/ Precedes(a, b, q)
           /\ In(r) = In(q) \cup {p}
           /\ Once(q) /\ p \notin In(q) => Once(r)
<1>1. /\ Len(q) \in Nat /\ DOMAIN q = 1 .. Len(q) /\ DOMAIN r = 1 .. Len(q) + 1
      /\ \A j \in 1 .. Len(q) : r[j] = q[j]
      /\ r[Len(q) + 1] = p
    BY AppendProperties
<1>2. \A j \in DOMAIN r : j \in Nat /\ (j \in DOMAIN q \/ j = Len(q) + 1)
    BY <1>1
<1>3. ASSUME NEW a, NEW b, Precedes(a, b, r), b # p PROVE Precedes(a, b, q)
    <2>1. PICK j, k \in DOMAIN r : j < k /\ r[j] = a /\ r[k] = b
        BY <1>3 DEF Precedes
    <2>2. k \in DOMAIN q
        BY <1>1, <1>2, <1>3, <2>1
    <2>3. j \in DOMAIN q
        BY <1>1, <2>1, <2>2
    <2> QED  BY <1>1, <2>1, <2>2, <2>3 DEF Precedes
<1>4. In(r) = In(q) \cup {p}
    <2>1. \A j \in DOMAIN r : r[j] \in In(q) \cup {p}
        BY <1>1, <1>2 DEF In
    <2>2. \A j \in DOMAIN q : j \in DOMAIN r /\ q[j] = r[j]
        BY <1>1
    <2>3. Len(q) + 1 \in DOMAIN r
        BY <1>1
    <2> QED  BY <1>1, <2>1, <2>2, <2>3 DEF In
<1>5. ASSUME Once(q), p \notin In(q) PROVE Once(r)
    <2>1. \A j \in DOMAIN q : r[j] = q[j] /\ q[j] # p
        BY <1>1, <1>5 DEF In
    <2> QED  BY <1>1, <1>2, <1>5, <2>1 DEF Once
<1> QED  BY <1>3, <1>4, <1>5

Waits(p) == pc[p] = "queued"

\* Who is before p in the queue of its shard.
Ahead(p) == {q \in Tasks : Precedes(q, p, queue[HomeOf(p)])}

\* While a task waits, nobody gets before it, and a guard of its shard is given to no
\* one but those who are.
Granted(q) == pc[q] = "queued" /\ pc'[q] = "list"
InTurn ==
    \A p \in Tasks : Waits(p) /\ Waits(p)' =>
        /\ Ahead(p)' \subseteq Ahead(p)
        /\ \A q \in Tasks : Granted(q) /\ HomeOf(q) = HomeOf(p) => q \in Ahead(p)
ServedInTurn == [][InTurn]_vars

\* A step of Step(q) is possible: q is at the head of the queue and compatible with the
\* holders, or past its guard, where no step has to wait for another task.
CanStep(q) ==
    \/ /\ Waits(q) /\ queue[HomeOf(q)] # <<>>
       /\ Head(queue[HomeOf(q)]) = q /\ Compatible(q)
    \/ pc[q] \in Guarded /\ (pc[q] = "open" => call[q].op \in {"purge", "exists"})

\* A task that waits can go on, or waits for one that can.
NobodyStuck ==
    \A p \in Tasks : Waits(p) =>
        CanStep(p) \/ \E q \in holders[HomeOf(p)] \cup Ahead(p) : CanStep(q)

WaitingAt(s) == {p \in Tasks : pc[p] = "queued" /\ HomeOf(p) = s}

\* The queue of a shard holds the tasks that wait for its lock, each of them once.
QueuesMatch ==
    \A s \in Shards : In(queue[s]) = WaitingAt(s) /\ Once(queue[s])

\* Task p comes to the end of the queue ...
Comes(p) ==
    /\ pc[p] = "idle" /\ pc' = [pc EXCEPT ![p] = "queued"]
    /\ call' = [call EXCEPT ![p] = call'[p]]
    /\ HomeOf(p)' \in Shards
    /\ queue' = [queue EXCEPT ![HomeOf(p)'] = Append(@, p)]

\* ... goes from place i of it ...
Goes(p, i) ==
    /\ Waits(p) /\ HomeOf(p) \in Shards
    /\ pc' = [pc EXCEPT ![p] = pc'[p]] /\ pc'[p] # "queued"
    /\ \A q \in Tasks \ {p} : call'[q] = call[q]
    /\ queue[HomeOf(p)][i] = p
    /\ queue' = [queue EXCEPT ![HomeOf(p)] = Without(@, i)]

\* ... or the queues are left alone.
Stays ==
    /\ UNCHANGED queue
    /\ \A p \in Tasks : pc'[p] = "queued" <=> pc[p] = "queued"
    /\ \A p \in Tasks : pc[p] = "queued" => call'[p] = call[p]

LEMMA TailIsClosing ==
    ASSUME NEW q \in Seq(Tasks), q # <<>>
    PROVE  Tail(q) = Without(q, 1)
<1>1. Len(q) \in Nat \ {0} /\ 1 \in 1 .. Len(q)
    BY EmptySeq
<1>2. Tail(q) \in Seq(Tasks) /\ Len(Tail(q)) = Len(q) - 1
      /\ \A j \in 1 .. Len(q) - 1 : Tail(q)[j] = q[j + 1]
    BY <1>1, HeadTailProperties
<1>3. /\ Without(q, 1) \in Seq(Tasks) /\ Len(Without(q, 1)) = Len(q) - 1
      /\ \A j \in 1 .. Len(q) - 1 :
            Without(q, 1)[j] = IF j < 1 THEN q[j] ELSE q[j + 1]
    BY <1>1, Closing
<1>4. \A j \in 1 .. Len(q) - 1 : Without(q, 1)[j] = Tail(q)[j]
    BY <1>1, <1>2, <1>3
<1> QED  BY <1>2, <1>3, <1>4, SeqEqual

LEMMA QueueStep ==
    ASSUME Typed, [Next]_vars
    PROVE  Stays \/ \E p \in Tasks : Comes(p) \/ \E i \in DOMAIN queue[HomeOf(p)] : Goes(p, i)
<1> USE DEF Typed, TypeOK, Goto, Waits, Forget
<1>1. ASSUME NEW p \in Tasks, NEW e \in Entities, CallInsert(p, e) \/ CallPurge(p, e)
      PROVE  Comes(p)
    BY <1>1, HomeAssumption DEF CallInsert, CallPurge, Enqueue, Comes, HomeOf
<1>2. ASSUME NEW p \in Tasks, NEW e \in Entities, CallExists(p, e) PROVE Stays
    BY <1>2 DEF CallExists, Stays
<1>3. ASSUME NEW p \in Tasks, Works(p), UNCHANGED queue PROVE Stays
    <2>1. pc[p] # "queued" /\ pc'[p] # "queued" /\ call' = call
        BY <1>3 DEF Works, Working, Guarded
    <2>2. \A q \in Tasks \ {p} : pc'[q] = pc[q]
        BY <1>3 DEF Works
    <2> QED  BY <1>3, <2>1, <2>2 DEF Stays
<1>4. ASSUME NEW p \in Tasks, Leaves(p), UNCHANGED queue PROVE Stays
    <2>1. pc[p] # "queued" /\ pc'[p] # "queued"
        BY <1>4 DEF Leaves, Working, Guarded
    <2>2. \A q \in Tasks \ {p} : pc'[q] = pc[q] /\ call'[q] = call[q]
        BY <1>4 DEF Leaves
    <2> QED  BY <1>4, <2>1, <2>2 DEF Stays
<1>5. ASSUME NEW p \in Tasks, Grant(p)
      PROVE  \E i \in DOMAIN queue[HomeOf(p)] : Goes(p, i)
    <2>1. HomeOf(p) \in Shards /\ queue[HomeOf(p)] \in Seq(Tasks) /\ queue[HomeOf(p)] # <<>>
        BY <1>5, BusyCall DEF Grant
    <2>2. 1 \in DOMAIN queue[HomeOf(p)] /\ queue[HomeOf(p)][1] = p
        BY <1>5, <2>1 DEF Grant
    <2>3. Tail(queue[HomeOf(p)]) = Without(queue[HomeOf(p)], 1)
        BY <2>1, TailIsClosing
    <2>4. Goes(p, 1)
        BY <1>5, <2>1, <2>2, <2>3 DEF Grant, Goes
    <2> QED  BY <2>2, <2>4
<1>6. ASSUME NEW p \in Tasks, DropQueued(p)
      PROVE  \E i \in DOMAIN queue[HomeOf(p)] : Goes(p, i)
    <2>1. HomeOf(p) \in Shards
        BY <1>6, BusyCall DEF DropQueued
    <2> QED  BY <1>6, <2>1 DEF DropQueued, Goes, Without
<1>7. CASE UNCHANGED vars
    BY <1>7 DEF vars, Stays
<1>8. CASE Next
    <2>1. PICK p \in Tasks :
              \/ \E e \in Entities : CallInsert(p, e) \/ CallPurge(p, e) \/ CallExists(p, e)
              \/ Step(p) \/ StoreFails(p) \/ DropQueued(p) \/ DropWorking(p)
        BY <1>8 DEF Next
    <2>2. CASE ListTables(p) \/ AddRow(p) \/ CreateTable(p) \/ OpenTable(p) \/ DeleteRows(p)
                   \/ StoreFails(p)
        <3>1. Works(p)
            BY <2>2, Shapes
        <3>2. UNCHANGED queue
            BY <2>2 DEF ListTables, AddRow, CreateTable, OpenTable, DeleteRows, StoreFails
        <3> QED  BY <1>3, <3>1, <3>2
    <2>3. CASE Return(p) \/ DropWorking(p)
        <3>1. Leaves(p)
            BY <2>3, Shapes
        <3> QED  BY <1>4, <2>3, <3>1 DEF Return, DropWorking
    <2> QED  BY <1>1, <1>2, <1>5, <1>6, <2>1, <2>2, <2>3 DEF Step
<1> QED  BY <1>7, <1>8

\* A guard goes to the head of the queue.
LEMMA Granting ==
    ASSUME Typed, [Next]_vars, NEW q \in Tasks, pc[q] = "queued", pc'[q] = "list"
    PROVE  queue[HomeOf(q)] # <<>> /\ Head(queue[HomeOf(q)]) = q
<1> USE DEF Typed, TypeOK, Goto
<1>1. PICK p \in Tasks :
          \/ \E e \in Entities : CallInsert(p, e) \/ CallPurge(p, e) \/ CallExists(p, e)
          \/ Step(p) \/ StoreFails(p) \/ DropQueued(p) \/ DropWorking(p)
    BY DEF Next, vars
<1>2. \A l : Goto(p, l) => pc'[q] = IF q = p THEN l ELSE pc[q]
    OBVIOUS
<1>3. CASE Grant(p)
    BY <1>2, <1>3 DEF Grant
<1>4. CASE \E e \in Entities : CallInsert(p, e) \/ CallPurge(p, e) \/ CallExists(p, e)
    BY <1>4 DEF CallInsert, CallPurge, CallExists
<1>5. CASE \/ ListTables(p) \/ AddRow(p) \/ CreateTable(p) \/ OpenTable(p)
           \/ DeleteRows(p) \/ StoreFails(p)
    <2>1. Works(p)
        BY <1>5, Shapes
    <2> QED  BY <2>1 DEF Works, Working
<1>6. CASE Return(p) \/ DropWorking(p)
    <2>1. Leaves(p)
        BY <1>6, Shapes
    <2> QED  BY <2>1 DEF Leaves
<1>7. CASE DropQueued(p)
    BY <1>7 DEF DropQueued, Forget
<1> QED  BY <1>1, <1>3, <1>4, <1>5, <1>6, <1>7 DEF Step

LEMMA QueuesMatchInit == Init => QueuesMatch
BY DEF Init, QueuesMatch, WaitingAt, In, Once

\* A task that calls is in no queue, so nobody is in a queue twice.
LEMMA QueuesMatchNext == Typed /\ QueuesMatch /\ [Next]_vars => QueuesMatch'
<1> SUFFICES ASSUME Typed, QueuesMatch, [Next]_vars PROVE QueuesMatch'
    OBVIOUS
<1>0. \A s \in Shards : /\ queue[s] \in Seq(Tasks)
                        /\ DOMAIN queue[s] = 1 .. Len(queue[s])
                        /\ In(queue[s]) = WaitingAt(s) /\ Once(queue[s])
    BY DEF Typed, TypeOK, QueuesMatch
<1> SUFFICES ASSUME NEW s \in Shards PROVE In(queue'[s]) = WaitingAt(s)' /\ Once(queue'[s])
    BY DEF QueuesMatch
<1>1. CASE Stays
    <2>1. \A p \in Tasks : pc[p] = "queued" => HomeOf(p)' = HomeOf(p)
        BY <1>1 DEF Stays, HomeOf
    <2>2. WaitingAt(s)' = WaitingAt(s)
        BY <1>1, <2>1 DEF Stays, WaitingAt
    <2> QED  BY <1>0, <1>1, <2>2 DEF Stays
<1>2. ASSUME NEW p \in Tasks, Comes(p) PROVE In(queue'[s]) = WaitingAt(s)' /\ Once(queue'[s])
    <2>1. /\ pc'[p] = "queued" /\ pc[p] # "queued"
          /\ \A q \in Tasks \ {p} : pc'[q] = pc[q] /\ HomeOf(q)' = HomeOf(q)
        BY <1>2 DEF Comes, Typed, TypeOK, HomeOf
    <2>2. CASE s = HomeOf(p)'
        <3>1. queue'[s] = Append(queue[s], p)
            BY <1>2, <2>2 DEF Comes, Typed, TypeOK
        <3>2. p \notin In(queue[s])
            BY <1>0, <2>1 DEF WaitingAt
        <3>3. WaitingAt(s)' = WaitingAt(s) \cup {p}
            BY <2>1, <2>2 DEF WaitingAt
        <3>4. /\ In(queue'[s]) = In(queue[s]) \cup {p}
              /\ Once(queue'[s])
            BY <1>0, <3>1, <3>2, OneComes
        <3> QED  BY <1>0, <3>3, <3>4
    <2>3. CASE s # HomeOf(p)'
        <3>1. queue'[s] = queue[s]
            BY <1>2, <2>3 DEF Comes, Typed, TypeOK
        <3>2. WaitingAt(s)' = WaitingAt(s)
            BY <2>1, <2>3 DEF WaitingAt
        <3> QED  BY <1>0, <3>1, <3>2
    <2> QED  BY <2>2, <2>3
<1>3. ASSUME NEW p \in Tasks, NEW i \in DOMAIN queue[HomeOf(p)], Goes(p, i)
      PROVE  In(queue'[s]) = WaitingAt(s)' /\ Once(queue'[s])
    <2>1. /\ pc[p] = "queued" /\ pc'[p] # "queued"
          /\ \A q \in Tasks \ {p} : pc'[q] = pc[q] /\ HomeOf(q)' = HomeOf(q)
        BY <1>3 DEF Goes, Typed, TypeOK, Waits, HomeOf
    <2>2. CASE s = HomeOf(p)
        <3>1. /\ queue'[s] = Without(queue[s], i) /\ queue[s][i] = p
              /\ i \in 1 .. Len(queue[s])
            BY <1>0, <1>3, <2>2 DEF Goes, Typed, TypeOK
        <3>2. WaitingAt(s)' = WaitingAt(s) \ {p}
            BY <2>1 DEF WaitingAt
        <3> QED  BY <1>0, <3>1, <3>2, OneGoes
    <2>3. CASE s # HomeOf(p)
        <3>1. queue'[s] = queue[s]
            BY <1>3, <2>3 DEF Goes, Typed, TypeOK
        <3>2. WaitingAt(s)' = WaitingAt(s)
            BY <2>1, <2>3 DEF WaitingAt
        <3> QED  BY <1>0, <3>1, <3>2
    <2> QED  BY <2>2, <2>3
<1> QED  BY <1>1, <1>2, <1>3, QueueStep

LEMMA QueueInvariance == Spec => [](Inv /\ QueuesMatch)
<1>1. Init => QueuesMatch
    BY QueuesMatchInit
<1>2. Inv /\ QueuesMatch /\ [Next]_vars => QueuesMatch'
    BY QueuesMatchNext DEF Inv
<1> QED  BY <1>1, <1>2, Invariance, PTL DEF Spec

\* No step moves a task that waits behind another one or gives a guard of its shard to a
\* task that came later, dropped futures included.
THEOREM WaitersAreServedInTurn == Spec => ServedInTurn
<1>1. ASSUME Typed, QueuesMatch, [Next]_vars PROVE InTurn
    <2> SUFFICES ASSUME NEW p \in Tasks, Waits(p), Waits(p)', NEW q \in Tasks
                 PROVE  /\ q \in Ahead(p)' => q \in Ahead(p)
                        /\ Granted(q) /\ HomeOf(q) = HomeOf(p) => q \in Ahead(p)
        BY DEF InTurn, Ahead
    <2>0. /\ HomeOf(p) \in Shards /\ queue[HomeOf(p)] \in Seq(Tasks)
          /\ Len(queue[HomeOf(p)]) \in Nat
          /\ DOMAIN queue[HomeOf(p)] = 1 .. Len(queue[HomeOf(p)])
        BY <1>1, BusyCall DEF Waits, Typed, TypeOK
    <2>1. HomeOf(p)' = HomeOf(p) /\ (Precedes(q, p, queue[HomeOf(p)])'
                                        => Precedes(q, p, queue[HomeOf(p)]))
        <3>1. CASE Stays
            BY <3>1 DEF Stays, Waits, HomeOf, Precedes
        <3>2. ASSUME NEW r \in Tasks, Comes(r)
              PROVE  HomeOf(p)' = HomeOf(p) /\ (Precedes(q, p, queue'[HomeOf(p)])
                                                   => Precedes(q, p, queue[HomeOf(p)]))
            <4>1. r # p /\ HomeOf(p)' = HomeOf(p)
                BY <1>1, <3>2 DEF Comes, Waits, HomeOf, Typed, TypeOK
            <4>2. \/ queue'[HomeOf(p)] = queue[HomeOf(p)]
                  \/ queue'[HomeOf(p)] = Append(queue[HomeOf(p)], r)
                BY <1>1, <2>0, <3>2 DEF Comes, Typed, TypeOK
            <4> QED  BY <2>0, <4>1, <4>2, OneComes
        <3>3. ASSUME NEW r \in Tasks, NEW i \in DOMAIN queue[HomeOf(r)], Goes(r, i)
              PROVE  HomeOf(p)' = HomeOf(p) /\ (Precedes(q, p, queue'[HomeOf(p)])
                                                   => Precedes(q, p, queue[HomeOf(p)]))
            <4>1. HomeOf(p)' = HomeOf(p)
                BY <1>1, <3>3 DEF Goes, Waits, HomeOf, Typed, TypeOK
            <4>2. CASE HomeOf(r) = HomeOf(p)
                <5>1. /\ queue'[HomeOf(p)] = Without(queue[HomeOf(p)], i)
                      /\ i \in 1 .. Len(queue[HomeOf(p)])
                    BY <1>1, <2>0, <3>3, <4>2 DEF Goes, Typed, TypeOK
                <5> QED  BY <2>0, <4>1, <5>1, OneGoes
            <4>3. CASE HomeOf(r) # HomeOf(p)
                <5>1. queue'[HomeOf(p)] = queue[HomeOf(p)]
                    BY <1>1, <2>0, <3>3, <4>3 DEF Goes, Typed, TypeOK
                <5> QED  BY <4>1, <5>1
            <4> QED  BY <4>2, <4>3
        <3>4. HomeOf(p)' = HomeOf(p) /\ (Precedes(q, p, queue'[HomeOf(p)])
                                            => Precedes(q, p, queue[HomeOf(p)]))
              => (Precedes(q, p, queue[HomeOf(p)])' => Precedes(q, p, queue[HomeOf(p)]))
            BY DEF Precedes
        <3> QED  BY <1>1, <3>1, <3>2, <3>3, <3>4, QueueStep
    <2>2. ASSUME Granted(q), HomeOf(q) = HomeOf(p)
          PROVE  q \in Ahead(p)
        <3> DEFINE Q == queue[HomeOf(p)]
        <3>1. pc[q] = "queued" /\ pc'[q] = "list" /\ q # p
            BY <2>2 DEF Granted, Waits
        <3>2. Q # <<>> /\ Head(Q) = q
            BY <1>1, <2>2, <3>1, Granting
        <3>3. PICK j \in DOMAIN Q : Q[j] = p
            BY <1>1, <2>0 DEF QueuesMatch, WaitingAt, Waits, In
        <3>4. 1 \in DOMAIN Q /\ Q[1] = q /\ 1 < j
            BY <2>0, <3>1, <3>2, <3>3
        <3> QED  BY <3>3, <3>4 DEF Ahead, Precedes
    <2> QED  BY <2>1, <2>2 DEF Ahead
<1>2. Inv /\ QueuesMatch /\ [Next]_vars => [InTurn]_vars
    BY <1>1 DEF Inv
<1> QED  BY <1>2, QueueInvariance, PTL DEF Spec, ServedInTurn

\* A task that waits for the lock of a shard can be served, or waits for one that can go
\* on: behind a holder of the guard or behind a task before it, never for nothing.
THEOREM SomebodyCanGoOn == Spec => []NobodyStuck
<1>1. ASSUME Inv, QueuesMatch PROVE NobodyStuck
    <2> SUFFICES ASSUME NEW p \in Tasks, Waits(p)
                 PROVE  CanStep(p) \/ \E q \in holders[HomeOf(p)] \cup Ahead(p) : CanStep(q)
        BY DEF NobodyStuck
    <2> DEFINE s == HomeOf(p)
               Q == queue[s]
    <2>1. s \in Shards /\ Q \in Seq(Tasks) /\ Len(Q) \in Nat /\ DOMAIN Q = 1 .. Len(Q)
        BY <1>1, BusyCall DEF Waits, Inv, Typed, TypeOK
    <2>2. PICK j \in DOMAIN Q : Q[j] = p
        BY <1>1, <2>1 DEF QueuesMatch, WaitingAt, Waits, In
    <2>3. 1 \in DOMAIN Q /\ Q # <<>> /\ Head(Q) = Q[1] /\ Q[1] \in Tasks
        BY <2>1, <2>2
    <2>4. Waits(Q[1]) /\ HomeOf(Q[1]) = s
        BY <1>1, <2>1, <2>3 DEF QueuesMatch, WaitingAt, Waits, In
    <2>5. Q[1] = p \/ Q[1] \in Ahead(p)
        BY <2>1, <2>2, <2>3 DEF Ahead, Precedes
    <2>6. CASE Compatible(Q[1])
        <3>1. CanStep(Q[1])
            BY <2>3, <2>4, <2>6 DEF CanStep
        <3> QED  BY <2>5, <3>1
    <2>7. CASE ~Compatible(Q[1])
        <3>1. PICK q \in holders[s] : TRUE
            BY <2>4, <2>7 DEF Compatible
        <3>2. q \in Tasks /\ pc[q] \in Guarded
            BY <1>1, <2>1, <3>1 DEF Inv, LockInv, GuardsMatch, Typed, TypeOK
        <3>3. CanStep(q)
            BY <1>1, <3>2 DEF CanStep, Inv, Typed, Places
        <3> QED  BY <3>1, <3>3
    <2> QED  BY <2>6, <2>7
<1>2. Inv /\ QueuesMatch => NobodyStuck
    BY <1>1
<1> QED  BY <1>2, QueueInvariance, PTL
=============================================================================
