# The Auditable Machine Unlearning Engine in TLA+

TLA+ modules of the engine's gateway, the TLC configurations that model-check
them on small instances, and TLAPS proofs of the theorems that hold for every
value of the constants. Paths of code below are relative to the repository.

## 1. Inventory

| Component (code) | State it keeps | Operations | Interacts with |
| :-- | :-- | :-- | :-- |
| SISA shard manager (`rust_gateway/src/sisa/shard_manager.rs`) | one LanceDB table per shard, created by its first insertion; one tokio `RwLock<()>` per shard | `get_shard_id`, `insert_vector` (read guard), `purge_entity` (write guard), `entity_exists` (no guard) | called by the ingest and unlearn handlers |
| Graph client (`graph/surreal_client.rs`) | `concept` nodes, `KNOWLEDGE` edges, `entity` and `shard` nodes, `PURGED_FROM` edges, `audit_certificates` | `insert_triplet`, `purge_entity_subgraph`, `record_unlearn_relation`, `save_audit_certificate`, `get_audit_certificate`, `get_affected_shards`, `entity_exists` | called by all handlers |
| Ingest handler (`api/ingest.rs`) | its own locals | single ingest; batch (a `JoinSet` with one task per document) | ML client, shard manager, graph, event channel |
| Unlearn handler (`api/unlearn.rs`) | its own locals | single unlearn; batch (a loop over the entities) | shard manager, graph, certificates, event channel |
| Audit handler (`api/audit.rs`) | its own locals | `GET /audit/:entity/:shard` | graph, certificates |
| Certificates (`audit/merkle_proof.rs`) | the signing key of the process | `generate_certificate` | unlearn and audit handlers |
| Application state (`state.rs`) | the broadcast channel of 256 events | `subscribe`, `broadcast_event` | handlers send, WebSocket sessions receive |
| WebSocket session (`ws.rs`) | two tasks per client, a liveness flag | send, receive, ping | event channel, browser |
| ML client (`grpc_client.rs`) and ML worker (`ml_worker/`) | a lazily opened connection; loaded models | `get_embedding`, `extract_triplets` | ingest handler |
| Configuration (`config.rs`, `main.rs`) | environment variables | start-up | everything |
| Dashboard hook (`frontend/src/hooks/useWebSocket.ts`) | socket, retry timer, last event | connect, reconnect, message | WebSocket session, page |
| Dashboard page (`app/page.tsx`) | nodes, links, certificates, counters, the selected entity | `processEvent`, the forms' callbacks | hook, forms, graph, ledger |
| Forms and REST client (`components/UnlearnForm.tsx`, `lib/api.ts`) | tabs, fields, busy flags, the dialog | edit, submit, confirm, cancel | gateway, page |
| Graph (`components/GraphCanvas.tsx`) | its own copy of the nodes, particles, pointer | copy, animate, hover, drag, select | page |
| Ledger (`components/AuditLogs.tsx`) | the drawer of a verification | verify, close | gateway, page |
| Header (`components/MetricsHeader.tsx`) | a mark that a hash was copied | copy | page, whose numbers it shows |

What is hard here: handlers run concurrently and await at every call; an
unlearning is spread over two databases that share no transaction and over three
graph queries that are not transactions either; any call may fail and any client
may hang up, which drops the handler at its current await; the graph is shared
by all shards while the vector tables are not; events reach the dashboard
without any order relative to the answers of its own requests. `PROJECT.json`
lists each of these hazards at its line, with the properties that cover it.

What makes the components correct:

- *Shard manager*: a purge is isolated from the insertions of its shard, deletes
  every row of its entity and nobody else's, and a guard survives neither an
  error nor a dropped future; seen from outside it is an atomic store.
- *Graph and handlers*: what the graph and the certificates say about a purge is
  true of both stores, whatever overlapped or was reported as failed; an audit's `is_valid` is
  neither wrong nor missing. Both hold as long as no statement fails *silently*: a write whose error
  nobody looks at (`surreal_client.rs:80`), or a SELECT whose error reads as an empty result (125, 150, 205).
- *Deployment*: what edges, certificates and answers say survives a crash at any step and a
  restart with other settings; one key signs what is meant to be verified together.
- *Panels of the page*: what each panel keeps for itself (a copy of the nodes, a hovered node, a
  busy flag, a result) may be behind the page but leads to nothing that the page does not know,
  and no control is disabled for ever.
- *Event path*: every client's picture of the entities converges to the one of
  the gateway.

## 2. Modules

| Module | Models | Builds on |
| :-- | :-- | :-- |
| `EntityStore` | what the shard manager promises: a store with atomic operations | |
| `ShardStore` | `shard_manager.rs`, LanceDB call by LanceDB call, with its locks | refines `EntityStore` |
| `GraphStore` | `surreal_client.rs`, statement by statement | |
| `Gateway` | the handlers of `api/`, await by await | `GraphStore`; the vector store as `EntityStore` promises it |
| `Deployment` | the two stores and the gateway over crashes, restarts and other settings | |
| `EventFeed` | what the event path promises a browser | |
| `EventStream` | the broadcast channel of `state.rs` and the sessions of `ws.rs` | refines `EventFeed` |
| `PageState` | the state of `page.tsx`: what an event and what an answer does to it | |
| `Dashboard` | `useWebSocket.ts` and the page, with requests in flight | `EventFeed`, `PageState` |
| `UnlearnForm`, `GraphCanvas`, `AuditLogs` | the component of that name | `PageState` |
| `Console` | the page with its panels and one user | the three panels |
| `MC...` | values of the constants for TLC | |
| `ShardStoreProofs`, `GatewayProofs`, `AnswerProofs`, `DeploymentProofs`, `EventStreamProofs`, `PageProofs` (lemmas), `DashboardProofs`, `ConsoleProofs` | theorems | |

The modules form a chain of promises: `ShardStore` implements `EntityStore`, which `Gateway`
uses as its vector store; `EventStream` implements `EventFeed`, which `Dashboard` uses as its
socket's other end. Both refinements are proved.

### ShardStore

One *task* is a tokio task that calls the manager. `tables[s][e]` counts the rows
of entity `e` in the table of shard `s`; vectors, texts and Arrow batches are
abstracted (nothing in the manager depends on them). `Home` is `get_shard_id`:
any function from entities to shards, since `DefaultHasher` is one.

| Action | Code |
| :-- | :-- |
| `CallInsert`, `CallPurge`, `CallExists` | entry of the operation; asks for the lock |
| `Grant` | `lock.read().await`, `lock.write().await`: tokio's lock is a fair queue, so only its head is served, if compatible with the holders |
| `ListTables` | `table_names()` and the choice that follows; a purge of a missing table returns early |
| `AddRow`, `CreateTable` | the two ways an insertion stores its row; `create_table` fails when the table has appeared since |
| `OpenTable`, `DeleteRows` | `open_table` gives a version; `delete` removes the rows of the entity that version has |
| `StoreFails` | the `?` after each LanceDB call |
| `Return`, `DropQueued`, `DropWorking` | the guard is dropped with the future, whichever way it ends |

`DeleteRows` deletes from the version that was opened: that is the weakest thing
the code may rely on, and `FreshSnapshot` says the lock makes it enough.

### GraphStore and Gateway

`GraphStore` gives each SurrealQL statement an operator. A concept has *one* node,
whatever entity mentions it, and `UPSERT` overwrites its `entity_id`; deleting a
node deletes its edges, which is what SurrealDB does with the edges of a record.
`by` stands for the random id of a record and names the request that wrote it.
It exists for the properties: no guard reads it.

In `Gateway` a request arrives (`Arrive`, with the validation of its entity) and
its handler takes one action per await: `Embed`, `InsertVector`, `Extract`,
`UpsertSubject`, `UpsertObject`, `RelateTriplet`, `Announce` for ingest;
`FindInShard`, `FindInGraph`, `PurgeVectors`, `PurgeEdges`, `PurgeNodes`,
`RecordEntity`, `RecordShard`, `RecordEdge`, `Certify`, `SaveCertificate`,
`SendDeleted`, `SendAudit` for unlearn; `QueryAffected`, `LookupCertificate` for
audit. A request that ended stays in `Reqs` as history, and `preceded[r]` holds
the requests that had ended when `r` arrived: that is how a property can speak
of "documents ingested before". Two handlers may be anywhere at the same time.

The constant `Faults` chooses what may go wrong:

| Fault | Effect |
| :-- | :-- |
| `"ml"`, `"lance"`, `"graph"` | a call of that service returns an error, which the handler passes on, logs or takes for "absent", as its code does |
| `"statement"` | a single statement of a query fails, and its error is in the response. Of a write nobody looks there, so the handler goes on; of a SELECT `take(0).unwrap_or_default()` makes an empty result, so that no shard is affected (`is_valid` false), the entity is absent or no certificate was saved |
| `"cancel"` | the client hangs up: the handler ends at its await (`Drop`), or its submitted query runs to its end without it (`Detach`) |

`vectors` is a set of ingest requests and its updates are atomic: that is the
`EntityStore` interface that `ShardStore` is proved to implement.

### Deployment

The same handlers seen from further away: one request at a time, two stores that outlive the
gateway, and a gateway that dies at any step and comes back with other environment variables.
How requests overlap, and single statements, stay with `Gateway`.

| Action | Code |
| :-- | :-- |
| `Restart` | `main`, `Config::from_env` (`NUM_SISA_SHARDS`, 4 if it does not parse) and the services that `AppState` opens; any handler under way is lost |
| `BeginIngest`, `InsertVector`, `InsertTriplets` | `handle_ingest`; its row goes to the shard that the entity hashes to *now* |
| `BeginUnlearn`, `NextItem`, `ItemFails` | the loop of `handle_batch_unlearn` over its entities: the failure of one is logged and the next is tried; a single unlearning is a batch of one |
| `FindEntity`, `PurgeVectors`, `PurgeSubgraph`, `RecordPurge`, `Certify` | `handle_unlearn` for one entity |
| `SigningKey`, `Sign` | `get_signing_key`: a `OnceLock` filled from `ED25519_PRIVATE_KEY`, or from `OsRng` if there is none |
| `ShowCertificate` | the fallback of `handle_verify_audit`, which signs a certificate and saves none |

`get_shard_id` is `Hash[e] % numShards`, which panics if `NUM_SISA_SHARDS` is 0: the action that
calls it first then ends the request, a batch included. `at[d]` is the table
that holds the row of `d`, which a later purge finds only if the entity is still mapped to it.
A retry of a document is one more element of `Docs`. `tried`, `starts`, `signed`, `under` (the shard count under
which a row was stored) and the fields `known` and `count` of an edge are history: no guard
depends on what they say of the stores, except that an attempt is made once. Entities are valid identifiers and share no concepts here;
`MaxStarts` bounds the starts.

### EventStream and EventFeed

`log` is everything ever sent on `ws_sender`; an event is its position in it, so what an
event says is left out. The channel holds the last `Capacity` positions (256 in the code).
A session subscribes (`Connect`, before the handler's first await), sends CONNECTED
(`Greet`) and spawns its two tasks. `Take` is `rx.recv()`, `Forward` the
`sender.send(..).await` that waits while the socket's buffers are full, `Lag` the `Lagged`
arm, `SendFails` an error of either send (an event or the 30 s ping), `RecvEnds` the end of
the receive loop, and `Abort` the outer `select!`, which throws away what the other task
holds. A link that is `closed` tells both ends; a link that is `cut` swallows messages, the
receive task never hears of it, and only a ping that fails ends the session.

`EventFeed` is what is left of this for a browser: CONNECTED, then an increasing sequence of
positions from the subscription on. `IsFeed` is the refinement; an event counts when it
comes out of the socket (`LastSeen`). A repeated message would be a stutter of the feed, so that
none is repeated or out of order is a property of its own, `InOrder`.

### Dashboard

| Action | Code |
| :-- | :-- |
| `Submit` | `handleIngestSubmit`, `handleBatchSubmit`, `confirmAndExecuteUnlearn` up to their `await`; the button of a form is disabled until its answer, so each form has one request |
| `SendNext`, `ItemFails`, `RequestFails` | the gateway's side, reduced to the events it sends and whether it answers; an item of a batch that fails is left out of the answer |
| `OpenSocket`, `ConnectThrows` | `connect`, whose `new WebSocket` returns a socket or throws; what it throws is caught and arms no timer |
| `OnOpen`, `OnMessage`, `OnClose` | the three callbacks of the socket |
| `Process` | the effect on `lastEvent`, after React has rendered |
| `Answer` | `handleIngestSuccess` for each document, `handleUnlearnSuccess` |

A request carries the events that it makes the gateway send; its answer repeats them, as
the answers of the code do. The slot `"others"` stands for the requests of every other
client. `processed` (the positions that the effect has run on) and `refused` (`new WebSocket` has
thrown) are history. State updates by
functions (`setNodes(prev => ...)`) are atomic and keep their order, and the three of one
callback are batched into one render, so each callback is one action.

### Console and its panels

`Console` looks at the page from the other side: any event of other clients may arrive at any
time (`EventShown`), and what the panels make of the page's state is followed. Each behaviour
follows the panels of one set in `Panels`, so that TLC need not interleave those that share
nothing.

| Action | Code |
| :-- | :-- |
| `SwitchTab`, `EditDraft`, `fillSampleData`, `EditBatch`, `EditTarget` | the tabs and fields of `UnlearnForm.tsx`; the list of the unlearn tab offers `activeEntityIds` |
| `handleIngestSubmit`, `handleBatchSubmit`, `confirmAndExecuteUnlearn` | the handlers up to their `await`; the validation is their guard or early return |
| `Execute`, `Cancel`, `ModalGone` | the dialog that asks before an unlearning, and the end of its exit animation |
| `IngestAnswered`, `BatchAnswered`, `UnlearnAnswered`, `CallFails` | what follows the `await`: the page's callback, the fields, the flag |
| `Sync` | the effect on `nodes` in `GraphCanvas.tsx`: it copies statuses and spawns particles |
| `handlePointerDown`, `handlePointerMove`, `handlePointerUp` | the pointer; the last one selects `hoveredNode`, and the effect on `selectedEntityId` in the form follows in the same render |
| `handleVerifyClick`, `SettleVerification`, `CloseDrawer` | `AuditLogs.tsx` |

Two facts about libraries enter. `AnimatePresence` keeps the leaving dialog mounted as it was
last rendered, so its buttons run the handlers of that render, with the entity it shows
(`asked`). React runs an effect after it has rendered, so that the pointer can meet the old copy
of the nodes (`stale`). The dialog and the drawer cover the page; reaching what is
under them with the keyboard is left out.


## 3. Runs

| Run | Question | Instance |
| :-- | :-- | :-- |
| `shards_calls` | Do the locks isolate a purge, through errors and dropped futures; is the store linearizable; does every call end? | 3 tasks, 2 entities that share a shard, under `FairSpec` |
| `shards_race` | Can an insertion into a fresh shard fail? (finding) | 2 tasks, 2 entities, no LanceDB faults |
| `gateway_core` | Is what the graph and the audits say true, and does a purged vector stay away? | 3 overlapping requests of 6 kinds, 2 entities on 2 shards that share both concepts, one with documents of one triplet, one of two; every fault but silent statement errors |
| `gateway_audits` | Which certificate does an audit find, and what does a 404 say about the vectors? | 4 requests, 2 at a time, a clock of 2 seconds, documents without triplets, silent statement errors and failing ML calls, one entity name that validation rejects |
| `deployment` | What is still true after crashes and restarts with other settings? | 3 starts with 0, 1 or 4 shards and with or without a key in the environment; 3 attempts to ingest documents of 2 entities, one of which moves between shards, so that its rows are stranded; batches of one or two entities |
| `gateway_isolation` | Does unlearning one shard leave the others alone? (finding) | 3 requests one after another, no faults |
| `gateway_halfpurge` | Does an overlapping unlearning take a document whole? (finding) | 2 requests, no faults |
| `gateway_silent` | Is PURGED_AND_VERIFIED true? (finding) | 2 requests one after another, silent statement errors |
| `event_stream` | What may a session miss, does it deliver and end, and is it the feed? | 1 session, 6 events through a channel of 2, buffers of 2 messages |
| `dashboard_view` | What does the page show, whatever the order of events and answers? | 2 documents of one entity, the forms for batches (of one or two documents) and for unlearning, other clients, 2 connections, 3 events |
| `console` | Does a panel that is behind the page do any harm, and does every control come back, whatever events and answers come in between? | 2 documents of two entities, the sets of panels of `MCPanels` in turn, 2 requests, 2 verifications |
| `dashboard_skips` | Does the page process every event that reaches it? (finding) | 1 document, other clients only, 2 connections, 3 events |

Why the bounds are enough. A hazard of the store needs a purge and an insertion of one
shard, plus a third task that arrives before, between or after them, and two
entities in one table; both are there. More shards are left to the theorems: tasks of
different shards share nothing but the guards of their callers. A hazard of
the gateway needs an ingestion, an unlearning and one more request (a second
ingestion, of the same or of another entity; a second unlearning; an audit): all
of them overlap in `gateway_core`, where the six kinds of requests contain the
audit of a shard that is *not* the entity's. Two concepts are what one triplet
needs, and both entities mention them, so each can take over the nodes of the
other. One of them has documents of two triplets, where a purge can fall between two
rounds of the loop. Two overlapping unlearnings in different seconds and an audit, after an
ingestion, need the fourth request of `gateway_audits`. In `deployment`, three starts are what it takes for an
entity to move away from a shard and back to it, and two attempts for one of its documents are a retry;
a batch of an entity twice is one whose second item finds nothing. Six events through a
channel of two make a session lag several times over; sessions share nothing but the log,
so one is enough. Three events are an ingestion and a whole unlearning in any order, which is
what it takes for an answer to come late, and two connections let the page reconnect once with events in between.
In `console`, two requests are what a second confirmation of one dialog needs, and two
verifications under way are the overlap; two entities tell a click on one from a click on the other.
The theorems then remove the bounds for what they cover.

Bounds in guards: `MaxRows` (rows of an entity), `MaxInFlight` (requests served
together), `MaxClock` (seconds that pass), `MaxStarts` (starts of the gateway), `MaxEvents` (events ever sent), `MaxWire` (messages in a
socket's buffers, which is also where back-pressure begins), `MaxRequests` (requests the forms
send), `MaxVerifications` (verifications under way), `Typed` (what is typed as the entity to unlearn)
and `Panels`. `Sessions` and `Slots` bound the
connections and requests by being finite. The proofs hold for every value of
them. `CHECK_DEADLOCK FALSE` is in the configurations of `Gateway` because a
request is served once and the requests run out, and in those of `EventStream` and `Dashboard`
because events and connections do; `ShardStore`, `Deployment` and `Console` are checked for
deadlock. Symmetry (requests; random keys; connections, documents of one entity and audit ids) is used in safety runs only.

Fairness. `FairSpec` asks for weak fairness of `Step(p)`, the
next step of each task that has one: the tokio runtime polls every woken task, and LanceDB
answers or fails. Nothing is assumed about callers: they may never call and never hang up.
Weak fairness suffices for `Grant` because the queue is first come first
served: the head stays the head and becomes compatible once the holders leave.

In `EventStream`, `FairSpec` asks for weak fairness of what the runtime does for a session
(`Serve`), of the delivery of messages that are on their way, and separately of `SendFails` and `Abort`: a
ping is sent every 30 s and the operating system gives up retransmitting, so on a cut link one
of them fails in the end although others may be swallowed first; and `select!` is polled when a
task ends. No fairness is assumed about clients, and none of `Dashboard`.

Every property of a passing run has a mutant in `PROJECT.json`: a definition of
the model replaced by one with a plausible bug (a lock per entity instead of per
shard, a lost filter, a forgotten DELETE, an edge the wrong way round, an error
that is logged instead of returned). TLC finds each property violated
under its mutant, so none of them holds by the shape of the model.

## 4. Findings

Runs that TLC ends with a counterexample show where the code does not do what its
documentation says; `PROJECT.json` quotes the lines.

- `shards_race`: two documents of a batch that hash to the same fresh shard both see no
  table; the second `create_table` fails and the document is dropped from the batch.
- `gateway_isolation`: concept nodes belong to whoever wrote them last. Unlearning that
  entity deletes the node and, with it, knowledge of entities of other shards.
- `gateway_halfpurge`: the shard's lock covers the vectors only. An overlapping
  ingestion loses its row and keeps its triplets.
- `gateway_silent`: errors of single statements are dropped with the response, and the
  answer says PURGED_AND_VERIFIED.
- `dashboard_skips`: the page sees messages through one state, `lastEvent`. Of two that arrive
  before React has rendered it processes the second only, and an unlearning sends two back
  to back.

Three of them have a counterpart that is proved (section 5), which says that the run shows the
only way in which the promise breaks: `AnswersAreTrue` (`gateway_silent`), `OnlyOverlapsTear`
(`gateway_halfpurge`) and `OnlySharingTouches` (`gateway_isolation`).

One more promise is broken in a way that a property names instead of a run of its own.
`README.md:40` says that an unlearning deletes "All associated vectors in LanceDB matching `entity_id`", and
`shard_manager.rs:150` that `entity_exists` asks "any LanceDB SISA shard table". Both look into the one table that the
entity is mapped to under the present `NUM_SISA_SHARDS`: rows stored under another count, in another
table, stay and are certified as purged. `EdgesStayTrue` is about all tables and excepts exactly these rows (`Stranded`).
The exception occurs: in the instance of `deployment`, an ingestion with one shard, a restart with four and an
unlearning leave such a row, and without it the property fails there.

Not findings, because no document says otherwise, but seen in the same models: an entity
whose row is gone and whose nodes were taken over by another entity is answered 404 while
triplets of it are stored (`entity_exists` asks for nodes); an audit of an entity that
nobody unlearned hands out a newly signed certificate with `is_valid` false; a document that
is ingested again after its entity was unlearned stays purged on the dashboard; two
unlearnings of a shard in one second have the same `audit_id`, and the page lists the first only
(`SameSecond = TRUE` breaks `PurgedIsCertified`). Of the panels: the drawer may show the verdict of
another certificate when two verifications overlap; a second click on *Confirm & Purge* while the dialog
fades sends the unlearning again, and so does one after *Cancel*; an answer empties the fields
of its form whatever was typed meanwhile; every purged node spawns its particles again at each later
change of the nodes; a click on a node of the entity that was selected last does not fill
the form again; a late answer lists a certificate that its event has listed already. Of the hook: once `new
WebSocket` has thrown (a URL that is not valid, or one that a secure page may not open), nothing tries again, and the page says
DISCONNECTED from then on; `HookAlive` says that this is the only way in which the hook gives up.

`README.md:106` calls batch unlearning concurrent; the code is a sequential loop. Nothing
depends on it and no run checks it.

## 5. Theorems

`tlapm` checks every proof. The theorems hold for all sets of tasks, requests, entities,
shards, concepts and documents, every menu of requests, every combination of faults and
every bound, under the named assumptions of the modules (`HomeAssumption`: every entity has
a shard, which excludes `num_shards = 0`; `TripletsAssumption`, `MenuAssumption`; in `Deployment` that
hashes are natural numbers, batches are not empty and a setting is a natural number or does not parse; and that the
placeholders `NoCall`, `NoReq`, `NoNode` and `None` are none of the values they stand in for).

`ShardStoreProofs`

| Theorem | Property |
| :-- | :-- |
| `TypeCorrect` | `TypeOK` |
| `GuardsAlwaysMatch`, `PurgeIsExclusive` | `GuardsMatch`, `PurgeExclusive` |
| `SnapshotIsFresh`, `PurgeIsComplete`, `RowsStayHome` | `FreshSnapshot`, `PurgeLeavesNothing`, `RowsAreHome` |
| `OthersKeepRows` | `OnlyOwnRowsDeleted` |
| `StoreIsLinearizable` | `Linearizable` (refinement of `EntityStore`) |
| `WaitersAreServedInTurn` | `ServedInTurn`: nobody is overtaken in the queue of a lock |
| `SomebodyCanGoOn` | `NobodyStuck`: whoever waits is next, or behind one who can go on |

The inductive invariant has three layers, each inductive relative to those before it.
`Typed` adds to `TypeOK` that the operation fits the place of its task (`Places`).
`LockInv` says that `holders` is exactly the set of tasks past their guard and that a purge holds
alone. Exclusion by itself is not
inductive: a release would be able to remove somebody else's guard. `DataInv` says
that rows are at home, that the version a purge opened is current for its entity (the step that
would break it, `AddRow`, needs a read guard, which `LockInv` excludes) and that a purge
that is done has left nothing. The refinement maps `DeleteRows`, `AddRow` and `CreateTable`
and the exits of `ListTables` and `OpenTable` to `Apply`, errors to `Fail`, the rest to
stuttering; `FreshSnapshot` is what makes the deletion atomic.

The two theorems about the queue are what can be proved of `CallsEnd`. Their invariant is `QueuesMatch`:
the queue of a shard holds the tasks that wait for its lock, each of them once. "Once" is needed because
a dropped future leaves from any place of the queue, and would otherwise leave a copy of itself behind that
nobody serves; it holds because only an idle task calls. Every step appends a task, takes one
out or leaves the queues alone (`QueueStep`), and neither changes the order of the rest (`OneComes`,
`OneGoes`). `NobodyStuck` says of guards and queue what a deadlock would contradict: the head of the queue
is compatible with the holders, or one of these is past its guard, where no step waits for another task.
That this leads to an end, under fairness, is left to TLC. The definitions of both properties are in the
module of the proofs.

`GatewayProofs`

| Theorem | Property |
| :-- | :-- |
| `TypeCorrect` | `TypeOK` |
| `VectorsArePurged` | `VectorsPurged`, for every combination of faults |
| `RecordsAreTrue` | `RecordedMeansPurged`, if statements do not fail silently |
| `CertificatesAreRecorded` | `CertifiedIsRecorded`, under the same condition |
| `AuditsAreSound`, `AuditsAreComplete` | `AuditSound`, `AuditComplete`, under the same condition |

The condition `"statement" \notin Faults` is necessary: `gateway_silent` shows what happens without it to a
purge, and an audit whose SELECT fails silently says `is_valid` false whatever was recorded. `CertifiedIsRecorded` is
about the certificates of unlearnings; those that `handle_verify_audit` makes up when it finds
none (`audit.rs:59`) have no relation to agree with, and tell so by `is_valid` only.
`RecordedMeansPurged` only speaks of the end of the purge, so the
invariant follows it stage by stage. `Provenance`: a row, node or edge carries
the request that wrote it, and that request is past the writing step and of that entity.
`VectorsPurged`, `EdgesPurged`, `NodesPurged`: past each deletion of an unlearning, no
document that had ended before it arrived has a row, an edge or a node, and none of them can
get one back, since a request that ended writes nothing. `Recording`: past each statement of
`record_unlearn_relation` its node or edge is there and stays. `AuditsTrue` and
`AuditsFull` tie an audit's `verified` to the edges that exist. `Frame`, `Fade` and
`QuietStep` state once what the many steps that touch none of this leave alone.

`AnswerProofs`, on the invariants of `GatewayProofs`

| Theorem | Property |
| :-- | :-- |
| `NotFoundIsTrue` | `NotFoundMeansNoRow`, if the vector store does not fail |
| `AuditsAreNewest` | `AuditNewest`, for every combination of faults |
| `AnswersAreTrue` | `PurgedAndVerified`, if statements do not fail silently |
| `OnlyOverlapsTear` | `WholeUnlessOverlapping`, if the graph does not fail and no client hangs up |
| `OnlySharingTouches` | `UntouchedUnlessShared`, if statements do not fail silently |

`handle_unlearn` takes an error of `entity_exists` for an absence, so that with `"lance"` in `Faults` a
404 says nothing; errors of the graph do not matter to it, since a 404 needs no row to be found first.
The invariant says that a handler that found no row and has not gone on (`SawNone`) has no row of an
earlier document to find: none comes back. `AuditNewest` measures an audit against certificates that were *saved*, because a
failed save is only logged; its invariant `Saved` says that no certificate is from the future
and that each in the ledger is the one that its unlearning made.

The last three are about what the documentation promises and a run refutes. `PurgedAndVerified` is
true for every fault but a silent one, overlaps, errors and hang-ups included, since an error of a query ends
the handler before its answer. `WholeUnlessOverlapping` is `PurgedWhole` for the documents whose ingestion
does not overlap with an unlearning of their entity. Its invariant `Taken` traces a row that is gone to an
unlearning past `purge_entity` that had not ended when the document arrived; that unlearning arrived
after the ingestion had ended, if the two do not overlap, and reaches its answer, if neither the graph fails nor the client
hangs up: either leaves an unlearning half done, with the rows gone and the triplets there, and no later call need repair it.
`UntouchedUnlessShared` is `OthersUntouched` for the documents that share no concept with a document of an
entity that is unlearned. Its invariant says that a node's owner mentions the concept
(`NodesMentioned`), so that an unlearning deletes only concepts of its entity's documents, and that the
triplets the loop is past are stored and stay (`Stored`, `LoopOver`). Both preconditions occur in reachable
states in which something was unlearned.

`DeploymentProofs`

| Theorem | Property |
| :-- | :-- |
| `TypeCorrect` | `TypeOK` |
| `EdgesAlwaysTrue` | `EdgesStayTrue` |
| `SaidAlwaysRecorded` | `SaidIsRecorded` |
| `KeysAgree` | `SignaturesAgree` |
| `ZeroIsHarmless` | `ZeroTouchesNothing` |

They hold for any hash, any settings, and any number of crashes and starts. `Typed` adds that whoever is past
the first `get_shard_id` has shards to divide by. `EdgesStayTrue` needs that an attempt not yet made
has left nothing (`Untried`), that a row is in the table its entity was mapped to under the count of its ingestion
(`Placed`, so that a row of the present count is one that `purge_entity` finds) and that the handler's place says what is purged already
(`Purging`): no row after `PurgeVectors`, no triplets after `PurgeSubgraph`, an edge after `RecordPurge`, of the
entity at hand and at the home it has under this start. A restart in between forgets the place, and with it
what would have to hold there. `Keyed` says that the key in use is the one of the environment, if there is
one, and the one that signed in this start.

`EventStreamProofs`

| Theorem | Property |
| :-- | :-- |
| `StreamTypeCorrect` | `StreamTypeOK` |
| `PassedInOrder` | `InOrder` |
| `OnlyLaggingMisses` | `MissedOnlyWhenLagging` |
| `GivesTheFeed` | `IsFeed` (refinement of `EventFeed`) |

They hold for every capacity of the channel (`CapacityAssumption`: not 0) and any number of
sessions. `InOrder` is not inductive: it does not say that what is read next comes after what
was passed on. The invariant adds that (`Ordered`), that the first message is CONNECTED and
a task exists only after it (`Started`), that positions lie between the subscription
and the end of the log (`Sound`), and that what was read is with the browser, on the wire
or in the sender's hand while the link is up (`Kept`). The refinement maps the delivery of the first message
to `Greet`, of any other to `Deliver` of its position, which `Ordered` and `Sound` place after the last one,
and all that the tasks do in between to stuttering.

`DashboardProofs` and `ConsoleProofs`, on the lemmas of `PageProofs` about what one event or
answer does to the page

| Theorem | Property |
| :-- | :-- |
| `TypeCorrect` (of each) | `TypeOK` |
| `HookStaysAlive` | `HookAlive` |
| `LinksAlwaysJoin` | `LinksJoin` |
| `PurgedStaysPurged` | `PurgedIsNotActive` |
| `PurgedAlwaysCertified` | `PurgedIsCertified`, if no two unlearnings get the same `audit_id` |
| `ButtonsComeBack` | `NoStuckButton` |
| `PurgesExplode` | `PurgeExplodes` |
| `SelectedIsAlwaysKnown` | `SelectedIsKnown` |
| `DrawerAlwaysSettles` | `DrawerSettles` |

For `PurgedIsNotActive` the invariant says that the page processes events in the order in which they
were sent, whatever socket they came through (`Order`), that a node and what an answer reports
have had their event sent (`Reported`), and that a document whose deletion was processed after its
ingestion has a purged node (`Shown`); no answer makes a purged node active again. `SelectedIsKnown` needs that the
copy of the nodes and the hovered node are known to the page (`SimKnown`, `HoverKnown`), since
what is clicked was copied one effect and hovered one move earlier.

`PurgedIsCertified` ties two lists that two kinds of message fill, so that its invariant (`CertInv`) goes through the log. A
purged node has had its deletion sent or its entity's certificate listed by an answer (`PurgedForAReason`).
What an answer lists was sent (`DoneLogged`, `LedgerLogged`). Behind a deletion that was sent comes a
certificate that was sent too or that a running request is about to send (`DeletionsPromised`, on
`TodoShape`: the two events of a request are of one certificate). A certificate that was processed is listed under its
`audit_id` (`ProcessedListed`); under its own entity only if the `audit_id` says which one it is
(`OneIdEach`), which is what `~SameSecond` assumes: the gateway makes the `audit_id` of shard and second.

Only model-checked: the liveness properties `CallsEnd`, `SessionsEnd` and `EventsArrive`, which are
out of the prover's reach. Every invariant and action property of the passing runs is proved. Not
proved either is `ENABLED`: `CanStep` spells out when a task has a step, and that it does so is read from
the actions.

## 6. Left out, and why

- *Signatures, hashes and the certificate's text*: the model keeps who, which shard, when;
  no property tells hashes apart. The key that signs is in `Deployment`. That two `audit_id`s of a shard and
  a second are equal is followed on the dashboard only (`SameSecond`): the gateway itself never looks one up.
- *LanceDB*: a call is an atomic append, delete or count. A commit that lands after
  its future was dropped is not modelled; nor are transaction conflicts between processes.
- *A wall clock that runs backwards*, which would let an older certificate win `ORDER BY
  timestamp_epoch`.
- *Arrow batches, embeddings, triplet extraction, metrics, rendering*: data that no
  property of the modelled part depends on.
- *A crash of a database*: what a store has answered is taken to be durable. Crashes of the gateway are in
  `Deployment`, where they fall between two awaits: LanceDB is embedded, and a commit cut in half by the
  death of the process is taken for done or not done.
- *The back-off delay, the list of the last 100 events, the clean-up of an unmounted hook*
  (`reactStrictMode` runs it once in development): see the plan.
- *In the panels*: toasts and their timers, the search filter, the telemetry tab, copy and export in the ledger; forces,
  zoom and drawing of the graph; `selectedNode`, which only decides what the graph's caption shows.
- *The health poll of the page* (`page.tsx:46`) and the header that shows it: a flag set from the last answer, on
  which nothing depends.
- *Addresses and paths of the configuration, the router*: they choose whom to talk to, not what is done.
- The ML worker: see the plan.

## 7. Plan

Done, in order of weight: the shard store with its locks and its refinement; the graph; the
handlers on top of both; the proofs of all of these.
Then the event path, the page and its panels, and the gateway over restarts, model-checked and proved.

Next, in this order:

1. `Batch`: `handle_batch_ingest` as a caller of `Gateway`, with the collection of its results, and retries
   after an answer that says less than what happened.
2. `WsHook`: mount, clean-up and mount again with callbacks of sockets that are closing; at most
   one live socket.
3. `TripletExtract`: the extraction loop of the ML worker as a pure function, against a
   reference definition.
