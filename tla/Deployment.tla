----------------------------- MODULE Deployment -----------------------------
(***************************************************************************)
(* What outlives the gateway: its two stores and the certificates, over    *)
(* crashes in the middle of a request and restarts with another            *)
(* configuration (config.rs, the signing key of merkle_proof.rs).          *)
(*                                                                         *)
(* Requests are served one after another here, an ingestion or a batch of  *)
(* unlearnings (a single one is a batch of one); how they overlap, and     *)
(* what becomes of shared concepts and of single statements, is the        *)
(* subject of Gateway.  Every attempt to ingest a document, the retries    *)
(* included, is one element of Docs.                                       *)
(***************************************************************************)
EXTENDS Integers, Sequences

CONSTANTS
    Docs,        \* the attempts to ingest a document
    Entities,
    Owner,       \* Owner[d]: the entity of d
    Hash,        \* Hash[e]: the DefaultHasher's value for e
    Payloads,    \* the lists of entities, valid identifiers, that are sent to be unlearned
    Settings,    \* what NUM_SISA_SHARDS may hold
    NotANumber,  \* a setting that does not parse, or none
    EnvKeys,     \* the keys that ED25519_PRIVATE_KEY may hold
    RandomKeys,  \* the keys that OsRng may come up with
    None,        \* no key, no table, no document
    MaxStarts    \* bound: starts of the gateway

ASSUME OwnerAssumption == Owner \in [Docs -> Entities]
ASSUME HashAssumption == Hash \in [Entities -> Nat]
ASSUME PayloadsAssumption == Payloads \subseteq Seq(Entities) \ {<<>>}
ASSUME SettingsAssumption == Settings \subseteq Nat \cup {NotANumber} /\ NotANumber \notin Nat
ASSUME NoneAssumption == None \notin EnvKeys \cup RandomKeys \cup Nat \cup Docs

VARIABLES
    at,         \* at[d]: the shard table that holds the row of d
    graph,      \* the documents of which there are triplets in the graph
    purgedFrom, \* the PURGED_FROM edges, each with the shard count that it was recorded
                \* under and what had been ingested by then
    ledger,     \* the audit_certificates
    numShards,  \* num_shards of the running gateway
    envKey,     \* its ED25519_PRIVATE_KEY
    key,        \* its SIGNING_KEY
    starts,     \* how often the gateway was started
    signed,     \* which start signed a certificate with which key
    pc,         \* where the handler is
    doc,        \* the document it ingests
    todo,       \* what is left of the batch it unlearns
    results,    \* the results of that batch
    tried,      \* the attempts made so far
    under       \* history: under[d], the shard count under which the row of d was stored

stores == <<at, under, graph, purgedFrom, ledger>>
process == <<numShards, envKey, key, starts, signed>>
handler == <<pc, doc, todo, results, tried>>
vars == <<stores, process, handler>>

\* Mutant: what does not parse is passed on.
NumShardsAsIs(setting) == setting

\* Config::from_env.
NumShards(setting) == IF setting = NotANumber THEN 4 ELSE setting

\* get_shard_id; without shards it panics instead.
Home(e) == Hash[e] % numShards

Own(e) == {d \in Docs : Owner[d] = e}
RowsOf(e) == {d \in Own(e) : at[d] = Home(e)}

Init ==
    /\ at = [d \in Docs |-> None]
    /\ under = [d \in Docs |-> None]
    /\ graph = {} /\ purgedFrom = {} /\ ledger = {}
    /\ numShards \in {NumShards(s) : s \in Settings}
    /\ envKey \in EnvKeys \cup {None}
    /\ key = None
    /\ starts = 1
    /\ signed = {}
    /\ pc = "idle" /\ doc = None /\ todo = <<>> /\ results = {} /\ tried = {}

\* The gateway dies, whatever it is doing, and is started again.
Restart ==
    /\ starts < MaxStarts
    /\ starts' = starts + 1
    /\ numShards' \in {NumShards(s) : s \in Settings}
    /\ envKey' \in EnvKeys \cup {None}
    /\ key' = None
    /\ pc' = "idle" /\ doc' = None /\ todo' = <<>> /\ results' = {}
    /\ UNCHANGED <<stores, signed, tried>>

---------------------------------------------------------------------------
(* handle_ingest.                                                          *)

BeginIngest(d) ==
    /\ pc = "idle" /\ d \notin tried
    /\ pc' = "insert" /\ doc' = d /\ tried' = tried \cup {d} /\ results' = {}
    /\ UNCHANGED <<stores, process, todo>>

StoreRow ==
    /\ at' = [at EXCEPT ![doc] = Home(Owner[doc])]
    /\ under' = [under EXCEPT ![doc] = numShards]

\* Mutant: the triplets are stored first.
InsertTripletsFirst ==
    /\ pc = "insert"
    /\ graph' = graph \cup {doc}
    /\ IF numShards = 0
       THEN pc' = "idle" /\ doc' = None /\ UNCHANGED <<at, under>>
       ELSE pc' = "extract" /\ UNCHANGED doc /\ StoreRow
    /\ UNCHANGED <<purgedFrom, ledger, process, todo, results, tried>>

\* get_embedding and insert_vector: they fail, or panic without shards, or store a row.
InsertVector ==
    /\ pc = "insert"
    /\ \/ /\ numShards # 0 /\ StoreRow
          /\ pc' = "extract" /\ UNCHANGED doc
       \/ pc' = "idle" /\ doc' = None /\ UNCHANGED <<at, under>>
    /\ UNCHANGED <<graph, purgedFrom, ledger, process, todo, results, tried>>

\* extract_triplets and the loop over them, which may fail before the first one is stored.
InsertTriplets ==
    /\ pc = "extract"
    /\ graph' \in {graph, graph \cup {doc}}
    /\ pc' = "idle" /\ doc' = None
    /\ UNCHANGED <<at, under, purgedFrom, ledger, process, todo, results, tried>>

---------------------------------------------------------------------------
(* handle_batch_unlearn, and handle_unlearn for each entity of the batch.  *)

BeginUnlearn(es) ==
    /\ pc = "idle"
    /\ pc' = "find" /\ todo' = es /\ results' = {}
    /\ UNCHANGED <<stores, process, doc, tried>>

Item == Head(todo)

\* The next entity of the batch, with res as the results so far.
NextItem(res) ==
    /\ todo' = Tail(todo) /\ results' = res
    /\ pc' = IF Len(todo) = 1 THEN "idle" ELSE "find"

\* An item that fails is only logged.
ItemFails == NextItem(results)

\* The two entity_exists, whose errors count as absence; without shards the first panics
\* and takes the batch with it.
FindEntity ==
    /\ pc = "find"
    /\ \/ /\ numShards = 0
          /\ pc' = "idle" /\ UNCHANGED <<todo, results>>
       \/ /\ numShards # 0
          /\ RowsOf(Item) # {} \/ Own(Item) \cap graph # {}
          /\ pc' = "purge" /\ UNCHANGED <<todo, results>>
       \/ numShards # 0 /\ ItemFails
    /\ UNCHANGED <<stores, process, doc, tried>>

DeleteRows(ds) ==
    /\ at' = [d \in Docs |-> IF d \in ds THEN None ELSE at[d]]
    /\ under' = [d \in Docs |-> IF d \in ds THEN None ELSE under[d]]

\* Mutant: only one row is deleted.
PurgeOneVector ==
    /\ pc = "purge"
    /\ \/ \E d \in RowsOf(Item) : DeleteRows({d})
       \/ RowsOf(Item) = {} /\ UNCHANGED <<at, under>>
    /\ pc' = "subgraph"
    /\ UNCHANGED <<graph, purgedFrom, ledger, process, doc, todo, results, tried>>

\* purge_entity deletes from the one table that the entity is mapped to now.
PurgeVectors ==
    /\ pc = "purge"
    /\ \/ /\ DeleteRows(RowsOf(Item))
          /\ pc' = "subgraph" /\ UNCHANGED <<todo, results>>
       \/ ItemFails /\ UNCHANGED <<at, under>>
    /\ UNCHANGED <<graph, purgedFrom, ledger, process, doc, tried>>

\* purge_entity_subgraph.
PurgeSubgraph ==
    /\ pc = "subgraph"
    /\ \/ /\ graph' = graph \ Own(Item)
          /\ pc' = "record" /\ UNCHANGED <<todo, results>>
       \/ ItemFails /\ UNCHANGED graph
    /\ UNCHANGED <<at, under, purgedFrom, ledger, process, doc, tried>>

NewEdge == [entity |-> Item, shard |-> Home(Item), count |-> numShards, known |-> tried]

\* Mutant: a failure of record_unlearn_relation is logged and the handler goes on.
RecordPurgeOrLog ==
    /\ pc = "record"
    /\ \/ purgedFrom' = purgedFrom \cup {NewEdge}
       \/ UNCHANGED purgedFrom
    /\ pc' = "certify"
    /\ UNCHANGED <<at, under, graph, ledger, process, doc, todo, results, tried>>

\* record_unlearn_relation.
RecordPurge ==
    /\ pc = "record"
    /\ \/ /\ purgedFrom' = purgedFrom \cup {NewEdge}
          /\ pc' = "certify" /\ UNCHANGED <<todo, results>>
       \/ ItemFails /\ UNCHANGED purgedFrom
    /\ UNCHANGED <<at, under, graph, ledger, process, doc, tried>>

\* Mutant: a random key is not kept.
MakeKey ==
    \/ envKey # None /\ key' = envKey
    \/ envKey = None /\ key' \in RandomKeys

\* get_signing_key: the key of the environment or a random one, once for each start.
SigningKey ==
    \/ key # None /\ key' = key
    \/ key = None /\ envKey # None /\ key' = envKey
    \/ key = None /\ envKey = None /\ key' \in RandomKeys

\* generate_certificate.
Sign ==
    /\ SigningKey
    /\ signed' = signed \cup {[start |-> starts, env |-> envKey, key |-> key']}

\* generate_certificate and save_audit_certificate, whose failure is only logged.
Certify ==
    /\ pc = "certify"
    /\ Sign
    /\ ledger' \in {ledger, ledger \cup {[entity |-> Item, shard |-> Home(Item)]}}
    /\ NextItem(results \cup {Item})
    /\ UNCHANGED <<at, under, graph, purgedFrom, numShards, envKey, starts, doc, tried>>

\* handle_verify_audit where no certificate is found: it makes one.
ShowCertificate ==
    /\ pc = "idle"
    /\ Sign
    /\ UNCHANGED <<stores, numShards, envKey, starts, handler>>

Next ==
    \/ Restart
    \/ \E d \in Docs : BeginIngest(d)
    \/ InsertVector \/ InsertTriplets
    \/ \E es \in Payloads : BeginUnlearn(es)
    \/ FindEntity \/ PurgeVectors \/ PurgeSubgraph \/ RecordPurge \/ Certify
    \/ ShowCertificate

Spec == Init /\ [][Next]_vars

---------------------------------------------------------------------------
(* Correctness.                                                            *)

Edge == [entity: Entities, shard: Nat, count: Nat, known: SUBSET Docs]

\* The type of every variable.
TypeOK ==
    /\ at \in [Docs -> Nat \cup {None}]
    /\ under \in [Docs -> Nat \cup {None}]
    /\ graph \subseteq Docs
    /\ purgedFrom \subseteq Edge
    /\ ledger \subseteq [entity: Entities, shard: Nat]
    /\ numShards \in Nat
    /\ envKey \in EnvKeys \cup {None}
    /\ key \in EnvKeys \cup RandomKeys \cup {None}
    /\ starts \in Nat
    /\ signed \subseteq [start: Nat, env: EnvKeys \cup {None}, key: EnvKeys \cup RandomKeys]
    /\ pc \in {"idle", "insert", "extract", "find", "purge", "subgraph", "record", "certify"}
    /\ doc \in Docs \cup {None}
    /\ todo \in Seq(Entities)
    /\ results \subseteq Entities
    /\ tried \subseteq Docs

\* A row that a purge of x's entity could not find: it was stored under another
\* NUM_SISA_SHARDS, in another table than the one that the entity is mapped to now.
Stranded(d, x) == under[d] # x.count /\ at[d] # x.shard

\* A PURGED_FROM edge stays true, over crashes, retries and changes of the shard count:
\* of what was ingested before it there are no triplets, and no row in any shard table
\* (README.md:40, shard_manager.rs:150), but for those stranded in another table by a
\* change of the count.
EdgesStayTrue ==
    \A x \in purgedFrom : \A d \in x.known \cap Own(x.entity) :
        /\ d \notin graph
        /\ at[d] = None \/ Stranded(d, x)

Recorded(e, s) == \E x \in purgedFrom : x.entity = e /\ x.shard = s

\* What is certified or reported has its edge, whichever item of a batch failed and
\* wherever the gateway died: the ledger, and the results of a batch.
SaidIsRecorded ==
    /\ \A c \in ledger : Recorded(c.entity, c.shard)
    /\ \A e \in results : Recorded(e, Home(e))

\* All certificates of one start, and all those signed by gateways that were started with
\* one ED25519_PRIVATE_KEY, are signed with one key.
SignaturesAgree ==
    \A x, y \in signed :
        x.start = y.start \/ (x.env = y.env /\ x.env # None) => x.key = y.key

\* NUM_SISA_SHARDS=0 costs answers and nothing else: every handler meets get_shard_id
\* before it changes a store.
ZeroTouchesNothing == [][numShards = 0 => UNCHANGED stores]_vars
=============================================================================
