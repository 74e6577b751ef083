-------------------------- MODULE DeploymentProofs --------------------------
(***************************************************************************)
(* Proofs about what outlives the gateway, for every configuration, every  *)
(* sequence of restarts and every hash function.                           *)
(***************************************************************************)
EXTENDS Deployment, SequenceTheorems, TLAPS

Ingesting == {"insert", "extract"}
Unlearning == {"find", "purge", "subgraph", "record", "certify"}

\* A handler is inside its request, and past its first get_shard_id there are shards.
Fits ==
    /\ pc \in Ingesting => doc \in tried
    /\ pc \in Unlearning => todo # <<>>
    /\ pc \in (Ingesting \cup Unlearning) \ {"insert", "find"} => numShards # 0

Typed == TypeOK /\ Fits

LEMMA ItemTyped ==
    ASSUME TypeOK, todo # <<>>
    PROVE  Item \in Entities /\ Tail(todo) \in Seq(Entities)
BY DEF TypeOK, Item

LEMMA HomeTyped ==
    ASSUME TypeOK, numShards # 0, NEW e \in Entities
    PROVE  Home(e) \in Nat
<1>1. Hash[e] \in Nat /\ numShards \in Nat /\ numShards > 0
    BY HashAssumption DEF TypeOK
<1> QED  BY <1>1 DEF Home

LEMMA NextItemFits ==
    ASSUME Typed, todo # <<>>, NEW res, NextItem(res), numShards' = numShards
    PROVE  /\ todo' \in Seq(Entities) /\ pc' \in {"idle", "find"}
           /\ pc' \in Unlearning => todo' # <<>>
<1>1. todo \in Seq(Entities) /\ Tail(todo) \in Seq(Entities)
    BY DEF Typed, TypeOK
<1>2. Len(todo) # 1 => Tail(todo) # <<>>
    <2>1. Len(todo) \in Nat /\ Len(Tail(todo)) = Len(todo) - 1
        BY <1>1, LenProperties, HeadTailProperties
    <2>2. Tail(todo) = <<>> => Len(Tail(todo)) = 0
        BY EmptySeq
    <2> QED  BY <2>1, <2>2
<1> QED  BY <1>1, <1>2 DEF NextItem, Unlearning

LEMMA TypedInit == Init => Typed
<1> SUFFICES ASSUME Init PROVE Typed
    OBVIOUS
<1>1. \A s \in Settings : NumShards(s) \in Nat
    BY SettingsAssumption DEF NumShards
<1> QED
    BY <1>1, NoneAssumption DEF Init, Typed, TypeOK, Fits, Ingesting, Unlearning

LEMMA TypedNext == Typed /\ [Next]_vars => Typed'
<1> SUFFICES ASSUME Typed, [Next]_vars PROVE Typed'
    OBVIOUS
<1>1. CASE Restart
    <2>1. \A s \in Settings : NumShards(s) \in Nat
        BY SettingsAssumption DEF NumShards
    <2> QED
        BY <1>1, <2>1 DEF Restart, stores, Typed, TypeOK, Fits, Ingesting, Unlearning
<1>2. ASSUME NEW d \in Docs, BeginIngest(d) PROVE Typed'
    BY <1>2 DEF BeginIngest, stores, process, Typed, TypeOK, Fits, Ingesting, Unlearning
<1>3. CASE InsertVector
    <2>1. doc \in Docs /\ Owner[doc] \in Entities
        BY <1>3, OwnerAssumption DEF InsertVector, Typed, TypeOK, Fits, Ingesting
    <2>2. numShards # 0 => Home(Owner[doc]) \in Nat
        BY <2>1, HomeTyped DEF Typed
    <2> QED
        BY <1>3, <2>1, <2>2
           DEF InsertVector, StoreRow, process, Typed, TypeOK, Fits, Ingesting, Unlearning
<1>4. CASE InsertTriplets
    <2>1. doc \in Docs
        BY <1>4 DEF InsertTriplets, Typed, TypeOK, Fits, Ingesting
    <2> QED
        BY <1>4, <2>1 DEF InsertTriplets, process, Typed, TypeOK, Fits, Ingesting, Unlearning
<1>5. ASSUME NEW es \in Payloads, BeginUnlearn(es) PROVE Typed'
    BY <1>5, PayloadsAssumption
       DEF BeginUnlearn, stores, process, Typed, TypeOK, Fits, Ingesting, Unlearning
<1>6. ASSUME pc \in Unlearning
      PROVE  /\ todo # <<>> /\ Item \in Entities
             /\ ItemFails /\ numShards' = numShards =>
                    /\ todo' \in Seq(Entities) /\ pc' \in {"idle", "find"}
                    /\ pc' \in Unlearning => todo' # <<>>
    BY <1>6, ItemTyped, NextItemFits DEF Typed, Fits, ItemFails
<1>7. ASSUME pc \in Unlearning, ItemFails, UNCHANGED <<stores, process, doc, tried>>
      PROVE  Typed'
    <2>1. results' = results
        BY <1>7 DEF ItemFails, NextItem
    <2> QED
        BY <1>6, <1>7, <2>1
           DEF stores, process, Typed, TypeOK, Fits, Ingesting, Unlearning
<1>8. CASE FindEntity
    <2>1. pc = "find"
        BY <1>8 DEF FindEntity
    <2>2. CASE ItemFails
        BY <1>7, <1>8, <2>1, <2>2 DEF FindEntity, Unlearning
    <2>3. CASE pc' \in {"idle", "purge"} /\ UNCHANGED <<todo, results>>
        BY <1>6, <1>8, <2>1, <2>3
           DEF FindEntity, stores, process, Typed, TypeOK, Fits, Ingesting, Unlearning
    <2> QED  BY <1>8, <2>2, <2>3 DEF FindEntity
<1>9. CASE PurgeVectors
    <2>1. pc = "purge"
        BY <1>9 DEF PurgeVectors
    <2>2. CASE ItemFails /\ UNCHANGED <<at, under>>
        BY <1>7, <1>9, <2>1, <2>2 DEF PurgeVectors, stores, Unlearning
    <2>3. CASE /\ DeleteRows(RowsOf(Item))
               /\ pc' = "subgraph" /\ UNCHANGED <<todo, results>>
        BY <1>6, <1>9, <2>1, <2>3
           DEF PurgeVectors, DeleteRows, process, Typed, TypeOK, Fits, Ingesting, Unlearning
    <2> QED  BY <1>9, <2>2, <2>3 DEF PurgeVectors
<1>10. CASE PurgeSubgraph
    <2>1. pc = "subgraph"
        BY <1>10 DEF PurgeSubgraph
    <2>2. CASE ItemFails /\ UNCHANGED graph
        BY <1>7, <1>10, <2>1, <2>2 DEF PurgeSubgraph, stores, Unlearning
    <2>3. CASE graph' = graph \ Own(Item) /\ pc' = "record" /\ UNCHANGED <<todo, results>>
        BY <1>6, <1>10, <2>1, <2>3
           DEF PurgeSubgraph, process, Typed, TypeOK, Fits, Ingesting, Unlearning
    <2> QED  BY <1>10, <2>2, <2>3 DEF PurgeSubgraph
<1>11. CASE RecordPurge
    <2>1. pc = "record" /\ numShards # 0
        BY <1>11 DEF RecordPurge, Typed, Fits, Unlearning
    <2>2. CASE ItemFails /\ UNCHANGED purgedFrom
        BY <1>7, <1>11, <2>1, <2>2 DEF RecordPurge, stores, Unlearning
    <2>3. CASE /\ purgedFrom' = purgedFrom \cup {NewEdge}
               /\ pc' = "certify" /\ UNCHANGED <<todo, results>>
        <3>1. Item \in Entities /\ Home(Item) \in Nat
            BY <1>6, <2>1, HomeTyped DEF Typed, Unlearning
        <3>2. NewEdge \in Edge
            BY <3>1 DEF NewEdge, Edge, Typed, TypeOK
        <3> QED
            BY <1>6, <1>11, <2>1, <2>3, <3>2
               DEF RecordPurge, process, Typed, TypeOK, Fits, Ingesting, Unlearning
    <2> QED  BY <1>11, <2>2, <2>3 DEF RecordPurge
<1>12. ASSUME Sign PROVE key' \in EnvKeys \cup RandomKeys /\
                         signed' \subseteq [start: Nat, env: EnvKeys \cup {None},
                                            key: EnvKeys \cup RandomKeys]
    <2>1. key' \in EnvKeys \cup RandomKeys
        BY <1>12 DEF Sign, SigningKey, Typed, TypeOK
    <2> QED  BY <1>12, <2>1 DEF Sign, Typed, TypeOK
<1>13. CASE Certify
    <2>1. pc = "certify" /\ numShards # 0 /\ Item \in Entities /\ Home(Item) \in Nat
        BY <1>6, <1>13, HomeTyped DEF Certify, Typed, Fits, Unlearning
    <2>2. ledger' \subseteq [entity: Entities, shard: Nat]
        BY <1>13, <2>1 DEF Certify, Typed, TypeOK
    <2>3. /\ todo' \in Seq(Entities) /\ pc' \in {"idle", "find"}
          /\ pc' \in Unlearning => todo' # <<>>
        BY <1>6, <1>13, <2>1, NextItemFits DEF Certify, Unlearning
    <2>4. results' \subseteq Entities
        BY <1>13, <2>1 DEF Certify, NextItem, Typed, TypeOK
    <2> QED
        BY <1>12, <1>13, <2>1, <2>2, <2>3, <2>4
           DEF Certify, Typed, TypeOK, Fits, Ingesting, Unlearning
<1>14. CASE ShowCertificate
    BY <1>12, <1>14
       DEF ShowCertificate, stores, handler, Typed, TypeOK, Fits, Ingesting, Unlearning
<1>15. CASE UNCHANGED vars
    BY <1>15 DEF vars, stores, process, handler, Typed, TypeOK, Fits
<1> QED
    BY <1>1, <1>2, <1>3, <1>4, <1>5, <1>8, <1>9, <1>10, <1>11, <1>13, <1>14, <1>15 DEF Next

\* Type correctness of the stores and of the gateway over them.
THEOREM TypeCorrect == Spec => []TypeOK
<1>1. Typed => TypeOK
    BY DEF Typed
<1> QED  BY <1>1, TypedInit, TypedNext, PTL DEF Spec

\* Without shards no handler gets as far as a store.
THEOREM ZeroIsHarmless == Spec => ZeroTouchesNothing
<1>1. Typed /\ [Next]_vars => [numShards = 0 => UNCHANGED stores]_vars
    <2> SUFFICES ASSUME Typed, Next, numShards = 0 PROVE UNCHANGED stores
        OBVIOUS
    <2>1. pc \in {"idle", "insert", "find"}
        BY DEF Typed, TypeOK, Fits, Ingesting, Unlearning
    <2> QED
        BY <2>1
           DEF Next, Restart, BeginIngest, InsertVector, InsertTriplets, BeginUnlearn,
               FindEntity, PurgeVectors, PurgeSubgraph, RecordPurge, Certify,
               ShowCertificate, stores
<1> QED  BY <1>1, TypedInit, TypedNext, PTL DEF Spec, ZeroTouchesNothing

---------------------------------------------------------------------------
(* Edges, certificates and answers.                                        *)

\* What was never tried is nowhere, and what is being ingested is not known to any edge.
Untried ==
    /\ \A d \in Docs : at[d] # None \/ d \in graph => d \in tried
    /\ \A x \in purgedFrom : x.known \subseteq tried
    /\ pc \in Ingesting => \A x \in purgedFrom : doc \notin x.known

\* Past each step of an unlearning, what it removes is gone and what it records is there.
Purging ==
    /\ pc \in {"subgraph", "record", "certify"} => RowsOf(Item) = {}
    /\ pc \in {"record", "certify"} => Own(Item) \cap graph = {}
    /\ pc = "certify" => Recorded(Item, Home(Item))

\* A row is in the table that its entity was mapped to when it was stored.
Placed ==
    \A d \in Docs : at[d] # None =>
        under[d] \in Nat \ {0} /\ at[d] = Hash[Owner[d]] % under[d]

RecordTrue == Typed /\ Untried /\ Placed /\ Purging /\ EdgesStayTrue /\ SaidIsRecorded

LEMMA RecordInit == Init => RecordTrue
BY TypedInit
   DEF Init, RecordTrue, Untried, Placed, Purging, EdgesStayTrue, SaidIsRecorded, Ingesting

\* Rows and triplets only come with the document that is being ingested.
LEMMA OnlyIngested ==
    ASSUME Typed, [Next]_vars
    PROVE  /\ \A d \in Docs :
                 \/ at'[d] = at[d] /\ under'[d] = under[d]
                 \/ at'[d] = None
                 \/ InsertVector /\ d = doc /\ d \in tried
           /\ \A d \in graph' : d \in graph \/ (InsertTriplets /\ d = doc /\ d \in tried)
           /\ tried \subseteq tried' /\ purgedFrom \subseteq purgedFrom'
           /\ \A x \in purgedFrom' :
                 x \in purgedFrom
                     \/ (RecordPurge /\ pc' = "certify" /\ x = NewEdge)
<1>1. CASE InsertVector
    <2>1. doc \in tried /\ pc' # "certify"
        BY <1>1 DEF InsertVector, Typed, Fits, Ingesting
    <2>2. \A d \in Docs : (at'[d] = at[d] /\ under'[d] = under[d]) \/ d = doc
        BY <1>1 DEF InsertVector, StoreRow, Typed, TypeOK
    <2> QED  BY <1>1, <2>1, <2>2 DEF InsertVector
<1>2. CASE InsertTriplets
    BY <1>2 DEF InsertTriplets, Typed, Fits, Ingesting
<1>3. CASE PurgeVectors
    <2>1. \A d \in Docs : (at'[d] = at[d] /\ under'[d] = under[d]) \/ at'[d] = None
        BY <1>3 DEF PurgeVectors, DeleteRows
    <2> QED  BY <1>3, <2>1 DEF PurgeVectors
<1>4. CASE PurgeSubgraph
    BY <1>4 DEF PurgeSubgraph
<1>5. CASE RecordPurge
    BY <1>5 DEF RecordPurge
<1>6. CASE Certify
    BY <1>6 DEF Certify
<1>7. CASE \/ Restart \/ (\E d \in Docs : BeginIngest(d))
           \/ (\E es \in Payloads : BeginUnlearn(es)) \/ FindEntity \/ ShowCertificate \/ UNCHANGED vars
    BY <1>7 DEF Restart, BeginIngest, BeginUnlearn, FindEntity, ShowCertificate, vars,
                stores, handler
<1> QED  BY <1>1, <1>2, <1>3, <1>4, <1>5, <1>6, <1>7 DEF Next

LEMMA UntriedNext == Typed /\ Untried /\ [Next]_vars => Untried'
<1> SUFFICES ASSUME Typed, Untried, [Next]_vars PROVE Untried'
    OBVIOUS
<1>1. \A d \in Docs : at'[d] # None \/ d \in graph' => d \in tried'
    BY OnlyIngested DEF Untried
<1>2. \A x \in purgedFrom' : x.known \subseteq tried'
    BY OnlyIngested DEF Untried, NewEdge
<1>3. ASSUME pc' \in Ingesting PROVE \A x \in purgedFrom' : doc' \notin x.known
    <2>1. CASE pc \in Ingesting /\ doc' = doc /\ purgedFrom' = purgedFrom
        BY <2>1 DEF Untried
    <2>2. CASE \E d \in Docs : BeginIngest(d)
        BY <2>2 DEF Untried, BeginIngest, stores
    <2> QED
        BY <1>3, <2>1, <2>2
           DEF Next, Restart, InsertVector, InsertTriplets, BeginUnlearn, FindEntity,
               PurgeVectors, PurgeSubgraph, RecordPurge, Certify, ShowCertificate, ItemFails,
               NextItem, Ingesting, vars, stores, handler
<1> QED  BY <1>1, <1>2, <1>3 DEF Untried

LEMMA PurgingNext == Typed /\ Purging /\ [Next]_vars => Purging'
<1> SUFFICES ASSUME Typed, Purging, [Next]_vars, pc' \in {"subgraph", "record", "certify"}
             PROVE  Purging'
    BY DEF Purging
<1>1. CASE PurgeVectors
    <2>1. pc = "purge" /\ pc' = "subgraph" /\ UNCHANGED <<todo, numShards>>
        BY <1>1 DEF PurgeVectors, ItemFails, NextItem, process
    <2>2. Item \in Entities /\ Home(Item) \in Nat
        BY <2>1, ItemTyped, HomeTyped DEF Typed, Fits, Ingesting, Unlearning
    <2>3. \A d \in Own(Item) : at'[d] # Home(Item)
        BY <1>1, <2>1, <2>2, NoneAssumption
           DEF PurgeVectors, DeleteRows, ItemFails, NextItem, RowsOf, Own
    <2>4. Item' = Item /\ Home(Item)' = Home(Item)
        BY <2>1 DEF Item, Home
    <2> QED  BY <2>1, <2>3, <2>4 DEF Purging, RowsOf, Own
<1>2. CASE PurgeSubgraph
    <2>1. /\ pc = "subgraph" /\ pc' = "record" /\ UNCHANGED <<at, todo, numShards>>
          /\ graph' = graph \ Own(Item)
        BY <1>2 DEF PurgeSubgraph, ItemFails, NextItem, process
    <2>2. Item' = Item /\ RowsOf(Item)' = RowsOf(Item)
        BY <2>1 DEF Item, Home, RowsOf, Own
    <2> QED  BY <2>1, <2>2 DEF Purging, Own
<1>3. CASE RecordPurge
    <2>1. /\ pc = "record" /\ pc' = "certify" /\ UNCHANGED <<at, graph, todo, numShards>>
          /\ NewEdge \in purgedFrom'
        BY <1>3 DEF RecordPurge, ItemFails, NextItem, process
    <2>2. Item' = Item /\ RowsOf(Item)' = RowsOf(Item) /\ Home(Item)' = Home(Item)
        BY <2>1 DEF Item, Home, RowsOf, Own
    <2> QED  BY <2>1, <2>2 DEF Purging, Own, Recorded, NewEdge
<1>4. CASE UNCHANGED vars
    BY <1>4 DEF vars, stores, process, handler, Purging, RowsOf, Own, Item, Home, Recorded
<1> QED
    BY <1>1, <1>2, <1>3, <1>4
       DEF Next, Restart, BeginIngest, InsertVector, InsertTriplets, BeginUnlearn, FindEntity,
           Certify, ShowCertificate, ItemFails, NextItem, handler

LEMMA PlacedNext == Typed /\ Placed /\ [Next]_vars => Placed'
<1> SUFFICES ASSUME Typed, Placed, [Next]_vars, NEW d \in Docs, at'[d] # None
             PROVE  under'[d] \in Nat \ {0} /\ at'[d] = Hash[Owner[d]] % under'[d]
    BY DEF Placed
<1>1. CASE at'[d] = at[d] /\ under'[d] = under[d]
    BY <1>1 DEF Placed
<1>2. CASE InsertVector /\ d = doc
    <2>1. CASE numShards # 0 /\ StoreRow
        BY <1>2, <2>1 DEF StoreRow, Home, Typed, TypeOK
    <2>2. CASE UNCHANGED <<at, under>>
        BY <1>1, <2>2
    <2> QED  BY <1>2, <2>1, <2>2 DEF InsertVector
<1> QED  BY <1>1, <1>2, OnlyIngested

LEMMA EdgesNext ==
    Typed /\ Untried /\ Placed /\ Purging /\ EdgesStayTrue /\ [Next]_vars => EdgesStayTrue'
<1> SUFFICES ASSUME Typed, Untried, Placed, Purging, EdgesStayTrue, [Next]_vars,
                    NEW x \in purgedFrom', NEW d \in x.known \cap Own(x.entity)
             PROVE  /\ d \notin graph'
                    /\ at'[d] = None \/ (under'[d] # x.count /\ at'[d] # x.shard)
    BY DEF EdgesStayTrue, Stranded, Own
<1>1. d \in Docs
    BY DEF Own
<1>2. CASE x \in purgedFrom
    <2>1. d \notin graph /\ (at[d] = None \/ (under[d] # x.count /\ at[d] # x.shard))
        BY <1>2 DEF EdgesStayTrue, Stranded
    <2>2. ~((InsertVector \/ InsertTriplets) /\ d = doc)
        BY <1>2 DEF InsertVector, InsertTriplets, Untried, Ingesting
    <2> QED  BY <1>1, <2>1, <2>2, OnlyIngested
<1>3. CASE RecordPurge /\ pc' = "certify" /\ x = NewEdge
    <2>1. /\ pc = "record" /\ UNCHANGED <<at, under, graph>>
          /\ x.entity = Item /\ x.shard = Home(Item) /\ x.count = numShards
        BY <1>3 DEF RecordPurge, NewEdge
    <2>2. d \in Own(Item) /\ Owner[d] = Item
        BY <2>1 DEF Own
    <2>3. d \notin graph /\ at[d] # Home(Item)
        BY <2>1, <2>2 DEF Purging, RowsOf
    <2>4. at[d] # None => under[d] # numShards
        BY <1>1, <2>2, <2>3 DEF Placed, Home
    <2> QED  BY <2>1, <2>3, <2>4
<1> QED  BY <1>2, <1>3, OnlyIngested

LEMMA SaidNext == Purging /\ SaidIsRecorded /\ Typed /\ [Next]_vars => SaidIsRecorded'
<1> SUFFICES ASSUME Typed, Purging, SaidIsRecorded, [Next]_vars PROVE SaidIsRecorded'
    OBVIOUS
<1>1. ASSUME NEW e, NEW s, Recorded(e, s) PROVE Recorded(e, s)'
    BY <1>1, OnlyIngested DEF Recorded
<1>2. CASE Certify
    <2>1. Recorded(Item, Home(Item)) /\ numShards' = numShards
        BY <1>2 DEF Certify, Purging
    <2>2. /\ ledger' \subseteq ledger \cup {[entity |-> Item, shard |-> Home(Item)]}
          /\ results' = results \cup {Item}
        BY <1>2 DEF Certify, NextItem
    <2>3. \A e : Home(e)' = Home(e)
        BY <2>1 DEF Home
    <2>4. \A c \in ledger' : Recorded(c.entity, c.shard)
        BY <2>1, <2>2 DEF SaidIsRecorded
    <2>5. \A e \in results' : Recorded(e, Home(e))
        BY <2>1, <2>2 DEF SaidIsRecorded
    <2> QED  BY <1>1, <2>3, <2>4, <2>5 DEF SaidIsRecorded, Home
<1>3. CASE ~Certify
    <2>1. ledger' = ledger /\ (results' = {} \/ (results' = results /\ numShards' = numShards))
        BY <1>3
           DEF Next, Restart, BeginIngest, InsertVector, InsertTriplets, BeginUnlearn,
               FindEntity, PurgeVectors, PurgeSubgraph, RecordPurge, ShowCertificate,
               ItemFails, NextItem, vars, stores, process, handler
    <2>2. \A c \in ledger' : Recorded(c.entity, c.shard)'
        BY <1>1, <2>1 DEF SaidIsRecorded
    <2>3. ASSUME NEW e \in results' PROVE Recorded(e, Home(e))'
        <3>1. Recorded(e, Home(e)) /\ Home(e)' = Home(e)
            BY <2>1, <2>3 DEF SaidIsRecorded, Home
        <3> QED  BY <3>1, OnlyIngested DEF Recorded
    <2> QED  BY <2>2, <2>3 DEF SaidIsRecorded
<1> QED  BY <1>2, <1>3

LEMMA RecordNext == RecordTrue /\ [Next]_vars => RecordTrue'
BY TypedNext, UntriedNext, PlacedNext, PurgingNext, EdgesNext, SaidNext DEF RecordTrue

\* What an edge says stays true of the triplets and of every shard table, through crashes
\* at any step, retries of ingestions and any number of changes of the shard count; the
\* only rows left are those that such a change stranded in another table.
THEOREM EdgesAlwaysTrue == Spec => []EdgesStayTrue
<1>1. RecordTrue => EdgesStayTrue
    BY DEF RecordTrue
<1> QED  BY <1>1, RecordInit, RecordNext, PTL DEF Spec

\* Every certificate of the ledger and every result of a batch has its edge.
THEOREM SaidAlwaysRecorded == Spec => []SaidIsRecorded
<1>1. RecordTrue => SaidIsRecorded
    BY DEF RecordTrue
<1> QED  BY <1>1, RecordInit, RecordNext, PTL DEF Spec

---------------------------------------------------------------------------
(* Keys.                                                                   *)

\* The process keeps the key that it has signed with, and a key of the environment is used.
Keyed ==
    /\ \A x \in signed : /\ x.start <= starts
                         /\ x.start = starts => x.key = key /\ x.env = envKey
                         /\ x.env # None => x.key = x.env
    /\ key # None /\ envKey # None => key = envKey

LEMMA KeyedNext == Typed /\ Keyed /\ SignaturesAgree /\ [Next]_vars => Keyed' /\ SignaturesAgree'
<1> SUFFICES ASSUME Typed, Keyed, SignaturesAgree, [Next]_vars
             PROVE  Keyed' /\ SignaturesAgree'
    OBVIOUS
<1>1. \A x \in signed : x.start \in Nat /\ x.key # None
    BY NoneAssumption DEF Typed, TypeOK
<1>2. CASE Restart
    <2>1. starts' = starts + 1 /\ starts \in Nat /\ key' = None /\ signed' = signed
        BY <1>2 DEF Restart, Typed, TypeOK
    <2> QED  BY <1>1, <2>1 DEF Keyed, SignaturesAgree
<1>3. CASE Sign /\ UNCHANGED <<starts, envKey>>
    <2> DEFINE z == [start |-> starts, env |-> envKey, key |-> key']
    <2>1. signed' = signed \cup {z} /\ starts \in Nat /\ key' # None
        BY <1>3, NoneAssumption DEF Sign, SigningKey, Typed, TypeOK
    <2>2. (key # None => key' = key) /\ (envKey # None => key' = envKey)
        BY <1>3 DEF Sign, SigningKey, Keyed
    <2>3. \A x \in signed : x.start = starts => x.key = key' /\ x.env = envKey
        BY <1>1, <2>2 DEF Keyed
    <2>4. \A x \in signed : x.env = envKey /\ x.env # None => x.key = key'
        BY <2>2 DEF Keyed
    <2>5. Keyed'
        BY <1>3, <2>1, <2>2, <2>3 DEF Keyed
    <2>6. SignaturesAgree'
        BY <2>1, <2>3, <2>4 DEF SignaturesAgree
    <2> QED  BY <2>5, <2>6
<1>4. CASE UNCHANGED process
    BY <1>4 DEF process, Keyed, SignaturesAgree
<1> QED
    BY <1>2, <1>3, <1>4
       DEF Next, BeginIngest, InsertVector, InsertTriplets, BeginUnlearn, FindEntity,
           PurgeVectors, PurgeSubgraph, RecordPurge, Certify, ShowCertificate, vars

\* One key for each start, and one for all starts with the same key in the environment.
THEOREM KeysAgree == Spec => []SignaturesAgree
<1>1. Init => Keyed /\ SignaturesAgree
    BY DEF Init, Keyed, SignaturesAgree
<1> QED  BY <1>1, TypedInit, TypedNext, KeyedNext, PTL DEF Spec
=============================================================================
