---------------------------- MODULE MCShardStore ----------------------------
(* ShardStore on small instances: all entities share shard 0, so that they   *)
(* share its table and its lock; no row may turn up on another shard.        *)
EXTENDS ShardStore

\* get_shard_id on the entities of the instances.
MCHome == [e \in Entities |-> 0]
=============================================================================
