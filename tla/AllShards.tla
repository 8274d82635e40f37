----------------------------- MODULE AllShards -----------------------------
(***************************************************************************)
(* GetAllShardClis of pkg/server/sharding.go: the shards of a proxy in     *)
(* legacy mode, in the order in which the handlers loop over them.         *)
(***************************************************************************)
EXTENDS Integers

CONSTANT N      \* number of shards

Shards == 1..N
=============================================================================
