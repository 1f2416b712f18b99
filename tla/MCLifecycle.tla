---------------------------- MODULE MCLifecycle ----------------------------
(* Small instances of Lifecycle for TLC: one shard, as in a small bot.       *)
EXTENDS Lifecycle
=============================================================================
