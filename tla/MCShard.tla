------------------------------- MODULE MCShard -------------------------------
(* Small instances of Shard for TLC.                                        *)
EXTENDS Shard

(* A shard that gets sessions, events and replays.                          *)
MCSessions == [s \in Shards |-> 2]
MCEvents   == [s \in Shards |-> 3]
MCWire     == [s \in Shards |-> 3]

(* The first shard gets a session; Discord refuses every other one, which   *)
(* competes for the monitor and for the identifies.                         *)
OneSession == [s \in Shards |-> IF s = 0 THEN 1 ELSE 0]
OneWire    == [s \in Shards |-> 1]
=============================================================================
