---------------------------- MODULE MCShardClerk ----------------------------
(* Model-checking instance of ShardClerk: one key in each of two shards. *)
EXTENDS ShardClerk

MCKeys == {Nil, 49}
=============================================================================
