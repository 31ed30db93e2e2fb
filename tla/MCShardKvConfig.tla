-------------------------- MODULE MCShardKvConfig --------------------------
(* Model-checking instance of ShardKvConfig: server 0 is the master, and each *)
(* other server is a group of its own.  Server 1's first instance makes ends. *)
EXTENDS ShardKvConfig

MCServerNames == 0..(N - 1)
MCObjs == MCServerNames \X (0..MaxGen)
MCEnds == (MCServerNames \X (0..MaxGen) \X MCServerNames)
            \cup ((Clerks \cup {<<1, 0>>}) \X MCServerNames)
MCEndMakers == {<<1, 0>>}
MCGroupOf(i) == i
=============================================================================
