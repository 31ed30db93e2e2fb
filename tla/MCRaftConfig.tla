---------------------------- MODULE MCRaftConfig ----------------------------
(* Model-checking instances of RaftConfig. *)
EXTENDS RaftConfig

MCServerNames == 0..(N - 1)
MCObjs == MCServerNames \X (0..MaxGen)
MCEnds == (MCServerNames \X (0..MaxGen) \X MCServerNames)
            \cup (Clerks \X MCServerNames)
=============================================================================
