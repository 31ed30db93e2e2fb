----------------------------- MODULE MCKvConfig -----------------------------
(* Model-checking instances of KvConfig. *)
EXTENDS KvConfig

MCServerNames == 0..(N - 1)
MCObjs == MCServerNames \X (0..MaxGen)
MCEnds == (MCServerNames \X (0..MaxGen) \X MCServerNames)
            \cup (Clerks \X MCServerNames)
=============================================================================
