--------------------------- MODULE MCCheckSingle ---------------------------
(* Model-checking instance of CheckSingle: every history of at most N complete *)
(* operations on one key.                                                      *)
EXTENDS CheckSingle, KvHistories

CONSTANT N

\* A put, an append, and gets of what they can lead to.
MCOps ==
    {[key |-> "x", op |-> "put", value |-> <<"a">>, out |-> <<>>],
     [key |-> "x", op |-> "append", value |-> <<"b">>, out |-> <<>>]}
    \cup {[key |-> "x", op |-> "get", value |-> <<>>, out |-> v] :
             v \in {<<>>, <<"a">>, <<"b">>, <<"a", "b">>}}

MCHistories == UNION {EventHistories(MCOps, n) : n \in 0..N}
=============================================================================
