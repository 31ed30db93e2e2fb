-------------------------- MODULE MCCheckParallel --------------------------
(* Model-checking instances of CheckParallel: every history of between MinOps *)
(* and MaxOps operations on the keys of AllKeys with times up to MaxTime.     *)
EXTENDS CheckParallel, KvHistories

CONSTANTS MinOps, MaxOps, MaxTime

MCOps ==
    [key : AllKeys, op : {"put"}, value : {<<"a">>}, out : {<<>>}]
    \cup [key : AllKeys, op : {"get"}, value : {<<>>}, out : {<<>>, <<"a">>}]

MCHistories == UNION {TimedHistories(MCOps, n, MaxTime) : n \in MinOps..MaxOps}
=============================================================================
