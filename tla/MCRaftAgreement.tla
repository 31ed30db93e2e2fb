-------------------------- MODULE MCRaftAgreement --------------------------
(* Model-checking instance of RaftAgreement: server 0 has been restarted. *)
EXTENDS RaftAgreement, TLC

MCInstances == ((0..(N - 1)) \X {1}) \cup {<<0, 2>>}
MCHost(o) == o[1]
Symmetry == Permutations(Commands)
=============================================================================
