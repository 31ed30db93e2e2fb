------------------------------ MODULE Cluster ------------------------------
(***************************************************************************)
(* What the clusters of src/kvraft/config.go, src/shardmaster/config.go    *)
(* and src/raft/config.go have in common: servers on a labrpc network,     *)
(* each with outgoing ends whose names are chosen afresh for every         *)
(* instance, and a Persister (src/raft/persister.go) given to the instance *)
(* when it is started and superseded by a copy when it is shut down.       *)
(*                                                                         *)
(* The Persisters of server i are <<i, 0>>, <<i, 1>>, ... and saved[i] is  *)
(* the number of the latest.  A server object, and the names of its        *)
(* outgoing ends, are told apart by the Persister the instance was given.  *)
(*                                                                         *)
(* The services are stubs in this repository.  What an instance does is    *)
(* therefore external: a handler adds the call to the instance's log, the  *)
(* instance persists its log at any time, also after Kill(), and a handler *)
(* returns only when its call has been persisted.                          *)
(***************************************************************************)
EXTENDS Labrpc, FiniteSets

CONSTANTS
    N,       \* cfg.n
    MaxGen,  \* bounds the number of Persisters of a server
    Clerks   \* clients of the servers, with ends of their own

Gens == 0..MaxGen

ASSUME ClusterAssumption ==
    /\ N \in Nat \ {0}
    /\ MaxGen \in Nat
    /\ ServerNames = 0..(N - 1)
    /\ Objs = ServerNames \X Gens
    /\ (ServerNames \X Gens \X ServerNames) \cup (Clerks \X ServerNames) \subseteq Ends

VARIABLES
    saved,      \* cfg.saved: number of each server's latest Persister
    running,    \* is cfg.kvservers[i], or cfg.rafts[i], an instance?
    endnames,   \* cfg.endnames: number of the instance they were made for
    step,       \* where the tester is in shutting down or starting a server
    who,        \* and which server
    raftstate,  \* Persister.raftstate: the calls in the log it holds
    snapshot,   \* Persister.snapshot: the calls it covers
    started,    \* instances that have been started
    mem         \* calls an instance has executed or read from its Persister

cfgVars == <<saved, running, endnames, step, who>>
diskVars == <<raftstate, snapshot>>
svcVars == <<diskVars, started, mem>>

-----------------------------------------------------------------------------
(***************************************************************************)
(* Ends                                                                    *)
(***************************************************************************)
ServerEnds(i, g) == {<<i, g, j>> : j \in ServerNames}

\* cfg.endnames[i][j]
Link(i, j) == <<i, endnames[i], j>>

\* The outgoing and incoming ends between servers of I and servers of J.
Links(I, J) == {Link(i, j) : i \in I, j \in J} \cup {Link(j, i) : i \in I, j \in J}

\* net.MakeEnd and net.Connect for a fresh set of ends, each connected to the
\* server that the k-th component of its name tells; then those in `on` are
\* enabled.
MakeEnds(es, k, on) ==
    /\ ends' = ends \cup es
    /\ connections' = [e \in Ends |-> IF e \in es THEN e[k] ELSE connections[e]]
    /\ enabled' = (enabled \ es) \cup on

-----------------------------------------------------------------------------
(***************************************************************************)
(* Persisters and the instances that use them                              *)
(***************************************************************************)
Stored(o) == raftstate[o] \cup snapshot[o]

\* The call reaches the instance's log.
ServiceRun(c) ==
    /\ RunHandler(c)
    /\ mem' = [mem EXCEPT ![server[c]] = @ \cup {c}]
    /\ UNCHANGED <<cfgVars, diskVars, started>>

\* The handler persists before it returns.
ServiceReturn(c) ==
    /\ ReturnFromHandler(c)
    /\ c \in Stored(server[c])
    /\ UNCHANGED <<cfgVars, svcVars>>

\* An instance saves what its snapshot does not cover as raft state.
SaveRaftState(o) ==
    /\ o \in started
    /\ raftstate' = [raftstate EXCEPT ![o] = mem[o] \ snapshot[o]]
    /\ UNCHANGED <<vars, cfgVars, snapshot, started, mem>>

\* An instance discards its log after putting it into a snapshot, atomically.
SaveStateAndSnapshot(o) ==
    /\ o \in started
    /\ raftstate' = [raftstate EXCEPT ![o] = {}]
    /\ snapshot' = [snapshot EXCEPT ![o] = mem[o]]
    /\ UNCHANGED <<vars, cfgVars, started, mem>>

ServiceNext ==
    \/ \E c \in Calls : ServiceRun(c) \/ ServiceReturn(c)
    \/ \E o \in Objs : SaveRaftState(o) \/ SaveStateAndSnapshot(o)
=============================================================================
