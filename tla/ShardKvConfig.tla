--------------------------- MODULE ShardKvConfig ---------------------------
(***************************************************************************)
(* The cluster of src/shardkv/config.go: groups of shard servers and the   *)
(* replicas of the shardmaster, on one network.  Here all of them are      *)
(* numbered 0..(N - 1), and GroupOf tells the group of a shard server.     *)
(*                                                                         *)
(* A server has ends to its group and to the masters.  Shutting it down    *)
(* disables these and no others, where kvraft's config disables the ends   *)
(* of the other servers too; and a server that is started has its ends     *)
(* enabled at once.  From there on ShutdownServer and StartServer are the  *)
(* code of kvraft's config, and its actions are used.                      *)
(*                                                                         *)
(* To reach the servers that a configuration names, those of its own group *)
(* too, instances and clerks make ends with make_end.  The config does not *)
(* remember these.  All the ends that one of them makes to a server are    *)
(* the same end here: none is ever disabled.                               *)
(***************************************************************************)
EXTENDS KvConfig

CONSTANTS
    Masters,     \* the shardmaster's replicas
    GroupOf(_),  \* the group of a shard server
    mck,         \* the clerk that joins groups
    Restarted,   \* bounds the servers that are ever shut down
    EndMakers    \* bounds the instances that call make_end

ShardServers == ServerNames \ Masters
Group(i) == {j \in ShardServers : GroupOf(j) = GroupOf(i)}

\* Groups have as many servers as there are masters, as in every test:
\* makeClient indexes an array of size n by masters, and StartServer one of
\* size nmasters by the servers of a group.
ASSUME ShardKvAssumption ==
    /\ Masters \subseteq ServerNames
    /\ \A i \in ShardServers : Cardinality(Group(i)) = Cardinality(Masters)
    /\ mck \in Clerks
    /\ Restarted \subseteq ShardServers
    /\ EndMakers \subseteq Objs /\ EndMakers \X ShardServers \subseteq Ends

VARIABLE named  \* servers that a configuration of the shardmaster has named

shardVars == <<kvVars, named>>

\* Every variable has its type.
ShardTypeOK == KvTypeOK /\ named \in SUBSET ShardServers

-----------------------------------------------------------------------------
(***************************************************************************)
(* ShutdownServer, StartServer, StartMasterServer                          *)
(***************************************************************************)

\* The servers an instance is given ends to.
Reach(i) == IF i \in Masters THEN Masters ELSE Group(i) \cup Masters

\* endnames[i] and mendnames[i] of instance g.
OwnEnds(i, g) == {<<i, g, j>> : j \in Reach(i)}

\* Mutant: the ends to the masters are forgotten.
DisabledGroupOnly(i) == {Link(i, j) : j \in Group(i)}

\* What "prevent this server from sending" disables.
Disabled(i) == {Link(i, j) : j \in Reach(i)}

\* There need not be an instance.  Bound: the server can be started again.
ShutdownShardServer(i) ==
    /\ step = "idle" /\ saved[i] + 2 \in Gens
    /\ enabled' = enabled \ Disabled(i)
    /\ step' = "delete" /\ who' = i
    /\ UNCHANGED <<reliable, ends, connections, servers, callVars, saved, running,
                   endnames, clerks, svcVars, named>>

\* DeleteServer, Copy and Kill, the last without the lock.
ShutdownRest ==
    (ShutdownDeleteServer \/ ShutdownCopy \/ ShutdownKill) /\ UNCHANGED named

StartShardServer(i) ==
    LET g == saved[i] + 1 IN
    /\ step = "idle" /\ ~running[i] /\ g \in Gens
    /\ step' = "boot" /\ who' = i
    /\ endnames' = [endnames EXCEPT ![i] = g]
    /\ MakeEnds(OwnEnds(i, g), 3, OwnEnds(i, g))
    /\ Copy(i, g)
    /\ UNCHANGED <<reliable, servers, callVars, running, clerks, started, mem, named>>

\* StartServer of the service, and net.AddServer.
StartRest == (BootServer \/ StartAdd) /\ UNCHANGED named

-----------------------------------------------------------------------------
(***************************************************************************)
(* Clerks and configurations                                               *)
(***************************************************************************)

\* The function that makeClient and StartServer pass as make_end, called by
\* whoever has it, also by an instance after Kill().
make_end(e, k) ==
    /\ e \notin ends /\ e[k] \in named
    /\ MakeEnds({e}, k, {e})
    /\ UNCHANGED <<reliable, servers, callVars, cfgVars, svcVars, clerks, named>>

InstanceMakeEnd(o, j) == o \in started /\ o[1] \notin Masters /\ make_end(<<o, j>>, 2)

ClerkMakeEnd(ck, j) == ck \in clerks /\ make_end(<<ck, j>>, 2)

makeShardClient(ck) ==
    /\ MuFree /\ ck # mck
    /\ ClientEnds(ck, ServerNames) \cap ends = {}
    /\ MakeEnds(ClientEnds(ck, Masters), 2, ClientEnds(ck, Masters))
    /\ clerks' = clerks \cup {ck}
    /\ UNCHANGED <<reliable, servers, callVars, saved, running, endnames, step,
                   who, svcVars, named>>

deleteShardClient(ck) == deleteClient(ck) /\ UNCHANGED named

\* Join of group i's servers by mck, which the shardmaster (external) puts
\* into a configuration.  A server named once may be known for ever: leave
\* makes no difference to what clerks and servers have learned.
join(i) ==
    /\ named' = named \cup Group(i)
    /\ UNCHANGED kvVars

-----------------------------------------------------------------------------
(***************************************************************************)
(* The specification.  The initial state is the one make_config leaves.    *)
(***************************************************************************)
\* shardclerk: the ends of mck.
MckEnds == ClientEnds(mck, Masters)

ShardKvInit ==
    LET own == UNION {OwnEnds(i, 0) : i \in ServerNames}
    IN
    /\ reliable \in BOOLEAN
    /\ ends = own \cup MckEnds
    /\ enabled = ends
    /\ connections = [e \in Ends |-> CASE e \in own     -> e[3]
                                       [] e \in MckEnds -> e[2]
                                       [] OTHER         -> Nil]
    /\ servers = [i \in ServerNames |-> <<i, 0>>]
    /\ count = 0 /\ done = FALSE /\ netUp = TRUE
    /\ NoCalls
    /\ saved = [i \in ServerNames |-> 0]
    /\ running = [i \in ServerNames |-> TRUE]
    /\ endnames = [i \in ServerNames |-> 0]
    /\ clerks = {}
    /\ step = "idle" /\ who = 0
    /\ raftstate = [o \in Objs |-> {}]
    /\ snapshot = [o \in Objs |-> {}]
    /\ started = ServerNames \X {0}
    /\ mem = [o \in Objs |-> {}]
    /\ named = {}

GroupNext ==
    \/ \E i \in Restarted : ShutdownShardServer(i) \/ StartShardServer(i)
    \/ \E i \in ShardServers : join(i)
    \/ ShutdownRest \/ StartRest

EndsNext ==
    \/ \E o \in EndMakers, j \in ShardServers : InstanceMakeEnd(o, j)
    \/ \E ck \in Clerks :
           \/ \E j \in ShardServers : ClerkMakeEnd(ck, j)
           \/ makeShardClient(ck) \/ deleteShardClient(ck)

ShardKvNext ==
    \/ NetworkNext /\ UNCHANGED <<cfgVars, svcVars, clerks, named>>
    \/ ServiceNext /\ UNCHANGED <<clerks, named>>
    \/ GroupNext \/ EndsNext

ShardKvSpec == ShardKvInit /\ [][ShardKvNext]_shardVars

-----------------------------------------------------------------------------
(***************************************************************************)
(* Properties                                                              *)
(***************************************************************************)

\* Within its group and towards the masters an instance is connected exactly
\* from its start to its shutdown, whatever restarts the others go through
\* meanwhile: one that is "isolated" (shardkv/config.go:152-167) never gets
\* through again, and a new one reaches all of them (shardkv/config.go:
\* 206-230).  The ends a dead instance has made with make_end are not covered:
\* they stay enabled.
Live(i) ==
    \/ running[i] /\ ~(who = i /\ step \in {"delete", "copy", "kill"})
    \/ who = i /\ step = "boot"
GroupConnected ==
    \A i \in ShardServers, g \in Gens : \A j \in Reach(i) :
        <<i, g, j>> \in enabled <=> g = endnames[i] /\ Live(i)

\* A request is never given to an instance whose Persister is superseded,
\* also when it comes in through an end made before the restart, which knows
\* the server by its name only (shardkv/config.go:169-175, 232-241).
RoutedToLatest ==
    [][\A c \in Calls :
          server'[c] \notin {Nil, server[c]} =>
              server'[c] = <<target'[c], saved[target'[c]]>>]_shardVars
=============================================================================
