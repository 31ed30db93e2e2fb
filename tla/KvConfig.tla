------------------------------ MODULE KvConfig ------------------------------
(***************************************************************************)
(* The cluster of src/kvraft/config.go: servers are shut down and          *)
(* restarted, partitioned and reconnected, clerks come and go, while calls *)
(* are in progress.  src/shardmaster/config.go is the same code.           *)
(*                                                                         *)
(* Copy() makes a new Persister at every shutdown and every restart.       *)
(***************************************************************************)
EXTENDS Cluster

VARIABLE clerks  \* keys of cfg.clerks

kvVars == <<vars, cfgVars, svcVars, clerks>>

Steps == {"idle", "delete", "copy", "kill", "boot", "add"}

\* Every variable has its type.
KvTypeOK ==
    /\ TypeOK
    /\ saved \in [ServerNames -> Gens]
    /\ running \in [ServerNames -> BOOLEAN]
    /\ endnames \in [ServerNames -> Gens]
    /\ clerks \in SUBSET Clerks
    /\ step \in Steps
    /\ who \in ServerNames
    /\ raftstate \in [Objs -> SUBSET Calls]
    /\ snapshot \in [Objs -> SUBSET Calls]
    /\ started \in SUBSET Objs
    /\ mem \in [Objs -> SUBSET Calls]

-----------------------------------------------------------------------------
\* Mutant: Copy() forgets the snapshot.
CopyRaftStateOnly(i, g) ==
    /\ raftstate' = [raftstate EXCEPT ![<<i, g>>] = raftstate[<<i, saved[i]>>]]
    /\ UNCHANGED snapshot
    /\ saved' = [saved EXCEPT ![i] = g]

\* cfg.saved[i] = cfg.saved[i].Copy()
Copy(i, g) ==
    /\ raftstate' = [raftstate EXCEPT ![<<i, g>>] = raftstate[<<i, saved[i]>>]]
    /\ snapshot' = [snapshot EXCEPT ![<<i, g>>] = snapshot[<<i, saved[i]>>]]
    /\ saved' = [saved EXCEPT ![i] = g]

-----------------------------------------------------------------------------
(***************************************************************************)
(* ShutdownServer and StartServer.  cfg.mu is held in the steps "delete"   *)
(* and "copy"; Kill() and StartKVServer() run without it.                  *)
(***************************************************************************)
MuFree == step \notin {"delete", "copy"}

\* Mutant: the instance is not isolated.
ShutdownConnected(i) ==
    /\ step = "idle" /\ running[i] /\ saved[i] + 2 \in Gens
    /\ step' = "delete" /\ who' = i
    /\ UNCHANGED <<vars, saved, running, endnames, clerks, svcVars>>

\* Bound: a server is shut down only if it can be restarted.
ShutdownServer(i) ==
    /\ step = "idle" /\ running[i] /\ saved[i] + 2 \in Gens
    /\ enabled' = enabled \ Links({i}, ServerNames)
    /\ step' = "delete" /\ who' = i
    /\ UNCHANGED <<reliable, ends, connections, servers, callVars, saved, running,
                   endnames, clerks, svcVars>>

\* Mutant: the server stays registered while its Persister is superseded.
ShutdownKeepServer ==
    /\ step = "delete" /\ step' = "copy"
    /\ UNCHANGED <<vars, saved, running, endnames, clerks, who, svcVars>>

ShutdownDeleteServer ==
    /\ step = "delete" /\ step' = "copy"
    /\ DeleteServer(who)
    /\ UNCHANGED <<saved, running, endnames, clerks, who, svcVars>>

ShutdownCopy ==
    /\ step = "copy" /\ step' = "kill"
    /\ Copy(who, saved[who] + 1)
    /\ UNCHANGED <<vars, running, endnames, clerks, who, started, mem>>

\* kv.Kill() does not stop the instance at once, nor its handlers.
ShutdownKill ==
    /\ step = "kill" /\ step' = "idle"
    /\ running' = [running EXCEPT ![who] = FALSE]
    /\ UNCHANGED <<vars, saved, endnames, clerks, who, svcVars>>

\* "first call ShutdownServer": there is no instance.
StartServer(i) ==
    LET g == saved[i] + 1 IN
    /\ step = "idle" /\ ~running[i] /\ g \in Gens
    /\ step' = "boot" /\ who' = i
    /\ endnames' = [endnames EXCEPT ![i] = g]
    /\ MakeEnds(ServerEnds(i, g), 3, {})
    /\ Copy(i, g)
    /\ UNCHANGED <<reliable, servers, callVars, running, clerks, started, mem>>

\* StartKVServer reads the Persister.  The instance runs before it is registered.
BootServer ==
    LET o == <<who, saved[who]>> IN
    /\ step = "boot" /\ step' = "add"
    /\ running' = [running EXCEPT ![who] = TRUE]
    /\ started' = started \cup {o}
    /\ mem' = [mem EXCEPT ![o] = Stored(o)]
    /\ UNCHANGED <<vars, saved, endnames, clerks, who, diskVars>>

StartAdd ==
    /\ step = "add" /\ step' = "idle"
    /\ AddServer(who, <<who, saved[who]>>)
    /\ UNCHANGED <<saved, running, endnames, clerks, who, svcVars>>

-----------------------------------------------------------------------------
(***************************************************************************)
(* Connections between servers.  The tests change them only while every    *)
(* server is up: connecting a server that has been shut down would enable  *)
(* the ends of its dead instance.                                          *)
(***************************************************************************)
AllUp == step = "idle" /\ \A i \in ServerNames : running[i]

SetLinks(newEnabled) ==
    /\ AllUp
    /\ enabled' = newEnabled
    /\ UNCHANGED <<reliable, ends, connections, servers, callVars, cfgVars, svcVars,
                   clerks>>

connect(i, to) == SetLinks(enabled \cup Links({i}, to))

\* Mutant: only the outgoing ends are disabled.
disconnectOutgoing(i, from) ==
    SetLinks(enabled \ {Link(i, j) : j \in from})

disconnect(i, from) == SetLinks(enabled \ Links({i}, from))

ConnectAll == SetLinks(enabled \cup Links(ServerNames, ServerNames))

\* Every server leaves the other side and joins its own.
partition(p1, p2) ==
    SetLinks((enabled \ Links(p1, p2)) \cup Links(p1, p1) \cup Links(p2, p2))

\* Mutant: the majority is one server too small.
MinoritySide1(l) ==
    {i \in ServerNames \ {l} : Cardinality({k \in 0..(i - 1) : k # l}) < N \div 2}

\* make_partition fills p1 with the first n/2+1 servers other than the leader.
\* (For an even n it has a slot too many, which keeps its initial value 0.)
Majority(l) ==
    {i \in ServerNames \ {l} : Cardinality({k \in 0..(i - 1) : k # l}) < N \div 2 + 1}

\* cfg.partition(cfg.make_partition()) when Leader() has found l.
PartitionLeader(l) ==
    N % 2 = 1 /\ N > 1 /\ partition(Majority(l), ServerNames \ Majority(l))

-----------------------------------------------------------------------------
(***************************************************************************)
(* Clerks                                                                  *)
(***************************************************************************)
ClientEnds(ck, to) == {<<ck, j>> : j \in to}

makeClient(ck, to) ==
    /\ MuFree
    /\ ClientEnds(ck, ServerNames) \cap ends = {}
    /\ MakeEnds(ClientEnds(ck, ServerNames), 2, ClientEnds(ck, to))
    /\ clerks' = clerks \cup {ck}
    /\ UNCHANGED <<reliable, servers, callVars, saved, running, endnames, step,
                   who, svcVars>>

\* The network keeps the clerk's ends.
deleteClient(ck) ==
    /\ MuFree /\ ck \in clerks
    /\ clerks' = clerks \ {ck}
    /\ UNCHANGED <<vars, saved, running, endnames, step, who, svcVars>>

SetClient(ck, newEnabled) ==
    /\ MuFree /\ ck \in clerks
    /\ enabled' = newEnabled
    /\ UNCHANGED <<reliable, ends, connections, servers, callVars, cfgVars, svcVars,
                   clerks>>

ConnectClient(ck, to) == SetClient(ck, enabled \cup ClientEnds(ck, to))

DisconnectClient(ck, from) == SetClient(ck, enabled \ ClientEnds(ck, from))

-----------------------------------------------------------------------------
(***************************************************************************)
(* The specification.  The initial state is the one make_config leaves.    *)
(***************************************************************************)
KvInit ==
    /\ reliable \in BOOLEAN
    /\ ends = UNION {ServerEnds(i, 0) : i \in ServerNames}
    /\ enabled = ends
    /\ connections = [e \in Ends |-> IF e \in ends THEN e[3] ELSE Nil]
    /\ servers = [i \in ServerNames |-> <<i, 0>>]
    /\ count = 0 /\ done = FALSE /\ netUp = TRUE
    /\ NoCalls
    /\ saved = [i \in ServerNames |-> 0]
    /\ running = [i \in ServerNames |-> TRUE]
    /\ endnames = [i \in ServerNames |-> 0]
    /\ clerks = {}
    /\ step = "idle" /\ who = 0
    /\ raftstate = [o \in Objs |-> {}]
    /\ snapshot = [o \in Objs |-> {}]
    /\ started = ServerNames \X {0}
    /\ mem = [o \in Objs |-> {}]

RestartNext ==
    \/ \E i \in ServerNames : ShutdownServer(i) \/ StartServer(i)
    \/ ShutdownDeleteServer \/ ShutdownCopy \/ ShutdownKill \/ BootServer \/ StartAdd

TopologyNext ==
    \/ \E i \in ServerNames, to \in SUBSET ServerNames :
           connect(i, to) \/ disconnect(i, to)
    \/ ConnectAll
    \/ \E p1 \in SUBSET ServerNames : partition(p1, ServerNames \ p1)
    \/ \E l \in ServerNames : PartitionLeader(l)

ClerkNext ==
    \E ck \in Clerks :
        \/ \E to \in SUBSET ServerNames :
               makeClient(ck, to) \/ ConnectClient(ck, to) \/ DisconnectClient(ck, to)
        \/ deleteClient(ck)

KvNext ==
    \/ NetworkNext /\ UNCHANGED <<cfgVars, svcVars, clerks>>
    \/ ServiceNext /\ UNCHANGED clerks
    \/ RestartNext \/ TopologyNext \/ ClerkNext

KvSpec == KvInit /\ [][KvNext]_kvVars

-----------------------------------------------------------------------------
(***************************************************************************)
(* Properties                                                              *)
(***************************************************************************)

\* A call acknowledged to its caller is in the server's latest Persister, the
\* one the next instance is given, whatever restarts happen before and after:
\* no "positive reply to an Append" whose result is persisted "in the
\* superseded Persister" (kvraft/config.go:261-267, labrpc.go:262-268).
Durability ==
    \A c \in Calls :
        verdict[c] = "ok" => c \in Stored(<<target[c], saved[target[c]]>>)

\* A registered instance knows every call its server has acknowledged, also
\* through earlier instances ("we always pass Make() the last persisted
\* state", kvraft/config.go:271-272, 303-307).
AcknowledgedKnown ==
    \A c \in Calls :
        verdict[c] = "ok" /\ servers[target[c]] # Nil =>
            c \in mem[servers[target[c]]]

\* ShutdownServer isolates the instance for good: between servers, only the
\* ends of two running instances are ever enabled, never one made for an
\* earlier instance (kvraft/config.go:254-259, 290-301).
DeadInstancesIsolated ==
    \A i, j \in ServerNames, g \in Gens :
        <<i, g, j>> \in enabled => g = endnames[i] /\ running[i] /\ running[j]

\* Servers are connected both ways or not at all, across partitions, restarts
\* and reconnections (kvraft/config.go:107-186, 287-301).
LinksSymmetric ==
    \A i, j \in ServerNames : Link(i, j) \in enabled => Link(j, i) \in enabled

\* "put current leader in minority" (kvraft/config.go:338): after a partition
\* chosen by make_partition the leader reaches less than half of the servers.
LeaderInMinority ==
    [][\A l \in ServerNames : PartitionLeader(l) =>
          2 * Cardinality({j \in ServerNames : Link(l, j) \in enabled'}) < N]_kvVars
=============================================================================
