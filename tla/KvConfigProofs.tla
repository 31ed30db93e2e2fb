--------------------------- MODULE KvConfigProofs ---------------------------
(***************************************************************************)
(* Proofs about KvConfig and ShardKvConfig, for any number of servers,     *)
(* groups, restarts, clerks and calls: acknowledged calls are durable,     *)
(* shut-down instances stay isolated, and make_partition puts the leader   *)
(* in a minority.                                                          *)
(***************************************************************************)
EXTENDS ShardKvConfig, LabrpcProofs, FiniteSetTheorems

\* A registered server is the instance that was given the latest Persister, and
\* so is the one that is about to be registered.  It has been deleted before
\* ShutdownServer copies that Persister.
RegisteredIsLatest ==
    /\ \A i \in ServerNames : servers[i] # Nil =>
           /\ servers[i] = <<i, saved[i]>>
           /\ servers[i] \in started
           /\ running[i]
           /\ ~(step \in {"copy", "kill"} /\ who = i)
    /\ step = "add" => <<who, saved[who]>> \in started /\ running[who]

\* Copy() writes to a Persister that no instance has been given.
FreshPersisters ==
    \A i \in ServerNames, g \in Gens : <<i, g>> \in started => g <= saved[i]

RoutedToStarted ==
    \A c \in Calls : server[c] # Nil => server[c] \in started

\* What an instance persists again includes what it has persisted before.
MemCoversStored ==
    \A o \in started : Stored(o) \subseteq mem[o]

RepliedIsStored ==
    \A c \in Calls : hpc[c] \in {"replying", "exited"} => c \in Stored(server[c])

StorageInv ==
    /\ RegisteredIsLatest /\ FreshPersisters /\ RoutedToStarted
    /\ MemCoversStored /\ RepliedIsStored /\ Durability

\* The ends of a server that is being shut down are disabled as well.
IsolatedInv ==
    \A i, j \in ServerNames, g \in Gens : <<i, g, j>> \in enabled =>
        /\ g = endnames[i] /\ running[i] /\ running[j]
        /\ ~(step \in {"delete", "copy", "kill"} /\ who \in {i, j})

\* The bound on Persisters leaves room for the Copy() in progress.
RoomForCopy == step \in {"delete", "copy"} => saved[who] + 1 \in Gens

KvInv == KvTypeOK /\ Inv /\ StorageInv /\ RoomForCopy

-----------------------------------------------------------------------------
\* Ends between servers are ends of the network.
LEMMA ServerEndsAreEnds ==
    \A i, j \in ServerNames, g \in Gens : <<i, g, j>> \in Ends
  BY ClusterAssumption

\* The first Persister has a number.
LEMMA FirstGen == 0 \in Gens
  BY ClusterAssumption DEF Gens

\* The state make_config leaves satisfies the invariants.
LEMMA KvInitInv == KvInit => KvInv /\ IsolatedInv /\ LinksSymmetric
  <1> SUFFICES ASSUME KvInit PROVE KvInv /\ IsolatedInv /\ LinksSymmetric
    OBVIOUS
  <1> USE ClusterAssumption DEF KvInit, Gens
  <1>1. /\ enabled \in SUBSET Ends
        /\ connections \in [Ends -> ServerNames \cup {Nil}]
        /\ ends \in SUBSET Ends
    <2>1. \A e \in ends : e \in Ends /\ e[3] \in ServerNames
      <3>1. \A i, j \in ServerNames : <<i, 0, j>> \in Ends
        BY ServerEndsAreEnds, FirstGen
      <3>. QED
        BY <3>1 DEF ServerEnds
    <2>. QED
      BY <2>1
  <1>2. TypeOK
    <2>1. servers \in [ServerNames -> Objs \cup {Nil}]
      OBVIOUS
    <2>. QED
      BY <1>1, <2>1 DEF NoCalls, TypeOK, PCs, HandlerPCs, Verdicts
  <1>3. KvTypeOK
    BY <1>2 DEF KvTypeOK, Steps
  <1>4. ASSUME NEW c \in Calls PROVE CallInv(c)
    BY DEF NoCalls, CallInv, HasEnd, HasServer, BeforeHandler, InLoop, AfterLoop,
           Answered, HasReceiver, ReplyReceived, ExecutedOnce
  <1>5. StorageInv
    BY DEF StorageInv, RegisteredIsLatest, FreshPersisters, RoutedToStarted,
           MemCoversStored, RepliedIsStored, Durability, NoCalls, Stored
  <1>6. IsolatedInv
    BY DEF IsolatedInv, ServerEnds
  <1>7. LinksSymmetric
    BY DEF LinksSymmetric, Link, ServerEnds
  <1>. QED
    BY <1>2, <1>3, <1>4, <1>5, <1>6, <1>7 DEF KvInv, Inv, RoomForCopy

-----------------------------------------------------------------------------
(***************************************************************************)
(* Types, and the invariant of the calls in progress                       *)
(***************************************************************************)

\* Making fresh ends keeps the types of the tables.
LEMMA MakeEndsType ==
    ASSUME TypeOK, NEW es \in SUBSET Ends, NEW k, NEW on \in SUBSET es,
           \A e \in es : e[k] \in ServerNames, MakeEnds(es, k, on)
    PROVE  /\ ends' \in SUBSET Ends
           /\ connections' \in [Ends -> ServerNames \cup {Nil}]
           /\ enabled' \in SUBSET Ends
  BY DEF TypeOK, MakeEnds

\* Links between servers are ends.
LEMMA LinksAreEnds ==
    ASSUME KvTypeOK, NEW I \in SUBSET ServerNames, NEW J \in SUBSET ServerNames
    PROVE  Links(I, J) \subseteq Ends
  BY ServerEndsAreEnds DEF KvTypeOK, Links, Link

\* Copy() keeps the types of the Persisters.
LEMMA CopyType ==
    ASSUME KvTypeOK, NEW i \in ServerNames, NEW g \in Gens, Copy(i, g)
    PROVE  /\ saved' \in [ServerNames -> Gens]
           /\ raftstate' \in [Objs -> SUBSET Calls]
           /\ snapshot' \in [Objs -> SUBSET Calls]
  BY ClusterAssumption DEF KvTypeOK, Copy

\* Every step keeps the types and the invariant of the calls in progress.
LEMMA KvTypeStep == KvInv /\ [KvNext]_kvVars => KvTypeOK' /\ Inv'
  <1> SUFFICES ASSUME KvInv, [KvNext]_kvVars PROVE KvTypeOK' /\ Inv'
    OBVIOUS
  <1>0. KvTypeOK /\ TypeOK /\ Inv
    BY DEF KvInv, KvTypeOK
  <1> USE <1>0 DEF cfgVars, svcVars, diskVars
  <1>1. CASE NetworkNext /\ UNCHANGED <<cfgVars, svcVars, clerks>>
    <2>1. TypeOK' /\ Inv'
      BY <1>1, NextInv DEF Next, Inv
    <2>. QED
      BY <1>1, <2>1 DEF KvTypeOK
  <1>2. ASSUME NEW c \in Calls, ServiceRun(c), UNCHANGED clerks PROVE KvTypeOK' /\ Inv'
    <2>1. TypeOK' /\ Inv'
      BY <1>2, NextInv DEF ServiceRun, Next, HandlerNext, Inv
    <2>. QED
      BY <1>2, <2>1 DEF KvTypeOK, ServiceRun
  <1>3. ASSUME NEW c \in Calls, ServiceReturn(c), UNCHANGED clerks PROVE KvTypeOK' /\ Inv'
    <2>1. TypeOK' /\ Inv'
      BY <1>3, NextInv DEF ServiceReturn, Next, HandlerNext, Inv
    <2>. QED
      BY <1>3, <2>1 DEF KvTypeOK, ServiceReturn
  <1>4. ASSUME NEW o \in Objs, SaveRaftState(o) \/ SaveStateAndSnapshot(o),
               UNCHANGED clerks
        PROVE  KvTypeOK' /\ Inv'
    <2>1. TypeOK' /\ Inv'
      BY <1>4, NextInv DEF Inv, SaveRaftState, SaveStateAndSnapshot
    <2>. QED
      BY <1>4, <2>1 DEF KvTypeOK, SaveRaftState, SaveStateAndSnapshot
  <1>5. CASE ShutdownCopy \/ ShutdownKill \/ UNCHANGED kvVars
    <2>1. TypeOK' /\ Inv'
      BY <1>5, NextInv DEF Inv, ShutdownCopy, ShutdownKill, kvVars
    <2>2. CASE ShutdownCopy
      BY <2>1, <2>2, CopyType DEF ShutdownCopy, KvTypeOK, Steps, KvInv, RoomForCopy
    <2>3. CASE ShutdownKill \/ UNCHANGED kvVars
      BY <2>1, <2>3 DEF ShutdownKill, KvTypeOK, Steps, kvVars
    <2>. QED
      BY <1>5, <2>1, <2>2, <2>3
  <1>6. ASSUME NEW i \in ServerNames, ShutdownServer(i) PROVE KvTypeOK' /\ Inv'
    <2>1. TypeOK'
      BY <1>6 DEF ShutdownServer, TypeOK, callVars, netVars, locals
    <2>2. Inv'
      BY <1>6, <2>1, TableStep DEF ShutdownServer, callVars
    <2>. QED
      BY <1>6, <2>1, <2>2 DEF KvTypeOK, ShutdownServer, Steps
  <1>7. CASE ShutdownDeleteServer \/ StartAdd
    <2> DEFINE o == <<who, saved[who]>>
    <2>0. o \in Objs /\ who \in ServerNames
      BY ClusterAssumption DEF KvTypeOK
    <2>1. TypeOK'
      <3>1. servers' \in [ServerNames -> Objs \cup {Nil}]
        BY <1>7, <2>0 DEF ShutdownDeleteServer, StartAdd, DeleteServer,
           AddServer, TypeOK
      <3>. QED
        BY <1>7, <3>1 DEF ShutdownDeleteServer, StartAdd, DeleteServer,
           AddServer, TypeOK, callVars, netVars, locals
    <2>2. Inv'
      BY <1>7, <2>1, TableStep DEF ShutdownDeleteServer, StartAdd, DeleteServer,
         AddServer, callVars
    <2>. QED
      BY <1>7, <2>1, <2>2 DEF KvTypeOK, ShutdownDeleteServer, StartAdd, Steps
  <1>14. CASE BootServer
    <2> DEFINE o == <<who, saved[who]>>
    <2>0. o \in Objs /\ who \in ServerNames
      BY ClusterAssumption DEF KvTypeOK
    <2>1. TypeOK' /\ Inv'
      BY <1>14, NextInv DEF Inv, BootServer
    <2>2. Stored(o) \in SUBSET Calls
      BY <2>0 DEF KvTypeOK, Stored
    <2>. QED
      BY <1>14, <2>0, <2>1, <2>2 DEF KvTypeOK, BootServer, Steps
  <1>8. ASSUME NEW i \in ServerNames, StartServer(i) PROVE KvTypeOK' /\ Inv'
    <2> DEFINE g == saved[i] + 1
    <2>1. /\ g \in Gens /\ Copy(i, g)
          /\ ServerEnds(i, g) \in SUBSET Ends
          /\ \A e \in ServerEnds(i, g) : e[3] \in ServerNames
      BY <1>8, ClusterAssumption DEF StartServer, ServerEnds
    <2>a. MakeEnds(ServerEnds(i, g), 3, {})
      BY <1>8 DEF StartServer
    <2>b. /\ ends' \in SUBSET Ends
          /\ connections' \in [Ends -> ServerNames \cup {Nil}]
          /\ enabled' \in SUBSET Ends
      BY <2>1, <2>a, MakeEndsType
    <2>2. TypeOK'
      BY <1>8, <2>b DEF StartServer, TypeOK, callVars, netVars, locals
    <2>3. Inv'
      BY <1>8, <2>2, TableStep DEF StartServer, callVars
    <2>. QED
      BY <1>8, <2>1, <2>2, <2>3, CopyType DEF KvTypeOK, StartServer, Steps
  <1>9. ASSUME NEW new \in SUBSET Ends, SetLinks(new) PROVE KvTypeOK' /\ Inv'
    <2>1. TypeOK'
      BY <1>9 DEF SetLinks, TypeOK, callVars, netVars, locals
    <2>2. Inv'
      BY <1>9, <2>1, TableStep DEF SetLinks, callVars
    <2>. QED
      BY <1>9, <2>1, <2>2 DEF KvTypeOK, SetLinks
  <1>10. CASE TopologyNext
    <2>1. ASSUME NEW p1 \in SUBSET ServerNames, NEW p2 \in SUBSET ServerNames,
                 partition(p1, p2)
          PROVE  KvTypeOK' /\ Inv'
      <3>1. (enabled \ Links(p1, p2)) \cup Links(p1, p1) \cup Links(p2, p2) \in SUBSET Ends
        BY LinksAreEnds DEF TypeOK
      <3>. QED
        BY <1>9, <2>1, <3>1 DEF partition
    <2>2. ASSUME NEW i \in ServerNames, NEW to \in SUBSET ServerNames,
                 connect(i, to) \/ disconnect(i, to)
          PROVE  KvTypeOK' /\ Inv'
      <3>1. /\ enabled \cup Links({i}, to) \in SUBSET Ends
            /\ enabled \ Links({i}, to) \in SUBSET Ends
        BY LinksAreEnds DEF TypeOK
      <3>. QED
        BY <1>9, <2>2, <3>1 DEF connect, disconnect
    <2>3. CASE ConnectAll
      <3>1. enabled \cup Links(ServerNames, ServerNames) \in SUBSET Ends
        BY LinksAreEnds DEF TypeOK
      <3>. QED
        BY <1>9, <2>3, <3>1 DEF ConnectAll
    <2>. QED
      BY <1>10, <2>1, <2>2, <2>3 DEF TopologyNext, PartitionLeader, Majority
  <1>11. ASSUME NEW ck \in Clerks, NEW to \in SUBSET ServerNames, makeClient(ck, to)
         PROVE  KvTypeOK' /\ Inv'
    <2>1. /\ ClientEnds(ck, ServerNames) \in SUBSET Ends
          /\ ClientEnds(ck, to) \in SUBSET ClientEnds(ck, ServerNames)
          /\ \A e \in ClientEnds(ck, ServerNames) : e[2] \in ServerNames
      BY ClusterAssumption DEF ClientEnds
    <2>a. MakeEnds(ClientEnds(ck, ServerNames), 2, ClientEnds(ck, to))
      BY <1>11 DEF makeClient
    <2>b. /\ ends' \in SUBSET Ends
          /\ connections' \in [Ends -> ServerNames \cup {Nil}]
          /\ enabled' \in SUBSET Ends
      BY <2>1, <2>a, MakeEndsType
    <2>2. TypeOK'
      BY <1>11, <2>b DEF makeClient, TypeOK, callVars, netVars, locals
    <2>3. Inv'
      BY <1>11, <2>2, TableStep DEF makeClient, callVars
    <2>. QED
      BY <1>11, <2>2, <2>3 DEF KvTypeOK, makeClient
  <1>12. ASSUME NEW ck \in Clerks, NEW to \in SUBSET ServerNames,
                ConnectClient(ck, to) \/ DisconnectClient(ck, to)
         PROVE  KvTypeOK' /\ Inv'
    <2>1. ClientEnds(ck, to) \in SUBSET Ends
      BY ClusterAssumption DEF ClientEnds
    <2>2. TypeOK'
      BY <1>12, <2>1 DEF ConnectClient, DisconnectClient, SetClient, TypeOK, callVars,
         netVars, locals
    <2>3. Inv'
      BY <1>12, <2>2, TableStep DEF ConnectClient, DisconnectClient, SetClient, callVars
    <2>. QED
      BY <1>12, <2>2, <2>3 DEF KvTypeOK, ConnectClient, DisconnectClient, SetClient
  <1>13. ASSUME NEW ck \in Clerks, deleteClient(ck) PROVE KvTypeOK' /\ Inv'
    <2>1. TypeOK' /\ Inv'
      BY <1>13, NextInv DEF Inv, deleteClient
    <2>. QED
      BY <1>13, <2>1 DEF KvTypeOK, deleteClient
  <1>. QED
    BY <1>1, <1>2, <1>3, <1>4, <1>5, <1>6, <1>7, <1>8, <1>10, <1>11, <1>12, <1>13,
       <1>14 DEF KvNext, ServiceNext, RestartNext, ClerkNext

-----------------------------------------------------------------------------
(***************************************************************************)
(* Storage                                                                 *)
(***************************************************************************)

\* A step of the network keeps the storage invariant.  The case that matters
\* is ChooseReply: a positive reply needs a final look at the tables.
LEMMA NetworkStorage ==
    KvInv /\ NetworkNext /\ UNCHANGED <<cfgVars, svcVars>> => StorageInv'
  <1> SUFFICES ASSUME KvInv, NetworkNext, UNCHANGED <<cfgVars, svcVars>>
               PROVE  StorageInv'
    OBVIOUS
  <1> USE DEF cfgVars, svcVars, diskVars
  <1>0. KvTypeOK /\ TypeOK /\ Inv /\ StorageInv
    BY DEF KvInv, KvTypeOK
  <1>1. servers' = servers
    BY <1>0 DEF NetworkNext, Call, Send, AcceptReq, CallNetworkDone, ProcessReq, Route,
       ReadEndnameInfo, Forward, DropRequest, FailCall, StartHandler, Await,
       ReceiveReply, GiveUp, Finish, ChooseReply, Deliver, Unreachable, Dispatch,
       Drain, NetworkStop, Cleanup, tables, netVars
  <1>2. RegisteredIsLatest' /\ FreshPersisters' /\ MemCoversStored'
    BY <1>0, <1>1 DEF StorageInv, RegisteredIsLatest, FreshPersisters,
       MemCoversStored, Stored
  <1>3. ASSUME NEW c \in Calls, ReadEndnameInfo(c)
        PROVE  /\ hpc[c] = "none" /\ verdict[c] = "none"
               /\ server'[c] # Nil => server'[c] \in started
    <2>1. endname[c] \in Ends /\ hpc[c] = "none" /\ verdict[c] = "none"
      BY <1>0, <1>3 DEF Inv, CallInv, HasEnd, BeforeHandler, ReadEndnameInfo, Goto
    <2>2. ServerOf(endname[c]) # Nil => ServerOf(endname[c]) \in started
      BY <1>0, <2>1, NilAssumption DEF ServerOf, StorageInv, RegisteredIsLatest, TypeOK
    <2>3. server'[c] = ServerOf(endname[c])
      BY <1>0, <1>3 DEF ReadEndnameInfo, TypeOK
    <2>. QED
      BY <2>1, <2>2, <2>3
  <1>4. ASSUME NEW c \in Calls, ChooseReply(c), verdict'[c] = "ok"
        PROVE  c \in Stored(<<target[c], saved[target[c]]>>)
    <2>1. replyOK[c] /\ servers[target[c]] = server[c]
      BY <1>0, <1>4 DEF ChooseReply, Replies, IsServerDead, TypeOK
    <2>2. hpc[c] = "exited" /\ target[c] \in ServerNames /\ server[c] \in Objs
      BY <1>0, <2>1 DEF Inv, CallInv, ReplyReceived, HasServer
    <2>3. server[c] = <<target[c], saved[target[c]]>>
      BY <1>0, <2>1, <2>2, NilAssumption DEF StorageInv, RegisteredIsLatest
    <2>. QED
      BY <1>0, <2>2, <2>3 DEF StorageInv, RepliedIsStored
  <1>5. ASSUME NEW c \in Calls
        PROVE  /\ server'[c] # Nil => server'[c] \in started
               /\ hpc'[c] \in {"replying", "exited"} => c \in Stored(server'[c])
               /\ verdict'[c] = "ok" => c \in Stored(<<target'[c], saved[target'[c]]>>)
    <2>1. CASE ReadEndnameInfo(c)
      <3>1. hpc'[c] = "none" /\ verdict'[c] = "none"
        BY <1>3, <2>1 DEF ReadEndnameInfo
      <3>. QED
        BY <1>3, <2>1, <3>1
    <2>2. CASE server'[c] = server[c] /\ target'[c] = target[c]
      BY <1>0, <1>4, <2>2, NetworkFacts
         DEF StorageInv, RoutedToStarted, RepliedIsStored, Durability
    <2>. QED
      BY <1>0, <2>1, <2>2, NetworkFacts
  <1>6. RoutedToStarted' /\ RepliedIsStored' /\ Durability'
    <2>1. \A o : Stored(o)' = Stored(o)
      BY DEF Stored
    <2>. QED
      BY <1>5 DEF RoutedToStarted, RepliedIsStored, Durability, Stored
  <1>. QED
    BY <1>2, <1>6 DEF StorageInv

\* Handlers and Persisters: a Persister's content only grows.
LEMMA ServiceStorage == KvInv /\ ServiceNext => StorageInv'
  <1> SUFFICES ASSUME KvInv, ServiceNext PROVE StorageInv'
    OBVIOUS
  <1> USE DEF cfgVars, svcVars, diskVars, tables, netVars, locals
  <1>0. KvTypeOK /\ TypeOK /\ Inv /\ StorageInv
    BY DEF KvInv, KvTypeOK
  <1>1. ASSUME NEW c \in Calls, ServiceRun(c) PROVE StorageInv'
    <2>1. \A o \in Objs : mem[o] \subseteq mem'[o]
      BY <1>0, <1>1 DEF ServiceRun, KvTypeOK
    <2>2. \A d \in Calls : hpc'[d] \in {"replying", "exited"} =>
                               hpc[d] \in {"replying", "exited"}
      BY <1>0, <1>1 DEF ServiceRun, RunHandler, GotoHandler, TypeOK
    <2>3. UNCHANGED <<tables, locals, verdict, cfgVars, diskVars, started>>
      BY <1>1 DEF ServiceRun, RunHandler
    <2>4. MemCoversStored'
      BY <1>0, <2>1, <2>3 DEF StorageInv, MemCoversStored, Stored, KvTypeOK
    <2>. QED
      BY <1>0, <2>2, <2>3, <2>4 DEF StorageInv, RegisteredIsLatest, FreshPersisters,
         RoutedToStarted, RepliedIsStored, Durability, Stored
  <1>2. ASSUME NEW c \in Calls, ServiceReturn(c) PROVE StorageInv'
    <2>1. \A d \in Calls : hpc'[d] \in {"replying", "exited"} =>
                               hpc[d] \in {"replying", "exited"} \/ d = c
      BY <1>0, <1>2 DEF ServiceReturn, ReturnFromHandler, GotoHandler, TypeOK
    <2>2. UNCHANGED <<tables, locals, verdict, cfgVars, svcVars>> /\ c \in Stored(server[c])
      BY <1>2 DEF ServiceReturn, ReturnFromHandler
    <2>. QED
      BY <1>0, <2>1, <2>2 DEF StorageInv, RegisteredIsLatest, FreshPersisters,
         RoutedToStarted, MemCoversStored, RepliedIsStored, Durability, Stored
  <1>3. ASSUME NEW o \in Objs, SaveRaftState(o) \/ SaveStateAndSnapshot(o)
        PROVE  StorageInv'
    <2>1. \A x \in Objs : Stored(x) \subseteq Stored(x)'
      BY <1>0, <1>3 DEF SaveRaftState, SaveStateAndSnapshot, Stored, KvTypeOK,
         StorageInv, MemCoversStored
    <2>2. UNCHANGED <<vars, cfgVars, started, mem>>
      BY <1>3 DEF SaveRaftState, SaveStateAndSnapshot
    <2>3. MemCoversStored'
      BY <1>0, <1>3, <2>2 DEF SaveRaftState, SaveStateAndSnapshot, Stored, KvTypeOK,
         StorageInv, MemCoversStored
    <2>4. RepliedIsStored'
      <3>1. \A c \in Calls : hpc[c] # "none" => server[c] \in Objs
        BY <1>0 DEF Inv, CallInv, HasServer
      <3>. QED
        BY <1>0, <2>1, <2>2, <3>1 DEF vars, StorageInv, RepliedIsStored
    <2>5. Durability'
      <3>1. \A c \in Calls : verdict[c] = "ok" => <<target[c], saved[target[c]]>> \in Objs
        <4>1. \A c \in Calls : verdict[c] = "ok" => target[c] \in ServerNames
          BY <1>0 DEF Inv, CallInv, HasServer, ReplyReceived
        <4>. QED
          BY <1>0, <4>1, ClusterAssumption DEF KvTypeOK
      <3>. QED
        BY <1>0, <2>1, <2>2, <3>1 DEF vars, StorageInv, Durability
    <2>. QED
      BY <1>0, <2>2, <2>3, <2>4, <2>5 DEF vars, StorageInv, RegisteredIsLatest,
         FreshPersisters, RoutedToStarted
  <1>. QED
    BY <1>1, <1>2, <1>3 DEF ServiceNext

\* Copy() for a server that is not registered keeps the storage invariant:
\* it writes to a Persister no instance has, and then the server's
\* acknowledged calls are in that one.
LEMMA CopyStorage ==
    ASSUME KvInv, NEW i \in ServerNames, saved[i] + 1 \in Gens, Copy(i, saved[i] + 1),
           servers[i] = Nil, servers' = servers, running' = running,
           step' \in {"kill", "boot"}, who' = i, started' = started, mem' = mem,
           UNCHANGED <<hpc, target, server, verdict>>
    PROVE  StorageInv'
  <1> DEFINE g == saved[i] + 1
  <1>0. KvTypeOK /\ TypeOK /\ Inv /\ StorageInv
    BY DEF KvInv, KvTypeOK
  <1>1. /\ saved[i] \in Nat /\ g \in Gens
        /\ <<i, g>> \in Objs /\ <<i, saved[i]>> \in Objs
    BY <1>0, ClusterAssumption DEF KvTypeOK, Gens
  <1>2. <<i, g>> \notin started
    BY <1>0, <1>1 DEF StorageInv, FreshPersisters
  <1>3. \A o \in Objs \ {<<i, g>>} :
            raftstate'[o] = raftstate[o] /\ snapshot'[o] = snapshot[o]
    BY <1>0 DEF Copy, KvTypeOK
  <1>4. /\ raftstate'[<<i, g>>] = raftstate[<<i, saved[i]>>]
        /\ snapshot'[<<i, g>>] = snapshot[<<i, saved[i]>>]
    BY <1>0, <1>1 DEF Copy, KvTypeOK
  <1>5. \A j \in ServerNames : saved'[j] = IF j = i THEN g ELSE saved[j]
    BY <1>0 DEF Copy, KvTypeOK
  <1>6. RegisteredIsLatest'
    BY <1>0, <1>5 DEF StorageInv, RegisteredIsLatest
  <1>7. FreshPersisters'
    <2>1. SUFFICES ASSUME NEW j \in ServerNames, NEW h \in Gens, <<j, h>> \in started
                   PROVE  h <= saved'[j]
      BY DEF FreshPersisters
    <2>2. h <= saved[j] /\ h \in Nat
      BY <1>0, <2>1, ClusterAssumption DEF StorageInv, FreshPersisters, Gens
    <2>. QED
      BY <1>1, <1>5, <2>2
  <1>8. RoutedToStarted'
    BY <1>0 DEF StorageInv, RoutedToStarted
  <1>9. MemCoversStored'
    <2>1. \A o \in started : o \in Objs \ {<<i, g>>}
      BY <1>0, <1>2 DEF KvTypeOK
    <2>. QED
      BY <1>0, <1>3, <2>1 DEF StorageInv, MemCoversStored, Stored
  <1>10. RepliedIsStored'
    <2>1. \A c \in Calls : hpc[c] # "none" => server[c] \in Objs \ {<<i, g>>}
      BY <1>0, <1>2, NilAssumption DEF Inv, CallInv, HasServer, StorageInv, RoutedToStarted
    <2>. QED
      BY <1>0, <1>3, <2>1 DEF StorageInv, RepliedIsStored, Stored
  <1>11. Durability'
    <2> DEFINE old(c) == <<target[c], saved[target[c]]>>
               new(c) == <<target[c], saved'[target[c]]>>
    <2>1. SUFFICES ASSUME NEW c \in Calls, verdict[c] = "ok"
                   PROVE  c \in raftstate'[new(c)] \cup snapshot'[new(c)]
      BY DEF Durability, Stored
    <2>2. target[c] \in ServerNames /\ c \in raftstate[old(c)] \cup snapshot[old(c)]
      BY <1>0, <2>1 DEF Inv, CallInv, HasServer, ReplyReceived, StorageInv, Durability,
                        Stored
    <2>3. CASE target[c] = i
      BY <1>4, <1>5, <2>2, <2>3
    <2>4. CASE target[c] # i
      <3>1. old(c) \in Objs \ {<<i, g>>}
        BY <1>0, <2>2, <2>4, ClusterAssumption DEF KvTypeOK
      <3>. QED
        BY <1>3, <1>5, <2>2, <2>4, <3>1
    <2>. QED
      BY <2>3, <2>4
  <1>. QED
    BY <1>6, <1>7, <1>8, <1>9, <1>10, <1>11 DEF StorageInv

\* ShutdownServer and StartServer.
LEMMA RestartStorage == KvInv /\ RestartNext => StorageInv' /\ RoomForCopy'
  <1> SUFFICES ASSUME KvInv, RestartNext PROVE StorageInv' /\ RoomForCopy'
    OBVIOUS
  <1> USE DEF cfgVars, svcVars, diskVars, tables, netVars, locals, callVars
  <1>0. KvTypeOK /\ TypeOK /\ Inv /\ StorageInv /\ RoomForCopy
    BY DEF KvInv, KvTypeOK
  <1>1. ASSUME NEW i \in ServerNames, ShutdownServer(i)
        PROVE  StorageInv' /\ RoomForCopy'
    <2>1. StorageInv'
      BY <1>0, <1>1 DEF ShutdownServer, StorageInv, RegisteredIsLatest, FreshPersisters,
         RoutedToStarted, MemCoversStored, RepliedIsStored, Durability, Stored
    <2>2. RoomForCopy'
      BY <1>0, <1>1, ClusterAssumption DEF ShutdownServer, RoomForCopy, KvTypeOK, Gens
    <2>. QED
      BY <2>1, <2>2
  <1>2. CASE ShutdownDeleteServer
    <2>1. RegisteredIsLatest'
      BY <1>0, <1>2 DEF ShutdownDeleteServer, DeleteServer, StorageInv,
         RegisteredIsLatest, TypeOK, KvTypeOK
    <2>. QED
      BY <1>0, <1>2, <2>1 DEF ShutdownDeleteServer, DeleteServer, StorageInv,
         FreshPersisters, RoutedToStarted, MemCoversStored, RepliedIsStored, Durability,
         Stored, RoomForCopy
  <1>3. CASE ShutdownCopy
    <2>1. /\ who \in ServerNames /\ servers[who] = Nil /\ saved[who] + 1 \in Gens
          /\ Copy(who, saved[who] + 1)
      BY <1>0, <1>3 DEF ShutdownCopy, StorageInv, RegisteredIsLatest, RoomForCopy,
         KvTypeOK
    <2>. QED
      BY <1>3, <2>1, CopyStorage DEF ShutdownCopy, vars, RoomForCopy
  <1>4. CASE ShutdownKill
    <2>1. RegisteredIsLatest'
      BY <1>0, <1>4 DEF ShutdownKill, vars, StorageInv, RegisteredIsLatest, KvTypeOK
    <2>. QED
      BY <1>0, <1>4, <2>1 DEF ShutdownKill, vars, StorageInv,
         FreshPersisters, RoutedToStarted, MemCoversStored, RepliedIsStored, Durability,
         Stored, RoomForCopy
  <1>5. ASSUME NEW i \in ServerNames, StartServer(i) PROVE StorageInv' /\ RoomForCopy'
    <2>1. servers[i] = Nil /\ saved[i] + 1 \in Gens /\ Copy(i, saved[i] + 1)
      BY <1>0, <1>5 DEF StartServer, StorageInv, RegisteredIsLatest
    <2>. QED
      BY <1>5, <2>1, CopyStorage DEF StartServer, RoomForCopy
  <1>6. CASE BootServer
    <2> DEFINE o == <<who, saved[who]>>
    <2>1. who \in ServerNames /\ saved[who] \in Gens /\ o \in Objs
      BY <1>0, ClusterAssumption DEF KvTypeOK
    <2>2. RegisteredIsLatest'
      BY <1>0, <1>6, <2>1 DEF BootServer, vars, StorageInv, RegisteredIsLatest, KvTypeOK
    <2>3. FreshPersisters'
      BY <1>0, <1>6, <2>1, ClusterAssumption DEF BootServer, StorageInv, FreshPersisters, Gens
    <2>4. MemCoversStored'
      <3>1. UNCHANGED diskVars /\ \A x \in Objs : mem'[x] = IF x = o THEN Stored(o) ELSE mem[x]
        BY <1>0, <1>6, <2>1 DEF BootServer, KvTypeOK
      <3>2. \A x \in started' : x \in Objs /\ (x = o \/ x \in started)
        BY <1>0, <1>6, <2>1 DEF BootServer, KvTypeOK
      <3>. QED
        BY <1>0, <3>1, <3>2 DEF StorageInv, MemCoversStored, Stored
    <2>. QED
      BY <1>0, <1>6, <2>2, <2>3, <2>4 DEF BootServer, vars, StorageInv,
         RoutedToStarted, RepliedIsStored, Durability, Stored, RoomForCopy
  <1>7. CASE StartAdd
    <2>1. RegisteredIsLatest'
      BY <1>0, <1>7 DEF StartAdd, AddServer, StorageInv, RegisteredIsLatest, TypeOK,
         KvTypeOK
    <2>. QED
      BY <1>0, <1>7, <2>1 DEF StartAdd, AddServer, StorageInv, FreshPersisters,
         RoutedToStarted, MemCoversStored, RepliedIsStored, Durability, Stored,
         RoomForCopy
  <1>. QED
    BY <1>1, <1>2, <1>3, <1>4, <1>5, <1>6, <1>7 DEF RestartNext

\* Every step keeps the inductive invariant of storage.
LEMMA KvNextInv == KvInv /\ [KvNext]_kvVars => KvInv'
  <1> SUFFICES ASSUME KvInv, [KvNext]_kvVars PROVE StorageInv' /\ RoomForCopy'
    BY KvTypeStep DEF KvInv
  <1>0. StorageInv /\ RoomForCopy
    BY DEF KvInv
  <1>1. CASE NetworkNext /\ UNCHANGED <<cfgVars, svcVars>>
    BY <1>0, <1>1, NetworkStorage DEF cfgVars, RoomForCopy
  <1>2. CASE ServiceNext
    <2>1. UNCHANGED cfgVars
      BY <1>2 DEF ServiceNext, ServiceRun, ServiceReturn, SaveRaftState,
         SaveStateAndSnapshot
    <2>. QED
      BY <1>0, <1>2, <2>1, ServiceStorage DEF cfgVars, RoomForCopy
  <1>3. CASE RestartNext
    BY <1>3, RestartStorage
  <1>4. CASE TopologyNext \/ ClerkNext \/ UNCHANGED kvVars
    <2>1. UNCHANGED <<servers, hpc, target, server, verdict, saved, running, step,
                      who, svcVars>>
      BY <1>4 DEF TopologyNext, ClerkNext, connect, disconnect, ConnectAll,
         partition, PartitionLeader, SetLinks, makeClient, deleteClient,
         ConnectClient, DisconnectClient, SetClient, callVars, locals, vars,
         tables, cfgVars, kvVars
    <2>. QED
      BY <1>0, <2>1 DEF svcVars, diskVars, StorageInv, RegisteredIsLatest,
         FreshPersisters, RoutedToStarted, MemCoversStored, RepliedIsStored,
         Durability, Stored, RoomForCopy
  <1>. QED
    BY <1>1, <1>2, <1>3, <1>4 DEF KvNext

-----------------------------------------------------------------------------
\* The inductive invariant holds in every reachable state.
THEOREM KvInvariance == KvSpec => []KvInv
  BY KvInitInv, KvNextInv, PTL DEF KvSpec

\* Every variable keeps its type.
THEOREM KvTypeCorrect == KvSpec => []KvTypeOK
  BY KvInvariance, PTL DEF KvInv

\* A call whose caller got a positive reply is in the Persister that the
\* server's next instance will be given, whatever restarts happen.
THEOREM DurabilityCorrect == KvSpec => []Durability
  <1>1. KvInv => Durability
    BY DEF KvInv, StorageInv
  <1>. QED
    BY <1>1, KvInvariance, PTL

\* A registered instance knows every call its server has acknowledged.
THEOREM AcknowledgedCorrect == KvSpec => []AcknowledgedKnown
  <1>1. KvInv => AcknowledgedKnown
    <2> SUFFICES ASSUME KvInv, NEW c \in Calls, verdict[c] = "ok", servers[target[c]] # Nil
                 PROVE  c \in mem[servers[target[c]]]
      BY DEF AcknowledgedKnown
    <2>1. target[c] \in ServerNames
      BY DEF KvInv, Inv, CallInv, HasServer, ReplyReceived
    <2>2. /\ servers[target[c]] = <<target[c], saved[target[c]]>>
          /\ servers[target[c]] \in started
      BY <2>1 DEF KvInv, StorageInv, RegisteredIsLatest
    <2>. QED
      BY <2>2 DEF KvInv, StorageInv, MemCoversStored, Durability
  <1>. QED
    BY <1>1, KvInvariance, PTL

-----------------------------------------------------------------------------
(***************************************************************************)
(* Connections between servers                                             *)
(***************************************************************************)
LinkInv == IsolatedInv /\ LinksSymmetric

\* The names of clerks' ends differ from those of servers' ends.
LEMMA ClientEndsApart ==
    \A i, j, g, ck, to : <<i, g, j>> \notin ClientEnds(ck, to)
  BY DEF ClientEnds

\* Membership in a set of links, in terms of the servers at both ends.
LEMMA LinksMember ==
    ASSUME NEW I \in SUBSET ServerNames, NEW J \in SUBSET ServerNames,
           NEW i \in ServerNames, NEW j \in ServerNames, NEW g
    PROVE  <<i, g, j>> \in Links(I, J) <=>
               /\ g = endnames[i]
               /\ (i \in I /\ j \in J) \/ (i \in J /\ j \in I)
  BY DEF Links, Link

\* Changing connections while every server is up: current ends only, and
\* both directions alike.
LEMMA SetLinksStep ==
    ASSUME KvTypeOK, LinkInv, NEW new, SetLinks(new),
           \A i, j \in ServerNames, g \in Gens :
               <<i, g, j>> \in new => <<i, g, j>> \in enabled \/ g = endnames[i],
           \A i, j \in ServerNames : Link(i, j) \in new => Link(j, i) \in new
    PROVE  LinkInv'
  <1>1. IsolatedInv'
    BY DEF SetLinks, AllUp, IsolatedInv, cfgVars, LinkInv
  <1>2. LinksSymmetric'
    BY DEF SetLinks, LinksSymmetric, Link, cfgVars
  <1>. QED
    BY <1>1, <1>2 DEF LinkInv

\* Every step keeps the invariant of the connections.
LEMMA LinkStep == KvTypeOK /\ LinkInv /\ [KvNext]_kvVars => LinkInv'
  <1> SUFFICES ASSUME KvTypeOK, LinkInv, [KvNext]_kvVars PROVE LinkInv'
    OBVIOUS
  <1>1. CASE UNCHANGED <<enabled, endnames, running, step, who>>
    BY <1>1 DEF LinkInv, IsolatedInv, LinksSymmetric, Link
  <1>2. CASE NetworkNext /\ UNCHANGED <<cfgVars, svcVars>>
    <2>1. UNCHANGED enabled
      BY <1>2 DEF NetworkNext, Call, Send, AcceptReq, CallNetworkDone, ProcessReq, Route,
         ReadEndnameInfo, Forward, DropRequest, FailCall, StartHandler, Await,
         ReceiveReply, GiveUp, Finish, ChooseReply, Deliver, Unreachable, Dispatch,
         Drain, NetworkStop, Cleanup, tables, netVars
    <2>. QED
      BY <1>1, <1>2, <2>1 DEF cfgVars
  <1>3. CASE ServiceNext \/ UNCHANGED kvVars
    <2>1. UNCHANGED <<enabled, cfgVars>>
      BY <1>3 DEF ServiceNext, ServiceRun, ServiceReturn, RunHandler,
         ReturnFromHandler, SaveRaftState, SaveStateAndSnapshot, tables, vars, kvVars
    <2>. QED
      BY <1>1, <2>1 DEF cfgVars
  <1>4. ASSUME NEW i \in ServerNames, ShutdownServer(i) PROVE LinkInv'
    <2>1. \A k, j \in ServerNames, g \in Gens :
              <<k, g, j>> \in enabled' <=>
                  <<k, g, j>> \in enabled /\ ~(g = endnames[k] /\ i \in {k, j})
      <3>1. \A k, j \in ServerNames, g \in Gens :
                <<k, g, j>> \in Links({i}, ServerNames) <=> g = endnames[k] /\ i \in {k, j}
        BY DEF Links, Link
      <3>. QED
        BY <1>4, <3>1 DEF ShutdownServer
    <2>2. IsolatedInv'
      BY <1>4, <2>1 DEF ShutdownServer, LinkInv, IsolatedInv
    <2>3. LinksSymmetric'
      BY <1>4, <2>1 DEF ShutdownServer, LinkInv, LinksSymmetric, Link, KvTypeOK
    <2>. QED
      BY <2>2, <2>3 DEF LinkInv
  <1>5. CASE ShutdownDeleteServer \/ ShutdownCopy \/ ShutdownKill \/ BootServer \/ StartAdd
    <2>1. UNCHANGED <<enabled, endnames, who>>
      BY <1>5 DEF ShutdownDeleteServer, ShutdownCopy, ShutdownKill, BootServer, StartAdd,
         DeleteServer, AddServer, vars, tables
    <2>2. IsolatedInv'
      BY <1>5, <2>1 DEF ShutdownDeleteServer, ShutdownCopy, ShutdownKill, BootServer, StartAdd,
         LinkInv, IsolatedInv, KvTypeOK
    <2>. QED
      BY <2>1, <2>2 DEF LinkInv, LinksSymmetric, Link
  <1>6. ASSUME NEW i \in ServerNames, StartServer(i) PROVE LinkInv'
    <2>1. enabled' \subseteq enabled
      BY <1>6 DEF StartServer, MakeEnds
    <2>2. \A k, j \in ServerNames, g \in Gens :
              <<k, g, j>> \in enabled => k # i /\ j # i
      BY <1>6 DEF StartServer, LinkInv, IsolatedInv
    <2>3. \A k, j \in ServerNames, g \in Gens :
              <<k, g, j>> \in enabled => <<k, g, j>> \in enabled'
      BY <1>6, <2>2 DEF StartServer, MakeEnds, ServerEnds
    <2>4. \A k \in ServerNames \ {i} : endnames'[k] = endnames[k]
      BY <1>6 DEF StartServer, KvTypeOK
    <2>5. IsolatedInv'
      BY <1>6, <2>1, <2>2, <2>4 DEF StartServer, LinkInv, IsolatedInv
    <2>6. LinksSymmetric'
      <3>1. endnames' \in [ServerNames -> Gens]
        BY <1>6 DEF StartServer, KvTypeOK
      <3>. QED
        BY <2>1, <2>2, <2>3, <2>4, <3>1 DEF LinkInv, LinksSymmetric, Link, KvTypeOK
    <2>. QED
      BY <2>5, <2>6 DEF LinkInv
  <1>7. CASE TopologyNext
    <2> USE LinksMember DEF LinkInv, LinksSymmetric, Link
    <2>1. ASSUME NEW i \in ServerNames, NEW to \in SUBSET ServerNames, connect(i, to)
          PROVE  LinkInv'
      BY <2>1, SetLinksStep DEF connect
    <2>2. ASSUME NEW i \in ServerNames, NEW to \in SUBSET ServerNames, disconnect(i, to)
          PROVE  LinkInv'
      BY <2>2, SetLinksStep DEF disconnect
    <2>3. CASE ConnectAll
      BY <2>3, SetLinksStep DEF ConnectAll
    <2>4. ASSUME NEW p1 \in SUBSET ServerNames, NEW p2 \in SUBSET ServerNames,
                 partition(p1, p2)
          PROVE  LinkInv'
      <3> DEFINE new == (enabled \ Links(p1, p2)) \cup Links(p1, p1) \cup Links(p2, p2)
      <3>1. \A i, j \in ServerNames, g \in Gens :
                <<i, g, j>> \in new => <<i, g, j>> \in enabled \/ g = endnames[i]
        OBVIOUS
      <3>2. \A i, j \in ServerNames : Link(i, j) \in new => Link(j, i) \in new
        <4>1. \A i, j \in ServerNames :
                  /\ Link(i, j) \in Links(p1, p2) <=> Link(j, i) \in Links(p1, p2)
                  /\ Link(i, j) \in Links(p1, p1) <=> Link(j, i) \in Links(p1, p1)
                  /\ Link(i, j) \in Links(p2, p2) <=> Link(j, i) \in Links(p2, p2)
          OBVIOUS
        <4>. QED
          BY <4>1
      <3>3. SetLinks(new)
        BY <2>4 DEF partition
      <3>. QED
        BY <3>1, <3>2, <3>3, SetLinksStep
    <2> HIDE LinksMember DEF LinkInv, LinksSymmetric, Link
    <2>. QED
      BY <1>7, <2>1, <2>2, <2>3, <2>4 DEF TopologyNext, PartitionLeader, Majority
  <1>8. CASE ClerkNext
    <2>1. /\ UNCHANGED <<endnames, running, step, who>>
          /\ \A i, j, g : <<i, g, j>> \in enabled' <=> <<i, g, j>> \in enabled
      BY <1>8, ClientEndsApart DEF ClerkNext, makeClient, MakeEnds, deleteClient,
         ConnectClient, DisconnectClient, SetClient, vars, tables, cfgVars
    <2>. QED
      BY <2>1 DEF LinkInv, IsolatedInv, LinksSymmetric, Link
  <1>. QED
    BY <1>2, <1>3, <1>4, <1>5, <1>6, <1>7, <1>8 DEF KvNext, RestartNext

\* The invariant of the connections holds in every reachable state.
THEOREM LinkInvariance == KvSpec => []LinkInv
  <1>1. KvInit => LinkInv
    BY KvInitInv DEF LinkInv
  <1>2. KvTypeOK /\ LinkInv /\ [KvNext]_kvVars => LinkInv'
    BY LinkStep
  <1>. QED
    BY <1>1, <1>2, KvTypeCorrect, PTL DEF KvSpec

\* No end of an instance that has been shut down is ever enabled again.
THEOREM IsolationCorrect == KvSpec => []DeadInstancesIsolated
  <1>1. LinkInv => DeadInstancesIsolated
    BY DEF LinkInv, IsolatedInv, DeadInstancesIsolated
  <1>. QED
    BY <1>1, LinkInvariance, PTL

\* Servers are connected both ways or not at all.
THEOREM SymmetryCorrect == KvSpec => []LinksSymmetric
  <1>1. LinkInv => LinksSymmetric
    BY DEF LinkInv
  <1>. QED
    BY <1>1, LinkInvariance, PTL

\* make_partition leaves n/2 of an odd number n of servers, the leader among them,
\* in the second part (kvraft/config.go:339-356).
LEMMA MinoritySize ==
    ASSUME N % 2 = 1, N > 1, NEW l \in ServerNames
    PROVE  /\ IsFiniteSet(ServerNames \ Majority(l)) /\ l \notin Majority(l)
           /\ 2 * Cardinality(ServerNames \ Majority(l)) < N
  <1> DEFINE h == N \div 2
             Before(i) == {k \in 0..(i - 1) : k # l}
  <1>1. h \in Nat /\ N = 2 * h + 1 /\ h >= 1 /\ l \in Nat /\ l <= 2 * h
    BY ClusterAssumption
  <1>2. ServerNames = 0..(2 * h)
    BY <1>1, ClusterAssumption
  <1> HIDE DEF h
  <1>3. ASSUME NEW i \in ServerNames
        PROVE  Cardinality(Before(i)) = IF l < i THEN i - 1 ELSE i
    <2>1. i \in Nat /\ 0..(i - 1) \in SUBSET Int
      BY <1>2
    <2>2. /\ IsFiniteSet(0..(i - 1))
          /\ Cardinality(0..(i - 1)) = IF 0 > i - 1 THEN 0 ELSE i - 1 - 0 + 1
      <3>1. 0 \in Int /\ i - 1 \in Int
        BY <2>1
      <3>. QED
        BY <3>1, FS_Interval
    <2>3. Before(i) = (0..(i - 1)) \ {l}
      OBVIOUS
    <2>4. Cardinality((0..(i - 1)) \ {l}) =
              IF l \in 0..(i - 1) THEN Cardinality(0..(i - 1)) - 1 ELSE Cardinality(0..(i - 1))
      BY <2>2, FS_RemoveElement
    <2> HIDE DEF Before
    <2>. QED
      BY <1>1, <2>1, <2>2, <2>3, <2>4
  <1>4. \A i \in ServerNames : i \in Majority(l) <=> i # l /\ Cardinality(Before(i)) < h + 1
    BY DEF Majority, h
  <1>5. l \notin Majority(l)
    BY DEF Majority
  <1> HIDE DEF Before
  <1> DEFINE M == ServerNames \ Majority(l)
  <1>6. CASE l > h
    <2> DEFINE T == (h + 1)..(2 * h)
    <2>1. M = T
      BY <1>1, <1>2, <1>3, <1>4, <1>6
    <2>2. IsFiniteSet(T) /\ Cardinality(T) = h
      <3>1. h + 1 \in Int /\ 2 * h \in Int
        BY <1>1
      <3>2. IsFiniteSet(T) /\ Cardinality(T) = IF h + 1 > 2 * h THEN 0 ELSE 2 * h - (h + 1) + 1
        BY <3>1, FS_Interval
      <3>. QED
        BY <1>1, <3>2
    <2> HIDE DEF T, M
    <2>3. IsFiniteSet(M) /\ 2 * Cardinality(M) < N
      BY <1>1, <2>1, <2>2
    <2>. QED
      BY <1>5, <2>3 DEF M
  <1>7. CASE l <= h
    <2> DEFINE T == (h + 2)..(2 * h)
    <2>1. ASSUME NEW i \in 0..(2 * h) PROVE i \notin Majority(l) <=> i >= h + 2 \/ i = l
      BY <1>1, <1>2, <1>3, <1>4, <1>7
    <2>2. M = T \cup {l}
      BY <1>1, <1>2, <2>1
    <2>3. IsFiniteSet(T) /\ Cardinality(T) = h - 1
      <3>1. h + 2 \in Int /\ 2 * h \in Int
        BY <1>1
      <3>2. IsFiniteSet(T) /\ Cardinality(T) = IF h + 2 > 2 * h THEN 0 ELSE 2 * h - (h + 2) + 1
        BY <3>1, FS_Interval
      <3>. QED
        BY <1>1, <3>2
    <2>4. l \notin T
      BY <1>1, <1>7
    <2> HIDE DEF T, M
    <2>5. IsFiniteSet(T \cup {l}) /\ Cardinality(T \cup {l}) = h - 1 + 1
      BY <2>3, <2>4, FS_AddElement
    <2>6. IsFiniteSet(M) /\ 2 * Cardinality(M) < N
      BY <1>1, <2>2, <2>5
    <2>. QED
      BY <1>5, <2>6 DEF M
  <1>. QED
    BY <1>1, <1>6, <1>7

\* After a partition chosen by make_partition the leader reaches less than half
\* of the servers, for any odd number of servers.
THEOREM MinorityCorrect == KvSpec => LeaderInMinority
  <1>1. ASSUME KvTypeOK, [KvNext]_kvVars, NEW l \in ServerNames, PartitionLeader(l)
        PROVE  2 * Cardinality({j \in ServerNames : Link(l, j) \in enabled'}) < N
    <2> DEFINE p1 == Majority(l)
               p2 == ServerNames \ Majority(l)
               R == {j \in ServerNames : Link(l, j) \in enabled'}
    <2>1. IsFiniteSet(p2) /\ l \notin p1 /\ 2 * Cardinality(p2) < N
      BY <1>1, MinoritySize DEF PartitionLeader
    <2>2. enabled' = (enabled \ Links(p1, p2)) \cup Links(p1, p1) \cup Links(p2, p2)
      BY <1>1 DEF PartitionLeader, partition, SetLinks
    <2>3. p1 \in SUBSET ServerNames /\ p2 \in SUBSET ServerNames
      BY DEF Majority
    <2>4. R \in SUBSET p2
      <3> SUFFICES ASSUME NEW j \in p1, Link(l, j) \in enabled' PROVE FALSE
        BY <2>3
      <3>1. j \in ServerNames /\ j \notin p2 /\ l \in p2
        BY <2>1, <2>3
      <3> HIDE DEF p1, p2
      <3>. QED
        BY <1>1, <2>1, <2>2, <2>3, <3>1, LinksMember DEF Link, KvTypeOK
    <2> HIDE DEF R, p1, p2
    <2>5. Cardinality(R) <= Cardinality(p2) /\ Cardinality(R) \in Nat /\ Cardinality(p2) \in Nat
      BY <2>1, <2>4, FS_Subset, FS_CardinalityType
    <2>6. 2 * Cardinality(R) < N
      BY <2>1, <2>5, ClusterAssumption
    <2>. QED
      BY <2>6 DEF R
  <1>2. KvTypeOK /\ [KvNext]_kvVars =>
            [\A l \in ServerNames : PartitionLeader(l) =>
                2 * Cardinality({j \in ServerNames : Link(l, j) \in enabled'}) < N]_kvVars
    BY <1>1
  <1>. QED
    BY <1>2, KvTypeCorrect, PTL DEF KvSpec, LeaderInMinority

-----------------------------------------------------------------------------
(***************************************************************************)
(* shardkv's cluster.  Most steps are steps of KvConfig, so that its       *)
(* inductive invariant KvInv carries over: what is left are the steps that *)
(* treat ends differently.                                                 *)
(***************************************************************************)

\* KvInv, the types, and which ends within a group are enabled.
ShardInv == KvInv /\ ShardTypeOK /\ GroupConnected

\* The servers an instance has ends to are servers.
LEMMA ReachServers == \A i \in ServerNames : Reach(i) \subseteq ServerNames
  BY ShardKvAssumption DEF Reach, Group, ShardServers

\* Its ends are ends of the network.
LEMMA OwnEndsAreEnds ==
    ASSUME NEW i \in ServerNames, NEW g \in Gens
    PROVE  /\ OwnEnds(i, g) \in SUBSET Ends
           /\ \A e \in OwnEnds(i, g) : e[3] \in ServerNames
  BY ReachServers, ClusterAssumption DEF OwnEnds

\* So are a clerk's ends to the masters.
LEMMA MasterEndsAreEnds ==
    ASSUME NEW ck \in Clerks
    PROVE  /\ ClientEnds(ck, Masters) \in SUBSET Ends
           /\ \A e \in ClientEnds(ck, Masters) : e[2] \in ServerNames
  <1>1. Masters \subseteq ServerNames
    BY ShardKvAssumption
  <1>. QED
    BY <1>1, ClusterAssumption DEF ClientEnds

-----------------------------------------------------------------------------
\* The state make_config leaves satisfies the invariant.
LEMMA ShardInitInv == ShardKvInit => ShardInv
  <1> SUFFICES ASSUME ShardKvInit PROVE ShardInv
    OBVIOUS
  <1> DEFINE own == UNION {OwnEnds(i, 0) : i \in ServerNames}
             mends == MckEnds
  <1> USE ClusterAssumption, ShardKvAssumption DEF Gens
  <1>0. /\ ends = own \cup mends /\ enabled = ends
        /\ connections = [e \in Ends |-> CASE e \in own   -> e[3]
                                           [] e \in mends -> e[2]
                                           [] OTHER       -> Nil]
    BY DEF ShardKvInit
  <1>1. /\ enabled \in SUBSET Ends
        /\ connections \in [Ends -> ServerNames \cup {Nil}]
        /\ ends \in SUBSET Ends
    <2>1. \A e \in own : e \in Ends /\ e[3] \in ServerNames
      <3>1. 0 \in Gens
        OBVIOUS
      <3>2. \A i \in ServerNames : \A e \in OwnEnds(i, 0) : e \in Ends /\ e[3] \in ServerNames
        BY <3>1, OwnEndsAreEnds
      <3>. QED
        BY <3>2
    <2>2. \A e \in mends : e \in Ends /\ e[2] \in ServerNames
      BY MasterEndsAreEnds DEF MckEnds
    <2> HIDE DEF own, mends
    <2>. QED
      BY <1>0, <2>1, <2>2
  <1>2. TypeOK
    <2>1. servers \in [ServerNames -> Objs \cup {Nil}]
      BY DEF ShardKvInit
    <2>. QED
      BY <1>1, <2>1 DEF ShardKvInit, NoCalls, TypeOK, PCs, HandlerPCs, Verdicts
  <1>3. KvTypeOK /\ ShardTypeOK
    BY <1>2 DEF ShardKvInit, KvTypeOK, ShardTypeOK, Steps
  <1>4. ASSUME NEW c \in Calls PROVE CallInv(c)
    BY DEF ShardKvInit, NoCalls, CallInv, HasEnd, HasServer, BeforeHandler, InLoop,
           AfterLoop, Answered, HasReceiver, ReplyReceived, ExecutedOnce
  <1>5. StorageInv
    BY DEF ShardKvInit, StorageInv, RegisteredIsLatest, FreshPersisters,
           RoutedToStarted, MemCoversStored, RepliedIsStored, Durability, NoCalls, Stored
  <1>6. GroupConnected
    <2> SUFFICES ASSUME NEW i \in ShardServers, NEW g \in Gens, NEW j \in Reach(i)
                 PROVE  <<i, g, j>> \in enabled <=> g = endnames[i] /\ Live(i)
      BY DEF GroupConnected
    <2>1. i \in ServerNames /\ endnames[i] = 0 /\ Live(i)
      BY DEF ShardServers, ShardKvInit, Live
    <2>2. <<i, g, j>> \in own <=> g = 0
      BY <2>1 DEF OwnEnds
    <2>. QED
      BY <1>0, <2>1, <2>2, ClientEndsApart DEF MckEnds
  <1>7. RoomForCopy
    BY DEF ShardKvInit, RoomForCopy
  <1>. QED
    BY <1>2, <1>3, <1>4, <1>5, <1>6, <1>7 DEF ShardInv, KvInv, Inv

-----------------------------------------------------------------------------
(***************************************************************************)
(* Storage                                                                 *)
(***************************************************************************)

\* A step that only changes the tables of ends keeps KvInv.
LEMMA EndsStep ==
    ASSUME KvInv, TypeOK', KvTypeOK', UNCHANGED <<servers, callVars, saved, running>>,
           UNCHANGED svcVars, step' = step /\ who' = who
    PROVE  KvInv'
  <1>1. Inv'
    BY TableStep DEF KvInv, callVars
  <1>2. StorageInv' /\ RoomForCopy'
    BY DEF KvInv, callVars, locals, svcVars, diskVars, StorageInv, RegisteredIsLatest,
           FreshPersisters, RoutedToStarted, MemCoversStored, RepliedIsStored, Durability,
           Stored, RoomForCopy
  <1>. QED
    BY <1>1, <1>2 DEF KvInv

\* Making ends keeps KvInv.
LEMMA MakeEndsStep ==
    ASSUME KvInv, NEW es \in SUBSET Ends, NEW k, NEW on \in SUBSET es,
           \A e \in es : e[k] \in ServerNames, MakeEnds(es, k, on),
           UNCHANGED <<reliable, servers, callVars, saved, running, endnames>>,
           UNCHANGED svcVars, step' = step /\ who' = who, clerks' \in SUBSET Clerks
    PROVE  KvInv'
  <1>0. KvTypeOK /\ TypeOK
    BY DEF KvInv, KvTypeOK
  <1>1. TypeOK'
    BY <1>0, MakeEndsType DEF TypeOK, callVars, netVars, locals
  <1>2. KvTypeOK'
    BY <1>0, <1>1 DEF KvTypeOK, svcVars, diskVars
  <1>. QED
    BY <1>1, <1>2, EndsStep

\* The first step of ShutdownServer keeps KvInv.
LEMMA ShutdownStep ==
    ASSUME ShardInv, NEW i \in ShardServers, ShutdownShardServer(i)
    PROVE  KvInv'
  <1> USE DEF ShutdownShardServer
  <1>0. KvTypeOK /\ TypeOK /\ Inv /\ StorageInv /\ i \in ServerNames
    BY DEF ShardInv, KvInv, KvTypeOK, ShardServers
  <1>1. TypeOK'
    BY <1>0 DEF TypeOK, callVars, netVars, locals
  <1>2. KvTypeOK'
    BY <1>0, <1>1 DEF KvTypeOK, Steps, svcVars, diskVars
  <1>3. Inv'
    BY <1>0, <1>1, TableStep DEF callVars
  <1>4. StorageInv'
    BY <1>0 DEF callVars, locals, svcVars, diskVars, StorageInv, RegisteredIsLatest,
       FreshPersisters, RoutedToStarted, MemCoversStored, RepliedIsStored, Durability, Stored
  <1>5. RoomForCopy'
    BY <1>0, ClusterAssumption DEF RoomForCopy, KvTypeOK, Gens
  <1>. QED
    BY <1>2, <1>3, <1>4, <1>5 DEF KvInv

\* The first step of StartServer keeps KvInv.
LEMMA StartStep ==
    ASSUME ShardInv, NEW i \in ShardServers, StartShardServer(i)
    PROVE  KvInv'
  <1> DEFINE g == saved[i] + 1
  <1>0. KvTypeOK /\ TypeOK /\ Inv /\ StorageInv /\ i \in ServerNames
    BY DEF ShardInv, KvInv, KvTypeOK, ShardServers
  <1>1. /\ g \in Gens /\ Copy(i, g) /\ servers[i] = Nil
        /\ MakeEnds(OwnEnds(i, g), 3, OwnEnds(i, g))
    BY <1>0 DEF StartShardServer, StorageInv, RegisteredIsLatest
  <1>2. /\ ends' \in SUBSET Ends
        /\ connections' \in [Ends -> ServerNames \cup {Nil}]
        /\ enabled' \in SUBSET Ends
    <2> DEFINE es == OwnEnds(i, g)
    <2>1. es \in SUBSET Ends /\ \A e \in es : e[3] \in ServerNames
      BY <1>0, <1>1, OwnEndsAreEnds
    <2>2. MakeEnds(es, 3, es)
      BY <1>1
    <2> HIDE DEF es, g
    <2>3. TypeOK /\ es \in SUBSET es
      BY <1>0
    <2>. QED
      BY <2>1, <2>2, <2>3, MakeEndsType
  <1>3. TypeOK'
    BY <1>0, <1>2 DEF StartShardServer, TypeOK, callVars, netVars, locals
  <1>4. Inv'
    BY <1>0, <1>3, TableStep DEF StartShardServer, callVars
  <1>5. KvTypeOK'
    BY <1>0, <1>1, <1>3, CopyType DEF StartShardServer, KvTypeOK, Steps
  <1>6. StorageInv'
    BY <1>0, <1>1, CopyStorage DEF ShardInv, StartShardServer, callVars, locals
  <1>7. RoomForCopy'
    BY DEF StartShardServer, RoomForCopy
  <1>. QED
    BY <1>4, <1>5, <1>6, <1>7 DEF KvInv

\* Steps of KvConfig.
SharedNext ==
    \/ NetworkNext /\ UNCHANGED <<cfgVars, svcVars, clerks>>
    \/ ServiceNext /\ UNCHANGED clerks
    \/ ShutdownDeleteServer \/ ShutdownCopy \/ ShutdownKill \/ BootServer \/ StartAdd
    \/ \E ck \in Clerks : deleteClient(ck)

\* They preserve the invariant in the sharded cluster too.
LEMMA SharedStep == KvInv /\ (SharedNext \/ UNCHANGED kvVars) => KvInv'
  BY KvNextInv DEF SharedNext, KvNext, RestartNext, ClerkNext

\* A step is one of KvConfig, or one of the few that are not.
LEMMA ShardCases ==
    ASSUME [ShardKvNext]_shardVars
    PROVE  \/ SharedNext /\ named' = named
           \/ kvVars' = kvVars /\ (named' = named \/ \E i \in ShardServers : join(i))
           \/ \E i \in ShardServers : ShutdownShardServer(i) \/ StartShardServer(i)
           \/ \E o \in EndMakers, j \in ShardServers : InstanceMakeEnd(o, j)
           \/ \E ck \in Clerks, j \in ShardServers : ClerkMakeEnd(ck, j)
           \/ \E ck \in Clerks : makeShardClient(ck)
  BY ShardKvAssumption DEF ShardKvNext, GroupNext, EndsNext, ShutdownRest, StartRest,
     deleteShardClient, SharedNext, shardVars, join

\* Every step keeps KvInv and the types.
LEMMA ShardStorage == ShardInv /\ [ShardKvNext]_shardVars => KvInv' /\ ShardTypeOK'
  <1> SUFFICES ASSUME ShardInv, [ShardKvNext]_shardVars
               PROVE  KvInv' /\ named' \in SUBSET ShardServers
    BY DEF KvInv, ShardTypeOK
  <1>0. KvInv /\ KvTypeOK /\ named \in SUBSET ShardServers
    BY DEF ShardInv, KvInv, ShardTypeOK
  <1>1. CASE SharedNext /\ named' = named
    BY <1>0, <1>1, SharedStep
  <1>2. CASE kvVars' = kvVars /\ (named' = named \/ \E i \in ShardServers : join(i))
    BY <1>0, <1>2, SharedStep DEF join, Group
  <1>3. ASSUME NEW i \in ShardServers, ShutdownShardServer(i)
        PROVE  KvInv' /\ named' \in SUBSET ShardServers
    BY <1>0, <1>3, ShutdownStep DEF ShutdownShardServer
  <1>4. ASSUME NEW i \in ShardServers, StartShardServer(i)
        PROVE  KvInv' /\ named' \in SUBSET ShardServers
    BY <1>0, <1>4, StartStep DEF StartShardServer
  <1>5. ASSUME NEW e \in Ends, NEW k, e[k] \in ServerNames, make_end(e, k)
        PROVE  KvInv' /\ named' \in SUBSET ShardServers
    <2>1. MakeEnds({e}, k, {e}) /\ clerks' \in SUBSET Clerks
      BY <1>0, <1>5 DEF make_end, KvTypeOK
    <2>. QED
      BY <1>0, <1>5, <2>1, MakeEndsStep DEF make_end, cfgVars
  <1>6. ASSUME NEW o \in EndMakers, NEW j \in ShardServers, InstanceMakeEnd(o, j)
        PROVE  KvInv' /\ named' \in SUBSET ShardServers
    <2>1. <<o, j>> \in Ends /\ j \in ServerNames
      BY ShardKvAssumption DEF ShardServers
    <2>. QED
      BY <1>5, <1>6, <2>1 DEF InstanceMakeEnd
  <1>7. ASSUME NEW ck \in Clerks, NEW j \in ShardServers, ClerkMakeEnd(ck, j)
        PROVE  KvInv' /\ named' \in SUBSET ShardServers
    <2>1. <<ck, j>> \in Ends /\ j \in ServerNames
      BY ClusterAssumption DEF ShardServers
    <2>. QED
      BY <1>5, <1>7, <2>1 DEF ClerkMakeEnd
  <1>8. ASSUME NEW ck \in Clerks, makeShardClient(ck)
        PROVE  KvInv' /\ named' \in SUBSET ShardServers
    <2>1. /\ ClientEnds(ck, Masters) \in SUBSET Ends
          /\ \A e \in ClientEnds(ck, Masters) : e[2] \in ServerNames
      BY MasterEndsAreEnds
    <2>2. /\ MakeEnds(ClientEnds(ck, Masters), 2, ClientEnds(ck, Masters))
          /\ clerks' \in SUBSET Clerks
      BY <1>0, <1>8 DEF makeShardClient, KvTypeOK
    <2>. QED
      BY <1>0, <1>8, <2>1, <2>2, MakeEndsStep DEF makeShardClient
  <1>. QED
    BY <1>1, <1>2, <1>3, <1>4, <1>6, <1>7, <1>8, ShardCases

-----------------------------------------------------------------------------
(***************************************************************************)
(* Connections                                                             *)
(***************************************************************************)

\* A step that leaves alone the ends that instances were given.
LEMMA GroupFrame ==
    ASSUME GroupConnected,
           \A i \in ShardServers, g \in Gens : \A j \in Reach(i) :
               <<i, g, j>> \in enabled' <=> <<i, g, j>> \in enabled,
           endnames' = endnames, \A i \in ShardServers : Live(i)' <=> Live(i)
    PROVE  GroupConnected'
  BY DEF GroupConnected

\* A step of KvConfig leaves the ends alone; whether an instance is live
\* changes in the first steps of ShutdownServer and StartServer only.
LEMMA SharedLive ==
    ASSUME KvTypeOK, SharedNext \/ UNCHANGED kvVars, NEW i \in ServerNames
    PROVE  enabled' = enabled /\ endnames' = endnames /\ (Live(i)' <=> Live(i))
  <1>1. CASE UNCHANGED <<enabled, endnames, running, step, who>>
    BY <1>1 DEF Live
  <1>2. CASE NetworkNext /\ UNCHANGED <<cfgVars, svcVars, clerks>>
    <2>1. UNCHANGED enabled
      BY <1>2 DEF NetworkNext, Call, Send, AcceptReq, CallNetworkDone, ProcessReq, Route,
         ReadEndnameInfo, Forward, DropRequest, FailCall, StartHandler, Await,
         ReceiveReply, GiveUp, Finish, ChooseReply, Deliver, Unreachable, Dispatch,
         Drain, NetworkStop, Cleanup, tables, netVars
    <2>. QED
      BY <1>1, <1>2, <2>1 DEF cfgVars
  <1>3. CASE ServiceNext \/ UNCHANGED kvVars \/ \E ck \in Clerks : deleteClient(ck)
    <2>1. UNCHANGED <<enabled, endnames, running, step, who>>
      BY <1>3 DEF ServiceNext, ServiceRun, ServiceReturn, RunHandler, ReturnFromHandler,
         SaveRaftState, SaveStateAndSnapshot, deleteClient, tables, vars, kvVars, cfgVars
    <2>. QED
      BY <1>1, <2>1
  <1>4. CASE ShutdownDeleteServer \/ ShutdownCopy \/ ShutdownKill \/ BootServer \/ StartAdd
    <2>1. UNCHANGED <<enabled, endnames, who>>
      BY <1>4 DEF ShutdownDeleteServer, ShutdownCopy, ShutdownKill, BootServer, StartAdd,
         DeleteServer, AddServer, vars, tables
    <2>2. Live(i)' <=> Live(i)
      BY <1>4, <2>1 DEF ShutdownDeleteServer, ShutdownCopy, ShutdownKill, BootServer, StartAdd,
         Live, KvTypeOK
    <2>. QED
      BY <2>1, <2>2
  <1>. QED
    BY <1>2, <1>3, <1>4 DEF SharedNext

\* Every step keeps the connections right.
LEMMA GroupStep == ShardInv /\ [ShardKvNext]_shardVars => GroupConnected'
  <1> SUFFICES ASSUME ShardInv, [ShardKvNext]_shardVars PROVE GroupConnected'
    OBVIOUS
  <1>0. KvTypeOK /\ GroupConnected /\ ShardServers \subseteq ServerNames
    BY DEF ShardInv, KvInv, ShardServers
  <1>1. CASE SharedNext \/ UNCHANGED kvVars
    <2>1. \A i \in ServerNames :
              enabled' = enabled /\ endnames' = endnames /\ (Live(i)' <=> Live(i))
      BY <1>0, <1>1, SharedLive
    <2>2. 0 \in ServerNames
      BY ClusterAssumption
    <2>. QED
      BY <1>0, <2>1, <2>2, GroupFrame
  <1>2. ASSUME NEW i \in ShardServers, ShutdownShardServer(i) PROVE GroupConnected'
    <2> SUFFICES ASSUME NEW k \in ShardServers, NEW g \in Gens, NEW j \in Reach(k)
                 PROVE  <<k, g, j>> \in enabled' <=> g = endnames'[k] /\ Live(k)'
      BY DEF GroupConnected
    <2>1. <<k, g, j>> \in enabled <=> g = endnames[k] /\ Live(k)
      BY <1>0 DEF GroupConnected
    <2>2. endnames' = endnames /\ step = "idle" /\ running' = running
      BY <1>2 DEF ShutdownShardServer
    <2>3. CASE k = i
      <3>1. <<k, g, j>> \in Disabled(i) <=> g = endnames[k]
        BY <2>3 DEF Disabled, Link
      <3>2. ~Live(k)'
        BY <1>2, <2>3 DEF ShutdownShardServer, Live
      <3>. QED
        BY <1>2, <2>1, <3>1, <3>2 DEF ShutdownShardServer
    <2>4. CASE k # i
      <3>1. <<k, g, j>> \notin Disabled(i)
        BY <2>4 DEF Disabled, Link
      <3>2. Live(k)' <=> Live(k)
        BY <1>2, <2>4 DEF ShutdownShardServer, Live
      <3>. QED
        BY <1>2, <2>1, <2>2, <3>1, <3>2 DEF ShutdownShardServer
    <2>. QED
      BY <2>3, <2>4
  <1>3. ASSUME NEW i \in ShardServers, StartShardServer(i) PROVE GroupConnected'
    <2> SUFFICES ASSUME NEW k \in ShardServers, NEW g \in Gens, NEW j \in Reach(k)
                 PROVE  <<k, g, j>> \in enabled' <=> g = endnames'[k] /\ Live(k)'
      BY DEF GroupConnected
    <2> DEFINE new == saved[i] + 1
    <2>1. <<k, g, j>> \in enabled <=> g = endnames[k] /\ Live(k)
      BY <1>0 DEF GroupConnected
    <2>2. /\ enabled' = (enabled \ OwnEnds(i, new)) \cup OwnEnds(i, new)
          /\ step = "idle" /\ ~running[i] /\ running' = running
          /\ step' = "boot" /\ who' = i
          /\ endnames' = [endnames EXCEPT ![i] = new]
      BY <1>3 DEF StartShardServer, MakeEnds
    <2>3. CASE k = i
      <3>1. <<k, g, j>> \in OwnEnds(i, new) <=> g = new
        BY <2>3 DEF OwnEnds
      <3>2. ~Live(k) /\ Live(k)' /\ endnames'[k] = new
        BY <1>0, <2>2, <2>3 DEF Live, KvTypeOK
      <3>. QED
        BY <2>1, <2>2, <3>1, <3>2
    <2>4. CASE k # i
      <3>1. <<k, g, j>> \notin OwnEnds(i, new)
        BY <2>4 DEF OwnEnds
      <3>2. (Live(k)' <=> Live(k)) /\ endnames'[k] = endnames[k]
        BY <1>0, <2>2, <2>4 DEF Live, KvTypeOK
      <3>. QED
        BY <2>1, <2>2, <3>1, <3>2
    <2>. QED
      BY <2>3, <2>4
  <1>4. ASSUME NEW e, NEW k, make_end(e, k),
               \A i \in ShardServers, g \in Gens : \A j \in Reach(i) : e # <<i, g, j>>
        PROVE  GroupConnected'
    <2>1. UNCHANGED <<endnames, running, step, who>> /\ enabled' = (enabled \ {e}) \cup {e}
      BY <1>4 DEF make_end, MakeEnds, cfgVars
    <2>. QED
      BY <1>0, <1>4, <2>1, GroupFrame DEF Live
  <1>5. ASSUME NEW o \in EndMakers, NEW j \in ShardServers, InstanceMakeEnd(o, j)
        PROVE  GroupConnected'
    <2>1. \A i, g, h : <<o, j>> # <<i, g, h>>
      OBVIOUS
    <2>. QED
      BY <1>4, <1>5, <2>1 DEF InstanceMakeEnd
  <1>6. ASSUME NEW ck \in Clerks, NEW j \in ShardServers, ClerkMakeEnd(ck, j)
        PROVE  GroupConnected'
    <2>1. \A i, g, h : <<ck, j>> # <<i, g, h>>
      OBVIOUS
    <2>. QED
      BY <1>4, <1>6, <2>1 DEF ClerkMakeEnd
  <1>7. ASSUME NEW ck \in Clerks, makeShardClient(ck) PROVE GroupConnected'
    <2>1. /\ UNCHANGED <<endnames, running, step, who>>
          /\ \A i, j, g : <<i, g, j>> \in enabled' <=> <<i, g, j>> \in enabled
      BY <1>7, ClientEndsApart DEF makeShardClient, MakeEnds
    <2>. QED
      BY <1>0, <2>1, GroupFrame DEF Live
  <1>. QED
    BY <1>1, <1>2, <1>3, <1>5, <1>6, <1>7, ShardCases

-----------------------------------------------------------------------------
\* The inductive invariant holds in every reachable state.
THEOREM ShardInvariance == ShardKvSpec => []ShardInv
  <1>1. ShardInv /\ [ShardKvNext]_shardVars => ShardInv'
    BY ShardStorage, GroupStep DEF ShardInv
  <1>. QED
    BY <1>1, ShardInitInv, PTL DEF ShardKvSpec

\* Every variable keeps its type.
THEOREM ShardTypeCorrect == ShardKvSpec => []ShardTypeOK
  BY ShardInvariance, PTL DEF ShardInv

\* A call acknowledged by a shard server or a master is in the Persister that
\* the server's next instance will be given, whatever restarts happen.
THEOREM ShardDurable == ShardKvSpec => []Durability
  <1>1. ShardInv => Durability
    BY DEF ShardInv, KvInv, StorageInv
  <1>. QED
    BY <1>1, ShardInvariance, PTL

\* Within its group and towards the masters an instance is connected exactly
\* from its start to its shutdown.
THEOREM GroupConnectedCorrect == ShardKvSpec => []GroupConnected
  BY ShardInvariance, PTL DEF ShardInv

\* No request is given to an instance whose Persister is superseded.
THEOREM RoutedCorrect == ShardKvSpec => RoutedToLatest
  <1> DEFINE Routed ==
        \A c \in Calls : server'[c] \notin {Nil, server[c]} =>
            server'[c] = <<target'[c], saved[target'[c]]>>
  <1>1. ShardInv /\ [ShardKvNext]_shardVars => [Routed]_shardVars
    <2> SUFFICES ASSUME ShardInv, [ShardKvNext]_shardVars, NEW c \in Calls,
                        server'[c] \notin {Nil, server[c]}
                 PROVE  server'[c] = <<target'[c], saved[target'[c]]>>
      OBVIOUS
    <2>0. TypeOK /\ Inv /\ RegisteredIsLatest
      BY DEF ShardInv, KvInv, KvTypeOK, StorageInv
    <2>1. ReadEndnameInfo(c)
      <3>1. CASE NetworkNext
        BY <2>0, <3>1, NetworkFacts
      <3>2. CASE ~NetworkNext
        <4>1. UNCHANGED server
          BY <3>2, ShardCases DEF SharedNext, ServiceNext, ServiceRun, ServiceReturn,
             RunHandler, ReturnFromHandler, SaveRaftState, SaveStateAndSnapshot,
             ShutdownDeleteServer, ShutdownCopy, ShutdownKill, BootServer, StartAdd, DeleteServer,
             AddServer, deleteClient, ShutdownShardServer, StartShardServer,
             InstanceMakeEnd, ClerkMakeEnd, make_end, makeShardClient, kvVars, vars,
             locals, callVars
        <4>. QED
          BY <4>1
      <3>. QED
        BY <3>1, <3>2
    <2>2. endname[c] \in Ends
      BY <2>0, <2>1 DEF Inv, CallInv, HasEnd, BeforeHandler, ReadEndnameInfo, Goto
    <2>3. server'[c] = ServerOf(endname[c]) /\ target'[c] = Servername(endname[c])
      BY <2>0, <2>1 DEF ReadEndnameInfo, TypeOK
    <2>. QED
      BY <2>0, <2>2, <2>3, NilAssumption DEF ServerOf, Servername, RegisteredIsLatest, TypeOK
  <1>. QED
    BY <1>1, ShardInvariance, PTL DEF ShardKvSpec, RoutedToLatest
=============================================================================
