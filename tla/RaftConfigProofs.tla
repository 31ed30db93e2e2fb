-------------------------- MODULE RaftConfigProofs --------------------------
(***************************************************************************)
(* Proofs about RaftConfig, for any number of servers, restarts and calls: *)
(* the network agrees with cfg.connected, a Persister is written by one    *)
(* instance only, and no crash loses acknowledged raft state.              *)
(***************************************************************************)
EXTENDS RaftConfig, LabrpcProofs

\* A registered server is the instance with the latest Persister.  crash1 has
\* deleted it before it supersedes that Persister.
Registered ==
    \A i \in ServerNames : servers[i] # Nil =>
        /\ servers[i] = Latest(i)
        /\ Latest(i) \in started
        /\ ~(who = i /\ step \notin {"idle", "delete"})

\* Supersede writes to a Persister that no instance has been given.
FreshPersisters ==
    \A i \in ServerNames, g \in Gens : <<i, g>> \in started => g <= saved[i]

RoutedToStarted ==
    \A c \in Calls : server[c] # Nil => server[c] \in started

\* What an instance persists again includes what it has persisted before.
MemCoversStored ==
    \A o \in started : Stored(o) \subseteq mem[o]

RepliedIsStored ==
    \A c \in Calls : hpc[c] \in {"replying", "exited"} => c \in Stored(server[c])

\* A call in a snapshot is in the snapshot of an instance, where no crash
\* removes it.
SnapshotInv ==
    \A o \in Objs : \A c \in snapshot[o] : \E p \in started : c \in snapshot[p]

\* RaftDurability, with an instance as the one that holds the snapshot.
DurableInv ==
    \A c \in Calls : verdict[c] = "ok" =>
        \/ c \in raftstate[Latest(target[c])]
        \/ \E p \in started : c \in snapshot[p]

StorageInv ==
    /\ Registered /\ FreshPersisters /\ RoutedToStarted
    /\ MemCoversStored /\ RepliedIsStored /\ SnapshotInv /\ DurableInv

\* The instance a server has, the Persister it was given, and its ends.
InstanceInv ==
    \A i \in ServerNames :
        /\ Latest(i) \in started =>
               running[i] /\ ~(who = i /\ step \in {"kill", "ends", "make"})
        /\ running[i] => endnames[i] = saved[i] \/ (who = i /\ step = "kill")
        /\ connected[i] => running[i] /\ (who = i => step = "idle")

\* What a restart in progress has established.
StepInv ==
    /\ step \in {"delete", "copy"} /\ Latest(who) \in started => saved[who] + 1 \in Gens
    /\ step = "make" => endnames[who] = saved[who]
    /\ step = "add" => Latest(who) \in started

RaftInv ==
    /\ RaftTypeOK /\ Inv
    /\ StorageInv /\ InstanceInv /\ StepInv /\ EnabledIffConnected

-----------------------------------------------------------------------------
\* Ends between servers are ends of the network.
LEMMA ServerEndsAreEnds ==
    \A i, j \in ServerNames, g \in Gens : <<i, g, j>> \in Ends
  BY ClusterAssumption

\* The first Persister has a number.
LEMMA FirstGen == 0 \in Gens
  BY ClusterAssumption DEF Gens

\* The state make_config leaves satisfies the invariant.
LEMMA RaftInitInv == RaftInit => RaftInv
  <1> SUFFICES ASSUME RaftInit PROVE RaftInv
    OBVIOUS
  <1> USE ClusterAssumption DEF RaftInit, Gens
  <1>1. /\ enabled \in SUBSET Ends
        /\ connections \in [Ends -> ServerNames \cup {Nil}]
        /\ ends \in SUBSET Ends
    <2>1. \A e \in ends : e \in Ends /\ e[3] \in ServerNames
      <3>1. \A i, j \in ServerNames : <<i, 0, j>> \in Ends
        BY ServerEndsAreEnds, FirstGen
      <3>. QED
        BY <3>1 DEF ServerEnds
    <2>. QED
      BY <2>1
  <1>2. TypeOK
    <2>1. servers \in [ServerNames -> Objs \cup {Nil}]
      OBVIOUS
    <2>. QED
      BY <1>1, <2>1 DEF NoCalls, TypeOK, PCs, HandlerPCs, Verdicts
  <1>3. RaftTypeOK
    <2>1. /\ who \in ServerNames /\ started \in SUBSET Objs
          /\ saved \in [ServerNames -> Gens] /\ endnames \in [ServerNames -> Gens]
      OBVIOUS
    <2>2. /\ raftstate \in [Objs -> SUBSET Calls] /\ snapshot \in [Objs -> SUBSET Calls]
          /\ mem \in [Objs -> SUBSET Calls] /\ step \in RaftSteps
      BY DEF RaftSteps
    <2>3. /\ running \in [ServerNames -> BOOLEAN] /\ connected \in [ServerNames -> BOOLEAN]
          /\ starting \in BOOLEAN
      OBVIOUS
    <2>. QED
      BY <1>2, <2>1, <2>2, <2>3 DEF RaftTypeOK
  <1>4. ASSUME NEW c \in Calls PROVE CallInv(c)
    BY DEF NoCalls, CallInv, HasEnd, HasServer, BeforeHandler, InLoop, AfterLoop,
           Answered, HasReceiver, ReplyReceived, ExecutedOnce
  <1>5. StorageInv
    <2>1. Registered /\ FreshPersisters
      BY DEF Registered, FreshPersisters, Latest
    <2>2. RoutedToStarted /\ MemCoversStored /\ RepliedIsStored /\ SnapshotInv /\ DurableInv
      BY DEF RoutedToStarted, MemCoversStored, RepliedIsStored, SnapshotInv, DurableInv,
             NoCalls, Stored
    <2>. QED
      BY <2>1, <2>2 DEF StorageInv
  <1>6. InstanceInv /\ StepInv
    BY DEF InstanceInv, StepInv, Latest
  <1>7. EnabledIffConnected
    BY DEF EnabledIffConnected, Connected, ServerEnds
  <1>. QED
    BY <1>2, <1>3, <1>4, <1>5, <1>6, <1>7 DEF RaftInv, Inv

-----------------------------------------------------------------------------
(***************************************************************************)
(* Types, and the invariant of the calls in progress                       *)
(***************************************************************************)

\* Links between servers are ends.
LEMMA LinksAreEnds ==
    ASSUME RaftTypeOK, NEW I \in SUBSET ServerNames, NEW J \in SUBSET ServerNames
    PROVE  Links(I, J) \subseteq Ends
  BY ServerEndsAreEnds DEF RaftTypeOK, Links, Link

\* The latest Persister of a server is one of the Persisters.
LEMMA LatestIsObj ==
    ASSUME RaftTypeOK, NEW i \in ServerNames
    PROVE  Latest(i) \in Objs /\ saved[i] \in Nat
  BY ClusterAssumption DEF RaftTypeOK, Latest, Gens

\* Superseding a Persister keeps the types.
LEMMA SupersedeType ==
    ASSUME RaftTypeOK, NEW i \in ServerNames, Supersede(i),
           Latest(i) \in started => saved[i] + 1 \in Gens
    PROVE  /\ saved' \in [ServerNames -> Gens]
           /\ raftstate' \in [Objs -> SUBSET Calls]
           /\ snapshot' \in [Objs -> SUBSET Calls]
  <1>1. CASE Latest(i) \notin started
    BY <1>1 DEF RaftTypeOK, Supersede, diskVars
  <1>2. CASE Latest(i) \in started
    <2>1. Latest(i) \in Objs /\ <<i, saved[i] + 1>> \in Objs
      BY <1>2, ClusterAssumption, LatestIsObj
    <2>2. raftstate[Latest(i)] \in SUBSET Calls /\ snapshot[Latest(i)] \in SUBSET Calls
      BY <2>1 DEF RaftTypeOK
    <2>. QED
      BY <1>2, <2>1, <2>2 DEF RaftTypeOK, Supersede
  <1>. QED
    BY <1>1, <1>2

\* Every step keeps the types and the invariant of the calls in progress.
LEMMA RaftTypeStep == RaftInv /\ [RaftNext]_raftVars => RaftTypeOK' /\ Inv'
  <1> SUFFICES ASSUME RaftInv, [RaftNext]_raftVars PROVE RaftTypeOK' /\ Inv'
    OBVIOUS
  <1>0. RaftTypeOK /\ TypeOK /\ Inv
    BY DEF RaftInv, RaftTypeOK
  <1>a. who \in ServerNames /\ Latest(who) \in Objs
    BY <1>0, LatestIsObj DEF RaftTypeOK
  <1> USE <1>0 DEF cfgVars, svcVars, diskVars
  <1>1. CASE NetworkNext /\ UNCHANGED <<cfgVars, svcVars, connected, starting>>
    <2>1. TypeOK' /\ Inv'
      BY <1>1, NextInv DEF Next, Inv
    <2>. QED
      BY <1>1, <2>1 DEF RaftTypeOK
  <1>2. ASSUME NEW c \in Calls, ServiceRun(c), UNCHANGED <<connected, starting>>
        PROVE  RaftTypeOK' /\ Inv'
    <2>1. TypeOK' /\ Inv'
      BY <1>2, NextInv DEF ServiceRun, Next, HandlerNext, Inv
    <2>. QED
      BY <1>2, <2>1 DEF RaftTypeOK, ServiceRun
  <1>3. ASSUME NEW c \in Calls, ServiceReturn(c), UNCHANGED <<connected, starting>>
        PROVE  RaftTypeOK' /\ Inv'
    <2>1. TypeOK' /\ Inv'
      BY <1>3, NextInv DEF ServiceReturn, Next, HandlerNext, Inv
    <2>. QED
      BY <1>3, <2>1 DEF RaftTypeOK, ServiceReturn
  <1>4. ASSUME NEW o \in Objs, SaveRaftState(o) \/ SaveStateAndSnapshot(o),
               UNCHANGED <<connected, starting>>
        PROVE  RaftTypeOK' /\ Inv'
    <2>1. TypeOK' /\ Inv'
      BY <1>4, NextInv DEF Inv, SaveRaftState, SaveStateAndSnapshot
    <2>. QED
      BY <1>4, <2>1 DEF RaftTypeOK, SaveRaftState, SaveStateAndSnapshot
  <1>5. CASE CrashCopy \/ CrashKill \/ StartMake \/ UNCHANGED raftVars
    <2>1. TypeOK' /\ Inv'
      BY <1>5, NextInv DEF Inv, CrashCopy, CrashKill, StartMake, raftVars
    <2>2. CASE CrashCopy
      BY <1>a, <2>1, <2>2, SupersedeType DEF CrashCopy, RaftTypeOK, RaftSteps,
         RaftInv, StepInv
    <2>3. CASE CrashKill
      BY <1>a, <2>1, <2>3 DEF CrashKill, RaftTypeOK, RaftSteps
    <2>4. CASE StartMake
      <3>1. Stored(Latest(who)) \in SUBSET Calls
        BY <1>a DEF RaftTypeOK, Stored
      <3>. QED
        BY <1>a, <2>1, <2>4, <3>1 DEF StartMake, RaftTypeOK, RaftSteps
    <2>5. CASE UNCHANGED raftVars
      BY <2>1, <2>5 DEF raftVars, RaftTypeOK
    <2>. QED
      BY <1>5, <2>2, <2>3, <2>4, <2>5
  <1>6. ASSUME NEW i \in ServerNames,
               connect(i) \/ disconnect(i) \/ crash1(i) \/ start1(i)
        PROVE  RaftTypeOK' /\ Inv'
    <2>1. /\ Links({i}, Connected \cup {i}) \in SUBSET Ends
          /\ enabled \ Links({i}, ServerNames) \in SUBSET Ends
      BY LinksAreEnds DEF TypeOK, Connected
    <2>2. TypeOK'
      BY <1>6, <2>1 DEF connect, disconnect, Detach, crash1, start1, Crash, TypeOK,
         callVars, netVars, locals
    <2>3. Inv'
      BY <1>6, <2>2, TableStep DEF connect, disconnect, crash1, start1, Crash, callVars
    <2>. QED
      BY <1>6, <2>2, <2>3 DEF connect, disconnect, Detach, crash1, start1, Crash,
         RaftTypeOK, RaftSteps
  <1>7. CASE CrashDelete \/ StartAdd
    <2>1. TypeOK'
      <3>1. servers' \in [ServerNames -> Objs \cup {Nil}]
        BY <1>7, <1>a DEF CrashDelete, StartAdd, DeleteServer, AddServer, TypeOK
      <3>. QED
        BY <1>7, <3>1 DEF CrashDelete, StartAdd, DeleteServer, AddServer, TypeOK,
           callVars, netVars, locals
    <2>2. Inv'
      BY <1>7, <2>1, TableStep DEF CrashDelete, StartAdd, DeleteServer, AddServer,
         callVars
    <2>. QED
      BY <1>7, <2>1, <2>2 DEF RaftTypeOK, CrashDelete, StartAdd, RaftSteps
  <1>8. CASE StartEnds
    <2> DEFINE es == ServerEnds(who, saved[who])
    <2>1. es \in SUBSET Ends /\ \A e \in es : e[3] \in ServerNames
      BY <1>a, ClusterAssumption DEF RaftTypeOK, ServerEnds
    <2>2. /\ ends' \in SUBSET Ends
          /\ connections' \in [Ends -> ServerNames \cup {Nil}]
          /\ enabled' \in SUBSET Ends
      BY <1>8, <2>1 DEF StartEnds, MakeEnds, TypeOK
    <2>3. TypeOK'
      BY <1>8, <2>2 DEF StartEnds, TypeOK, callVars, netVars, locals
    <2>4. Inv'
      BY <1>8, <2>3, TableStep DEF StartEnds, callVars
    <2>5. Latest(who) \notin started
      BY <1>8, <1>a DEF StartEnds, RaftInv, InstanceInv
    <2>. QED
      BY <1>8, <1>a, <2>3, <2>4, <2>5, SupersedeType DEF RaftTypeOK, StartEnds, RaftSteps
  <1>. QED
    BY <1>1, <1>2, <1>3, <1>4, <1>5, <1>6, <1>7, <1>8
       DEF RaftNext, ServiceNext, TestNext

-----------------------------------------------------------------------------
(***************************************************************************)
(* Storage                                                                 *)
(***************************************************************************)

\* A step of the network keeps the storage invariant.  The case that matters
\* is ChooseReply: a positive reply needs a final look at the tables.
LEMMA NetworkStorage ==
    RaftInv /\ NetworkNext /\ UNCHANGED <<cfgVars, svcVars>> => StorageInv'
  <1> SUFFICES ASSUME RaftInv, NetworkNext, UNCHANGED <<cfgVars, svcVars>>
               PROVE  StorageInv'
    OBVIOUS
  <1> USE DEF cfgVars, svcVars, diskVars
  <1>0. RaftTypeOK /\ TypeOK /\ Inv /\ StorageInv
    BY DEF RaftInv, RaftTypeOK
  <1>1. servers' = servers
    BY DEF NetworkNext, Call, Send, AcceptReq, CallNetworkDone, ProcessReq, Route,
       ReadEndnameInfo, Forward, DropRequest, FailCall, StartHandler, Await,
       ReceiveReply, GiveUp, Finish, ChooseReply, Deliver, Unreachable, Dispatch,
       Drain, NetworkStop, Cleanup, tables, netVars
  <1>2. Registered' /\ FreshPersisters' /\ MemCoversStored' /\ SnapshotInv'
    BY <1>0, <1>1 DEF StorageInv, Registered, FreshPersisters, MemCoversStored, Stored,
       SnapshotInv, Latest
  <1>3. ASSUME NEW c \in Calls, ReadEndnameInfo(c)
        PROVE  /\ hpc[c] = "none" /\ verdict[c] = "none"
               /\ server'[c] # Nil => server'[c] \in started
    <2>1. endname[c] \in Ends /\ hpc[c] = "none" /\ verdict[c] = "none"
      BY <1>0, <1>3 DEF Inv, CallInv, HasEnd, BeforeHandler, ReadEndnameInfo, Goto
    <2>2. ServerOf(endname[c]) # Nil => ServerOf(endname[c]) \in started
      BY <1>0, <2>1, NilAssumption DEF ServerOf, StorageInv, Registered, TypeOK
    <2>3. server'[c] = ServerOf(endname[c])
      BY <1>0, <1>3 DEF ReadEndnameInfo, TypeOK
    <2>. QED
      BY <2>1, <2>2, <2>3
  <1>4. ASSUME NEW c \in Calls, ChooseReply(c), verdict'[c] = "ok"
        PROVE  \/ c \in raftstate[Latest(target[c])]
               \/ \E p \in started : c \in snapshot[p]
    <2>1. replyOK[c] /\ servers[target[c]] = server[c]
      BY <1>0, <1>4 DEF ChooseReply, Replies, IsServerDead, TypeOK
    <2>2. hpc[c] = "exited" /\ target[c] \in ServerNames /\ server[c] \in Objs
      BY <1>0, <2>1 DEF Inv, CallInv, ReplyReceived, HasServer
    <2>3. server[c] = Latest(target[c]) /\ server[c] \in started
      BY <1>0, <2>1, <2>2, NilAssumption DEF StorageInv, Registered
    <2>. QED
      BY <1>0, <2>2, <2>3 DEF StorageInv, RepliedIsStored, Stored
  <1>5. ASSUME NEW c \in Calls
        PROVE  /\ server'[c] # Nil => server'[c] \in started
               /\ hpc'[c] \in {"replying", "exited"} => c \in Stored(server'[c])
               /\ verdict'[c] = "ok" =>
                      \/ c \in raftstate[Latest(target'[c])]
                      \/ \E p \in started : c \in snapshot[p]
    <2>1. CASE ReadEndnameInfo(c)
      <3>1. hpc'[c] = "none" /\ verdict'[c] = "none"
        BY <1>3, <2>1 DEF ReadEndnameInfo
      <3>. QED
        BY <1>3, <2>1, <3>1
    <2>2. CASE server'[c] = server[c] /\ target'[c] = target[c]
      BY <1>0, <1>4, <2>2, NetworkFacts
         DEF StorageInv, RoutedToStarted, RepliedIsStored, DurableInv
    <2>. QED
      BY <1>0, <2>1, <2>2, NetworkFacts
  <1>6. RoutedToStarted' /\ RepliedIsStored' /\ DurableInv'
    BY <1>5 DEF RoutedToStarted, RepliedIsStored, DurableInv, Stored, Latest
  <1>. QED
    BY <1>2, <1>6 DEF StorageInv

\* Handlers and Persisters: what a Persister holds only moves from the raft
\* state to the snapshot.
LEMMA ServiceStorage == RaftInv /\ ServiceNext => StorageInv'
  <1> SUFFICES ASSUME RaftInv, ServiceNext PROVE StorageInv'
    OBVIOUS
  <1> USE DEF cfgVars, svcVars, diskVars, tables, netVars, locals
  <1>0. RaftTypeOK /\ TypeOK /\ Inv /\ StorageInv
    BY DEF RaftInv, RaftTypeOK
  <1>1. ASSUME NEW c \in Calls, ServiceRun(c) PROVE StorageInv'
    <2>1. \A o \in Objs : mem[o] \subseteq mem'[o]
      BY <1>0, <1>1 DEF ServiceRun, RaftTypeOK
    <2>2. \A d \in Calls : hpc'[d] \in {"replying", "exited"} =>
                               hpc[d] \in {"replying", "exited"}
      BY <1>0, <1>1 DEF ServiceRun, RunHandler, GotoHandler, TypeOK
    <2>3. UNCHANGED <<tables, locals, verdict, cfgVars, diskVars, started>>
      BY <1>1 DEF ServiceRun, RunHandler
    <2>4. MemCoversStored'
      BY <1>0, <2>1, <2>3 DEF StorageInv, MemCoversStored, Stored, RaftTypeOK
    <2>. QED
      BY <1>0, <2>2, <2>3, <2>4 DEF StorageInv, Registered, FreshPersisters,
         RoutedToStarted, RepliedIsStored, SnapshotInv, DurableInv, Stored, Latest
  <1>2. ASSUME NEW c \in Calls, ServiceReturn(c) PROVE StorageInv'
    <2>1. \A d \in Calls : hpc'[d] \in {"replying", "exited"} =>
                               hpc[d] \in {"replying", "exited"} \/ d = c
      BY <1>0, <1>2 DEF ServiceReturn, ReturnFromHandler, GotoHandler, TypeOK
    <2>2. UNCHANGED <<tables, locals, verdict, cfgVars, svcVars>> /\ c \in Stored(server[c])
      BY <1>2 DEF ServiceReturn, ReturnFromHandler
    <2>. QED
      BY <1>0, <2>1, <2>2 DEF StorageInv, Registered, FreshPersisters, RoutedToStarted,
         MemCoversStored, RepliedIsStored, SnapshotInv, DurableInv, Stored, Latest
  <1>3. ASSUME NEW o \in Objs, SaveRaftState(o) \/ SaveStateAndSnapshot(o)
        PROVE  StorageInv'
    <2>1. UNCHANGED <<vars, cfgVars, started, mem>> /\ o \in started
      BY <1>3 DEF SaveRaftState, SaveStateAndSnapshot
    <2>2. Stored(o) \subseteq mem[o]
      BY <1>0, <2>1 DEF StorageInv, MemCoversStored
    <2>3. \A x \in Objs \ {o} : raftstate'[x] = raftstate[x] /\ snapshot'[x] = snapshot[x]
      BY <1>0, <1>3 DEF SaveRaftState, SaveStateAndSnapshot, RaftTypeOK
    <2>4. /\ raftstate'[o] \cup snapshot'[o] = mem[o]
          /\ snapshot[o] \subseteq snapshot'[o] /\ snapshot'[o] \subseteq mem[o]
      BY <1>0, <1>3, <2>2 DEF SaveRaftState, SaveStateAndSnapshot, RaftTypeOK, Stored
    <2>5. \A x \in Objs : /\ Stored(x) \subseteq Stored(x)'
                          /\ snapshot[x] \subseteq snapshot'[x]
      BY <2>2, <2>3, <2>4 DEF Stored
    <2>6. MemCoversStored'
      <3>1. \A x \in started : x \in Objs
        BY <1>0 DEF RaftTypeOK
      <3>2. \A x \in started : raftstate'[x] \cup snapshot'[x] \subseteq mem[x]
        BY <1>0, <2>3, <2>4, <3>1 DEF StorageInv, MemCoversStored, Stored
      <3>. QED
        BY <2>1, <3>2 DEF MemCoversStored, Stored
    <2>7. RepliedIsStored'
      <3>1. \A c \in Calls : hpc[c] # "none" => server[c] \in Objs
        BY <1>0 DEF Inv, CallInv, HasServer
      <3>. QED
        BY <1>0, <2>1, <2>5, <3>1 DEF vars, StorageInv, RepliedIsStored
    <2>8. SnapshotInv'
      <3>1. SUFFICES ASSUME NEW x \in Objs, NEW c \in snapshot'[x]
                     PROVE  \E p \in started : c \in snapshot'[p]
        BY <2>1 DEF SnapshotInv
      <3>2. CASE x = o
        BY <2>1, <3>1, <3>2
      <3>3. CASE x # o
        <4>1. \E p \in started : c \in snapshot[p]
          BY <1>0, <2>3, <3>1, <3>3 DEF StorageInv, SnapshotInv
        <4>. QED
          BY <1>0, <2>5, <4>1 DEF RaftTypeOK
      <3>. QED
        BY <3>2, <3>3
    <2>9. DurableInv'
      <3>1. SUFFICES ASSUME NEW c \in Calls, verdict[c] = "ok"
                     PROVE  \/ c \in raftstate'[Latest(target[c])]
                            \/ \E p \in started : c \in snapshot'[p]
        BY <2>1 DEF DurableInv, vars, Latest
      <3>2. CASE \E p \in started : c \in snapshot[p]
        BY <1>0, <2>5, <3>2 DEF RaftTypeOK
      <3>3. CASE c \in raftstate[Latest(target[c])]
        <4>1. Latest(target[c]) \in Objs
          BY <1>0, <3>1, LatestIsObj DEF Inv, CallInv, HasServer, ReplyReceived
        <4>2. CASE Latest(target[c]) = o
          BY <2>1, <2>2, <2>4, <3>3, <4>2 DEF Stored
        <4>3. CASE Latest(target[c]) # o
          BY <2>3, <3>3, <4>1, <4>3
        <4>. QED
          BY <4>2, <4>3
      <3>. QED
        BY <1>0, <3>1, <3>2, <3>3 DEF StorageInv, DurableInv
    <2>. QED
      BY <1>0, <2>1, <2>6, <2>7, <2>8, <2>9 DEF vars, StorageInv, Registered,
         FreshPersisters, RoutedToStarted, Latest
  <1>. QED
    BY <1>1, <1>2, <1>3 DEF ServiceNext

\* Superseding the Persister of an instance: a Persister no instance has holds
\* what the instance's held.
LEMMA SupersedeStorage ==
    ASSUME RaftInv, NEW i \in ServerNames, Supersede(i),
           Latest(i) \in started => saved[i] + 1 \in Gens,
           servers[i] = Nil, servers' = servers, who' = who, who = i,
           started' = started, mem' = mem, UNCHANGED <<hpc, target, server, verdict>>
    PROVE  StorageInv' /\ Latest(i)' \notin started'
  <1>0. RaftTypeOK /\ TypeOK /\ Inv /\ StorageInv
    BY DEF RaftInv, RaftTypeOK
  <1>1. CASE Latest(i) \notin started
    <2>1. UNCHANGED <<saved, raftstate, snapshot>>
      BY <1>1 DEF Supersede, diskVars
    <2>2. Registered'
      BY <1>0, <2>1 DEF StorageInv, Registered, Latest
    <2>. QED
      BY <1>0, <1>1, <2>1, <2>2 DEF StorageInv, FreshPersisters, RoutedToStarted,
         MemCoversStored, RepliedIsStored, SnapshotInv, DurableInv, Stored, Latest
  <1>2. CASE Latest(i) \in started
    <2> DEFINE g == saved[i] + 1
    <2>1. /\ saved[i] \in Nat /\ g \in Gens
          /\ <<i, g>> \in Objs /\ Latest(i) \in Objs
      BY <1>0, <1>2, ClusterAssumption, LatestIsObj
    <2>2. <<i, g>> \notin started
      BY <1>0, <2>1 DEF StorageInv, FreshPersisters
    <2>3. \A o \in Objs \ {<<i, g>>} :
              raftstate'[o] = raftstate[o] /\ snapshot'[o] = snapshot[o]
      BY <1>0, <1>2 DEF Supersede, RaftTypeOK
    <2>4. /\ raftstate'[<<i, g>>] = raftstate[Latest(i)]
          /\ snapshot'[<<i, g>>] = snapshot[Latest(i)]
      BY <1>0, <1>2, <2>1 DEF Supersede, RaftTypeOK
    <2>5. \A j \in ServerNames : saved'[j] = IF j = i THEN g ELSE saved[j]
      BY <1>0, <1>2 DEF Supersede, RaftTypeOK
    <2>6. \A o \in started : o \in Objs \ {<<i, g>>}
      BY <1>0, <2>2 DEF RaftTypeOK
    <2>7. Registered'
      BY <1>0, <2>5 DEF StorageInv, Registered, Latest
    <2>8. FreshPersisters'
      <3>1. SUFFICES ASSUME NEW j \in ServerNames, NEW h \in Gens, <<j, h>> \in started
                     PROVE  h <= saved'[j]
        BY DEF FreshPersisters
      <3>2. h <= saved[j] /\ h \in Nat
        BY <1>0, <3>1, ClusterAssumption DEF StorageInv, FreshPersisters, Gens
      <3>. QED
        BY <2>1, <2>5, <3>2
    <2>9. RoutedToStarted'
      BY <1>0 DEF StorageInv, RoutedToStarted
    <2>10. MemCoversStored'
      BY <1>0, <2>3, <2>6 DEF StorageInv, MemCoversStored, Stored
    <2>11. RepliedIsStored'
      <3>1. \A c \in Calls : hpc[c] # "none" => server[c] \in Objs \ {<<i, g>>}
        BY <1>0, <2>2, NilAssumption DEF Inv, CallInv, HasServer, StorageInv, RoutedToStarted
      <3>. QED
        BY <1>0, <2>3, <3>1 DEF StorageInv, RepliedIsStored, Stored
    <2>12. SnapshotInv'
      <3>1. SUFFICES ASSUME NEW x \in Objs, NEW c \in snapshot'[x]
                     PROVE  \E p \in started : c \in snapshot'[p]
        BY DEF SnapshotInv
      <3>2. \E p \in started : c \in snapshot[p]
        BY <1>0, <1>2, <2>3, <2>4, <3>1 DEF StorageInv, SnapshotInv
      <3>. QED
        BY <2>3, <2>6, <3>2
    <2>13. DurableInv'
      <3>1. SUFFICES ASSUME NEW c \in Calls, verdict[c] = "ok"
                     PROVE  \/ c \in raftstate'[<<target[c], saved'[target[c]]>>]
                            \/ \E p \in started : c \in snapshot'[p]
        BY DEF DurableInv, Latest
      <3>2. CASE \E p \in started : c \in snapshot[p]
        BY <2>3, <2>6, <3>2
      <3>3. CASE c \in raftstate[Latest(target[c])]
        <4>1. target[c] \in ServerNames
          BY <1>0, <3>1 DEF Inv, CallInv, HasServer, ReplyReceived
        <4>2. CASE target[c] = i
          BY <2>4, <2>5, <3>3, <4>2
        <4>3. CASE target[c] # i
          <5>1. Latest(target[c]) \in Objs \ {<<i, g>>}
            BY <1>0, <4>1, <4>3, LatestIsObj DEF Latest
          <5>. QED
            BY <2>3, <2>5, <3>3, <4>1, <4>3, <5>1 DEF Latest
        <4>. QED
          BY <4>2, <4>3
      <3>. QED
        BY <1>0, <3>1, <3>2, <3>3 DEF StorageInv, DurableInv
    <2>14. Latest(i)' \notin started'
      BY <2>2, <2>5 DEF Latest
    <2>. QED
      BY <2>7, <2>8, <2>9, <2>10, <2>11, <2>12, <2>13, <2>14 DEF StorageInv
  <1>. QED
    BY <1>1, <1>2

\* CrashCopy, CrashKill and StartEnds find the server deleted, and the latter
\* two a Persister that no instance has.
LEMMA RestartFacts ==
    ASSUME RaftInv
    PROVE  /\ who \in ServerNames /\ Latest(who) \in Objs
           /\ step \notin {"idle", "delete"} => servers[who] = Nil
           /\ step \in {"kill", "ends", "make"} => Latest(who) \notin started
           /\ \A i \in ServerNames : connected[i] => step = "idle" \/ i # who
  <1>1. who \in ServerNames
    BY DEF RaftInv, RaftTypeOK
  <1>. QED
    BY <1>1, LatestIsObj DEF RaftInv, StorageInv, Registered, InstanceInv

\* crash1, start1, connect and disconnect keep the storage invariant.
LEMMA TestStorage == RaftInv /\ TestNext => StorageInv'
  <1> SUFFICES ASSUME RaftInv, TestNext PROVE StorageInv'
    OBVIOUS
  <1> USE DEF cfgVars, svcVars, diskVars, tables, netVars, locals, callVars
  <1>0. RaftTypeOK /\ TypeOK /\ Inv /\ StorageInv /\ StepInv
    BY DEF RaftInv, RaftTypeOK
  <1>a. who \in ServerNames /\ Latest(who) \in Objs
    BY RestartFacts
  <1>1. ASSUME NEW i \in ServerNames,
               connect(i) \/ disconnect(i) \/ crash1(i) \/ start1(i)
        PROVE  StorageInv'
    <2>1. /\ UNCHANGED <<servers, hpc, target, server, verdict, saved, svcVars>>
          /\ step' \in {"idle", "delete"}
      BY <1>1 DEF connect, disconnect, crash1, start1, Crash
    <2>. QED
      BY <1>0, <2>1 DEF StorageInv, Registered, FreshPersisters, RoutedToStarted,
         MemCoversStored, RepliedIsStored, SnapshotInv, DurableInv, Stored, Latest
  <1>2. CASE CrashDelete
    <2>1. Registered'
      BY <1>0, <1>2 DEF CrashDelete, DeleteServer, StorageInv, Registered, TypeOK, Latest
    <2>. QED
      BY <1>0, <1>2, <2>1 DEF CrashDelete, DeleteServer, StorageInv, FreshPersisters,
         RoutedToStarted, MemCoversStored, RepliedIsStored, SnapshotInv, DurableInv,
         Stored, Latest
  <1>3. CASE CrashCopy
    <2>1. servers[who] = Nil
      BY <1>3, RestartFacts DEF CrashCopy
    <2>. QED
      BY <1>0, <1>3, <1>a, <2>1, SupersedeStorage DEF CrashCopy, vars, StepInv
  <1>4. CASE CrashKill
    <2>1. servers[who] = Nil /\ Latest(who) \notin started
      BY <1>4, RestartFacts DEF CrashKill
    <2>2. \A o \in Objs : snapshot'[o] = IF o = Latest(who) THEN {} ELSE snapshot[o]
      BY <1>0, <1>4, <1>a DEF CrashKill, RaftTypeOK
    <2>3. UNCHANGED <<vars, saved, who, raftstate, started, mem>>
      BY <1>4 DEF CrashKill
    <2>4. \A o \in started : o \in Objs /\ snapshot'[o] = snapshot[o]
      BY <1>0, <2>1, <2>2 DEF RaftTypeOK
    <2>5. Registered' /\ FreshPersisters' /\ RoutedToStarted'
      BY <1>0, <2>1, <2>3 DEF vars, StorageInv, Registered, FreshPersisters,
         RoutedToStarted, Latest
    <2>6. MemCoversStored'
      BY <1>0, <2>3, <2>4 DEF StorageInv, MemCoversStored, Stored
    <2>7. RepliedIsStored'
      <3>1. \A c \in Calls : hpc[c] # "none" => server[c] \in started
        BY <1>0, NilAssumption DEF Inv, CallInv, HasServer, StorageInv, RoutedToStarted
      <3>. QED
        BY <1>0, <2>3, <2>4, <3>1 DEF vars, StorageInv, RepliedIsStored, Stored
    <2>8. SnapshotInv'
      BY <1>0, <2>2, <2>3, <2>4 DEF StorageInv, SnapshotInv
    <2>9. DurableInv'
      BY <1>0, <2>3, <2>4 DEF vars, StorageInv, DurableInv, Latest
    <2>. QED
      BY <2>5, <2>6, <2>7, <2>8, <2>9 DEF StorageInv
  <1>5. CASE StartEnds
    <2>1. servers[who] = Nil /\ Latest(who) \notin started
      BY <1>5, RestartFacts DEF StartEnds
    <2>. QED
      BY <1>5, <1>a, <2>1, SupersedeStorage DEF StartEnds
  <1>6. CASE StartMake
    <2> DEFINE o == Latest(who)
    <2>1. servers[who] = Nil
      BY <1>6, RestartFacts DEF StartMake
    <2>2. /\ UNCHANGED <<vars, saved, who, diskVars>> /\ started' = started \cup {o}
          /\ \A x \in Objs : mem'[x] = IF x = o THEN Stored(o) ELSE mem[x]
      BY <1>0, <1>6, <1>a DEF StartMake, RaftTypeOK
    <2>3. Registered'
      BY <1>0, <2>1, <2>2 DEF vars, StorageInv, Registered, Latest
    <2>4. FreshPersisters'
      BY <1>0, <1>a, <2>2, ClusterAssumption DEF StorageInv, FreshPersisters, Gens, Latest,
         RaftTypeOK
    <2>5. MemCoversStored'
      <3>1. \A x \in started' : x \in Objs /\ (x = o \/ x \in started)
        BY <1>0, <1>a, <2>2 DEF RaftTypeOK
      <3>. QED
        BY <1>0, <2>2, <3>1 DEF StorageInv, MemCoversStored, Stored
    <2>. QED
      BY <1>0, <2>2, <2>3, <2>4, <2>5 DEF vars, StorageInv, RoutedToStarted,
         RepliedIsStored, SnapshotInv, DurableInv, Stored, Latest
  <1>7. CASE StartAdd
    <2>1. Latest(who) \in started
      BY <1>0, <1>7 DEF StartAdd, StepInv
    <2>2. Registered'
      BY <1>0, <1>7, <1>a, <2>1 DEF StartAdd, AddServer, StorageInv, Registered, TypeOK,
         Latest
    <2>. QED
      BY <1>0, <1>7, <2>2 DEF StartAdd, AddServer, StorageInv, FreshPersisters,
         RoutedToStarted, MemCoversStored, RepliedIsStored, SnapshotInv, DurableInv,
         Stored, Latest
  <1>. QED
    BY <1>1, <1>2, <1>3, <1>4, <1>5, <1>6, <1>7 DEF TestNext

-----------------------------------------------------------------------------
(***************************************************************************)
(* Instances and connections                                               *)
(***************************************************************************)

\* Every step of the test keeps the invariants of the instances and of the
\* restart in progress.
LEMMA InstanceStep == RaftInv /\ TestNext => InstanceInv' /\ StepInv'
  <1> SUFFICES ASSUME RaftInv, TestNext PROVE InstanceInv' /\ StepInv'
    OBVIOUS
  <1> USE DEF cfgVars, svcVars, diskVars
  <1>0. RaftTypeOK /\ StorageInv /\ InstanceInv /\ StepInv
    BY DEF RaftInv
  <1>a. who \in ServerNames /\ Latest(who) \in Objs
    BY RestartFacts
  <1>1. ASSUME NEW i \in ServerNames, connect(i) \/ disconnect(i)
        PROVE  InstanceInv' /\ StepInv'
    BY <1>0, <1>1 DEF connect, disconnect, Detach, InstanceInv, StepInv, Latest, RaftTypeOK
  <1>2. ASSUME NEW i \in ServerNames, crash1(i) \/ start1(i)
        PROVE  InstanceInv' /\ StepInv'
    <2>1. /\ step = "idle" /\ step' = "delete" /\ who' = i
          /\ running[i] => saved[i] + 1 \in Gens
          /\ UNCHANGED <<saved, running, endnames, started>>
          /\ \A j \in ServerNames : connected'[j] = IF j = i THEN FALSE ELSE connected[j]
      BY <1>0, <1>2 DEF crash1, start1, Crash, Detach, RaftTypeOK
    <2>. QED
      BY <1>0, <2>1 DEF InstanceInv, StepInv, Latest
  <1>3. CASE CrashDelete
    BY <1>0, <1>3 DEF CrashDelete, InstanceInv, StepInv, Latest
  <1>4. CASE CrashCopy
    <2>1. servers[who] = Nil
      BY <1>4, RestartFacts DEF CrashCopy
    <2>2. Latest(who)' \notin started'
      BY <1>0, <1>4, <1>a, <2>1, SupersedeStorage
         DEF CrashCopy, vars, StepInv, tables, locals, netVars
    <2>3. \A j \in ServerNames : j # who => saved'[j] = saved[j]
      BY <1>0, <1>4 DEF CrashCopy, Supersede, RaftTypeOK
    <2>4. \A j \in ServerNames : ~(connected[j] /\ j = who)
      BY <1>4, RestartFacts DEF CrashCopy
    <2>. QED
      BY <1>0, <1>4, <2>2, <2>3, <2>4 DEF CrashCopy, InstanceInv, StepInv, Latest
  <1>5. CASE CrashKill
    <2>1. Latest(who) \notin started /\ ~connected[who]
      BY <1>5, <1>a, RestartFacts DEF CrashKill
    <2>2. \A j \in ServerNames : running'[j] = IF j = who THEN FALSE ELSE running[j]
      BY <1>0, <1>5 DEF CrashKill, RaftTypeOK
    <2>. QED
      BY <1>0, <1>5, <2>1, <2>2 DEF CrashKill, InstanceInv, StepInv, Latest
  <1>6. CASE StartEnds
    <2>1. Latest(who) \notin started /\ ~connected[who]
      BY <1>6, <1>a, RestartFacts DEF StartEnds
    <2>2. \A j \in ServerNames : endnames'[j] = IF j = who THEN saved[who] ELSE endnames[j]
      BY <1>0, <1>6 DEF StartEnds, RaftTypeOK
    <2>3. UNCHANGED saved
      BY <1>6, <2>1 DEF StartEnds, Supersede
    <2>. QED
      BY <1>0, <1>6, <1>a, <2>1, <2>2, <2>3 DEF StartEnds, InstanceInv, StepInv, Latest
  <1>7. CASE StartMake
    <2>1. ~connected[who]
      BY <1>7, <1>a, RestartFacts DEF StartMake
    <2>2. \A j \in ServerNames : running'[j] = IF j = who THEN TRUE ELSE running[j]
      BY <1>0, <1>7 DEF StartMake, RaftTypeOK
    <2>. QED
      BY <1>0, <1>7, <1>a, <2>1, <2>2 DEF StartMake, InstanceInv, StepInv, Latest
  <1>8. CASE StartAdd
    BY <1>0, <1>8 DEF StartAdd, InstanceInv, StepInv, Latest
  <1>. QED
    BY <1>1, <1>2, <1>3, <1>4, <1>5, <1>6, <1>7, <1>8 DEF TestNext

\* The ends of connected servers, in terms of cfg.endnames.
LEMMA ConnectedLinks ==
    ASSUME RaftInv, step = "idle"
    PROVE  /\ \A i \in ServerNames : running[i] => endnames[i] = saved[i]
           /\ Connected \subseteq {i \in ServerNames : running[i]}
  BY DEF RaftInv, InstanceInv, Connected

\* Every step of the test keeps the network in agreement with cfg.connected.
LEMMA ConnectedStep == RaftInv /\ TestNext => EnabledIffConnected'
  <1> SUFFICES ASSUME RaftInv, TestNext PROVE EnabledIffConnected'
    OBVIOUS
  <1> USE DEF cfgVars, svcVars, diskVars
  <1>0. RaftTypeOK /\ TypeOK /\ InstanceInv /\ EnabledIffConnected
    BY DEF RaftInv, RaftTypeOK
  <1>1. ASSUME NEW i \in ServerNames, connect(i) PROVE EnabledIffConnected'
    <2>1. /\ running[i] /\ endnames[i] = saved[i]
          /\ \A j \in Connected : endnames[j] = saved[j]
      BY <1>1, ConnectedLinks DEF connect
    <2>2. Connected' = Connected \cup {i} /\ saved' = saved
      BY <1>0, <1>1 DEF connect, Connected, RaftTypeOK
    <2>3. Links({i}, Connected \cup {i}) =
              {<<i, saved[i], j>> : j \in Connected \cup {i}}
              \cup {<<j, saved[j], i>> : j \in Connected \cup {i}}
      BY <2>1 DEF Links, Link
    <2>4. enabled' = enabled \cup Links({i}, Connected \cup {i})
      BY <1>1 DEF connect
    <2> DEFINE between(S) == {<<j, saved[j], k>> : j \in S, k \in S}
    <2>5. ASSUME NEW S PROVE between(S \cup {i}) =
              between(S) \cup {<<i, saved[i], j>> : j \in S \cup {i}}
                         \cup {<<j, saved[j], i>> : j \in S \cup {i}}
      OBVIOUS
    <2>6. enabled' = between(Connected \cup {i})
      <3>1. enabled = between(Connected)
        BY <1>0 DEF EnabledIffConnected
      <3> HIDE DEF between
      <3>. QED
        BY <2>3, <2>4, <2>5, <3>1
    <2>. QED
      BY <2>2, <2>6 DEF EnabledIffConnected
  <1>2. ASSUME NEW i \in ServerNames, disconnect(i) \/ crash1(i) \/ start1(i)
        PROVE  EnabledIffConnected'
    <2>1. step = "idle" /\ Detach(i) /\ saved' = saved
      BY <1>2 DEF disconnect, crash1, start1, Crash
    <2>2. Connected' = Connected \ {i}
      BY <1>0, <2>1 DEF Detach, Connected, RaftTypeOK
    <2>3. \A j, k \in Connected : endnames[j] = saved[j]
      BY <2>1, ConnectedLinks
    <2>4. \A j, k \in Connected :
              <<j, saved[j], k>> \in Links({i}, ServerNames) <=> (j = i \/ k = i)
      BY <2>3 DEF Links, Link, Connected
    <2>5. enabled' = enabled \ Links({i}, ServerNames)
      BY <2>1 DEF Detach
    <2>. QED
      BY <1>0, <2>1, <2>2, <2>4, <2>5 DEF EnabledIffConnected
  <1>3. CASE CrashDelete \/ CrashKill \/ StartMake \/ StartAdd
    <2>1. UNCHANGED <<enabled, saved, connected>>
      BY <1>3 DEF CrashDelete, CrashKill, StartMake, StartAdd, DeleteServer, AddServer,
         vars, tables
    <2>. QED
      BY <1>0, <2>1 DEF EnabledIffConnected, Connected
  <1>4. CASE CrashCopy \/ StartEnds
    <2>1. who \notin Connected /\ connected' = connected
      BY <1>4, RestartFacts DEF CrashCopy, StartEnds, Connected
    <2>2. \A j \in Connected : saved'[j] = saved[j]
      <3>1. Supersede(who)
        BY <1>4 DEF CrashCopy, StartEnds
      <3>. QED
        BY <1>0, <2>1, <3>1 DEF Supersede, Connected, RaftTypeOK
    <2>3. enabled' = enabled
      <3>1. \A e \in enabled : e \notin ServerEnds(who, saved[who])
        BY <1>0, <2>1 DEF EnabledIffConnected, ServerEnds
      <3>. QED
        BY <1>4, <3>1 DEF CrashCopy, StartEnds, MakeEnds, vars, tables
    <2>. QED
      BY <1>0, <2>1, <2>2, <2>3 DEF EnabledIffConnected, Connected
  <1>. QED
    BY <1>1, <1>2, <1>3, <1>4 DEF TestNext

-----------------------------------------------------------------------------
\* Every step keeps the inductive invariant.
LEMMA RaftNextInv == RaftInv /\ [RaftNext]_raftVars => RaftInv'
  <1> SUFFICES ASSUME RaftInv, [RaftNext]_raftVars
               PROVE  StorageInv' /\ InstanceInv' /\ StepInv' /\ EnabledIffConnected'
    BY RaftTypeStep DEF RaftInv
  <1>0. RaftTypeOK /\ TypeOK /\ StorageInv /\ InstanceInv /\ StepInv /\ EnabledIffConnected
    BY DEF RaftInv, RaftTypeOK
  <1>1. ASSUME UNCHANGED <<enabled, cfgVars, started, connected>>
        PROVE  InstanceInv' /\ StepInv' /\ EnabledIffConnected'
    BY <1>0, <1>1 DEF cfgVars, InstanceInv, StepInv, EnabledIffConnected, Connected, Latest
  <1>2. CASE NetworkNext /\ UNCHANGED <<cfgVars, svcVars, connected, starting>>
    <2>1. UNCHANGED enabled
      BY <1>2 DEF NetworkNext, Call, Send, AcceptReq, CallNetworkDone, ProcessReq, Route,
         ReadEndnameInfo, Forward, DropRequest, FailCall, StartHandler, Await,
         ReceiveReply, GiveUp, Finish, ChooseReply, Deliver, Unreachable, Dispatch,
         Drain, NetworkStop, Cleanup, tables, netVars
    <2>. QED
      BY <1>1, <1>2, <2>1, NetworkStorage DEF svcVars
  <1>3. CASE ServiceNext /\ UNCHANGED <<connected, starting>>
    <2>1. UNCHANGED <<enabled, cfgVars, started>>
      BY <1>3 DEF ServiceNext, ServiceRun, ServiceReturn, RunHandler, ReturnFromHandler,
         SaveRaftState, SaveStateAndSnapshot, tables, vars, svcVars
    <2>. QED
      BY <1>1, <1>3, <2>1, ServiceStorage
  <1>4. CASE TestNext
    BY <1>4, TestStorage, InstanceStep, ConnectedStep
  <1>5. CASE UNCHANGED raftVars
    <2>1. StorageInv'
      BY <1>0, <1>5 DEF raftVars, vars, cfgVars, svcVars, diskVars, tables, locals,
         StorageInv, Registered, FreshPersisters, RoutedToStarted, MemCoversStored,
         RepliedIsStored, SnapshotInv, DurableInv, Stored, Latest
    <2>. QED
      BY <1>1, <1>5, <2>1 DEF raftVars, vars, tables, svcVars
  <1>. QED
    BY <1>2, <1>3, <1>4, <1>5 DEF RaftNext

\* The inductive invariant holds in every reachable state.
THEOREM RaftInvariance == RaftSpec => []RaftInv
  BY RaftInitInv, RaftNextInv, PTL DEF RaftSpec

\* Every variable keeps its type.
THEOREM RaftTypeCorrect == RaftSpec => []RaftTypeOK
  BY RaftInvariance, PTL DEF RaftInv

\* The enabled ends are exactly those between the latest instances of the
\* servers that cfg.connected says are connected.
THEOREM ConnectedCorrect == RaftSpec => []EnabledIffConnected
  BY RaftInvariance, PTL DEF RaftInv

\* No crash loses an acknowledged call that is in the raft state, however many
\* Persisters crash1 and start1 go through.
THEOREM RaftDurabilityCorrect == RaftSpec => []RaftDurability
  <1>1. RaftInv => RaftDurability
    BY DEF RaftInv, RaftTypeOK, StorageInv, DurableInv, RaftDurability
  <1>. QED
    BY <1>1, RaftInvariance, PTL

\* The Persister a restart will read is written by the registered instance of
\* its server or by none.
THEOREM NotSharedCorrect == RaftSpec => []PersisterNotShared
  <1>1. RaftInv => PersisterNotShared
    BY DEF RaftInv, StorageInv, Registered, InstanceInv, PersisterNotShared
  <1>. QED
    BY <1>1, RaftInvariance, PTL
=============================================================================
