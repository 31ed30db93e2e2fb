-------------------------- MODULE ShardClerkProofs --------------------------
(***************************************************************************)
(* Proofs about ShardClerk, for any numbers of keys, shards, groups,       *)
(* servers, masters, configurations and elections.                         *)
(***************************************************************************)
EXTENDS ShardClerk, TLAPS

AtMasters == pc \in {"mcall", "mwait"}

\* A positive answer that is on its way was given after the execution.
AnswerInv ==
    /\ pc = "wait" /\ reply \in {"OK", "ErrNoKey"} => executed
    /\ pc = "mwait" /\ request # Query /\ Answered => executed

\* The cached configuration exists, and so does the one on its way, which is
\* not older than the latest one when Query was called.
ConfigInv ==
    /\ config <= num
    /\ request = Query => config <= began /\ began <= num
    /\ pc = "mwait" /\ request = Query /\ Answered =>
           began <= mreply.Config /\ mreply.Config <= num

\* The shardmaster clerk is running exactly if it has something to do.
RequestInv ==
    /\ AtMasters => request \in Request \cup {Query}
    /\ ~AtMasters => request # Query
    /\ pc = "mwait" => mreply \in [WrongLeader : BOOLEAN, Config : Nums]

CInv == TypeOK /\ AnswerInv /\ ConfigInv /\ RequestInv

-----------------------------------------------------------------------------
\* The invariant holds initially.
LEMMA InitCInv == Init => CInv
  <1> SUFFICES ASSUME Init PROVE CInv
    OBVIOUS
  <1>1. Config0 \in Config
    BY DEF Config0, Config
  <1>2. 0 \in Nums /\ 0 \in Servers /\ 0 \in Masters /\ 0 \in 0..MaxMoves
    BY ClerkAssumption DEF Nums, Servers, Masters
  <1>3. TypeOK
    BY <1>1, <1>2 DEF Init, TypeOK
  <1> QED
    BY <1>3, ClerkAssumption DEF Init, CInv, AnswerInv, ConfigInv, RequestInv, AtMasters,
       Nums

\* Whatever a request does, the result is a configuration.
LEMMA OutcomesType ==
    ASSUME TypeOK, NEW r \in Request, NEW c \in Outcomes(r)
    PROVE  c \in Config
  <1> DEFINE d == configs[num]
  <1>0. d \in Config
    BY DEF TypeOK
  <1>1. ASSUME NEW gs \in SUBSET Gids, c \in Balanced(gs) PROVE c \in Config
    <2>1. (IF gs = {} THEN {0} ELSE gs) \subseteq Gids \cup {0}
      OBVIOUS
    <2> QED
      BY <1>1, <2>1 DEF Balanced, Config
  <1>2. CASE r.op = "Join"
    <2>1. c \in Balanced(d.groups \cup {r.gid})
      BY <1>2 DEF Outcomes
    <2>2. d.groups \cup {r.gid} \in SUBSET Gids
      BY <1>0 DEF Config, Request
    <2> QED
      BY <1>1, <2>1, <2>2
  <1>3. CASE r.op = "Leave"
    <2>1. c \in Balanced(d.groups \ {r.gid})
      BY <1>3 DEF Outcomes
    <2>2. d.groups \ {r.gid} \in SUBSET Gids
      BY <1>0 DEF Config
    <2> QED
      BY <1>1, <2>1, <2>2
  <1>4. CASE r.op = "Move"
    <2>1. c = IF r.gid \in d.groups THEN [d EXCEPT !.shards[r.shard] = r.gid] ELSE d
      BY <1>4 DEF Outcomes
    <2>2. r.shard \in Shards /\ r.gid \in Gids
      BY <1>4 DEF Request
    <2> QED
      BY <1>0, <2>1, <2>2 DEF Config
  <1> QED
    BY <1>2, <1>3, <1>4 DEF Request

\* A reconfiguration appends a configuration and changes nothing else.
LEMMA ReconfigureType ==
    ASSUME TypeOK, NEW r \in Request, Reconfigure(r)
    PROVE  /\ configs' \in [Nums -> Config] /\ num' \in Nums /\ num' = num + 1
           /\ UNCHANGED <<hnum, leader, mleader, moves>>
  <1>1. PICK c \in Outcomes(r) : configs' = [configs EXCEPT ![num + 1] = c]
    BY DEF Reconfigure
  <1>2. c \in Config
    BY OutcomesType
  <1> QED
    BY <1>1, <1>2 DEF Reconfigure, TypeOK

\* The next master is a master.
LEMMA AfterMasterType == ASSUME NEW j \in Masters PROVE AfterMaster(j) \in Masters
  BY ClerkAssumption DEF AfterMaster, Masters

-----------------------------------------------------------------------------
\* Steps of the service: the clerk's variables do not change, and the latest
\* configuration does not become older.
LEMMA ServiceStep == CInv /\ ServiceNext => CInv'
  <1> SUFFICES ASSUME CInv, ServiceNext PROVE CInv'
    OBVIOUS
  <1>0. TypeOK /\ num \in Nat
    BY ClerkAssumption DEF CInv, TypeOK, Nums
  <1>1. /\ configs' \in [Nums -> Config] /\ num' \in Nums /\ num <= num'
        /\ hnum' \in [Shards -> Nums]
        /\ leader' \in [Gids -> Servers] /\ mleader' \in Masters
        /\ moves' \in 0..MaxMoves
        /\ UNCHANGED <<pc, kvLocals, config, masterLocals, executed>>
    <2>1. CASE Others
      <3>1. PICK r \in Request : Reconfigure(r)
        BY <2>1 DEF Others, Sensible
      <3> QED
        BY <1>0, <2>1, <3>1, ReconfigureType DEF Others, TypeOK
    <2>2. CASE Elect
      BY <1>0, <2>2, ClerkAssumption DEF Elect, TypeOK
    <2>3. ASSUME NEW s \in Shards, Handoff(s)
          PROVE  /\ configs' = configs /\ num' = num
                 /\ hnum' \in [Shards -> Nums]
                 /\ leader' = leader /\ mleader' = mleader /\ moves' = moves
                 /\ UNCHANGED <<pc, kvLocals, config, masterLocals, executed>>
      <3>1. hnum[s] + 1 \in Nums
        BY <1>0, <2>3, ClerkAssumption DEF Handoff, TypeOK, Nums
      <3> QED
        BY <1>0, <2>3, <3>1 DEF Handoff, TypeOK
    <2> QED
      BY <1>0, <2>1, <2>2, <2>3 DEF ServiceNext, TypeOK
  <1>2. TypeOK'
    BY <1>0, <1>1 DEF TypeOK, kvLocals, masterLocals
  <1>3. AnswerInv' /\ RequestInv'
    BY <1>1 DEF CInv, AnswerInv, RequestInv, AtMasters, Answered, kvLocals, masterLocals
  <1>4. ConfigInv'
    <2>1. num' \in Nat /\ config \in Nat /\ began \in Nat
      BY <1>0, <1>1, ClerkAssumption DEF TypeOK, Nums
    <2>2. pc = "mwait" => mreply.Config \in Nat
      BY ClerkAssumption DEF CInv, RequestInv, Nums
    <2> QED
      BY <1>0, <1>1, <2>1, <2>2 DEF CInv, ConfigInv, Answered, kvLocals, masterLocals
  <1> QED
    BY <1>2, <1>3, <1>4 DEF CInv

\* Query is called.
LEMMA RefreshStep ==
    ASSUME CInv, Refresh, UNCHANGED <<service, kind, key, config, executed>>
    PROVE  CInv'
  <1>0. 0 \in Servers /\ config <= num /\ num \in Nat /\ Nil # Query
    BY ClerkAssumption DEF CInv, ConfigInv, TypeOK, Nums, Servers
  <1>1. TypeOK'
    BY <1>0 DEF CInv, Refresh, TryMasters, TypeOK, service
  <1> QED
    BY <1>0, <1>1 DEF CInv, Refresh, TryMasters, AnswerInv, ConfigInv, RequestInv,
       AtMasters, service

\* Going on to the next server, or to the masters after the last one.
LEMMA NextServerStep ==
    ASSUME CInv, NextServer, pc \in {"call", "wait"},
           UNCHANGED <<service, kind, key, config, executed>>
    PROVE  CInv'
  <1>1. CASE Refresh
    BY <1>1, RefreshStep
  <1>2. CASE MoreServers /\ pc' = "call" /\ si' = si + 1 /\ reply' = Nil
             /\ UNCHANGED masterLocals
    <2>1. si + 1 \in Servers
      BY <1>2, ClerkAssumption DEF MoreServers, CInv, TypeOK, Servers
    <2>2. TypeOK'
      BY <1>2, <2>1 DEF CInv, TypeOK, masterLocals, service
    <2> QED
      BY <1>2, <2>2 DEF CInv, AnswerInv, ConfigInv, RequestInv, AtMasters, masterLocals,
         service
  <1> QED
    BY <1>1, <1>2 DEF NextServer

\* Steps of Get and PutAppend.
LEMMA KvStep ==
    CInv /\ (Route \/ RouteUnknown \/ Serve \/ Fail \/ Return \/ Retry) => CInv'
  <1> SUFFICES ASSUME CInv, Route \/ RouteUnknown \/ Serve \/ Fail \/ Return \/ Retry
               PROVE  CInv'
    OBVIOUS
  <1>0. TypeOK
    BY DEF CInv
  <1>1. CASE Route
    <2>1. TypeOK'
      BY <1>0, <1>1 DEF Route, TypeOK, service, kvLocals, masterLocals
    <2> QED
      BY <1>1, <2>1 DEF Route, CInv, AnswerInv, ConfigInv, RequestInv, AtMasters, service,
         kvLocals, masterLocals
  <1>2. CASE RouteUnknown
    BY <1>2, RefreshStep DEF RouteUnknown
  <1>3. CASE Serve
    <2>1. reply' \in Errs
      BY <1>3 DEF Serve, Handled, Errs
    <2>2. TypeOK'
      BY <1>0, <1>3, <2>1 DEF Serve, TypeOK, service, masterLocals
    <2> QED
      BY <1>3, <2>2 DEF Serve, CInv, AnswerInv, ConfigInv, RequestInv, AtMasters, service,
         masterLocals
  <1>4. CASE Fail
    BY <1>4, NextServerStep DEF Fail
  <1>5. CASE Return
    <2>1. 0 \in Servers
      BY ClerkAssumption DEF Servers
    <2>2. TypeOK'
      BY <1>0, <1>5, <2>1 DEF Return, TypeOK, service, masterLocals
    <2> QED
      BY <1>5, <2>2 DEF Return, CInv, AnswerInv, ConfigInv, RequestInv, AtMasters, service,
         masterLocals
  <1>6. CASE Retry
    BY <1>6, RefreshStep, NextServerStep DEF Retry
  <1> QED
    BY <1>1, <1>2, <1>3, <1>4, <1>5, <1>6

\* Steps of Query, Join, Leave and Move.
LEMMA MasterStep ==
    CInv /\ (MasterServe \/ MasterFail \/ MasterRefuse \/ QueryReturn \/ AdminReturn)
        => CInv'
  <1> SUFFICES ASSUME CInv, MasterServe \/ MasterFail \/ MasterRefuse \/ QueryReturn
                            \/ AdminReturn
               PROVE  CInv'
    OBVIOUS
  <1>0. /\ TypeOK /\ num \in Nat /\ config \in Nat /\ began \in Nat
        /\ 0 \in Nums /\ 0 \in Masters /\ Nil # Query
    BY ClerkAssumption DEF CInv, TypeOK, Nums, Masters
  <1>1. CASE MasterServe
    <2>1. request \in Request \cup {Query}
      BY <1>1 DEF MasterServe, CInv, RequestInv, AtMasters
    <2>2. /\ mreply' \in [WrongLeader : BOOLEAN, Config : Nums]
          /\ Answered' /\ request = Query => mreply'.Config = num'
          /\ Answered' /\ request # Query => executed'
          /\ executed' \in BOOLEAN
          /\ num' \in Nums /\ num <= num' /\ configs' \in [Nums -> Config]
          /\ UNCHANGED <<hnum, leader, mleader, moves>>
      <3>1. CASE mi # mleader /\ mreply' = Refused /\ UNCHANGED <<service, executed>>
        BY <1>0, <3>1 DEF Refused, Answered, TypeOK, service
      <3>2. CASE /\ mi = mleader /\ request = Query
                 /\ mreply' = [WrongLeader |-> FALSE, Config |-> num]
                 /\ UNCHANGED <<service, executed>>
        BY <1>0, <3>2 DEF Answered, TypeOK, service
      <3>3. CASE /\ mi = mleader /\ request # Query
                 /\ Reconfigure(request) /\ executed' = TRUE
                 /\ mreply' = [WrongLeader |-> FALSE, Config |-> 0]
        BY <1>0, <2>1, <3>3, ReconfigureType
      <3> QED
        BY <1>1, <3>1, <3>2, <3>3 DEF MasterServe
    <2>3. TypeOK'
      BY <1>0, <1>1, <2>2 DEF MasterServe, TypeOK, kvLocals
    <2>4. num' \in Nat
      BY <2>2, ClerkAssumption DEF Nums
    <2>5. ConfigInv'
      <3>1. config <= num' /\ (request = Query => config <= began /\ began <= num')
        BY <1>0, <2>2, <2>4 DEF CInv, ConfigInv
      <3> QED
        BY <1>0, <1>1, <2>2, <2>4, <3>1 DEF MasterServe, ConfigInv
    <2>6. AnswerInv' /\ RequestInv'
      BY <1>1, <2>1, <2>2 DEF MasterServe, AnswerInv, RequestInv, AtMasters
    <2> QED
      BY <2>3, <2>5, <2>6 DEF CInv
  <1>2. CASE AtMasters /\ NextMaster
    <2>1. TypeOK'
      BY <1>0, <1>2, AfterMasterType DEF NextMaster, TypeOK, service, kvLocals
    <2> QED
      BY <1>2, <2>1 DEF NextMaster, CInv, AnswerInv, ConfigInv, RequestInv, AtMasters,
         service, kvLocals
  <1>3. CASE QueryReturn
    <2>1. mreply.Config \in Nums /\ mreply.Config <= num
      BY <1>3 DEF QueryReturn, CInv, ConfigInv, RequestInv
    <2>2. TypeOK'
      BY <1>0, <1>3, <2>1 DEF QueryReturn, MastersDone, TypeOK, service, kvLocals
    <2> QED
      BY <1>0, <1>3, <2>1, <2>2 DEF QueryReturn, MastersDone, CInv, AnswerInv, ConfigInv,
         RequestInv, AtMasters, service, kvLocals
  <1>4. CASE AdminReturn
    <2>1. TypeOK'
      BY <1>0, <1>4 DEF AdminReturn, MastersDone, TypeOK, service, kvLocals
    <2> QED
      BY <1>0, <1>4, <2>1 DEF AdminReturn, MastersDone, CInv, AnswerInv, ConfigInv,
         RequestInv, AtMasters, service, kvLocals
  <1> QED
    BY <1>1, <1>2, <1>3, <1>4 DEF MasterFail, MasterRefuse, AtMasters

\* An operation is called.
LEMMA CallStep ==
    ASSUME CInv,
           \/ \E kd \in Kinds, k \in Keys : Begin(kd, k)
           \/ \E r \in Sensible : Admin(r)
    PROVE  CInv'
  <1>0. TypeOK
    BY DEF CInv
  <1>1. ASSUME NEW kd \in Kinds, NEW k \in Keys, Begin(kd, k) PROVE CInv'
    <2>1. TypeOK'
      BY <1>0, <1>1 DEF Begin, TypeOK, service, masterLocals
    <2> QED
      BY <1>1, <2>1 DEF Begin, CInv, AnswerInv, ConfigInv, RequestInv, AtMasters, service,
         masterLocals
  <1>2. ASSUME NEW r \in Sensible, Admin(r) PROVE CInv'
    <2>1. r \in Request /\ r # Query
      BY DEF Sensible, Request, Query
    <2>2. TypeOK'
      BY <1>0, <1>2, <2>1 DEF Admin, TryMasters, TypeOK, service, kvLocals
    <2> QED
      BY <1>2, <2>1, <2>2 DEF Admin, TryMasters, CInv, AnswerInv, ConfigInv, RequestInv,
         AtMasters, service, kvLocals
  <1> QED
    BY <1>1, <1>2

\* Every step preserves the invariant.
LEMMA NextCInv == CInv /\ [Next]_vars => CInv'
  <1>1. CInv /\ UNCHANGED vars => CInv'
    BY DEF CInv, TypeOK, AnswerInv, ConfigInv, RequestInv, AtMasters, Answered, vars,
       service, kvLocals, masterLocals
  <1> QED
    BY <1>1, CallStep, KvStep, MasterStep, ServiceStep DEF Next, ClerkNext

\* The invariant holds in every reachable state.
LEMMA SpecCInv == Spec => []CInv
  BY InitCInv, NextCInv, PTL DEF Spec

-----------------------------------------------------------------------------
\* Types are kept by the clerks and the service.
THEOREM ClerkTypeCorrect == Spec => []TypeOK
  <1>1. CInv => TypeOK
    BY DEF CInv
  <1> QED
    BY <1>1, SpecCInv, PTL

\* Get, PutAppend, Join, Leave and Move return only after they have been
\* executed, whatever servers and masters they have tried before
\* (shardkv/client.go:68-130, shardmaster/client.go:31-101).
THEOREM ReturnsExecutedCorrect == Spec => ReturnsExecuted
  <1>1. CInv /\ [Next]_vars => [pc # "idle" /\ pc' = "idle" => executed]_vars
    <2> SUFFICES ASSUME CInv, Next, pc # "idle", pc' = "idle" PROVE executed
      BY DEF vars
    <2>1. Return \/ AdminReturn
      BY DEF Next, ClerkNext, ServiceNext, Begin, Admin, Route, RouteUnknown, Refresh,
         TryMasters, Serve, Fail, NextServer, Retry, MasterServe, MasterFail, NextMaster,
         MasterRefuse, QueryReturn, Others, Elect, Handoff
    <2>2. CASE Return
      BY <2>2 DEF Return, Accepted, CInv, AnswerInv
    <2>3. CASE AdminReturn
      BY <2>3 DEF AdminReturn, CInv, AnswerInv
    <2> QED
      BY <2>1, <2>2, <2>3
  <1> QED
    BY <1>1, SpecCInv, PTL DEF Spec, ReturnsExecuted

\* Query(-1) never hands the clerk a configuration older than the latest one
\* when it was called, nor than the one the clerk had
\* (shardkv/client.go:91-92, 127-128, shardmaster/client.go:31-46).
THEOREM QueryFreshCorrect == Spec => QueryFresh
  <1>1. CInv /\ [Next]_vars =>
            [request = Query /\ pc' = "route" => config' >= began /\ config' >= config]_vars
    <2> SUFFICES ASSUME CInv, Next, request = Query, pc' = "route"
                 PROVE  config' >= began /\ config' >= config
      BY DEF vars
    <2>0. /\ AtMasters /\ config \in Nat /\ began \in Nat /\ num \in Nat
          /\ config <= began
      BY ClerkAssumption DEF CInv, RequestInv, ConfigInv, TypeOK, Nums
    <2>1. QueryReturn
      BY <2>0 DEF AtMasters, Next, ClerkNext, ServiceNext, Begin, Admin, Route, RouteUnknown,
         Refresh, TryMasters, Serve, Fail, NextServer, Return, Retry, MasterServe,
         MasterFail, NextMaster, MasterRefuse, AdminReturn, Others, Elect, Handoff
    <2>2. mreply.Config \in Nat /\ began <= mreply.Config /\ config' = mreply.Config
      BY <2>1, ClerkAssumption DEF QueryReturn, CInv, ConfigInv, RequestInv, Nums
    <2> QED
      BY <2>0, <2>2
  <1> QED
    BY <1>1, SpecCInv, PTL DEF Spec, QueryFresh
=============================================================================
