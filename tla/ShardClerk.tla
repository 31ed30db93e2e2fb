----------------------------- MODULE ShardClerk -----------------------------
(***************************************************************************)
(* The clerks of the sharded key/value service: shardkv's                  *)
(* (src/shardkv/client.go), which finds the group of a key by a cached     *)
(* configuration, tries its servers and asks the shard masters for a new   *)
(* configuration when that fails, and shardmaster's                        *)
(* (src/shardmaster/client.go), which tries the masters in turn.  One      *)
(* goroutine calls them; others reconfigure the service at any time.       *)
(*                                                                         *)
(* Each attempt is a Call of labrpc, of which RpcContract is all that is   *)
(* used: a call that fails may or may not have been executed.  A handler   *)
(* that outlives its call counts as executed at once: what is told apart   *)
(* below is only whether an operation has been executed when it returns.   *)
(*                                                                         *)
(* The servers are stubs in this repository.  What they answer is external *)
(* and what the labs ask for: a shard is served by one group at a time,    *)
(* which follows the masters' configurations in order but may lag behind;  *)
(* the masters agree on the sequence of configurations; only the leader of *)
(* a group or of the masters executes requests.                            *)
(*                                                                         *)
(* Locals that are out of scope are Nil or 0.                              *)
(***************************************************************************)
EXTENDS Naturals

CONSTANTS
    Keys,      \* keys, by their first byte; Nil is the empty key
    NShards,   \* shardmaster.NShards
    Gids,      \* group ids
    N,         \* servers of a group
    NMasters,  \* shard masters
    MaxNum,    \* bounds the number of configurations
    MaxMoves,  \* bounds the number of leader changes
    Nil

Shards == 0..(NShards - 1)
Nums == 0..MaxNum
Servers == 0..(N - 1)
Masters == 0..(NMasters - 1)

\* A configuration; its Num is its place in configs.
Config == [shards : [Shards -> Gids \cup {0}], groups : SUBSET Gids]

\* What the masters are asked; Query(-1) has no arguments that matter.
Request == [op : {"Join", "Leave"}, gid : Gids]
           \cup [op : {"Move"}, shard : Shards, gid : Gids]
Query == [op |-> "Query"]

ASSUME ClerkAssumption ==
    /\ NShards \in Nat \ {0} /\ N \in Nat \ {0} /\ NMasters \in Nat \ {0}
    /\ MaxNum \in Nat /\ MaxMoves \in Nat
    /\ Nil \notin Nat /\ Nil # Query /\ Keys \subseteq Nat \cup {Nil}
    /\ 0 \notin Gids

VARIABLES
    configs, num,  \* external: the masters' configurations, the latest number
    hnum,          \* external: the configuration each shard's group has reached
    leader,        \* external: the leader of each group
    mleader,       \* external: the leader of the masters
    moves,         \* leader changes so far
    pc,            \* control of the goroutine
    kind, key, si, reply,  \* arguments and locals of Get and PutAppend
    config,        \* ck.config, by its number
    request,       \* Query, or the arguments of Join, Leave and Move
    mi, mreply,    \* locals of the shardmaster clerk's operations
    executed,      \* has the operation been executed since it was called?
    began          \* the latest configuration when Query was called

service == <<configs, num, hnum, leader, mleader, moves>>
kvLocals == <<kind, key, si, reply>>
masterLocals == <<request, mi, mreply, began>>
vars == <<service, pc, kvLocals, config, masterLocals, executed>>

Kinds == {"Get", "PutAppend"}
Errs == {"OK", "ErrNoKey", "ErrWrongGroup", "ErrWrongLeader"}

\* Every variable has its type.
TypeOK ==
    /\ configs \in [Nums -> Config] /\ num \in Nums
    /\ hnum \in [Shards -> Nums]
    /\ leader \in [Gids -> Servers] /\ mleader \in Masters
    /\ moves \in 0..MaxMoves
    /\ pc \in {"idle", "route", "call", "wait", "mcall", "mwait"}
    /\ kind \in Kinds \cup {Nil} /\ key \in Keys \cup {Nil}
    /\ si \in Servers /\ reply \in Errs \cup {Nil}
    /\ config \in Nums
    /\ request \in Request \cup {Query, Nil}
    /\ mi \in Masters
    /\ mreply \in [WrongLeader : BOOLEAN, Config : Nums] \cup {Nil}
    /\ executed \in BOOLEAN
    /\ began \in Nums

\* "Config #0 is the initial configuration, with no groups".
Config0 == [shards |-> [s \in Shards |-> 0], groups |-> {}]

\* Bound: the first leaders are the first servers.
Init ==
    /\ configs = [n \in Nums |-> Config0] /\ num = 0
    /\ hnum = [s \in Shards |-> 0]
    /\ leader = [g \in Gids |-> 0] /\ mleader = 0
    /\ moves = 0
    /\ pc = "idle"
    /\ kind = Nil /\ key = Nil /\ si = 0 /\ reply = Nil
    /\ config = 0
    /\ request = Nil /\ mi = 0 /\ mreply = Nil /\ began = 0
    /\ executed = FALSE

-----------------------------------------------------------------------------
(***************************************************************************)
(* The service                                                             *)
(***************************************************************************)

\* The configurations a request can lead to; how shards are balanced is open.
Balanced(gs) ==
    [shards : [Shards -> IF gs = {} THEN {0} ELSE gs], groups : {gs}]
Outcomes(r) ==
    LET c == configs[num] IN
    CASE r.op = "Join" -> Balanced(c.groups \cup {r.gid})
      [] r.op = "Leave" -> Balanced(c.groups \ {r.gid})
      [] r.op = "Move" -> {IF r.gid \in c.groups THEN [c EXCEPT !.shards[r.shard] = r.gid]
                           ELSE c}

\* Bound: there is room for a configuration.
Reconfigure(r) ==
    /\ num + 1 \in Nums /\ num' = num + 1
    /\ \E c \in Outcomes(r) : configs' = [configs EXCEPT ![num + 1] = c]
    /\ UNCHANGED <<hnum, leader, mleader, moves>>

\* Groups that are in leave or get a shard, the others join, as in the tests.
Sensible == {r \in Request : r.gid \in configs[num].groups <=> r.op # "Join"}

\* A request of another clerk.
Others ==
    /\ \E r \in Sensible : Reconfigure(r)
    /\ UNCHANGED <<pc, kvLocals, config, masterLocals, executed>>

\* The group that serves a shard.
Holder(s) == configs[hnum[s]].shards[s]

\* A shard is handed over to the group that has it in the next configuration.
Handoff(s) ==
    /\ hnum[s] < num
    /\ hnum' = [hnum EXCEPT ![s] = @ + 1]
    /\ UNCHANGED <<configs, num, leader, mleader, moves, pc, kvLocals, config,
                   masterLocals, executed>>

Elect ==
    /\ moves < MaxMoves /\ moves' = moves + 1
    /\ \/ \E g \in Gids : \E i \in Servers \ {leader[g]} :
              leader' = [leader EXCEPT ![g] = i] /\ UNCHANGED mleader
       \/ mleader' \in Masters \ {mleader} /\ UNCHANGED leader
    /\ UNCHANGED <<configs, num, hnum, pc, kvLocals, config, masterLocals, executed>>

-----------------------------------------------------------------------------
(***************************************************************************)
(* The shardmaster clerk: Query, called by the shardkv clerk, and Join,    *)
(* Leave and Move, called by the test, have the same loop.                 *)
(***************************************************************************)
TryMasters(r) ==
    /\ pc' = "mcall" /\ request' = r /\ began' = num
    /\ UNCHANGED <<mi, mreply>>

MastersDone == request' = Nil /\ mi' = 0 /\ mreply' = Nil /\ began' = 0

\* "try each known server", and again after a pause.
AfterMaster(j) == (j + 1) % NMasters

NextMaster ==
    /\ pc' = "mcall" /\ mi' = AfterMaster(mi) /\ mreply' = Nil
    /\ UNCHANGED <<service, kvLocals, config, request, began, executed>>

Refused == [WrongLeader |-> TRUE, Config |-> 0]

\* The master handles the request.
MasterServe ==
    /\ pc = "mcall" /\ pc' = "mwait"
    /\ \/ /\ mi # mleader /\ mreply' = Refused
          /\ UNCHANGED <<service, executed>>
       \/ /\ mi = mleader /\ request = Query
          /\ mreply' = [WrongLeader |-> FALSE, Config |-> num]
          /\ UNCHANGED <<service, executed>>
       \/ /\ mi = mleader /\ request # Query
          /\ Reconfigure(request) /\ executed' = TRUE
          /\ mreply' = [WrongLeader |-> FALSE, Config |-> 0]
    /\ UNCHANGED <<kvLocals, config, request, mi, began>>

\* reply.WrongLeader == false
Answered == mreply.WrongLeader = FALSE

\* srv.Call returns false, or the master is not the leader.
MasterFail == pc \in {"mcall", "mwait"} /\ NextMaster
MasterRefuse == pc = "mwait" /\ ~Answered /\ NextMaster

\* Join, Leave or Move is called.  Bound: as in Reconfigure.
Admin(r) ==
    /\ pc = "idle" /\ num + 1 \in Nums
    /\ TryMasters(r)
    /\ UNCHANGED <<service, kvLocals, config, executed>>

AdminReturn ==
    /\ pc = "mwait" /\ request # Query /\ Answered
    /\ pc' = "idle"
    /\ MastersDone
    /\ executed' = FALSE
    /\ UNCHANGED <<service, kvLocals, config>>

\* Mutant: Query only looks at ok.
QueryReturnUnchecked ==
    /\ pc = "mwait" /\ request = Query
    /\ config' = mreply.Config
    /\ pc' = "route"
    /\ MastersDone
    /\ UNCHANGED <<service, kvLocals, executed>>

\* ck.config = ck.sm.Query(-1)
QueryReturn ==
    /\ pc = "mwait" /\ request = Query /\ Answered
    /\ config' = mreply.Config
    /\ pc' = "route"
    /\ MastersDone
    /\ UNCHANGED <<service, kvLocals, executed>>

-----------------------------------------------------------------------------
(***************************************************************************)
(* The shardkv clerk                                                       *)
(***************************************************************************)
key2shard(k) == (IF k = Nil THEN 0 ELSE k) % NShards

Gid == configs[config].shards[key2shard(key)]

\* Get or PutAppend is called.
Begin(kd, k) ==
    /\ pc = "idle" /\ pc' = "route"
    /\ kind' = kd /\ key' = k
    /\ UNCHANGED <<service, si, reply, config, masterLocals, executed>>

\* ck.sm.Query(-1) is called.
Refresh == TryMasters(Query) /\ si' = 0 /\ reply' = Nil

\* The loop begins: the cached configuration knows a group for the key ...
Route ==
    /\ pc = "route" /\ Gid \in configs[config].groups
    /\ pc' = "call"
    /\ UNCHANGED <<service, kvLocals, config, masterLocals, executed>>

\* ... or it does not.
RouteUnknown ==
    /\ pc = "route" /\ Gid \notin configs[config].groups
    /\ Refresh
    /\ UNCHANGED <<service, kind, key, config, executed>>

\* What server si of the group may answer.
Handled ==
    IF si # leader[Gid] THEN {"ErrWrongLeader"}
    ELSE IF Holder(key2shard(key)) # Gid THEN {"ErrWrongGroup"}
    ELSE IF kind = "Get" THEN {"OK", "ErrNoKey"} ELSE {"OK"}

Serve ==
    /\ pc = "call" /\ pc' = "wait"
    /\ reply' \in Handled
    /\ executed' = (executed \/ reply' \in {"OK", "ErrNoKey"})
    /\ UNCHANGED <<service, kind, key, si, config, masterLocals>>

\* Mutant: the last server is not tried.
MoreServersButLast == si + 2 < N

MoreServers == si + 1 < N

NextServer ==
    \/ /\ MoreServers
       /\ pc' = "call" /\ si' = si + 1 /\ reply' = Nil
       /\ UNCHANGED masterLocals
    \/ ~MoreServers /\ Refresh

\* srv.Call returns false.
Fail ==
    /\ pc \in {"call", "wait"}
    /\ NextServer
    /\ UNCHANGED <<service, kind, key, config, executed>>

\* Mutant: every answer but ErrWrongGroup is taken for success.
AcceptedUnlessWrongGroup == reply # "ErrWrongGroup"

Accepted == reply = "OK" \/ (kind = "Get" /\ reply = "ErrNoKey")

Return ==
    /\ pc = "wait" /\ Accepted
    /\ pc' = "idle"
    /\ kind' = Nil /\ key' = Nil /\ si' = 0 /\ reply' = Nil
    /\ executed' = FALSE
    /\ UNCHANGED <<service, config, masterLocals>>

\* ErrWrongGroup ends the inner loop, ErrWrongLeader does not.
Retry ==
    /\ pc = "wait" /\ ~Accepted
    /\ IF reply = "ErrWrongGroup" THEN Refresh ELSE NextServer
    /\ UNCHANGED <<service, kind, key, config, executed>>

-----------------------------------------------------------------------------
ClerkNext ==
    \/ Route \/ RouteUnknown \/ Serve \/ Fail \/ Return \/ Retry
    \/ MasterServe \/ MasterFail \/ MasterRefuse \/ QueryReturn \/ AdminReturn

ServiceNext == Others \/ Elect \/ \E s \in Shards : Handoff(s)

Next ==
    \/ \E kd \in Kinds, k \in Keys : Begin(kd, k)
    \/ \E r \in Sensible : Admin(r)
    \/ ClerkNext \/ ServiceNext

\* The clerk's goroutine runs; groups catch up; labrpc loses requests and
\* replies at random, so that one of many to the same server gets through.
Fairness ==
    /\ WF_vars(ClerkNext)
    /\ \A s \in Shards : WF_vars(Handoff(s))
    /\ SF_vars(Serve /\ si = leader[Gid]) /\ SF_vars(Return)
    /\ SF_vars(MasterServe /\ mi = mleader) /\ SF_vars(QueryReturn)

Spec == Init /\ [][Next]_vars /\ Fairness

-----------------------------------------------------------------------------
(***************************************************************************)
(* Properties                                                              *)
(***************************************************************************)

\* An operation returns only after it has been executed, Get and PutAppend
\* by the group that served the key's shard at that moment, Join, Leave and
\* Move by the leader of the masters, although any answer may come from a
\* server that is not in charge (shardkv/client.go:72-93, 109-129;
\* shardmaster/client.go:31-101).
ReturnsExecuted ==
    [][pc # "idle" /\ pc' = "idle" => executed]_vars

\* "ask master for the latest configuration" (shardkv/client.go:91, 127): the
\* configuration that Query(-1) returns is not older than the latest one when
\* it was called, nor than the one the clerk had, whichever masters answered
\* and while others reconfigure.
QueryFresh ==
    [][request = Query /\ pc' = "route" => config' >= began /\ config' >= config]_vars

\* "keeps trying forever in the face of all other errors"
\* (shardkv/client.go:65) is enough: Get and PutAppend return, unless all
\* groups are gone for good, once reconfigurations and elections have ended.
OperationReturns ==
    <>[](configs[num].groups # {}) => [](kind # Nil => <>(kind = Nil))
=============================================================================
