# TLA+ models of the 6.824 labs' infrastructure

The repository is the code of the MIT 6.824 labs before most of the labs are
solved. Raft, the key/value server, the shard master and the sharded server are
stubs. What is real, concurrent and hard to test is everything around them: the
simulated network that loses, delays and reorders RPCs (`labrpc`), the test
clusters that crash and restart servers on it (`*/config.go`), the `Persister`
that survives a crash, the code that observes agreement, and the linearizability
checker (`porcupine`). Every test result of the labs rests on these parts. This
project models them, checks them with TLC and proves their main properties with
TLAPS.

Paths below are relative to the repository's `src/` directory.

## Inventory

| Component | State | Operations | What is hard |
|---|---|---|---|
| RPC network, `labrpc/labrpc.go` | tables of ends, connections, enabled ends and servers behind `rn.mu`; the `done` channel; goroutines per call | `Call`, the network goroutine, `processReq`, dispatch of handlers, `MakeEnd`, `AddServer`, `DeleteServer`, `Connect`, `Enable`, `Reliable`, `LongDelays`, `LongReordering`, `Cleanup` | a request is carried by four goroutines; tables change between their steps; timeouts race with late replies; goroutines must not leak |
| Persister, `raft/persister.go` | raft state and snapshot | `Copy`, `SaveRaftState`, `SaveStateAndSnapshot`, reads | killed instances go on writing |
| kvraft cluster, `kvraft/config.go` (and `shardmaster/config.go`, the same code) | instances, Persisters, names of ends, clerks, behind `cfg.mu` | `ShutdownServer`, `StartServer`, `connect`, `disconnect`, `partition`, `make_partition`, `ConnectAll`, clients | crash and restart while calls are in progress; the order of `DeleteServer` and `Copy`; the lock is released in the middle |
| raft cluster, `raft/config.go` | as above, and `connected` | `crash1`, `start1`, `connect`, `disconnect` | three Persisters per restart; flags and network tables must agree |
| raft agreement checks, `raft/config.go` | `logs`, `maxIndex`, one reader goroutine per instance | the `applyCh` readers, `nCommitted`, `one`, `wait` | readers of killed and new instances interleave; counts over several critical sections |
| raft leader checks, `raft/config.go` | `connected`, the leaders seen so far | `checkOneLeader`, `checkTerms`, `checkNoLeader` | servers are asked one after the other while they hold elections |
| porcupine, `porcupine/checker.go`, `bitset.go` | linked list, stack, bitsets, cache; goroutines, `kill`, a channel | `makeEntries`, `renumber`, `convertEntries`, `checkSingle`, `checkParallel` | pointer surgery that must be undone exactly; a cache indexed by a weak hash; early exit, timeout and kill |
| visualization, `porcupine/visualization.go` | the prefixes of a search | `computeVisualizationData`; a page of HTML | prefixes of a search that was killed must still replay |
| key/value model, `models/kv.go` | the value of a key | `Init`, `Step`, `Partition` | whether checking per key is enough |
| shardkv and shardmaster clerks, `shardkv/client.go`, `shardmaster/client.go` | the cached configuration | `Get`, `PutAppend`; `Query`, `Join`, `Leave`, `Move` | stale configurations; leaders that move; lost replies of executed requests |
| shardkv cluster, `shardkv/config.go` | groups of servers, shard masters, `mck`, ends made on demand | `ShutdownServer`, `StartServer`, `StartMasterServer`, `makeClient`, `make_end`, `join` | restarts under ends that nobody can disable; isolation in one direction only |
| labgob, sequential MapReduce, `labgob/`, `main/mrsequential.go`, `mrapps/` | none that is shared | pure functions and files | |
| MapReduce master and worker, `mr/` | | | do not compile, so they have no behaviour |
| Raft, kvraft, shardmaster, shardkv servers | | stubs | external here |

The clusters call the network (`MakeEnd`, `Connect`, `Enable`, `AddServer`,
`DeleteServer`); clients and servers `Call` through it; the network runs the
servers' handlers; handlers and instances write to the Persister their
`StartServer`/`start1` gave them; Raft sends `ApplyMsg`s to the readers of the
raft cluster; the kvraft tests give their histories to porcupine.

What makes each component correct, and where it could go wrong, is listed line by
line under `hazards` in `PROJECT.json`.

## Modules

    Labrpc ----------- implements RpcContract        LabrpcProofs
      Cluster          ends, Persisters, services
        KvConfig       kvraft/config.go              KvConfigProofs
          ShardKvConfig  shardkv/config.go           KvConfigProofs
        RaftConfig     raft/config.go, the cluster   RaftConfigProofs
    RaftAgreement      raft/config.go, agreement     RaftAgreementProofs
    RaftLeaders        raft/config.go, leaders       RaftLeadersProofs
    ShardClerk         the shard clients             ShardClerkProofs
    KvModel            models/kv.go, and what linearizable means
      Bitset           porcupine's bitsets
      CheckSingle      porcupine's search and its display   CheckSingleProofs
      CheckParallel    porcupine's goroutines        CheckParallelProofs
    KvHistories        histories for the two         MC*: instances for TLC

**Labrpc.** `pc[c]` is where call `c` is on its way through `ClientEnd.Call`, the
network goroutine and `processReq`; `hpc[c]` is where its handler goroutine is.
Each action is one critical section or one channel operation. What `processReq`
reads in `readEndnameInfo` is kept in `target`, `server` and `rel`, its locals, and
compared with the tables again by `IsServerDead`. Delays are not measured: any
goroutine may pause between two steps, which covers `longDelays` and
`longReordering`. The operations on the tables (`TesterNext`) happen in any order,
as far as the code allows them.

**RpcContract** is the abstract specification of the comment at
`labrpc/labrpc.go:26-38`: a call is executed at most once; true is returned only
after the handler has run; false says nothing. `ContractSpec` maps the caller's
view of `Labrpc` to it.

**Cluster** is what the clusters share. An instance is named by the Persister it was
given, `<<i, g>>` for the g-th Persister of server i, and so are its server object and
the names of its ends, `<<i, g, j>>`. The services are stubs, so that their use of
the Persister is external and as general as possible: an instance may persist at any
time, also after `Kill()`, as raft state or as a snapshot, and a handler may only
return after its call has been persisted, which is what the labs ask for.

**KvConfig** follows `kvraft/config.go`. `ShutdownServer` and `StartServer` are split
where the network can act in between: disable the ends, `DeleteServer`, `Copy`, `Kill`
(without `cfg.mu`); ends and `Copy`, boot (without `cfg.mu`), `AddServer`. Enabling or disabling several
ends is one step: a call looks at its own end only. As in the tests, connections
between servers change only while all servers are up.

**ShardKvConfig** is `shardkv/config.go` on top of KvConfig, whose steps it shares from
`DeleteServer` on: the code is the same there. Masters and the servers of all groups are
numbered together. What differs is which ends there are and who disables them. An
instance has ends to its group and to the masters, enabled from the start; shutting it
down disables these and leaves those of the others alone. To reach the servers that a
configuration names, those of their own group too, instances and clerks call `make_end`
(`join`; the shardmaster itself is external); the config forgets these ends, and all
that one of them makes to one server are the same end in the model, since none is ever
disabled. So a dead instance can go on sending through them: the code accepts it, and
what must hold is that nobody reaches an instance with a superseded Persister
(`RoutedToLatest`). `ShardKvAssumption` says that groups are as large as the set of
masters, as in every test: `makeClient` and `make_config` size arrays by one and index
them by the other.

**RaftConfig** follows `crash1`, `start1`, `connect` and `disconnect` of
`raft/config.go`. A Persister no instance has been given is private to the test, so
superseding it is an update in place; this keeps the number of Persisters small.
As in the tests, a crashed server is not connected.

**RaftAgreement** models the goroutines that read `applyCh` (one critical section, then
`log.Fatalf` outside of it), `nCommitted` (one critical section per server), `one`, and
`wait`, which counts in a loop and once more after it; `waiting` tells where `wait` is.
With a start term it may return -1 after any round, as Raft's terms are external.
Raft is external and may do anything: any instance, killed or not, applies any command
at any index at any time, and `Start` accepts or refuses as it likes, also in the way
the stub does (`TryStub`: it accepts and gives no index). The history variable `placed`
tells whether a call of `Start` has accepted the command at an index.

**RaftLeaders** models `checkOneLeader`, `checkTerms` and `checkNoLeader`, one question to
one server per step. Elections are external and may be wrong: a server's term never
decreases, and anybody may lead any term, since finding that is what the checks are for.
The history variables `led` and `steady` record who has led which term at some time, and
all the time, since the first question of a round; the properties say what the answers,
given at different times, allow to conclude. An alarm of `checkOneLeader` does not mean
that two servers led at the same moment, only that both led that term within the round;
that is wrong for Raft too.

**KvModel** has `Init`, `Step` and `Partition` of `models/kv.go`, and the reference
definition: a history is linearizable if its operations can be arranged in an order
that the store allows and that respects real time. Values are sequences of pieces, so
that appending is concatenation.

**Bitset** has the bitsets as arrays of words of `W` bits, 64 in the code, with
`popcnt` and `hash` computed bit by bit.

**CheckSingle** is the path of `checkEvents` through one partition: `renumber` and
`convertEntries`, then the search loop, one action per branch, over the linked list with
`lift` and `unlift` as the code does them, assignment by assignment, and a cache in which
entries are looked up by their hash. Events have ids of their own (`events`), entries
those of `renumber` (`history`). `computePartial` is set, as in the verbose mode.
`Visualize` is what follows it: the recorded prefixes without duplicates, sorted by length
in any order that an unstable sort may leave, replayed through the model, with the panic
if one does not replay, and `Largest`. (The comment at `porcupine/checker.go:59`, "call if
match is nil, otherwise return", has the two cases the wrong way round; the model follows
the code.)

**CheckParallel** is `checkOperations`: the operations are partitioned by key,
`makeEntries` sorts each partition by time, where entries with equal times may come in
any order, and there are the main goroutine and one goroutine per partition. What
`checkSingle` answers is the reference definition for one of these orders, or false
after a kill; that this is so is what CheckSingle shows (`AnswerCorrect`), and that
CheckSingle's assumption holds of these entries is `PartitionsWellFormed`. Only the possible
answers are kept in the state.

**ShardClerk** is one goroutine that calls the shardkv clerk (`Get`, `PutAppend`) or the
shardmaster clerk (`Join`, `Leave`, `Move`); the shardkv clerk calls `Query` when its
cached configuration does not get it to a group that answers. `pc` is where the
goroutine is in the loops, `si` and `mi` are the loop variables. `Put` and `Append` are
`PutAppend`. Configurations never change once they are made, so that `ck.config` is
represented by its number. An attempt is two steps, the handler (`Serve`, `MasterServe`)
and the reply; `Fail` and `MasterFail` lose either. Groups, masters, elections and other
clerks are external. With the stubs themselves `Get` never returns, since their replies
are empty, and every master answers.

## Runs

| Run | Checks | Bounds |
|---|---|---|
| `labrpc` | `TypeOK`, `EchHasReceiver`, `OkMeansExecutedOnce`, `ContractSpec`, `CallReturns`, `DeadServerUnblocks`, `HandlerGoroutineExits` | 1 call, 1 end, 1 name, 2 server objects, so that a server can be replaced under a call; calls share nothing but the tables, which change in any way meanwhile, and the safety properties are proved for any number of calls |
| `labrpc_reply_after_delete` | violated: `NoReplyFromDeletedServer` | 1 call, 1 object |
| `kv_topology` | `DeadInstancesIsolated`, `LinksSymmetric`, `LeaderInMinority` | 3 servers, each restarted at most once, 1 clerk, no calls |
| `shardkv_cluster` | `Durability`, `GroupConnected`, `RoutedToLatest` | 1 master and 2 groups of 1 server, one of which (`Restarted`) is restarted once and, in its first instance (`EndMakers`), calls `make_end`; `mck` and 1 clerk, 1 call |
| `raft_restart` | `EnabledIffConnected`, `RaftDurability`, `PersisterNotShared` | 2 servers, each restarted at most once, 1 call |
| `raft_snapshot_lost` | violated: `PersistentStateSaved` | 1 server |
| `raft_agreement` | `LogsAgree`, `LogsGapFree`, `CountSound`, `NotResubmitted`, `RecountEnough`, `OneMeansAgreement`, `WaitMeansCommitted` | 2 servers, 3 instances, 2 indexes, 2 commands |
| `raft_leaders` | `AlarmIsReal`, `NewestLeader`, `TermReached`, `NoLeaderMissed` | 3 servers, terms 0 to 2, 2 rounds |
| `check_single` | `AnswerCorrect`, `ListIntact`, `CallsLegal`, `LargestIsLongest`, `Terminates` | all histories of at most 3 operations out of 6 on one key; words of 2 bits; ids that run backwards with gaps |
| `check_parallel` | `PartitionsSuffice`, `VerdictCorrect`, `LongestNotRaced`, `Answers`, `GoroutinesEnd` | all histories of 1 to 3 operations on 2 keys with times 1 to 4, a time occurring at most twice |
| `shard_clerk` | `ReturnsExecuted`, `QueryFresh`, `OperationReturns` | 2 keys in 2 shards, 2 groups of 2 servers, 2 masters, 2 reconfigurations, 1 election |
| `check_parallel_empty` | violated: `OkIffEachPartition` | at most 1 operation |

`MaxGen` bounds the number of Persisters, and with it restarts, in the guards of
`ShutdownServer`, `StartServer` and `Crash`. The properties relate an instance to its
predecessors, and every restart makes two Persisters, one that is never given to an
instance and one that is; proofs cover any number. `Restarted` bounds, in the guards, the
servers that are shut down at all, `EndMakers` the instances that call `make_end`. `MaxTerm` and `MaxIters` bound terms and the ten rounds
of `checkOneLeader`: three terms are enough for a leader that is followed by another while
a third server is asked, and a round starts with a new map. Words of two bits make
three operations need two words, and give different sets the same hash, as 64 bits would
give many more operations. `MaxNum` and `MaxMoves` bound
reconfigurations and elections in ShardClerk: two configurations with groups are needed
for a shard to move, and one election to have a leader that is not the first server
tried. That they end is also what `OperationReturns` needs: a clerk may always be late
if they do not. `CHECK_DEADLOCK FALSE` is
used where the program may really stop: after `log.Fatalf` or a failed test
(`raft_agreement`, `raft_leaders`), and in
the run that shows the checker waiting for ever (`check_parallel_empty`).

Fairness. `NetworkFairness` assumes that Go runs every goroutine that can take a step:
weak fairness for sending a request, for each `processReq`, for dispatching and for the
goroutine that drains `ech`. The code of handlers gets none, because a handler may block
for ever; `CallReturns` assumes, per call, that the handler returns, and
`DeadServerUnblocks` does not. Of the two cases in which a waiting `processReq` can
proceed (a reply, the timer) it takes either. The checker's goroutines are weakly fair
as well; a timeout needs none. In ShardClerk the goroutine is weakly fair, and a request
to a leader, and its reply, get through if they are sent again and again (strong
fairness): labrpc drops each with a fixed probability. A group catches up with the
masters' configurations.

### Findings

- `labrpc_reply_after_delete`: "do not reply if DeleteServer() has been called"
  (`labrpc/labrpc.go:262`) is not quite what the code does: the server is checked, the
  lock released, and the reply sent, or scheduled for up to 2.2 seconds later. The
  purpose given there is met nevertheless: `Durability` holds, because the call was
  persisted before its handler returned and its server was alive at the check, so that
  the later `Copy` includes it.
- `raft_snapshot_lost`: `crash1` "saves" the persistent state (`raft/config.go:98`) but
  its last lines make a Persister with the raft state only. No test of `raft/` takes
  snapshots, so no test shows it.
- `check_parallel_empty`: a history without operations has no partition; `checkParallel`
  then waits for a result nobody sends, unless a timeout was given.

One more disagreement has no run of its own. "if retry==false, calls Start() only once"
(`raft/config.go:428`) is not so for the `Start` of this repository, which says that it
leads and gives index -1 (`raft/raft.go:186-194`): `one` takes that for an acceptance,
leaves the loop over the servers, never comes to the test of `retry`, and calls `Start`
again in the next round (`TryStub`, `NoLeader`, `Try` in the model). With a `Start` that
gives an index whenever it says it leads, the comment holds, and that is what
`NotResubmitted` says: after an acceptance at an index `one` returns or fails.

## Proofs

Checked by TLAPS for every value of the constants that satisfies the assumptions
`NilAssumption`, `ClusterAssumption` (numbers of servers and Persisters, shapes of the
names), `ShardKvAssumption`, `AgreementAssumption`, `LeadersAssumption`,
`ClerkAssumption`, `BitsetAssumption` (a word has a bit), `SingleAssumption` (in a history
every operation is called once and then returns once, nothing else) and
`ParallelAssumption` (finitely many keys; histories are lists of operations with natural
numbers as times, a call before its return).

- **LabrpcProofs**: `TypeCorrect`, `ReceiverCorrect`, `OkCorrect` and `Refinement`
  (`Spec => ContractSpec`). The inductive invariant `Inv` says, call by call, which
  values the two control points, the locals and the counters can have together:
  `OkMeansExecutedOnce` alone is not inductive, since whether the handler ran is decided
  by another goroutine than the one that replies.
- **KvConfigProofs**: for kvraft's cluster `KvTypeCorrect`, `DurabilityCorrect`,
  `AcknowledgedCorrect`, `IsolationCorrect`, `SymmetryCorrect`, `MinorityCorrect`. For
  durability the invariant (`StorageInv`)
  follows a call from the handler to the caller: a registered instance is the one with
  the latest Persister; Persisters beyond it are unused; an instance knows what it
  stored; a call that has been executed and is still to be answered by a live server
  is in that server's latest Persister. For the links it says which ends can be enabled
  in each step of a restart. `MinorityCorrect` counts the servers that `make_partition`
  leaves to the leader: the second half of the indexes, or all but one of it and the
  leader.
  For shardkv's cluster `ShardDurable`, `RoutedCorrect`, `GroupConnectedCorrect` and
  `ShardTypeCorrect`, from the same invariant (`KvInv`), most of whose lemmas are about
  steps that the two clusters share, together with `GroupConnected` itself.
  `RoutedToLatest` follows from it: a registered instance is the one with the latest
  Persister, however the request came in.
- **RaftConfigProofs**: `RaftTypeCorrect`, `ConnectedCorrect`, `RaftDurabilityCorrect`,
  `NotSharedCorrect`. `StorageInv` is the same argument as in KvConfigProofs
  over the three Persisters that `crash1` and `start1` go through: the one written to is
  either that of the registered instance or one no instance was given, and a call that has
  been answered is in the raft state of the latest one, unless an instance put it into a
  snapshot (`DurableInv`). `EnabledIffConnected` is not inductive by itself: `InstanceInv`
  adds that a connected server runs an instance whose ends have the current names.
- **RaftAgreementProofs**: `LogsAgreeCorrect`, `LogsGapFreeCorrect`, `CountCorrect`,
  `OneCorrect`, `NotResubmittedCorrect`, `WaitCorrect`, `RecountCorrect`, and types. `LogsAgree` and `LogsGapFree` are inductive
  with the types; `CountSound` needs the set of servers that were counted (`Counted`),
  which no variable of the program holds. `RecountEnough` says that the second count of
  `wait()` cannot fall short of the first: logs only grow, so that of enough servers the
  ones asked again have been counted and the others still have the entry (`Recount`).
- **RaftLeadersProofs**: `AlarmCorrect`, `NewestCorrect`, `TermReachedCorrect`,
  `NoLeaderCorrect`, and types. The invariant says of the map that whoever is in it has
  led that term in this round (`RecordedInv`), and of a steady leader that it is in the
  map once it has been asked (`SteadyInv`); that there is a last term with a leader is
  the well-foundedness of the naturals, applied to the distances from `MaxTerm`.
- **ShardClerkProofs**: `ReturnsExecutedCorrect`, `QueryFreshCorrect`, and types. The
  invariant says what a reply on its way implies: a positive one, that the operation was
  executed; one with a configuration, that it is not older than `began`.

- **CheckParallelProofs**: `PartitionsWellFormed`, `SufficeCorrect`, `LongestCorrect`,
  `ChannelHasRoom`, `VerdictSound`, `NeverStuck`, `ProgressMade`, for histories of any length on any number of keys.
  The goroutines' invariant counts: what has been sent is in the channel or has been received
  (`ChannelInv`), so that no goroutine blocks in `results <- ok` however early the main
  goroutine left its loop, and `longest` is read only when all have written. `kill` is set
  only on leaving the loop (`AnswerInv`), so that no answer of a killed search is counted
  there, and a false answer is in `ok` or still in the channel (`FalseInv`). That
  gives the verdict in terms of the partitions.

  `SufficeCorrect` is the step from the partitions to the history, the locality of
  linearizability with equal times. Whatever order the sort gives to equal times, the
  order of a partition's entries lies between the two readings of equal times
  (`EntriesOrder`), so that only these matter. If every partition has a linearization, each
  operation is given a point in time: the least at which it and all operations before it
  in its partition have been called (`PointsExist`). It is not after the operation's
  return, because otherwise one placed before it would have been called after that return.
  All operations sorted by their points, then by their places in their partitions
  (`Lex`), are a linearization of the history (`Merge`): points respect the times, and
  each key sees its own operations in the order of its partition (`LegalForKey`).
  Conversely a linearization of the history, restricted to a key, is one of its partition
  (`OrderOfWhole`, `PartOfOrder`). `VerdictSound` combines the two parts and has no
  condition. `PartitionsWellFormed` is what CheckSingle assumes of its input: whatever
  the sort does, a partition has operations of one key, each with a call and then a
  return, and there is at least one order.

  `NeverStuck` and `ProgressMade` are the part of termination that needs no fairness. While
  the main goroutine is in its loop, a result is still to be received (`LoopInv`), and what
  is not yet in the channel some goroutine can still send: as long as it has not
  returned, some goroutine can take a step (a history without operations excepted, which
  waits for the timeout). Every step adds to `Progress`, which is at most three
  per partition and four more.
- **CheckSingleProofs**: `ListIntactCorrect`, `CallsLegalCorrect`, `AnswerProved`,
  `LargestCorrect`, `CacheBounded`, `SearchDescends`, for histories of any length, ids in
  any order, and words of any width.
  The inductive invariant `SingleInv` has these parts. `ListInv`: the list links exactly
  the entries of the operations that are not on the stack, and the search has passed only
  calls. `StackInv`: every lifted entry still has the neighbours it had when it was
  lifted, at its level of the stack; this is what makes `unlift` the inverse of `lift` in
  the order of the stack, and it is why `ListIntact` alone is not inductive. `BitInv`: the
  bitset holds the numbers of the operations on the stack. `ReplayInv`: the states on the
  stack are those the store goes through. `SearchInv` and `CacheInv` are the completeness
  of the search: `Explored(D, st)` says that no sequence that continues a linearization of
  the operations `D` from state `st` completes it; every call the search has passed, on
  every level of the stack, leads to an explored pair, and every pair in the cache is
  explored or still on the stack. A pair on the stack cannot be met again above itself,
  because there the bitset is larger; and at a return the search has passed every operation
  that may come next, so that backtracking makes the level above explored (`ResultInv` at
  the bottom of the stack). `Explored` also says that for every continuation a prefix at
  least as long has been recorded for each of its operations: with `RecordInv` (recorded
  prefixes replay) this gives `LargestCorrect`. Where an argument is by induction over a
  length, it takes the least number at which a fact fails, from the well-foundedness of the
  naturals.

  `SearchDescends` is the part of termination that needs no fairness: every iteration
  answers, or adds to the cache, or leaves the cache and shortens the stack, or leaves both
  and moves forward in the list. `CacheBounded` says that the cache stays inside a finite
  set, the subsets of the operations paired with the states the store can be in after an
  arrangement of some of them.

Types of KvConfig, ShardKvConfig, RaftConfig, RaftAgreement, RaftLeaders and ShardClerk,
`AcknowledgedKnown` (a registered instance knows every acknowledged call),
`ChannelHasRoom`, `PartitionsWellFormed`, `NeverStuck`, `ProgressMade`, `CacheBounded` and
`SearchDescends` are proved and not checked by a run.

Only model-checked: the liveness properties, which are out of the prover's reach. For
`Answers`, `GoroutinesEnd` and `Terminates` what is not proved is the last step, that
fairness turns a bounded progress or a descent into an end. Where a
proof is about the loop of `Partition`, the sort of `makeEntries` or the states of
`StateAfter`, it first shows that a function as the recursion defines it exists
(`LoopExists`, `SortExists`, `ChainExists`).

## Not modelled

- Raft and the servers of kvraft, shardmaster and shardkv are stubs and have no behaviour;
  the models of their callers let them do anything the callers' code must cope with.
- `mr/` does not compile.
- `shardmaster/config.go` is `kvraft/config.go` with other names; KvConfig is translated
  from the latter.
- labgob prints warnings and leaves the rest to gob; `main/mrsequential.go` is one
  sequential pass over files; `mrapps/` are plugins for tests through processes.
- Of what is modelled: formatting, HTML, statistics and RPC counters, `checklogs` and
  `checkTimeout`, reflection; `leave` of the shardkv cluster, which takes no server's name
  from anybody who has learned it; the data race on `longDelays`, which selects the length
  of a delay, and that is open here; the test of `applyErr` in `nCommitted`, which finds
  nothing, because `log.Fatalf` ends the program before `applyErr` is set.
- An operation whose call and return carry the same time: the unstable sort could put the
  return first, and checkSingle's list would have a call without a match. The tests take
  times in nanoseconds around an RPC.

## Plan

1. Done: network, contract, the clusters of kvraft, raft and shardkv, agreement and leader
   checks, the shard clerks, porcupine with its bitsets, entries and prefixes; proofs of all
   their safety properties.
2. Pure functions as operators against reference definitions: the grouping loop of
   `mrsequential`, `checkDefault` of labgob.
