---------------------------- MODULE RaftAgreement ----------------------------
(***************************************************************************)
(* How src/raft/config.go observes agreement: each Raft instance has a     *)
(* goroutine that reads its applyCh and records the command in cfg.logs,   *)
(* while the test runs one(), which submits a command and polls            *)
(* nCommitted() until enough servers have it, or wait(), which polls an    *)
(* index for which the test has called Start() itself.                     *)
(*                                                                         *)
(* Raft is a stub in this repository.  Here it is external and unreliable: *)
(* an instance may send any ApplyMsg at any time, also after Kill() and    *)
(* together with its successors, and Start() may return anything.          *)
(***************************************************************************)
EXTENDS Naturals, FiniteSets

CONSTANTS
    N,          \* cfg.n
    Instances,  \* Raft instances ever made by start1
    Host(_),    \* the server an instance was started for
    Indexes,    \* command indexes; Raft's first is 1
    Commands,
    Nil

Servers == 0..(N - 1)

ASSUME AgreementAssumption ==
    /\ N \in Nat \ {0}
    /\ \A o \in Instances : Host(o) \in Servers
    /\ Indexes \subseteq Nat \ {0}
    /\ Nil \notin Commands /\ Nil \notin Indexes

VARIABLES
    logs,      \* cfg.logs: Nil where there is no key
    maxIndex,  \* cfg.maxIndex
    err,       \* the instances whose reader has an err_msg
    exited,    \* has log.Fatalf ended the program?
    up,        \* servers with cfg.connected[i] and cfg.rafts[i] != nil
    pc,        \* control point of the test
    cmd, expected, retry,  \* one()'s parameters; expected is wait()'s n
    waiting,   \* where wait() is: "no" wait(), its "loop", or its last count after
               \* the loop has seen "enough" servers or after 30 rounds ("over")
    timed,     \* wait()'s startTerm > -1
    starts, si, index,     \* one()'s locals
    placed,                \* history: has Start() taken cmd at an index?
    i, count, cmd1         \* nCommitted()'s locals

readers == <<logs, maxIndex, err, exited>>
params  == <<cmd, expected, retry, waiting, timed>>
locals  == <<starts, si, index, placed>>
polling == <<i, count, cmd1>>
vars    == <<readers, up, pc, params, locals, polling>>

\* Every variable has its type.
TypeOK ==
    /\ logs \in [Servers -> [Indexes -> Commands \cup {Nil}]]
    /\ maxIndex \in Nat
    /\ err \in SUBSET Instances
    /\ exited \in BOOLEAN
    /\ up \in SUBSET Servers
    /\ pc \in {"idle", "try", "poll", "polled", "waited", "failed"}
    /\ cmd \in Commands \cup {Nil}
    /\ expected \in 0..N
    /\ retry \in BOOLEAN
    /\ waiting \in {"no", "loop", "enough", "over"}
    /\ timed \in BOOLEAN
    /\ starts \in Servers
    /\ si \in 0..N
    /\ index \in Indexes \cup {Nil}
    /\ placed \in BOOLEAN
    /\ i \in 0..N
    /\ count \in 0..N
    /\ cmd1 \in Commands \cup {Nil}

Init ==
    /\ logs = [s \in Servers |-> [n \in Indexes |-> Nil]]
    /\ maxIndex = 0
    /\ err = {}
    /\ exited = FALSE
    /\ up = Servers
    /\ pc = "idle"
    /\ cmd = Nil /\ expected = 0 /\ retry = FALSE /\ waiting = "no" /\ timed = FALSE
    /\ starts = 0 /\ si = 0 /\ index = Nil /\ placed = FALSE
    /\ i = 0 /\ count = 0 /\ cmd1 = Nil

-----------------------------------------------------------------------------
(***************************************************************************)
(* The goroutine that reads an instance's applyCh                          *)
(***************************************************************************)
Has(s, n) == logs[s][n] # Nil

\* Mutants: the command is compared with this server's log only; the first
\* entry a server ever applies may be any one.
DisagreesWithOwn(s, n, v) == Has(s, n) /\ logs[s][n] # v
OutOfOrderAfterFirst(s, n) ==
    n > 1 /\ ~(n - 1 \in Indexes /\ Has(s, n - 1)) /\ \E m \in Indexes : Has(s, m)

\* Some server has already committed a different value for this entry.
Disagrees(s, n, v) == \E t \in Servers : Has(t, n) /\ logs[t][n] # v

OutOfOrder(s, n) == n > 1 /\ ~(n - 1 \in Indexes /\ Has(s, n - 1))

\* A valid ApplyMsg: compare and record it, in one critical section.  (Other
\* messages are ignored.)
Apply(o, n, v) ==
    /\ o \notin err
    /\ logs' = [logs EXCEPT ![Host(o)][n] = v]
    /\ maxIndex' = IF n > maxIndex THEN n ELSE maxIndex
    /\ err' = IF Disagrees(Host(o), n, v) \/ OutOfOrder(Host(o), n)
              THEN err \cup {o} ELSE err
    /\ UNCHANGED <<exited, up, pc, params, locals, polling>>

\* The reader then ends the program, after releasing the lock.
Fatal(o) ==
    /\ o \in err
    /\ exited' = TRUE
    /\ UNCHANGED <<logs, maxIndex, err, up, pc, params, locals, polling>>

-----------------------------------------------------------------------------
(***************************************************************************)
(* one(cmd, expectedServers, retry) and nCommitted(index)                  *)
(***************************************************************************)

\* Between two agreements the test crashes, starts, connects and disconnects.
Reconfigure(S) ==
    /\ pc = "idle"
    /\ up' = S
    /\ UNCHANGED <<readers, pc, params, locals, polling>>

One(v, e, r) ==
    /\ pc = "idle" /\ pc' = "try"
    /\ cmd' = v /\ expected' = e /\ retry' = r
    /\ starts' = 0 /\ si' = 0 /\ index' = Nil /\ placed' = FALSE
    /\ UNCHANGED <<readers, up, waiting, timed, polling>>

\* Mutant: the count of the previous poll is kept.
StartPollingKeepCount == pc' = "poll" /\ i' = 0 /\ UNCHANGED <<count, cmd1>>

\* nCommitted() is called.
StartPolling == pc' = "poll" /\ i' = 0 /\ count' = 0 /\ cmd1' = Nil

NextServer == (starts + 1) % N

\* Try the next server: it is skipped, or Start() says it is not the leader
\* (n = Nil), or it accepts the command at index n.
Try(n) ==
    LET s == NextServer IN
    /\ pc = "try" /\ si < N
    /\ starts' = s
    /\ s \notin up => n = Nil
    /\ IF n = Nil
       THEN si' = si + 1 /\ UNCHANGED <<pc, index, placed, polling>>
       ELSE index' = n /\ placed' = TRUE /\ StartPolling /\ UNCHANGED si
    /\ UNCHANGED <<readers, up, params>>

\* Start() takes the command but gives no index, as the stub does (raft.go:
\* 186-194): the round ends as if nobody were the leader, and the next one calls
\* Start() again, with or without retry.
TryStub ==
    /\ pc = "try" /\ si < N /\ NextServer \in up
    /\ starts' = NextServer /\ si' = N
    /\ UNCHANGED <<readers, up, pc, params, index, placed, polling>>

\* The next round of the outer loop, unless its 10 seconds are over.
TryAgain == pc' = "try" /\ si' = 0 /\ index' = Nil
TestFailed == pc' = "failed" /\ UNCHANGED <<si, index>>

NoLeader ==
    /\ pc = "try" /\ si = N
    /\ TryAgain \/ TestFailed
    /\ UNCHANGED <<readers, up, params, starts, placed, polling>>

\* nCommitted() looks at server i, in a critical section of its own.
Poll ==
    LET v == logs[i][index] IN
    /\ pc = "poll" /\ i < N
    /\ IF v = Nil
       THEN i' = i + 1 /\ UNCHANGED <<pc, count, cmd1>>
       ELSE IF count > 0 /\ cmd1 # v
       THEN pc' = "failed" /\ UNCHANGED polling
       ELSE i' = i + 1 /\ count' = count + 1 /\ cmd1' = v /\ UNCHANGED pc
    /\ UNCHANGED <<readers, up, params, locals>>

\* nCommitted() returns count and cmd1 to one() or to wait().
PollReturn ==
    /\ pc = "poll" /\ i = N
    /\ pc' = IF waiting = "no" THEN "polled" ELSE "waited"
    /\ UNCHANGED <<readers, up, params, locals, polling>>

\* Mutant: one server less is enough.
CommittedOneLess == count > 0 /\ count + 1 >= expected /\ cmd1 = cmd

\* Committed, and it was the command we submitted.
Committed == count > 0 /\ count >= expected /\ cmd1 = cmd

\* The test goes on; parameters and locals are gone.
Return ==
    /\ pc' = "idle"
    /\ cmd' = Nil /\ expected' = 0 /\ retry' = FALSE /\ waiting' = "no" /\ timed' = FALSE
    /\ starts' = 0 /\ si' = 0 /\ index' = Nil /\ placed' = FALSE
    /\ i' = 0 /\ count' = 0 /\ cmd1' = Nil
    /\ UNCHANGED <<readers, up>>

OneReturn == pc = "polled" /\ Committed /\ Return

\* Not yet: poll again.
PollAgain ==
    /\ pc = "polled" /\ ~Committed
    /\ StartPolling
    /\ UNCHANGED <<readers, up, params, locals>>

\* Mutant: a command that was lost is always submitted again.
WaitTimeoutResubmit ==
    /\ pc = "polled" /\ ~Committed
    /\ TryAgain \/ TestFailed
    /\ UNCHANGED <<readers, up, params, starts, placed, polling>>

\* After 2 seconds one() gives up waiting: re-submit only if retry is set.
WaitTimeout ==
    /\ pc = "polled" /\ ~Committed
    /\ (retry /\ TryAgain) \/ TestFailed
    /\ UNCHANGED <<readers, up, params, starts, placed, polling>>

-----------------------------------------------------------------------------
(***************************************************************************)
(* wait(index, n, startTerm)                                               *)
(***************************************************************************)

\* With a startTerm wait() calls GetState() on every cfg.rafts[i], none of
\* which may be nil: the test calls it so only while all servers run.
Wait(n, e, t) ==
    /\ pc = "idle" /\ StartPolling
    /\ t => up = Servers
    /\ index' = n /\ expected' = e /\ timed' = t /\ waiting' = "loop"
    /\ UNCHANGED <<readers, up, cmd, retry, starts, si, placed>>

\* Mutant: one server less is enough.
EnoughOneLess == count + 1 >= expected

Enough == count >= expected

\* Mutant: the loop ends when all but one server have the entry.
WaitBreakEarly ==
    /\ pc = "waited" /\ waiting = "loop" /\ EnoughOneLess /\ StartPolling
    /\ waiting' = "enough"
    /\ UNCHANGED <<readers, up, cmd, expected, retry, timed, locals>>

\* The loop has seen enough servers; they are counted once more after it.
WaitBreak ==
    /\ pc = "waited" /\ waiting = "loop" /\ Enough /\ StartPolling
    /\ waiting' = "enough"
    /\ UNCHANGED <<readers, up, cmd, expected, retry, timed, locals>>

\* Not enough: sleep and go round, or count a last time after 30 rounds.
WaitMore ==
    /\ pc = "waited" /\ waiting = "loop" /\ ~Enough /\ StartPolling
    /\ waiting' \in {"loop", "over"}
    /\ UNCHANGED <<readers, up, cmd, expected, retry, timed, locals>>

\* Someone has moved on to a later term than startTerm: wait() returns -1.
WaitMovedOn == pc = "waited" /\ waiting = "loop" /\ ~Enough /\ timed /\ Return

\* The last count decides between the command and a failed test.
WaitReturn == pc = "waited" /\ waiting # "loop" /\ Enough /\ Return

WaitFail ==
    /\ pc = "waited" /\ waiting # "loop" /\ ~Enough
    /\ pc' = "failed"
    /\ UNCHANGED <<readers, up, params, locals, polling>>

-----------------------------------------------------------------------------
OneNext ==
    \/ \E S \in SUBSET Servers : Reconfigure(S)
    \/ \E v \in Commands, e \in 0..N, r \in BOOLEAN : One(v, e, r)
    \/ \E n \in Indexes \cup {Nil} : Try(n)
    \/ TryStub \/ NoLeader \/ Poll \/ PollReturn \/ OneReturn \/ PollAgain \/ WaitTimeout

WaitNext ==
    \/ \E n \in Indexes, e \in 1..N, t \in BOOLEAN : Wait(n, e, t)
    \/ WaitBreak \/ WaitMore \/ WaitMovedOn \/ WaitReturn \/ WaitFail

ReaderNext ==
    \E o \in Instances : Fatal(o) \/ \E n \in Indexes, v \in Commands : Apply(o, n, v)

\* After log.Fatalf nothing runs.
Next == ~exited /\ (OneNext \/ WaitNext \/ ReaderNext)

Spec == Init /\ [][Next]_vars

-----------------------------------------------------------------------------
(***************************************************************************)
(* Properties.  A reader that has found a mistake is about to end the      *)
(* program; err = {} says that none has.                                   *)
(***************************************************************************)

\* Servers never disagree undetected: "some server has already committed a
\* different value for this entry!" is found whatever instances, also killed
\* ones, apply (raft/config.go:177-183).
LogsAgree ==
    err = {} => \A s, t \in Servers, n \in Indexes :
                    Has(s, n) /\ Has(t, n) => logs[s][n] = logs[t][n]

\* A server's log has no holes: "apply out of order" is found, also when an
\* earlier instance of the server has applied entries (raft/config.go:184,
\* 191-193).
LogsGapFree ==
    err = {} => \A s \in Servers, n \in Indexes :
                    Has(s, n) /\ n > 1 => n - 1 \in Indexes /\ Has(s, n - 1)

\* What nCommitted() has counted so far is true when it is used, although the
\* lock is released between servers: that many logs have this command
\* (raft/config.go:363-385).
Holders(n, v) == {s \in Servers : logs[s][n] = v}
CountSound ==
    err = {} /\ pc \in {"poll", "polled", "waited"} /\ count > 0 =>
        count <= Cardinality(Holders(index, cmd1))

\* one() returns an index at which at least expectedServers servers have the
\* command it submitted ("do a complete agreement", raft/config.go:418-430,
\* 457-463).
OneMeansAgreement ==
    [][pc = "polled" /\ pc' = "idle" /\ err = {} =>
          /\ expected <= Cardinality(Holders(index, cmd))
          /\ Holders(index, cmd) # {}]_vars

\* Without retry a command that Start() has taken at an index is not submitted
\* again, to that leader or another, and nobody is asked again whether it is the
\* leader, whatever becomes of the command and of the servers that one() waits
\* for (raft/config.go:453-470).  A Start() that takes the command and gives no
\* index (TryStub) is not included: one() goes round and calls Start() again (lines
\* 446-449, 453, 471-473), in spite of "if retry==false, calls Start() only once"
\* (428).
NotResubmitted == placed /\ ~retry => pc # "try"

\* wait() returns a command only if at least n servers have committed it at
\* the index ("wait for at least n servers to commit", raft/config.go:387,
\* 410-415); the loop may have ended because its 30 rounds were over.
WaitMeansCommitted ==
    [][pc = "waited" /\ pc' = "idle" /\ waiting # "loop" /\ err = {} =>
          expected <= Cardinality(Holders(index, cmd1))]_vars

\* What the loop has seen the second count sees again, although readers record
\* entries, and restarted instances replay theirs, between the two: wait() does
\* not fail a test after it has seen enough servers (raft/config.go:392-395,
\* 410-414).
RecountEnough == err = {} /\ pc = "waited" /\ waiting = "enough" => Enough
=============================================================================
