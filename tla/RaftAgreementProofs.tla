------------------------ MODULE RaftAgreementProofs ------------------------
(***************************************************************************)
(* Proofs about RaftAgreement, for every number of servers, instances,     *)
(* indexes and commands.  LogsAgree and LogsGapFree are inductive with the *)
(* types; CountSound is not: what nCommitted() has counted is justified by *)
(* the set of servers it has counted, which Counted says to exist.  For    *)
(* wait()'s second count, Recount names in addition the servers that the   *)
(* loop has counted, and says that the second count misses none of them.   *)
(***************************************************************************)
EXTENDS RaftAgreement, FiniteSetTheorems, TLAPS

InPoll == pc \in {"poll", "polled", "waited"}

\* The servers counted so far are below i and still hold the command.
Counted ==
    \E C \in SUBSET (0..(i - 1)) :
        /\ IsFiniteSet(C)
        /\ Cardinality(C) = count
        /\ err = {} => \A s \in C : s \in Servers /\ Has(s, index) /\ logs[s][index] = cmd1

PollInv == InPoll => index \in Indexes /\ count <= i /\ Counted

\* The servers the loop has counted still have the entry, and those below i have
\* been counted again.
Recount ==
    \E D \in SUBSET Servers, C \in SUBSET (0..(i - 1)) :
        /\ IsFiniteSet(D) /\ expected <= Cardinality(D)
        /\ IsFiniteSet(C) /\ Cardinality(C) = count
        /\ \A s \in D : Has(s, index)
        /\ \A s \in D : s < i => s \in C

RecountInv ==
    InPoll /\ waiting = "enough" /\ err = {} => Recount /\ (pc = "waited" => i = N)

AInv == /\ TypeOK /\ LogsAgree /\ LogsGapFree
        /\ PollInv /\ NotResubmitted

-----------------------------------------------------------------------------
\* The invariant holds initially.
LEMMA InitAInv == Init => AInv
  <1> SUFFICES ASSUME Init PROVE AInv
    OBVIOUS
  <1>1. TypeOK
    <2>1. N \in Nat \ {0} /\ 0 \in Servers /\ 0 \in 0..N
      BY AgreementAssumption DEF Servers
    <2>2. logs \in [Servers -> [Indexes -> Commands \cup {Nil}]]
      BY DEF Init
    <2>3. /\ exited \in BOOLEAN /\ retry \in BOOLEAN /\ timed \in BOOLEAN /\ placed \in BOOLEAN
          /\ maxIndex \in Nat
      BY DEF Init
    <2>. QED
      BY <2>1, <2>2, <2>3 DEF Init, TypeOK
  <1>2. \A s \in Servers, n \in Indexes : ~Has(s, n)
    BY DEF Init, Has
  <1>3. LogsAgree /\ LogsGapFree
    BY <1>2 DEF LogsAgree, LogsGapFree
  <1>4. PollInv /\ NotResubmitted
    BY DEF Init, PollInv, InPoll, NotResubmitted
  <1>. QED
    BY <1>1, <1>3, <1>4 DEF AInv

\* A reader that finds no mistake only adds what is missing from its log.
LEMMA ApplyAInv ==
    ASSUME AInv, NEW o \in Instances, NEW n \in Indexes, NEW v \in Commands,
           Apply(o, n, v)
    PROVE  AInv'
  <1> DEFINE h == Host(o)
  <1>0. h \in Servers /\ TypeOK /\ n \in Nat /\ v # Nil
    BY AgreementAssumption DEF AInv
  <1>1. TypeOK'
    BY <1>0 DEF TypeOK, Apply, params, locals, polling
  <1>2. \A s \in Servers, m \in Indexes :
            logs'[s][m] = IF s = h /\ m = n THEN v ELSE logs[s][m]
    BY <1>0 DEF Apply, TypeOK
  <1>3. err' = {} => /\ err = {}
                     /\ ~Disagrees(h, n, v)
                     /\ ~OutOfOrder(h, n)
    BY DEF Apply
  <1>4. LogsAgree'
    <2> SUFFICES ASSUME err' = {}, NEW s \in Servers, NEW t \in Servers,
                        NEW m \in Indexes, Has(s, m)', Has(t, m)'
                 PROVE  logs'[s][m] = logs'[t][m]
      BY DEF LogsAgree
    <2>1. err = {} /\ \A x \in Servers : Has(x, n) => logs[x][n] = v
      BY <1>3 DEF Disagrees
    <2>2. Has(s, m) /\ Has(t, m) => logs[s][m] = logs[t][m]
      BY <2>1 DEF LogsAgree, AInv
    <2>. QED
      BY <1>2, <2>1, <2>2 DEF Has
  <1>5. LogsGapFree'
    BY <1>0, <1>2, <1>3 DEF LogsGapFree, OutOfOrder, Has, AInv
  <1>6. err' = {} => \A s \in Servers, m \in Indexes :
                         Has(s, m) => logs'[s][m] = logs[s][m] /\ Has(s, m)'
    BY <1>0, <1>2, <1>3 DEF Disagrees, Has
  <1>7. PollInv'
    <2>1. UNCHANGED <<pc, index, i, count, cmd1>>
      BY DEF Apply, locals, polling
    <2> SUFFICES ASSUME InPoll PROVE Counted'
      BY <2>1 DEF PollInv, InPoll, AInv
    <2>2. PICK C \in SUBSET (0..(i - 1)) :
              /\ IsFiniteSet(C)
              /\ Cardinality(C) = count
              /\ err = {} => \A s \in C : /\ s \in Servers /\ Has(s, index)
                                          /\ logs[s][index] = cmd1
      BY DEF AInv, PollInv, Counted
    <2>3. index \in Indexes
      BY DEF AInv, PollInv
    <2>4. err' = {} => \A s \in C : /\ s \in Servers /\ Has(s, index)'
                                    /\ logs'[s][index] = cmd1
      BY <1>3, <1>6, <2>1, <2>2, <2>3
    <2>. QED
      BY <2>1, <2>2, <2>4 DEF Counted, Has
  <1>8. NotResubmitted'
    BY DEF Apply, NotResubmitted, AInv, params, locals
  <1>. QED
    BY <1>1, <1>4, <1>5, <1>7, <1>8 DEF AInv

-----------------------------------------------------------------------------
\* One step of nCommitted(): server i joins the servers counted.
LEMMA PollCounted ==
    ASSUME AInv, Poll, pc' = "poll"
    PROVE  index \in Indexes /\ count' <= i' /\ Counted'
  <1>0. /\ TypeOK /\ index \in Indexes /\ count <= i
        /\ i \in Nat /\ count \in Nat /\ i < N /\ N \in Nat
        /\ UNCHANGED <<logs, err, index>>
    BY AgreementAssumption DEF AInv, PollInv, InPoll, Poll, TypeOK, readers, locals
  <1>1. PICK C \in SUBSET (0..(i - 1)) :
            /\ IsFiniteSet(C)
            /\ Cardinality(C) = count
            /\ err = {} => \A s \in C : /\ s \in Servers /\ Has(s, index)
                                        /\ logs[s][index] = cmd1
    BY DEF AInv, PollInv, InPoll, Counted, Poll
  <1>2. CASE logs[i][index] = Nil
    <2>1. i' = i + 1 /\ count' = count /\ cmd1' = cmd1
      BY <1>2 DEF Poll
    <2>2. C \in SUBSET (0..(i' - 1))
      BY <1>0, <1>1, <2>1
    <2>. QED
      BY <1>0, <1>1, <2>1, <2>2 DEF Counted, Has
  <1>3. CASE logs[i][index] # Nil
    <2> DEFINE v == logs[i][index]
               D == C \cup {i}
    <2>1. i' = i + 1 /\ count' = count + 1 /\ cmd1' = v /\ ~(count > 0 /\ cmd1 # v)
      BY <1>3 DEF Poll, polling
    <2>2. i \notin C /\ D \in SUBSET (0..(i' - 1))
      BY <1>0, <1>1, <2>1
    <2>3. IsFiniteSet(D) /\ Cardinality(D) = count'
      BY <1>1, <2>1, <2>2, FS_AddElement
    <2>4. count = 0 => C = {}
      BY <1>1, FS_EmptySet
    <2>5. err = {} => \A s \in D : s \in Servers /\ Has(s, index) /\ logs[s][index] = v
      <3> SUFFICES ASSUME err = {}, NEW s \in D
                   PROVE  s \in Servers /\ Has(s, index) /\ logs[s][index] = v
        OBVIOUS
      <3>1. CASE s = i
        BY <1>0, <1>3, <3>1 DEF Servers, Has
      <3>2. CASE s \in C
        <4>1. count > 0
          BY <1>0, <2>4, <3>2
        <4>. QED
          BY <1>1, <2>1, <3>2, <4>1
      <3>. QED
        BY <3>1, <3>2
    <2>. QED
      BY <1>0, <2>1, <2>2, <2>3, <2>5 DEF Counted, Has
  <1>. QED
    BY <1>2, <1>3

\* nCommitted() starts with nothing counted.
LEMMA StartCounted ==
    ASSUME StartPolling PROVE count' <= i' /\ Counted'
  <1>1. {} \in SUBSET (0..(i' - 1)) /\ IsFiniteSet({}) /\ Cardinality({}) = 0
    BY FS_EmptySet
  <1>2. count' = 0 /\ i' = 0
    BY DEF StartPolling
  <1>. QED
    BY <1>1, <1>2 DEF Counted

\* Steps that read and write no log keep what is said about logs.
LEMMA LogsKept ==
    ASSUME AInv, UNCHANGED readers PROVE LogsAgree' /\ LogsGapFree'
  BY DEF AInv, readers, LogsAgree, LogsGapFree, Has

\* Returning to the test keeps the invariant.
LEMMA ReturnAInv ==
    ASSUME AInv, Return PROVE AInv'
  <1>1. LogsAgree' /\ LogsGapFree'
    BY LogsKept DEF Return
  <1>2. 0 \in Servers /\ 0 \in 0..N /\ TypeOK
    BY AgreementAssumption DEF Servers, AInv
  <1>3. retry' \in BOOLEAN /\ timed' \in BOOLEAN /\ exited' \in BOOLEAN /\ placed' \in BOOLEAN
    BY <1>2 DEF Return, TypeOK, readers
  <1>4. TypeOK'
    BY <1>2, <1>3 DEF Return, TypeOK, readers
  <1>. QED
    BY <1>1, <1>4 DEF Return, AInv, PollInv, InPoll, NotResubmitted

\* The steps of one() and nCommitted() keep the invariant.
LEMMA OneAInv == AInv /\ OneNext => AInv'
  <1> SUFFICES ASSUME AInv, OneNext PROVE AInv'
    OBVIOUS
  <1>0. TypeOK /\ PollInv /\ NotResubmitted /\ N \in Nat \ {0}
    BY AgreementAssumption DEF AInv
  <1> USE <1>0 DEF readers, params, locals, polling
  <1>1. LogsAgree' /\ LogsGapFree'
    <2>1. UNCHANGED readers
      BY DEF OneNext, Reconfigure, One, Try, TryStub, NoLeader, Poll, PollReturn,
             OneReturn, Return, PollAgain, WaitTimeout
    <2>. QED
      BY <2>1, LogsKept
  <1> SUFFICES TypeOK' /\ PollInv' /\ NotResubmitted'
    BY <1>1 DEF AInv
  <1>2. ASSUME NEW S \in SUBSET Servers, Reconfigure(S)
        PROVE  TypeOK' /\ PollInv' /\ NotResubmitted'
    BY <1>2 DEF Reconfigure, TypeOK, PollInv, InPoll, NotResubmitted
  <1>3. ASSUME NEW v \in Commands, NEW e \in 0..N, NEW r \in BOOLEAN, One(v, e, r)
        PROVE  TypeOK' /\ PollInv' /\ NotResubmitted'
    <2>1. retry' \in BOOLEAN /\ placed' \in BOOLEAN
      BY <1>3 DEF One
    <2>. QED
      BY <1>3, <2>1 DEF One, TypeOK, PollInv, InPoll, NotResubmitted, Servers
  <1>4. ASSUME NEW n \in Indexes \cup {Nil}, Try(n)
        PROVE  TypeOK' /\ PollInv' /\ NotResubmitted'
    <2>1. NextServer \in Servers
      BY DEF NextServer, Servers, TypeOK
    <2>2. CASE n = Nil
      BY <1>4, <2>1, <2>2 DEF Try, TypeOK, PollInv, InPoll, NotResubmitted
    <2>3. CASE n # Nil
      <3>1. n \in Indexes /\ StartPolling /\ index' = n
        BY <1>4, <2>3 DEF Try
      <3>2. TypeOK'
        BY <1>4, <2>1, <2>3, <3>1 DEF Try, StartPolling, TypeOK
      <3>3. PollInv'
        BY <3>1, StartCounted DEF PollInv
      <3>4. NotResubmitted'
        BY <1>4, <2>3 DEF Try, StartPolling, NotResubmitted, TypeOK
      <3>. QED
        BY <3>2, <3>3, <3>4
    <2>. QED
      BY <2>2, <2>3
  <1>5. ASSUME TryStub PROVE TypeOK' /\ PollInv' /\ NotResubmitted'
    <2>1. NextServer \in Servers
      BY DEF NextServer, Servers, TypeOK
    <2>. QED
      BY <1>5, <2>1 DEF TryStub, TypeOK, PollInv, InPoll, NotResubmitted
  <1>6. ASSUME NoLeader PROVE TypeOK' /\ PollInv' /\ NotResubmitted'
    BY <1>6 DEF NoLeader, TryAgain, TestFailed, TypeOK, PollInv, InPoll, NotResubmitted
  <1>7. ASSUME Poll PROVE TypeOK' /\ PollInv' /\ NotResubmitted'
    <2>1. i \in Servers /\ index \in Indexes /\ count <= i /\ i \in Nat
      BY <1>7 DEF Poll, PollInv, InPoll, TypeOK, Servers
    <2>2. logs[i][index] \in Commands \cup {Nil}
      BY <2>1 DEF TypeOK
    <2>3. TypeOK'
      BY <1>7, <2>1, <2>2 DEF Poll, TypeOK
    <2>4. PollInv'
      BY <1>7, PollCounted DEF PollInv, InPoll, Poll
    <2>. QED
      BY <1>7, <2>3, <2>4 DEF Poll, NotResubmitted
  <1>8. ASSUME PollReturn PROVE TypeOK' /\ PollInv' /\ NotResubmitted'
    <2>1. TypeOK' /\ NotResubmitted'
      BY <1>8 DEF PollReturn, TypeOK, NotResubmitted
    <2>2. InPoll /\ UNCHANGED <<logs, err, index, i, count, cmd1>>
      BY <1>8 DEF PollReturn, InPoll
    <2>3. index \in Indexes /\ count <= i /\ Counted
      BY <2>2 DEF PollInv
    <2>4. Counted'
      BY <2>2, <2>3 DEF Counted, Has
    <2>. QED
      BY <2>1, <2>2, <2>3, <2>4 DEF PollInv
  <1>9. ASSUME OneReturn PROVE TypeOK' /\ PollInv' /\ NotResubmitted'
    BY <1>9, ReturnAInv DEF OneReturn, AInv
  <1>10. ASSUME PollAgain PROVE TypeOK' /\ PollInv' /\ NotResubmitted'
    <2>1. StartPolling /\ index' = index /\ InPoll
      BY <1>10 DEF PollAgain, InPoll
    <2>2. PollInv'
      BY <2>1, StartCounted DEF PollInv
    <2>. QED
      BY <1>10, <2>2 DEF PollAgain, StartPolling, TypeOK, NotResubmitted
  <1>11. ASSUME WaitTimeout PROVE TypeOK' /\ PollInv' /\ NotResubmitted'
    BY <1>11 DEF WaitTimeout, TryAgain, TestFailed, TypeOK, PollInv, InPoll, NotResubmitted
  <1>. QED
    BY <1>2, <1>3, <1>4, <1>5, <1>6, <1>7, <1>8, <1>9, <1>10, <1>11 DEF OneNext

\* The steps of wait() keep the invariant.
LEMMA WaitAInv == AInv /\ WaitNext => AInv'
  <1> SUFFICES ASSUME AInv, WaitNext PROVE AInv'
    OBVIOUS
  <1>0. TypeOK /\ PollInv /\ NotResubmitted /\ N \in Nat \ {0}
    BY AgreementAssumption DEF AInv
  <1>1. ASSUME NEW n \in Indexes, NEW e \in 1..N, NEW t \in BOOLEAN, Wait(n, e, t)
        PROVE  AInv'
    <2>1. LogsAgree' /\ LogsGapFree'
      BY <1>1, LogsKept DEF Wait
    <2>2. TypeOK'
      <3>1. e \in 0..N /\ 0 \in 0..N
        BY <1>0
      <3>. QED
        BY <1>0, <1>1, <3>1 DEF Wait, StartPolling, TypeOK, readers
    <2>3. PollInv'
      BY <1>1, StartCounted DEF Wait, PollInv
    <2>. QED
      BY <1>0, <1>1, <2>1, <2>2, <2>3 DEF Wait, StartPolling, AInv, NotResubmitted
  <1>2. CASE WaitBreak \/ WaitMore
    <2>1. /\ StartPolling /\ index' = index /\ InPoll
          /\ UNCHANGED <<readers, up, cmd, expected, retry, timed, locals>>
          /\ waiting' \in {"loop", "enough", "over"}
      BY <1>2 DEF WaitBreak, WaitMore, InPoll, locals
    <2>2. LogsAgree' /\ LogsGapFree'
      BY <2>1, LogsKept
    <2>3. TypeOK'
      BY <1>0, <2>1 DEF StartPolling, TypeOK, readers, locals
    <2>4. PollInv'
      BY <1>0, <2>1, StartCounted DEF PollInv
    <2>. QED
      BY <1>0, <2>1, <2>2, <2>3, <2>4 DEF StartPolling, AInv, NotResubmitted, locals
  <1>3. CASE WaitMovedOn \/ WaitReturn
    BY <1>3, ReturnAInv DEF WaitMovedOn, WaitReturn
  <1>4. CASE WaitFail
    <2>1. LogsAgree' /\ LogsGapFree'
      BY <1>4, LogsKept DEF WaitFail
    <2>. QED
      BY <1>0, <1>4, <2>1 DEF WaitFail, AInv, TypeOK, PollInv, InPoll, NotResubmitted, readers, params, locals, polling
  <1>. QED
    BY <1>1, <1>2, <1>3, <1>4 DEF WaitNext

-----------------------------------------------------------------------------
\* Every step keeps the inductive invariant.
LEMMA NextAInv == AInv /\ [Next]_vars => AInv'
  <1> SUFFICES ASSUME AInv, [Next]_vars PROVE AInv'
    OBVIOUS
  <1>1. CASE OneNext
    BY <1>1, OneAInv
  <1>4. CASE WaitNext
    BY <1>4, WaitAInv
  <1>2. ASSUME NEW o \in Instances, Fatal(o) PROVE AInv'
    BY <1>2 DEF Fatal, AInv, TypeOK, LogsAgree, LogsGapFree, PollInv, InPoll, Counted,
                NotResubmitted, Has, params, locals, polling
  <1>3. CASE UNCHANGED vars
    BY <1>3 DEF vars, readers, AInv, TypeOK, LogsAgree, LogsGapFree, PollInv, InPoll,
                Counted, NotResubmitted, Has, params, locals, polling
  <1>. QED
    BY <1>1, <1>2, <1>3, <1>4, ApplyAInv DEF Next, ReaderNext

\* The inductive invariant holds in every reachable state.
THEOREM AgreementInvariance == Spec => []AInv
  BY InitAInv, NextAInv, PTL DEF Spec

\* Types are kept by the readers, one() and nCommitted().
THEOREM AgreementTypeCorrect == Spec => []TypeOK
  <1>1. AInv => TypeOK
    BY DEF AInv
  <1>. QED
    BY <1>1, AgreementInvariance, PTL

\* A disagreement between any two servers is found by the reader that records
\* the second of the two commands (raft/config.go:177-183).
THEOREM LogsAgreeCorrect == Spec => []LogsAgree
  <1>1. AInv => LogsAgree
    BY DEF AInv
  <1>. QED
    BY <1>1, AgreementInvariance, PTL

\* A hole in a server's log is found by the reader that leaves it
\* (raft/config.go:184, 191-193).
THEOREM LogsGapFreeCorrect == Spec => []LogsGapFree
  <1>1. AInv => LogsGapFree
    BY DEF AInv
  <1>. QED
    BY <1>1, AgreementInvariance, PTL

\* There are finitely many servers.
LEMMA ServersFinite == IsFiniteSet(Servers)
  <1>1. 0 \in Int /\ N - 1 \in Int
    BY AgreementAssumption
  <1>. QED
    BY <1>1, FS_Interval DEF Servers

\* nCommitted() counts no server that does not hold the command it returns
\* (raft/config.go:363-385).
LEMMA InvCountSound == AInv => CountSound
  <1> SUFFICES ASSUME AInv, err = {}, InPoll, count > 0
               PROVE  count <= Cardinality(Holders(index, cmd1))
    BY DEF CountSound, InPoll
  <1>1. PICK C \in SUBSET (0..(i - 1)) :
            /\ IsFiniteSet(C)
            /\ Cardinality(C) = count
            /\ \A s \in C : s \in Servers /\ logs[s][index] = cmd1
    BY DEF AInv, PollInv, Counted
  <1>2. IsFiniteSet(Servers)
    BY ServersFinite
  <1>3. IsFiniteSet(Holders(index, cmd1))
    BY <1>2, FS_Subset DEF Holders
  <1>4. C \subseteq Holders(index, cmd1)
    BY <1>1 DEF Holders
  <1>. QED
    BY <1>1, <1>3, <1>4, FS_Subset

\* What nCommitted() has counted are different servers that have this command at the
\* index (raft/config.go:363-385).
THEOREM CountCorrect == Spec => []CountSound
  BY InvCountSound, AgreementInvariance, PTL

\* one() returns only after a complete agreement on its own command
\* (raft/config.go:457-463).
THEOREM OneCorrect == Spec => OneMeansAgreement
  <1> DEFINE Step == pc = "polled" /\ pc' = "idle" /\ err = {} =>
                         /\ expected <= Cardinality(Holders(index, cmd))
                         /\ Holders(index, cmd) # {}
  <1>1. AInv /\ [Next]_vars => [Step]_vars
    <2> SUFFICES ASSUME AInv, Next, pc = "polled", pc' = "idle", err = {}
                 PROVE  /\ expected <= Cardinality(Holders(index, cmd))
                        /\ Holders(index, cmd) # {}
      BY DEF vars
    <2>1. Committed
      BY DEF Next, OneNext, ReaderNext, Reconfigure, One, Try, TryStub, NoLeader, Poll,
             PollReturn, OneReturn, PollAgain, WaitTimeout, TryAgain, TestFailed,
             StartPolling, WaitNext, Wait, WaitBreak, WaitMore, WaitMovedOn, WaitReturn,
             WaitFail, Apply, Fatal
    <2>2. count > 0 /\ count >= expected /\ cmd1 = cmd /\ count \in Nat /\ expected \in Nat
      BY <2>1, AgreementAssumption DEF Committed, AInv, TypeOK
    <2>3. count <= Cardinality(Holders(index, cmd))
      BY <2>2, InvCountSound DEF CountSound
    <2>4. IsFiniteSet(Holders(index, cmd))
      <3>1. IsFiniteSet(Servers)
        BY ServersFinite
      <3>. QED
        BY <3>1, FS_Subset DEF Holders
    <2>5. Cardinality(Holders(index, cmd)) \in Nat
      BY <2>4, FS_CardinalityType
    <2>6. Holders(index, cmd) # {}
      BY <2>2, <2>3, FS_EmptySet
    <2>. QED
      BY <2>2, <2>3, <2>5, <2>6
  <1>. QED
    BY <1>1, AgreementInvariance, PTL DEF Spec, OneMeansAgreement

\* Without retry, one() does not go on to other leaders, nor back to the same, with a
\* command that Start() has taken at an index (raft/config.go:453-470).
THEOREM NotResubmittedCorrect == Spec => []NotResubmitted
  <1>1. AInv => NotResubmitted
    BY DEF AInv
  <1>. QED
    BY <1>1, AgreementInvariance, PTL

-----------------------------------------------------------------------------
(***************************************************************************)
(* wait()                                                                  *)
(***************************************************************************)

\* The servers that hold an entry are finitely many.
LEMMA HoldersFinite ==
    ASSUME NEW n, NEW v
    PROVE  IsFiniteSet(Holders(n, v)) /\ Cardinality(Holders(n, v)) \in Nat
  <1>1. IsFiniteSet(Servers)
    BY ServersFinite
  <1>2. IsFiniteSet(Holders(n, v))
    BY <1>1, FS_Subset DEF Holders
  <1>. QED
    BY <1>2, FS_CardinalityType

\* wait() returns a command only when n servers hold it (raft/config.go:410-415).
THEOREM WaitCorrect == Spec => WaitMeansCommitted
  <1> DEFINE Step == pc = "waited" /\ pc' = "idle" /\ waiting # "loop" /\ err = {} =>
                         expected <= Cardinality(Holders(index, cmd1))
  <1>1. AInv /\ [Next]_vars => [Step]_vars
    <2> SUFFICES ASSUME AInv, Next, pc = "waited", pc' = "idle", waiting # "loop", err = {}
                 PROVE  expected <= Cardinality(Holders(index, cmd1))
      BY DEF vars
    <2>1. Enough
      BY DEF Next, OneNext, ReaderNext, Reconfigure, One, Try, TryStub, NoLeader, Poll,
             PollReturn, OneReturn, PollAgain, WaitTimeout, TryAgain, TestFailed,
             StartPolling, WaitNext, Wait, WaitBreak, WaitMore, WaitMovedOn, WaitReturn,
             WaitFail, Apply, Fatal
    <2>2. count >= expected /\ count \in Nat /\ expected \in Nat
      BY <2>1, AgreementAssumption DEF Enough, AInv, TypeOK
    <2>3. Cardinality(Holders(index, cmd1)) \in Nat
      BY HoldersFinite
    <2>4. CASE count > 0
      BY <2>2, <2>3, <2>4, InvCountSound DEF CountSound
    <2>. QED
      BY <2>2, <2>3, <2>4
  <1>. QED
    BY <1>1, AgreementInvariance, PTL DEF Spec, WaitMeansCommitted

\* A server counted in the loop keeps the entry, whatever the readers record.
LEMMA HasKept ==
    ASSUME AInv, [Next]_vars, NEW s \in Servers, NEW n \in Indexes, Has(s, n)
    PROVE  Has(s, n)'
  <1>1. CASE UNCHANGED logs
    BY <1>1 DEF Has
  <1>2. ASSUME NEW o \in Instances, NEW m \in Indexes, NEW v \in Commands, Apply(o, m, v)
        PROVE  Has(s, n)'
    <2>1. Host(o) \in Servers /\ v # Nil
      BY AgreementAssumption
    <2>. QED
      BY <1>2, <2>1 DEF Apply, Has, AInv, TypeOK
  <1>. QED
    BY <1>1, <1>2 DEF Next, OneNext, ReaderNext, Reconfigure, One, Try, TryStub, NoLeader,
        Poll, PollReturn, OneReturn, Return, PollAgain, WaitTimeout, WaitNext, Wait,
        WaitBreak, WaitMore, WaitMovedOn, WaitReturn, WaitFail, Fatal, vars, readers

\* Steps that leave the count alone.
LEMMA RecountKept ==
    ASSUME AInv, RecountInv, [Next]_vars,
           UNCHANGED <<index, i, count, expected, waiting>>, pc' = "waited" => i = N,
           InPoll' => InPoll, err' = {} => err = {}
    PROVE  RecountInv'
  <1> SUFFICES ASSUME InPoll', waiting' = "enough", err' = {}
               PROVE  Recount' /\ (pc' = "waited" => i' = N)
    BY DEF RecountInv
  <1>1. PICK D \in SUBSET Servers, C \in SUBSET (0..(i - 1)) :
            /\ IsFiniteSet(D) /\ expected <= Cardinality(D)
            /\ IsFiniteSet(C) /\ Cardinality(C) = count
            /\ \A s \in D : Has(s, index)
            /\ \A s \in D : s < i => s \in C
    BY DEF RecountInv, Recount
  <1>2. index \in Indexes
    BY DEF AInv, PollInv
  <1>3. \A s \in D : Has(s, index)'
    BY <1>1, <1>2, HasKept
  <1>. QED
    BY <1>1, <1>3 DEF Recount, Has

\* The second count starts: the servers counted by the loop are the ones to find.
LEMMA BreakRecount ==
    ASSUME AInv, WaitBreak, err = {} PROVE Recount'
  <1>1. PICK D \in SUBSET (0..(i - 1)) :
            /\ IsFiniteSet(D)
            /\ Cardinality(D) = count
            /\ \A s \in D : s \in Servers /\ Has(s, index)
    BY DEF AInv, PollInv, InPoll, Counted, WaitBreak
  <1>2. /\ expected <= count /\ i' = 0 /\ count' = 0
        /\ UNCHANGED <<logs, index, expected>>
    BY AgreementAssumption DEF WaitBreak, StartPolling, Enough, readers, locals, AInv, TypeOK
  <1>3. IsFiniteSet({}) /\ Cardinality({}) = 0
    BY FS_EmptySet
  <1>4. /\ D \in SUBSET Servers /\ {} \in SUBSET (0..(i' - 1))
        /\ \A s \in D : ~(s < i')
    BY <1>1, <1>2
  <1>5. \A s \in D : Has(s, index)'
    BY <1>1, <1>2 DEF Has
  <1>6. expected' <= Cardinality(D) /\ Cardinality({}) = count'
    BY <1>1, <1>2, <1>3
  <1>. QED
    BY <1>1, <1>2, <1>3, <1>4, <1>5, <1>6 DEF Recount, Has

\* One step of the second count misses no server the loop has counted.
LEMMA PollRecount ==
    ASSUME AInv, Recount, Poll, pc' = "poll" PROVE Recount'
  <1>0. /\ i \in Nat /\ count \in Nat /\ i < N /\ N \in Nat
        /\ UNCHANGED <<logs, index, expected>>
    BY AgreementAssumption DEF AInv, Poll, TypeOK, readers, locals, params
  <1>1. PICK D \in SUBSET Servers, C \in SUBSET (0..(i - 1)) :
            /\ IsFiniteSet(D) /\ expected <= Cardinality(D)
            /\ IsFiniteSet(C) /\ Cardinality(C) = count
            /\ \A s \in D : Has(s, index)
            /\ \A s \in D : s < i => s \in C
    BY DEF Recount
  <1>2. \A s \in D : s \in Nat /\ (s < i + 1 => s < i \/ s = i)
    BY <1>0 DEF Servers
  <1>3. CASE logs[i][index] = Nil
    <2>1. i' = i + 1 /\ count' = count
      BY <1>3 DEF Poll
    <2>2. C \in SUBSET (0..(i' - 1)) /\ i \notin D
      BY <1>0, <1>1, <1>3, <2>1 DEF Has
    <2>3. \A s \in D : s < i' => s \in C
      BY <1>1, <1>2, <2>1, <2>2
    <2>. QED
      BY <1>0, <1>1, <2>1, <2>2, <2>3 DEF Recount, Has
  <1>4. CASE logs[i][index] # Nil
    <2> DEFINE E == C \cup {i}
    <2>1. i' = i + 1 /\ count' = count + 1
      BY <1>4 DEF Poll
    <2>2. i \notin C /\ E \in SUBSET (0..(i' - 1))
      BY <1>0, <1>1, <2>1
    <2>3. IsFiniteSet(E) /\ Cardinality(E) = count'
      BY <1>1, <2>1, <2>2, FS_AddElement
    <2>4. \A s \in D : s < i' => s \in E
      BY <1>1, <1>2, <2>1
    <2>. QED
      BY <1>0, <1>1, <2>1, <2>2, <2>3, <2>4 DEF Recount, Has
  <1>. QED
    BY <1>3, <1>4

\* one() runs only while wait() does not.
NotWaiting == pc \in {"idle", "try", "polled"} => waiting = "no"

\* Every step preserves this.
LEMMA NextNotWaiting == NotWaiting /\ [Next]_vars => NotWaiting'
  <1> SUFFICES ASSUME NotWaiting, [Next]_vars PROVE NotWaiting'
    OBVIOUS
  <1>1. CASE OneNext
    BY <1>1 DEF OneNext, Reconfigure, One, Try, TryStub, NoLeader, Poll, PollReturn,
        OneReturn, Return, PollAgain, WaitTimeout, TryAgain, TestFailed, StartPolling,
        NotWaiting, params
  <1>2. CASE WaitNext
    BY <1>2 DEF WaitNext, Wait, WaitBreak, WaitMore, WaitMovedOn, WaitReturn, WaitFail,
        Return, StartPolling, NotWaiting, params
  <1>. QED
    BY <1>1, <1>2 DEF Next, ReaderNext, Apply, Fatal, NotWaiting, vars, params

\* Every step preserves the invariant about the second count of wait().
LEMMA NextRecountInv == AInv /\ NotWaiting /\ RecountInv /\ [Next]_vars => RecountInv'
  <1> SUFFICES ASSUME AInv, NotWaiting, RecountInv, [Next]_vars PROVE RecountInv'
    OBVIOUS
  <1>1. CASE WaitBreak
    BY <1>1, BreakRecount DEF RecountInv, WaitBreak, StartPolling, readers
  <1>2. CASE Poll
    <2> SUFFICES ASSUME InPoll', waiting' = "enough", err' = {}
                 PROVE  Recount' /\ (pc' = "waited" => i' = N)
      BY DEF RecountInv
    <2>1. waiting = "enough" /\ err = {} /\ InPoll /\ pc' = "poll"
      BY <1>2 DEF Poll, InPoll, params, readers
    <2>. QED
      BY <1>2, <2>1, PollRecount DEF RecountInv
  <1>3. CASE PollReturn
    BY <1>3, RecountKept DEF PollReturn, InPoll, params, locals, polling, readers
  <1>4. CASE waiting' # "enough" \/ ~InPoll'
    BY <1>4 DEF RecountInv
  <1>5. ASSUME NEW o \in Instances, NEW m \in Indexes, NEW v \in Commands, Apply(o, m, v)
        PROVE  RecountInv'
    <2>1. UNCHANGED <<pc, index, i, count, expected, waiting>> /\ (err' = {} => err = {})
      BY <1>5 DEF Apply, params, locals, polling
    <2>2. CASE InPoll /\ waiting = "enough" /\ err = {}
      BY <2>1, <2>2, RecountKept DEF RecountInv, InPoll
    <2>. QED
      BY <2>1, <2>2 DEF RecountInv, InPoll
  <1>6. ASSUME NEW o \in Instances, Fatal(o) PROVE RecountInv'
    BY <1>6 DEF Fatal, RecountInv, InPoll, Recount, Has, params, locals, polling
  <1>7. CASE UNCHANGED vars
    BY <1>7 DEF vars, RecountInv, InPoll, Recount, Has, params, locals, polling, readers
  <1>8. CASE OneNext /\ ~Poll /\ ~PollReturn
    <2>1. pc \in {"idle", "try", "polled"}
      BY <1>8 DEF OneNext, Reconfigure, One, Try, TryStub, NoLeader, OneReturn, PollAgain,
                  WaitTimeout
    <2>2. waiting' = "no"
      BY <1>8, <2>1 DEF OneNext, Reconfigure, One, Try, TryStub, NoLeader, OneReturn, Return,
                        PollAgain, WaitTimeout, NotWaiting, params
    <2>. QED
      BY <1>4, <2>2
  <1>9. CASE WaitNext /\ ~WaitBreak
    BY <1>4, <1>9 DEF WaitNext, Wait, WaitMore, WaitMovedOn, WaitReturn, WaitFail, Return, InPoll
  <1>. QED
    BY <1>1, <1>2, <1>3, <1>5, <1>6, <1>7, <1>8, <1>9 DEF Next, ReaderNext

\* wait() never fails a test after its loop has seen enough servers
\* (raft/config.go:392-395, 410-414).
THEOREM RecountCorrect == Spec => []RecountEnough
  <1>1. Init => NotWaiting /\ RecountInv
    BY DEF Init, NotWaiting, RecountInv, InPoll
  <1>2. AInv /\ RecountInv => RecountEnough
    <2> SUFFICES ASSUME AInv, RecountInv, err = {}, pc = "waited", waiting = "enough"
                 PROVE  count >= expected
      BY DEF RecountEnough, Enough
    <2>1. PICK D \in SUBSET Servers, C \in SUBSET (0..(i - 1)) :
              /\ IsFiniteSet(D) /\ expected <= Cardinality(D)
              /\ IsFiniteSet(C) /\ Cardinality(C) = count
              /\ \A s \in D : s < i => s \in C
      BY DEF RecountInv, InPoll, Recount
    <2>2. i = N
      BY DEF RecountInv, InPoll
    <2>3. D \subseteq C
      BY <2>1, <2>2, AgreementAssumption DEF Servers
    <2>4. Cardinality(D) <= Cardinality(C) /\ Cardinality(D) \in Nat
      BY <2>1, <2>3, FS_Subset, FS_CardinalityType
    <2>5. count \in Nat /\ expected \in Nat
      BY AgreementAssumption DEF AInv, TypeOK
    <2>. QED
      BY <2>1, <2>4, <2>5
  <1>. QED
    BY <1>1, <1>2, NextNotWaiting, NextRecountInv, AgreementInvariance, PTL DEF Spec
=============================================================================
