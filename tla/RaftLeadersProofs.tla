------------------------- MODULE RaftLeadersProofs -------------------------
(***************************************************************************)
(* Proofs about RaftLeaders, for every number of servers, terms and        *)
(* rounds.  The properties speak of the moment a check returns; the        *)
(* inductive invariant says, for each check, what is known of the servers  *)
(* already asked, those below i.                                           *)
(***************************************************************************)
EXTENDS RaftLeaders, WellFoundedInduction, SequenceTheorems, TLAPS

\* A nonempty set of terms has a greatest element, which LastTerm chooses.
LEMMA Greatest ==
    ASSUME NEW K \in SUBSET Terms, K # {}
    PROVE  \E t \in K : \A u \in K : u <= t
  <1> DEFINE R == {p \in Nat \X Nat : p[1] < p[2]}
             T == {MaxTerm - t : t \in K}
  <1>0. MaxTerm \in Nat /\ \A t \in K : t \in Nat /\ MaxTerm - t \in Nat
    BY LeadersAssumption DEF Terms
  <1>1. IsWellFoundedOn(R, Nat)
    BY NatLessThanWellFounded DEF OpToRel
  <1>2. T \subseteq Nat /\ T # {}
    BY <1>0
  <1> HIDE DEF R
  <1>3. PICK x \in T : \A y \in T : ~(<<y, x>> \in R)
    BY <1>1, <1>2, WFMin
  <1>4. PICK t \in K : x = MaxTerm - t
    OBVIOUS
  <1>5. \A u \in K : ~(MaxTerm - u < MaxTerm - t)
    <2> TAKE u \in K
    <2>1. ~(<<MaxTerm - u, x>> \in R)
      BY <1>3
    <2>. QED
      BY <1>0, <1>4, <2>1 DEF R
  <1>. QED
    BY <1>0, <1>5

-----------------------------------------------------------------------------
\* A server recorded for a term has led it in this round, is connected and has
\* been asked; the servers of a term are recorded in increasing order.
RecordedInv ==
    \A t \in Terms : \A k \in 1..Len(leaders[t]) :
        /\ leaders[t][k] \in connected /\ leaders[t][k] < i
        /\ <<leaders[t][k], t>> \in led
        /\ \A l \in 1..(k - 1) : leaders[t][l] < leaders[t][k]

\* A steady leader that has been asked is recorded.
SteadyInv ==
    \A s \in Servers, t \in Terms : <<s, t>> \in steady /\ s < i =>
        \E k \in 1..Len(leaders[t]) : leaders[t][k] = s

ReadInv == pc = "read" => RecordedInv /\ SteadyInv

\* A steady leader leads now, and who leads now has led.
LeadingInv ==
    pc \in {"read", "terms", "noleader"} => steady \subseteq Leading /\ Leading \subseteq led

TermsInv ==
    pc = "terms" => /\ result \in Terms \cup {-1}
                    /\ \A s \in connected : s < i => result \in Terms /\ result <= term[s]

NoLeaderInv ==
    pc = "noleader" => \A s \in Servers, t \in Terms : <<s, t>> \in steady => s >= i

\* A round that begins is not one too many.
ItersInv == pc \in Checks \cup {"idle"} => iters < MaxIters

LInv == /\ TypeOK /\ AlarmIsReal /\ ItersInv
        /\ ReadInv /\ LeadingInv /\ TermsInv /\ NoLeaderInv

-----------------------------------------------------------------------------
\* The invariant holds initially.
LEMMA InitLInv == Init => LInv
  <1> SUFFICES ASSUME Init PROVE LInv
    OBVIOUS
  <1>1. NoLeaders \in [Terms -> Seq(Servers)]
    BY DEF NoLeaders
  <1>2. 0 \in 0..N /\ 0 \in 0..MaxIters
    BY LeadersAssumption
  <1>3. TypeOK
    BY <1>1, <1>2 DEF Init, TypeOK, Checks
  <1>. QED
    BY <1>3, LeadersAssumption DEF Init, LInv, AlarmIsReal, ItersInv, Checks, ReadInv, LeadingInv, TermsInv, NoLeaderInv

\* Elections go on during a check.
LEMMA ElectLInv ==
    ASSUME LInv, NEW s \in Servers, NEW t \in Terms, NEW l \in BOOLEAN, Elect(s, t, l)
    PROVE  LInv'
  <1>0. /\ TypeOK /\ UNCHANGED <<connected, pc, iters, i, leaders, result>>
        /\ \A x \in Servers : /\ term'[x] = IF x = s THEN t ELSE term[x]
                              /\ leads'[x] = IF x = s THEN l ELSE leads[x]
    BY DEF LInv, Elect, TypeOK
  <1>1. TypeOK'
    BY <1>0 DEF Elect, TypeOK
  <1>2. led \subseteq led' /\ steady' \subseteq steady
    BY DEF Elect
  <1>3. AlarmIsReal'
    BY <1>0, <1>2 DEF AlarmIsReal, LInv
  <1>4. ReadInv'
    BY <1>0, <1>2 DEF ReadInv, RecordedInv, SteadyInv, LInv
  <1>5. LeadingInv'
    <2> SUFFICES ASSUME pc \in {"read", "terms", "noleader"}
                 PROVE  steady' \subseteq Leading' /\ Leading' \subseteq led'
      BY <1>0 DEF LeadingInv
    <2>1. steady \subseteq Leading /\ Leading \subseteq led
      BY DEF LInv, LeadingInv
    <2>2. steady' \subseteq Leading'
      BY <1>0, <2>1 DEF Leading, Elect, TypeOK
    <2>3. ASSUME NEW x \in connected, NEW y \in Terms, <<x, y>> \in Leading'
          PROVE  <<x, y>> \in Leading \/ (x = s /\ y = t /\ l /\ s \in connected)
      <3>1. leads'[x] /\ term'[x] = y /\ x \in Servers
        BY <1>0, <2>3 DEF Leading, TypeOK
      <3>2. CASE x = s
        BY <1>0, <3>1, <3>2
      <3>3. CASE x # s
        <4>1. leads[x]
          BY <1>0, <3>1, <3>3
        <4>2. term[x] = y
          BY <1>0, <3>1, <3>3
        <4>. QED
          BY <2>3, <4>1, <4>2 DEF Leading
      <3>. QED
        BY <3>2, <3>3
    <2>5. Leading' \subseteq connected \X Terms
      BY <1>0 DEF Leading
    <2>4. l /\ s \in connected => <<s, t>> \in led'
      BY DEF Elect, Checks
    <2>. QED
      BY <1>2, <2>1, <2>2, <2>3, <2>4, <2>5
  <1>6. TermsInv'
    <2>1. \A x \in Servers : term[x] \in Terms /\ term'[x] \in Terms /\ term[x] <= term'[x]
      BY <1>0, LeadersAssumption DEF Elect, TypeOK, Terms
    <2> SUFFICES ASSUME pc = "terms", NEW x \in connected, x < i
                 PROVE  result \in Terms /\ result <= term'[x]
      BY <1>0 DEF TermsInv, LInv
    <2>2. result \in Terms /\ result <= term[x] /\ x \in Servers
      BY <1>0 DEF TermsInv, LInv, TypeOK
    <2>. QED
      BY <2>1, <2>2, LeadersAssumption DEF Terms
  <1>7. NoLeaderInv'
    BY <1>0, <1>2 DEF NoLeaderInv, LInv
  <1>8. ItersInv'
    BY <1>0 DEF ItersInv, LInv
  <1>. QED
    BY <1>1, <1>3, <1>4, <1>5, <1>6, <1>7, <1>8 DEF LInv

\* A check that begins has asked nobody.
LEMMA FirstLInv ==
    ASSUME LInv, NEW check \in {"read", "terms", "noleader"}, FromFirst(check),
           pc \in {"idle", "sleep"},
           UNCHANGED <<raft, connected, iters>>,
           leaders' \in [Terms -> Seq(Servers)],
           check = "read" => leaders' = NoLeaders,
           result' = -1 \/ (check # "terms" /\ result' = result)
    PROVE  LInv'
  <1>0. /\ TypeOK /\ N \in Nat /\ pc' = check /\ i' = 0 /\ 0 \in 0..N
        /\ led' = Leading /\ steady' = Leading
        /\ UNCHANGED <<term, leads, connected, iters>>
    BY LeadersAssumption DEF LInv, FromFirst, raft
  <1>1. Leading \in SUBSET (Servers \X Terms) /\ Leading' = Leading
    BY <1>0 DEF Leading, TypeOK
  <1>2. TypeOK'
    BY <1>0, <1>1 DEF TypeOK, Checks
  <1>3. \A s \in Servers : ~(s < 0) /\ s >= 0
    BY LeadersAssumption DEF Servers
  <1>4. connected' \in SUBSET Servers
    BY <1>0 DEF TypeOK
  <1>5. check = "read" => RecordedInv' /\ SteadyInv'
    BY <1>0, <1>3 DEF RecordedInv, SteadyInv, NoLeaders
  <1>. QED
    BY <1>0, <1>1, <1>2, <1>3, <1>4, <1>5
    DEF LInv, AlarmIsReal, ItersInv, Checks, ReadInv, LeadingInv, TermsInv, NoLeaderInv

\* A check that returns leaves nothing behind.
LEMMA ReturnLInv ==
    ASSUME LInv, Return, UNCHANGED <<raft, connected>>, result' \in Servers \cup Terms \cup {-1}
    PROVE  LInv'
  <1>1. NoLeaders \in [Terms -> Seq(Servers)] /\ 0 \in 0..N /\ 0 \in 0..MaxIters
    BY LeadersAssumption DEF NoLeaders
  <1>2. TypeOK'
    BY <1>1 DEF LInv, TypeOK, Return, raft, Checks
  <1>. QED
    BY <1>2, LeadersAssumption DEF Return, LInv, AlarmIsReal, ItersInv, Checks, ReadInv, LeadingInv, TermsInv, NoLeaderInv

\* checkOneLeader() asks server i.
LEMMA ReadLInv ==
    ASSUME LInv, Read PROVE LInv'
  <1>0. /\ TypeOK /\ RecordedInv /\ SteadyInv
        /\ steady \subseteq Leading /\ Leading \subseteq led
        /\ i \in Nat /\ i < N /\ N \in Nat /\ i' = i + 1 /\ pc = "read"
        /\ UNCHANGED <<term, leads, connected, pc, iters, result, led, steady>>
    BY LeadersAssumption DEF LInv, Read, TypeOK, ReadInv, LeadingInv, raft, history
  <1>1. i \in Servers /\ i' \in 0..N /\ term[i] \in Terms
    BY <1>0 DEF Servers, TypeOK
  <1>2. \A t \in Terms : leaders[t] \in Seq(Servers)
    BY <1>0 DEF TypeOK
  <1>5. \A t \in Terms : \A k \in 1..Len(leaders[t]) : leaders[t][k] \in Nat
    BY <1>0 DEF RecordedInv, TypeOK, Servers
  <1>6. \A t \in Terms : \A k \in 1..Len(leaders[t]) : leaders[t][k] < i
    BY <1>0 DEF RecordedInv
  <1>7. i \in Nat
    BY <1>0
  <1>3. CASE i \in connected /\ leads[i]
    <2> DEFINE u == term[i]
               m == Len(leaders[u])
    <2>1. leaders' = [leaders EXCEPT ![u] = Append(@, i)]
      BY <1>3 DEF Read, Record
    <2>2. leaders' \in [Terms -> Seq(Servers)]
      BY <1>0, <1>1, <1>2, <2>1 DEF TypeOK
    <2>3. \A t \in Terms : t # u => leaders'[t] = leaders[t]
      BY <1>0, <2>1 DEF TypeOK
    <2>4. /\ Len(leaders'[u]) = m + 1 /\ leaders'[u][m + 1] = i /\ m \in Nat
          /\ \A k \in 1..m : leaders'[u][k] = leaders[u][k]
      BY <1>0, <1>1, <1>2, <2>1 DEF TypeOK
    <2>5. <<i, u>> \in led
      BY <1>0, <1>1, <1>3 DEF Leading
    <2>6. \A t \in Terms : \A k \in 1..Len(leaders[t]) :
              leaders[t][k] \in Nat /\ leaders[t][k] < i /\ leaders[t][k] < i + 1
      BY <1>5, <1>6, <1>7
    <2>7. RecordedInv'
      <3> SUFFICES ASSUME NEW t \in Terms, NEW k \in 1..Len(leaders'[t])
                   PROVE  /\ leaders'[t][k] \in connected /\ leaders'[t][k] < i + 1
                          /\ <<leaders'[t][k], t>> \in led
                          /\ \A l \in 1..(k - 1) : leaders'[t][l] < leaders'[t][k]
        BY <1>0 DEF RecordedInv
      <3>1. CASE t # u
        BY <1>0, <2>3, <2>6, <3>1 DEF RecordedInv
      <3>2. CASE t = u /\ k \in 1..m
        <4>1. \A l \in 1..(k - 1) : l \in 1..m
          BY <2>4, <3>2
        <4>. QED
          BY <1>0, <1>1, <2>4, <2>6, <3>2, <4>1 DEF RecordedInv
      <3>3. CASE t = u /\ k = m + 1
        <4>1. \A l \in 1..(k - 1) : l \in 1..m
          BY <2>4, <3>3
        <4>. QED
          <5>1. leaders'[t][k] = i /\ i < i + 1
            BY <1>0, <2>4, <3>3
          <5>2. \A l \in 1..(k - 1) : leaders'[t][l] = leaders[u][l] /\ leaders[u][l] < i
            BY <1>1, <2>4, <2>6, <3>3, <4>1
          <5>. QED
            BY <1>3, <2>5, <3>3, <5>1, <5>2
      <3>4. t = u => k \in 1..m \/ k = m + 1
        BY <2>4
      <3>. QED
        BY <3>1, <3>2, <3>3, <3>4
    <2>8. SteadyInv'
      <3> SUFFICES ASSUME NEW s \in Servers, NEW t \in Terms, <<s, t>> \in steady, s < i + 1
                   PROVE  \E k \in 1..Len(leaders'[t]) : leaders'[t][k] = s
        BY <1>0 DEF SteadyInv
      <3>1. CASE s < i
        <4>1. PICK k \in 1..Len(leaders[t]) : leaders[t][k] = s
          BY <1>0, <3>1 DEF SteadyInv
        <4>2. k \in 1..Len(leaders'[t]) /\ leaders'[t][k] = s
          BY <2>3, <2>4, <4>1
        <4>. QED
          BY <4>2
      <3>2. CASE s = i
        <4>1. t = u
          BY <1>0, <3>2 DEF Leading
        <4>2. m + 1 \in 1..Len(leaders'[t]) /\ leaders'[t][m + 1] = s
          BY <2>4, <3>2, <4>1
        <4>. QED
          BY <4>2
      <3>3. s < i \/ s = i
        BY <1>0 DEF Servers
      <3>. QED
        BY <3>1, <3>2, <3>3
    <2>. QED
      BY <1>0, <1>1, <2>2, <2>7, <2>8
      DEF LInv, TypeOK, AlarmIsReal, ItersInv, Checks, ReadInv, LeadingInv, Leading, TermsInv, NoLeaderInv
  <1>4. CASE ~(i \in connected /\ leads[i])
    <2>1. leaders' = leaders
      BY <1>4 DEF Read
    <2>2. \A t \in Terms : \A k \in 1..Len(leaders[t]) : leaders[t][k] < i + 1
      BY <1>5, <1>6, <1>7
    <2>3. RecordedInv'
      BY <1>0, <2>1, <2>2 DEF RecordedInv
    <2>4. \A s \in Servers, t \in Terms : <<s, t>> \in steady /\ s < i + 1 => s < i
      BY <1>0, <1>4 DEF Leading, Servers
    <2>5. SteadyInv'
      BY <1>0, <2>1, <2>4 DEF SteadyInv
    <2>. QED
      BY <1>0, <1>1, <2>1, <2>3, <2>5
      DEF LInv, TypeOK, AlarmIsReal, ItersInv, Checks, ReadInv, LeadingInv, Leading, TermsInv, NoLeaderInv
  <1>. QED
    BY <1>3, <1>4

\* Two servers recorded for a term have led it.
LEMMA ManyReal ==
    ASSUME LInv, pc = "read", ManyLeaders
    PROVE  \E p, q \in led : p[1] # q[1] /\ p[2] = q[2] /\ {p[1], q[1]} \subseteq connected
  <1>1. PICK t \in Terms : Len(leaders[t]) > 1
    BY DEF ManyLeaders, Known
  <1>2. leaders[t] \in Seq(Servers) /\ Len(leaders[t]) \in Nat
    BY DEF LInv, TypeOK
  <1> DEFINE a == leaders[t][1]
             b == leaders[t][2]
  <1>3. 1 \in 1..Len(leaders[t]) /\ 2 \in 1..Len(leaders[t]) /\ 1 \in 1..(2 - 1)
    BY <1>1, <1>2
  <1>4. a \in connected /\ b \in connected /\ <<a, t>> \in led /\ <<b, t>> \in led /\ a < b
    BY <1>3 DEF LInv, ReadInv, RecordedInv
  <1>5. a # b
    <2>1. a \in Servers /\ b \in Servers
      BY <1>2, <1>3, ElementOfSeq
    <2>. QED
      BY <1>4, <2>1 DEF Servers
  <1>. QED
    BY <1>4, <1>5

\* What Found and NewestLeader need of the term with the newest leader.
LEMMA LastTermFacts ==
    ASSUME LInv, Known # {}
    PROVE  /\ LastTerm \in Terms /\ \A u \in Known : u <= LastTerm
           /\ 1 \in 1..Len(leaders[LastTerm]) /\ leaders[LastTerm][1] \in Servers
  <1>1. \E t \in Known : \A u \in Known : u <= t
    BY Greatest DEF Known
  <1>2. LastTerm \in Known /\ \A u \in Known : u <= LastTerm
    BY <1>1 DEF LastTerm
  <1>3. LastTerm \in Terms /\ leaders[LastTerm] \in Seq(Servers) /\ leaders[LastTerm] # <<>>
    BY <1>2 DEF Known, LInv, TypeOK
  <1>4. 1 \in 1..Len(leaders[LastTerm])
    BY <1>3, EmptySeq
  <1>5. leaders[LastTerm][1] \in Servers
    BY <1>3, <1>4, ElementOfSeq
  <1>. QED
    BY <1>2, <1>3, <1>4, <1>5

\* The questions of the three checks preserve the invariant.
LEMMA CheckLInv == LInv /\ CheckNext => LInv'
  <1> SUFFICES ASSUME LInv, CheckNext PROVE LInv'
    OBVIOUS
  <1>0. TypeOK /\ leaders \in [Terms -> Seq(Servers)] /\ NoLeaders \in [Terms -> Seq(Servers)]
    BY DEF LInv, TypeOK, NoLeaders
  <1> USE DEF raft, history
  <1>1. ASSUME NEW S \in SUBSET Servers, Reconnect(S) PROVE LInv'
    BY <1>1 DEF Reconnect, LInv, TypeOK, AlarmIsReal, ItersInv, Checks, ReadInv, LeadingInv, TermsInv, NoLeaderInv
  <1>2. CASE CheckOneLeader
    BY <1>2 DEF CheckOneLeader, LInv, TypeOK, AlarmIsReal, ItersInv, Checks, ReadInv, LeadingInv,
                TermsInv, NoLeaderInv
  <1>3. CASE Wake
    <2>1. pc \in {"idle", "sleep"} /\ FromFirst("read") /\ leaders' = NoLeaders /\ UNCHANGED <<raft, connected, iters>>
          /\ result' = result
      BY <1>3 DEF Wake
    <2>. QED
      BY <1>0, <2>1, FirstLInv
  <1>4. CASE Read
    BY <1>4, ReadLInv
  <1>5. CASE TooMany
    <2>1. /\ pc' = "manyleaders" /\ pc = "read" /\ ManyLeaders
          /\ UNCHANGED <<term, leads, connected, iters, i, leaders, result, led, steady>>
      BY <1>5 DEF TooMany, Fail
    <2>2. AlarmIsReal'
      BY <2>1, ManyReal DEF AlarmIsReal
    <2>. QED
      BY <2>1, <2>2 DEF LInv, TypeOK, ItersInv, Checks, ReadInv, LeadingInv, TermsInv, NoLeaderInv
  <1>6. CASE Found
    BY <1>6, LastTermFacts, ReturnLInv DEF Found
  <1>7. CASE NoneYet
    <2>1. iters + 1 \in 0..MaxIters
      BY <1>7, LeadersAssumption DEF NoneYet, LInv, TypeOK, ItersInv, Checks
    <2>. QED
      BY <1>7, <2>1 DEF NoneYet, LInv, TypeOK, AlarmIsReal, ItersInv, Checks, ReadInv, LeadingInv,
                        TermsInv, NoLeaderInv
  <1>8. CASE CheckTerms
    <2>1. pc \in {"idle", "sleep"} /\ FromFirst("terms") /\ result' = -1 /\ UNCHANGED <<raft, connected, iters, leaders>>
      BY <1>8 DEF CheckTerms
    <2>. QED
      BY <1>0, <2>1, FirstLInv
  <1>9. CASE AskTerm
    <2>0. /\ pc = "terms" /\ i \in Nat /\ i < N /\ N \in Nat
          /\ UNCHANGED <<term, leads, connected, iters, leaders, led, steady>>
          /\ connected \subseteq Servers /\ i \in Servers
          /\ \A s \in connected : s < i => result \in Terms /\ result <= term[s]
          /\ result \in Terms \cup {-1}
          /\ \A s \in Servers : s < i + 1 => s < i \/ s = i
      BY <1>9, LeadersAssumption DEF AskTerm, Fail, LInv, TypeOK, TermsInv, Servers
    <2>1. CASE i \notin connected
      <3>1. i' = i + 1 /\ pc' = pc /\ result' = result
        BY <1>9, <2>0, <2>1 DEF AskTerm
      <3>2. TermsInv'
        BY <2>0, <2>1, <3>1 DEF TermsInv
      <3>. QED
        BY <2>0, <3>1, <3>2 DEF LInv, TypeOK, AlarmIsReal, ItersInv, Checks, ReadInv, LeadingInv, Leading,
                                NoLeaderInv
    <2>2. CASE i \in connected /\ SameTerm(i)
      <3>1. i' = i + 1 /\ pc' = pc /\ result' = term[i] /\ result \in {-1, term[i]}
        BY <1>9, <2>0, <2>2 DEF AskTerm, SameTerm
      <3>2. term[i] \in Terms /\ term[i] \in Nat /\ -1 \notin Terms
        BY <1>0, <2>0, LeadersAssumption DEF TypeOK, Terms
      <3>3. TermsInv'
        BY <2>0, <3>1, <3>2 DEF TermsInv
      <3>. QED
        BY <2>0, <3>1, <3>2, <3>3 DEF LInv, TypeOK, AlarmIsReal, ItersInv, Checks, ReadInv, LeadingInv, Leading,
                                NoLeaderInv
    <2>3. CASE i \in connected /\ ~SameTerm(i)
      BY <1>9, <2>0, <2>3 DEF AskTerm, Fail, LInv, TypeOK, AlarmIsReal, ItersInv, Checks, ReadInv, LeadingInv,
                              TermsInv, NoLeaderInv
    <2>. QED
      BY <2>1, <2>2, <2>3
  <1>10. CASE TermsAgree
    BY <1>0, <1>10, ReturnLInv DEF TermsAgree, TypeOK
  <1>11. CASE CheckNoLeader
    <2>1. /\ pc = "idle" /\ FromFirst("noleader") /\ result' = result
          /\ UNCHANGED <<raft, connected, iters, leaders>>
      BY <1>11 DEF CheckNoLeader
    <2>. QED
      BY <1>0, <2>1, FirstLInv
  <1>12. CASE AskLeader
    <2>0. /\ pc = "noleader" /\ i \in Nat /\ i < N /\ N \in Nat
          /\ UNCHANGED <<term, leads, connected, iters, leaders, result, led, steady>>
          /\ steady \subseteq Leading
          /\ \A s \in Servers, t \in Terms : <<s, t>> \in steady => s >= i
      BY <1>12, LeadersAssumption
      DEF AskLeader, Fail, LInv, TypeOK, NoLeaderInv, LeadingInv, Servers
    <2>1. CASE Claims(i)
      BY <1>12, <2>0, <2>1 DEF AskLeader, Fail, LInv, TypeOK, AlarmIsReal, ItersInv, Checks, ReadInv, LeadingInv,
                               TermsInv, NoLeaderInv
    <2>2. CASE ~Claims(i)
      <3>1. i' = i + 1 /\ pc' = pc
        BY <1>12, <2>2 DEF AskLeader
      <3>2. \A s \in Servers, t \in Terms : <<s, t>> \in steady => s # i
        BY <2>0, <2>2 DEF Claims, Leading
      <3>3. NoLeaderInv'
        BY <2>0, <3>1, <3>2 DEF NoLeaderInv, Servers
      <3>. QED
        BY <2>0, <3>1, <3>3 DEF LInv, TypeOK, AlarmIsReal, ItersInv, Checks, ReadInv, LeadingInv, Leading,
                                TermsInv
    <2>. QED
      BY <2>1, <2>2
  <1>13. CASE NobodyClaims
    BY <1>0, <1>13, ReturnLInv DEF NobodyClaims, TypeOK
  <1>. QED
    BY <1>1, <1>2, <1>3, <1>4, <1>5, <1>6, <1>7, <1>8, <1>9, <1>10, <1>11, <1>12, <1>13
    DEF CheckNext

-----------------------------------------------------------------------------
\* Every step of a check and every election keeps the inductive invariant.
LEMMA NextLInv == LInv /\ [Next]_vars => LInv'
  <1> SUFFICES ASSUME LInv, [Next]_vars PROVE LInv'
    OBVIOUS
  <1>1. CASE UNCHANGED vars
    BY <1>1 DEF vars, raft, history, LInv, TypeOK, AlarmIsReal, ItersInv, ReadInv, RecordedInv,
                SteadyInv, LeadingInv, Leading, TermsInv, NoLeaderInv
  <1>. QED
    BY <1>1, CheckLInv, ElectLInv DEF Next

\* The inductive invariant holds in every reachable state.
THEOREM LeadersInvariance == Spec => []LInv
  BY InitLInv, NextLInv, PTL DEF Spec

\* Types are kept by the checks while elections go on.
THEOREM LeadersTypeCorrect == Spec => []TypeOK
  <1>1. LInv => TypeOK
    BY DEF LInv
  <1>. QED
    BY <1>1, LeadersInvariance, PTL

\* checkOneLeader() raises no false alarm (raft/config.go:307-321).
THEOREM AlarmCorrect == Spec => []AlarmIsReal
  <1>1. LInv => AlarmIsReal
    BY DEF LInv
  <1>. QED
    BY <1>1, LeadersInvariance, PTL

\* How a step can end a check.
LEMMA Ends ==
    ASSUME LInv, Next, pc' = "idle"
    PROVE  /\ pc = "read" => Found
           /\ pc = "terms" => TermsAgree
           /\ pc = "noleader" => NobodyClaims
  <1>1. CASE pc = "idle"
    BY <1>1
  <1>2. CASE pc' = pc
    BY <1>2
  <1>3. pc # "idle" /\ pc' # pc => Found \/ TermsAgree \/ NobodyClaims
    <2>1. pc' # pc => ~Read /\ ~TooMany /\ ~NoneYet /\ ~Wake
      BY DEF Read, TooMany, NoneYet, Wake, FromFirst, Fail
    <2>2. pc' # pc => ~AskTerm /\ ~AskLeader
      BY DEF AskTerm, AskLeader, Fail
    <2>3. pc # "idle" => ~CheckOneLeader /\ ~CheckTerms /\ ~CheckNoLeader
                         /\ \A S : ~Reconnect(S)
      BY DEF CheckOneLeader, CheckTerms, CheckNoLeader, Reconnect
    <2>4. \A s, t, l : Elect(s, t, l) => pc' = pc
      BY DEF Elect
    <2>. QED
      BY <2>1, <2>2, <2>3, <2>4 DEF Next, CheckNext
  <1>. QED
    BY <1>1, <1>2, <1>3 DEF Found, TermsAgree, NobodyClaims

\* checkOneLeader() returns the leader of the newest steady term and misses no
\* split vote (raft/config.go:307-328).
THEOREM NewestCorrect == Spec => NewestLeader
  <1> DEFINE Step == pc = "read" /\ pc' = "idle" =>
                         /\ \E p \in led : p[1] = result' /\ \A q \in steady : q[2] <= p[2]
                         /\ \A p, q \in steady : p[2] = q[2] => p = q
  <1>1. LInv /\ [Next]_vars => [Step]_vars
    <2> SUFFICES ASSUME LInv, Next, pc = "read", pc' = "idle"
                 PROVE  /\ \E p \in led : p[1] = result' /\ \A q \in steady : q[2] <= p[2]
                        /\ \A p, q \in steady : p[2] = q[2] => p = q
      BY DEF vars
    <2>1. i = N /\ ~ManyLeaders /\ Known # {} /\ result' = leaders[LastTerm][1]
      BY Ends DEF Found
    <2>2. ASSUME NEW s, NEW t, <<s, t>> \in steady
          PROVE  t \in Known /\ leaders[t][1] = s
      <3>1. s \in Servers /\ t \in Terms /\ s < i
        BY <2>1, <2>2, LeadersAssumption DEF LInv, TypeOK, Servers
      <3>2. PICK k \in 1..Len(leaders[t]) : leaders[t][k] = s
        BY <2>2, <3>1 DEF LInv, ReadInv, SteadyInv
      <3>3. leaders[t] \in Seq(Servers) /\ Len(leaders[t]) \in Nat
        BY <3>1 DEF LInv, TypeOK
      <3>4. leaders[t] # <<>>
        BY <3>2, <3>3, EmptySeq
      <3>5. t \in Known /\ ~(Len(leaders[t]) > 1)
        BY <2>1, <3>1, <3>4 DEF Known, ManyLeaders
      <3>6. k = 1
        BY <3>2, <3>3, <3>5
      <3>. QED
        BY <3>2, <3>5, <3>6
    <2>3. steady \subseteq Servers \X Terms
      BY DEF LInv, TypeOK
    <2>4. \A q \in steady : q = <<q[1], q[2]>> /\ q[2] \in Known /\ leaders[q[2]][1] = q[1]
      BY <2>2, <2>3
    <2>5. <<leaders[LastTerm][1], LastTerm>> \in led
      BY <2>1, LastTermFacts DEF LInv, ReadInv, RecordedInv
    <2>6. \A q \in steady : q[2] <= LastTerm
      BY <2>1, <2>4, LastTermFacts
    <2>7. \A p, q \in steady : p[2] = q[2] => p = q
      BY <2>4
    <2>. QED
      BY <2>1, <2>5, <2>6, <2>7
  <1>. QED
    BY <1>1, LeadersInvariance, PTL DEF Spec, NewestLeader

\* checkTerms() returns a term every connected server has reached
\* (raft/config.go:334-348).
THEOREM TermReachedCorrect == Spec => TermReached
  <1> DEFINE Step == pc = "terms" /\ pc' = "idle" => \A s \in connected : result' <= term[s]
  <1>1. LInv /\ [Next]_vars => [Step]_vars
    <2> SUFFICES ASSUME LInv, Next, pc = "terms", pc' = "idle", NEW s \in connected
                 PROVE  result' <= term[s]
      BY DEF vars
    <2>1. i = N /\ result' = result
      BY Ends DEF TermsAgree
    <2>2. s < i
      BY <2>1, LeadersAssumption DEF LInv, TypeOK, Servers
    <2>. QED
      BY <2>1, <2>2 DEF LInv, TermsInv
  <1>. QED
    BY <1>1, LeadersInvariance, PTL DEF Spec, TermReached

\* checkNoLeader() overlooks no steady leader (raft/config.go:350-360).
THEOREM NoLeaderCorrect == Spec => NoLeaderMissed
  <1> DEFINE Step == pc = "noleader" /\ pc' = "idle" => steady = {}
  <1>1. LInv /\ [Next]_vars => [Step]_vars
    <2> SUFFICES ASSUME LInv, Next, pc = "noleader", pc' = "idle", steady # {}
                 PROVE  FALSE
      BY DEF vars
    <2>1. i = N
      BY Ends DEF NobodyClaims
    <2>2. PICK s \in Servers, t \in Terms : <<s, t>> \in steady
      <3>1. steady \subseteq Servers \X Terms
        BY DEF LInv, TypeOK
      <3>. QED
        BY <3>1
    <2>3. s >= i
      BY <2>2 DEF LInv, NoLeaderInv
    <2>. QED
      BY <2>1, <2>3, LeadersAssumption DEF Servers
  <1>. QED
    BY <1>1, LeadersInvariance, PTL DEF Spec, NoLeaderMissed
=============================================================================
