---------------------------- MODULE RaftLeaders ----------------------------
(***************************************************************************)
(* How src/raft/config.go observes elections: checkOneLeader(),            *)
(* checkTerms() and checkNoLeader() ask one server after the other for its *)
(* state, while the servers go on holding elections.                       *)
(*                                                                         *)
(* Raft is a stub in this repository and external here.  A server's term   *)
(* never decreases; who leads which term is left open, since a wrong       *)
(* election is what the checks are there to find.                          *)
(***************************************************************************)
EXTENDS Integers, Sequences, FiniteSets

CONSTANTS
    N,         \* cfg.n
    MaxTerm,   \* bound on the terms GetState() returns
    MaxIters   \* rounds of checkOneLeader(); 10 in the code

Servers == 0..(N - 1)
Terms == 0..MaxTerm

ASSUME LeadersAssumption ==
    /\ N \in Nat \ {0}
    /\ MaxTerm \in Nat
    /\ MaxIters \in Nat \ {0}

VARIABLES
    term, leads,  \* what GetState() of a server would return now
    connected,    \* cfg.connected
    pc,           \* which check is running, or how the test failed
    iters,        \* checkOneLeader()'s round
    i,            \* the next server to ask
    leaders,      \* checkOneLeader()'s map: for a term, the servers in order
    result,       \* the last value returned; checkTerms() collects it here
    led, steady   \* history: who has led which term at some time since the first
                  \* server was asked in this round, and who has all the time

raft == <<term, leads>>
history == <<led, steady>>
vars == <<raft, connected, pc, iters, i, leaders, result, history>>

Checks == {"sleep", "read", "terms", "noleader"}

\* Every variable has its type.
TypeOK ==
    /\ term \in [Servers -> Terms]
    /\ leads \in [Servers -> BOOLEAN]
    /\ connected \in SUBSET Servers
    /\ pc \in Checks \cup {"idle", "manyleaders", "none", "disagree", "claims"}
    /\ iters \in 0..MaxIters
    /\ i \in 0..N
    /\ leaders \in [Terms -> Seq(Servers)]
    /\ result \in Servers \cup Terms \cup {-1}
    /\ led \in SUBSET (Servers \X Terms)
    /\ steady \in SUBSET (Servers \X Terms)

NoLeaders == [t \in Terms |-> <<>>]

Init ==
    /\ term \in [Servers -> Terms]
    /\ leads = [s \in Servers |-> FALSE]
    /\ connected = Servers
    /\ pc = "idle" /\ iters = 0 /\ i = 0 /\ leaders = NoLeaders /\ result = -1
    /\ led = {} /\ steady = {}

-----------------------------------------------------------------------------
\* External: a server moves to a later term, wins it or steps down.
Elect(s, t, l) ==
    /\ t >= term[s]
    /\ term' = [term EXCEPT ![s] = t]
    /\ leads' = [leads EXCEPT ![s] = l]
    /\ led' = IF l /\ s \in connected /\ pc \in Checks THEN led \cup {<<s, t>>} ELSE led
    /\ steady' = {p \in steady : p[1] = s => l /\ p[2] = t}
    /\ UNCHANGED <<connected, pc, iters, i, leaders, result>>

\* Between checks the test disconnects, crashes and reconnects servers.
Reconnect(S) ==
    /\ pc = "idle"
    /\ connected' = S
    /\ UNCHANGED <<raft, pc, iters, i, leaders, result, history>>

Leading == {p \in connected \X Terms : leads[p[1]] /\ term[p[1]] = p[2]}

\* A check is about to ask the first server.
FromFirst(check) ==
    /\ pc' = check /\ i' = 0
    /\ led' = Leading /\ steady' = Leading

\* A check is over.  (Its locals are gone.)
Return ==
    /\ pc' = "idle" /\ iters' = 0 /\ i' = 0 /\ leaders' = NoLeaders
    /\ led' = {} /\ steady' = {}

Fail(how) == pc' = how /\ UNCHANGED <<iters, i, leaders, result, history>>

-----------------------------------------------------------------------------
(***************************************************************************)
(* checkOneLeader                                                          *)
(***************************************************************************)
CheckOneLeader ==
    /\ pc = "idle" /\ pc' = "sleep"
    /\ result' = -1
    /\ UNCHANGED <<raft, connected, iters, i, leaders, history>>

\* After the sleep of a round, with a new map.
Wake ==
    /\ pc = "sleep" /\ FromFirst("read")
    /\ leaders' = NoLeaders
    /\ UNCHANGED <<raft, connected, iters, result>>

Record(s) == [leaders EXCEPT ![term[s]] = Append(@, s)]

Read ==
    /\ pc = "read" /\ i < N /\ i' = i + 1
    /\ leaders' = IF i \in connected /\ leads[i] THEN Record(i) ELSE leaders
    /\ UNCHANGED <<raft, connected, pc, iters, result, history>>

Known == {t \in Terms : leaders[t] # <<>>}

\* Mutant: the length of the map is compared, not that of its element, which
\* the loop gives the same name.
ManyTerms == Cardinality(Known) > 1

ManyLeaders == \E t \in Known : Len(leaders[t]) > 1

\* Mutant: the comparison is the wrong way round.
LastTermLowest == CHOOSE t \in Known : \A u \in Known : t <= u

\* lastTermWithLeader
LastTerm == CHOOSE t \in Known : \A u \in Known : u <= t

TooMany ==
    /\ pc = "read" /\ i = N /\ ManyLeaders
    /\ Fail("manyleaders")
    /\ UNCHANGED <<raft, connected>>

Found ==
    /\ pc = "read" /\ i = N /\ ~ManyLeaders /\ Known # {}
    /\ result' = leaders[LastTerm][1]
    /\ Return
    /\ UNCHANGED <<raft, connected>>

NoneYet ==
    /\ pc = "read" /\ i = N /\ Known = {}
    /\ iters' = iters + 1
    /\ pc' = IF iters' < MaxIters THEN "sleep" ELSE "none"
    /\ UNCHANGED <<raft, connected, i, leaders, result, history>>

-----------------------------------------------------------------------------
(***************************************************************************)
(* checkTerms and checkNoLeader                                            *)
(***************************************************************************)
CheckTerms ==
    /\ pc = "idle" /\ FromFirst("terms")
    /\ result' = -1
    /\ UNCHANGED <<raft, connected, iters, leaders>>

\* Mutant: each term is compared with nothing.
SameTermAlways(s) == TRUE

SameTerm(s) == result \in {-1, term[s]}

AskTerm ==
    /\ pc = "terms" /\ i < N
    /\ \/ /\ i \notin connected
          /\ i' = i + 1 /\ UNCHANGED <<pc, iters, leaders, result, history>>
       \/ /\ i \in connected /\ SameTerm(i)
          /\ i' = i + 1 /\ result' = term[i]
          /\ UNCHANGED <<pc, iters, leaders, history>>
       \/ i \in connected /\ ~SameTerm(i) /\ Fail("disagree")
    /\ UNCHANGED <<raft, connected>>

TermsAgree ==
    /\ pc = "terms" /\ i = N /\ Return
    /\ UNCHANGED <<raft, connected, result>>

CheckNoLeader ==
    /\ pc = "idle" /\ FromFirst("noleader")
    /\ UNCHANGED <<raft, connected, iters, leaders, result>>

\* Mutant: the first server is not asked.
ClaimsAfterFirst(s) == s > 0 /\ s \in connected /\ leads[s]

Claims(s) == s \in connected /\ leads[s]

AskLeader ==
    /\ pc = "noleader" /\ i < N
    /\ IF Claims(i) THEN Fail("claims")
                    ELSE i' = i + 1 /\ UNCHANGED <<pc, iters, leaders, result, history>>
    /\ UNCHANGED <<raft, connected>>

NobodyClaims ==
    /\ pc = "noleader" /\ i = N /\ Return
    /\ UNCHANGED <<raft, connected, result>>

-----------------------------------------------------------------------------
CheckNext ==
    \/ \E S \in SUBSET Servers : Reconnect(S)
    \/ CheckOneLeader \/ Wake \/ Read \/ TooMany \/ Found \/ NoneYet
    \/ CheckTerms \/ AskTerm \/ TermsAgree
    \/ CheckNoLeader \/ AskLeader \/ NobodyClaims

Next ==
    \/ CheckNext
    \/ \E s \in Servers, t \in Terms, l \in BOOLEAN : Elect(s, t, l)

Spec == Init /\ [][Next]_vars

-----------------------------------------------------------------------------
(***************************************************************************)
(* Properties                                                              *)
(***************************************************************************)

\* "term %d has %d (>1) leaders" is no false alarm: two connected servers have
\* led that term in the round just read, however elections went on between the
\* questions (raft/config.go:307-321).
AlarmIsReal ==
    pc = "manyleaders" =>
        \E p, q \in led : p[1] # q[1] /\ p[2] = q[2] /\ {p[1], q[1]} \subseteq connected

\* The leader checkOneLeader() returns has led, in the round just read, a term
\* that no server leading throughout the round has passed; two servers leading
\* one term throughout the round are never missed (raft/config.go:307-328).
NewestLeader ==
    [][pc = "read" /\ pc' = "idle" =>
          /\ \E p \in led : p[1] = result' /\ \A q \in steady : q[2] <= p[2]
          /\ \A p, q \in steady : p[2] = q[2] => p = q]_vars

\* checkTerms() returns a term that every connected server has reached, although
\* earlier servers may have left it since ("check that everyone agrees on the
\* term", raft/config.go:334-348).
TermReached ==
    [][pc = "terms" /\ pc' = "idle" => \A s \in connected : result' <= term[s]]_vars

\* checkNoLeader() overlooks no connected server that leads throughout the check
\* (raft/config.go:350-360).
NoLeaderMissed ==
    [][pc = "noleader" /\ pc' = "idle" => steady = {}]_vars
=============================================================================
