----------------------------- MODULE RaftConfig -----------------------------
(***************************************************************************)
(* The cluster of src/raft/config.go: servers are crashed, restarted,      *)
(* connected and disconnected while RPCs are in progress.  Unlike kvraft's *)
(* config, it remembers which servers are connected, start1 crashes the    *)
(* server first, and the test holds cfg.mu for parts of crash1 and start1  *)
(* only.                                                                   *)
(*                                                                         *)
(* crash1 and start1 supersede a Persister several times before the last   *)
(* one is given to an instance.  A Persister no instance was given is only *)
(* known to cfg.saved, so that superseding it is an update in place:       *)
(* saved[i] changes only when the Persister belongs to an instance.        *)
(***************************************************************************)
EXTENDS Cluster

VARIABLES
    connected,  \* cfg.connected
    starting    \* was crash1 called by start1?

raftVars == <<vars, cfgVars, svcVars, connected, starting>>

RaftSteps == {"idle", "delete", "copy", "kill", "ends", "make", "add"}

\* Every variable has its type.
RaftTypeOK ==
    /\ TypeOK
    /\ saved \in [ServerNames -> Gens]
    /\ running \in [ServerNames -> BOOLEAN]
    /\ endnames \in [ServerNames -> Gens]
    /\ step \in RaftSteps
    /\ who \in ServerNames
    /\ raftstate \in [Objs -> SUBSET Calls]
    /\ snapshot \in [Objs -> SUBSET Calls]
    /\ started \in SUBSET Objs
    /\ mem \in [Objs -> SUBSET Calls]
    /\ connected \in [ServerNames -> BOOLEAN]
    /\ starting \in BOOLEAN

Latest(i) == <<i, saved[i]>>

-----------------------------------------------------------------------------
(***************************************************************************)
(* connect and disconnect                                                  *)
(***************************************************************************)
Connected == {j \in ServerNames : connected[j]}

\* The tests never connect a crashed server.
connect(i) ==
    /\ step = "idle" /\ running[i]
    /\ connected' = [connected EXCEPT ![i] = TRUE]
    /\ enabled' = enabled \cup Links({i}, Connected \cup {i})
    /\ UNCHANGED <<reliable, ends, connections, servers, callVars, cfgVars, svcVars,
                   starting>>

Detach(i) ==
    /\ connected' = [connected EXCEPT ![i] = FALSE]
    /\ enabled' = enabled \ Links({i}, ServerNames)

disconnect(i) ==
    /\ step = "idle"
    /\ Detach(i)
    /\ UNCHANGED <<reliable, ends, connections, servers, callVars, cfgVars, svcVars,
                   starting>>

-----------------------------------------------------------------------------
(***************************************************************************)
(* crash1, called by the test or by start1                                 *)
(***************************************************************************)

\* Bound: a server with an instance is crashed only if there is a Persister
\* left.
Crash(i, restart) ==
    /\ step = "idle" /\ step' = "delete" /\ who' = i
    /\ running[i] => saved[i] + 1 \in Gens
    /\ starting' = restart
    /\ Detach(i)
    /\ UNCHANGED <<reliable, ends, connections, servers, callVars, saved, running,
                   endnames, svcVars>>

crash1(i) == Crash(i, FALSE)

CrashDelete ==
    /\ step = "delete" /\ step' = "copy"
    /\ DeleteServer(who)
    /\ UNCHANGED <<saved, running, endnames, who, svcVars, connected, starting>>

\* Mutants: the instance's own Persister is kept; the new one starts empty.
SupersedeNot(i) == UNCHANGED <<saved, diskVars>>
SupersedeEmpty(i) ==
    IF Latest(i) \notin started THEN UNCHANGED <<saved, diskVars>>
    ELSE saved' = [saved EXCEPT ![i] = @ + 1] /\ UNCHANGED diskVars

\* cfg.saved[i] = cfg.saved[i].Copy()
Supersede(i) ==
    IF Latest(i) \notin started THEN UNCHANGED <<saved, diskVars>>
    ELSE LET o == <<i, saved[i] + 1>> IN
         /\ saved' = [saved EXCEPT ![i] = @ + 1]
         /\ raftstate' = [raftstate EXCEPT ![o] = raftstate[Latest(i)]]
         /\ snapshot' = [snapshot EXCEPT ![o] = snapshot[Latest(i)]]

CrashCopy ==
    /\ step = "copy" /\ step' = "kill"
    /\ Supersede(who)
    /\ UNCHANGED <<vars, running, endnames, who, started, mem, connected, starting>>

\* rf.Kill() does not stop the instance at once, nor its handlers.  Then the
\* Persister is replaced by one that has the raft state only.
CrashKill ==
    /\ step = "kill" /\ step' = IF starting THEN "ends" ELSE "idle"
    /\ running' = [running EXCEPT ![who] = FALSE]
    /\ snapshot' = [snapshot EXCEPT ![Latest(who)] = {}]
    /\ UNCHANGED <<vars, saved, endnames, who, raftstate, started, mem, connected,
                   starting>>

-----------------------------------------------------------------------------
(***************************************************************************)
(* start1                                                                  *)
(***************************************************************************)
start1(i) == Crash(i, TRUE)

\* Mutant: the ends are named as those of the previous instance.
StartEndsKept ==
    /\ step = "ends" /\ step' = "make"
    /\ Supersede(who)
    /\ UNCHANGED <<vars, running, endnames, who, started, mem, connected, starting>>

\* A fresh set of ends, and a fresh Persister.
StartEnds ==
    /\ step = "ends" /\ step' = "make"
    /\ endnames' = [endnames EXCEPT ![who] = saved[who]]
    /\ MakeEnds(ServerEnds(who, saved[who]), 3, {})
    /\ Supersede(who)
    /\ UNCHANGED <<reliable, servers, callVars, running, who, started, mem, connected,
                   starting>>

\* Make reads the Persister; then cfg.rafts is set.
StartMake ==
    LET o == Latest(who) IN
    /\ step = "make" /\ step' = "add"
    /\ started' = started \cup {o}
    /\ mem' = [mem EXCEPT ![o] = Stored(o)]
    /\ running' = [running EXCEPT ![who] = TRUE]
    /\ UNCHANGED <<vars, saved, endnames, who, diskVars, connected, starting>>

StartAdd ==
    /\ step = "add" /\ step' = "idle"
    /\ AddServer(who, Latest(who))
    /\ UNCHANGED <<saved, running, endnames, who, svcVars, connected, starting>>

-----------------------------------------------------------------------------
(***************************************************************************)
(* The specification.  The initial state is the one make_config leaves.    *)
(***************************************************************************)
RaftInit ==
    /\ reliable \in BOOLEAN
    /\ ends = UNION {ServerEnds(i, 0) : i \in ServerNames}
    /\ enabled = ends
    /\ connections = [e \in Ends |-> IF e \in ends THEN e[3] ELSE Nil]
    /\ servers = [i \in ServerNames |-> <<i, 0>>]
    /\ count = 0 /\ done = FALSE /\ netUp = TRUE
    /\ NoCalls
    /\ saved = [i \in ServerNames |-> 0]
    /\ running = [i \in ServerNames |-> TRUE]
    /\ endnames = [i \in ServerNames |-> 0]
    /\ step = "idle" /\ who = 0
    /\ raftstate = [o \in Objs |-> {}]
    /\ snapshot = [o \in Objs |-> {}]
    /\ started = ServerNames \X {0}
    /\ mem = [o \in Objs |-> {}]
    /\ connected = [i \in ServerNames |-> TRUE]
    /\ starting = FALSE

TestNext ==
    \/ \E i \in ServerNames : connect(i) \/ disconnect(i) \/ crash1(i) \/ start1(i)
    \/ CrashDelete \/ CrashCopy \/ CrashKill
    \/ StartEnds \/ StartMake \/ StartAdd

RaftNext ==
    \/ NetworkNext /\ UNCHANGED <<cfgVars, svcVars, connected, starting>>
    \/ ServiceNext /\ UNCHANGED <<connected, starting>>
    \/ TestNext

RaftSpec == RaftInit /\ [][RaftNext]_raftVars

-----------------------------------------------------------------------------
(***************************************************************************)
(* Properties                                                              *)
(***************************************************************************)

\* The network agrees with cfg.connected: the enabled ends are exactly those
\* that the latest instances of connected servers have to one another, in
\* both directions, and never one of an earlier instance
\* (raft/config.go:141-151, 235-278).
EnabledIffConnected ==
    enabled = {<<i, saved[i], j>> : i \in Connected, j \in Connected}

\* No crash loses an RPC that was acknowledged and whose effect is in the
\* raft state: it is in the Persister that the next Make() is given, unless
\* some instance has moved it to a snapshot (raft/config.go:98, 107-112,
\* 122-126, 153-163).
RaftDurability ==
    \A c \in Calls :
        verdict[c] = "ok" =>
            \/ c \in raftstate[Latest(target[c])]
            \/ \E o \in Objs : c \in snapshot[o]

\* A Persister is written by one instance only: the one that a server's
\* restart will read belongs to its registered instance or to none, so that
\* "old instance doesn't overwrite new instance's persisted state"
\* (raft/config.go:155-156, 106-107).
PersisterNotShared ==
    \A i \in ServerNames :
        Latest(i) \in started =>
            /\ running[i]
            /\ servers[i] \in {Nil, Latest(i)}

\* "shut down a Raft server but save its persistent state"
\* (raft/config.go:98): an acknowledged RPC is in the Persister of the next
\* instance.  When it is in the snapshot, crash1 loses it: lines 122-126
\* replace the Persister by one with the raft state only.
PersistentStateSaved ==
    \A c \in Calls : verdict[c] = "ok" => c \in Stored(Latest(target[c]))
=============================================================================
