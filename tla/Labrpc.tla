------------------------------- MODULE Labrpc -------------------------------
(***************************************************************************)
(* The channel-based RPC network of src/labrpc/labrpc.go.                  *)
(*                                                                         *)
(* A Call() is carried by up to four goroutines: the caller, blocked in    *)
(* ClientEnd.Call; the single network goroutine of MakeNetwork; the        *)
(* processReq goroutine of this request; and the goroutine that runs the   *)
(* RPC handler.  pc[c] is the control point of the first three (they hand  *)
(* the request over to one another), hpc[c] that of the handler goroutine. *)
(* Between any two steps the tester may change the network's tables, which *)
(* processReq reads under rn.mu and goes on using after the unlock.        *)
(*                                                                         *)
(* Left out: what gob does to arguments and replies, byte statistics, and  *)
(* the lengths of delays.  longDelays and longReordering only choose how   *)
(* long a goroutine sleeps, and here every goroutine may be delayed        *)
(* arbitrarily long between two steps.                                     *)
(***************************************************************************)
EXTENDS Naturals

CONSTANTS
    Calls,        \* invocations of ClientEnd.Call
    Ends,         \* names of ClientEnds
    ServerNames,  \* names of servers
    Objs,         \* *Server objects, each made by MakeServer
    Nil

ASSUME NilAssumption == Nil \notin Ends \cup ServerNames \cup Objs

VARIABLES
    reliable,     \* Network.reliable
    ends,         \* keys of Network.ends
    enabled,      \* ends with Network.enabled[e]; a missing key reads as false
    connections,  \* Network.connections; a missing key reads as Nil
    servers,      \* Network.servers; a missing key reads as Nil
    count,        \* Network.count
    done,         \* is Network.done closed?
    netUp,        \* is the network goroutine still running?
    rpcs,         \* Server.count of each server object
    pc,           \* control point of each call
    hpc,          \* control point of its handler goroutine
    endname,      \* reqMsg.endname
    target,       \* processReq's local servername
    server,       \* processReq's local server
    rel,          \* processReq's local reliable
    replyOK,      \* processReq's local replyOK
    drainer,      \* is the goroutine that drains ech running?
    verdict,      \* replyMsg.ok of the reply on its way to replyCh
    executed      \* how often the handler has run

tables  == <<reliable, ends, enabled, connections, servers>>
netVars == <<count, done, netUp, rpcs>>
locals  == <<endname, target, server, rel>>
vars    == <<tables, netVars, pc, hpc, locals, replyOK, drainer, verdict,
             executed>>

-----------------------------------------------------------------------------
(***************************************************************************)
(* Types and the initial state                                             *)
(***************************************************************************)
PCs == {"idle",        \* Call() has not been invoked
        "sending",     \* in the select that sends on e.ch
        "accepted",    \* processReq has started
        "unreachable", \* the timer that simulates an eventual timeout runs
        "routed",      \* the request may be dropped or executed
        "waiting",     \* in the loop that waits for the handler
        "finished",    \* the loop has ended
        "delivering",  \* a reply is on its way to replyCh
        "returned"}    \* Call() has returned

HandlerPCs == {"none", "dispatching", "running", "ran", "replying", "exited"}

Verdicts == {"none", "ok", "fail"}

\* Every variable has its type.
TypeOK ==
    /\ reliable \in BOOLEAN
    /\ ends \in SUBSET Ends
    /\ enabled \in SUBSET Ends
    /\ connections \in [Ends -> ServerNames \cup {Nil}]
    /\ servers \in [ServerNames -> Objs \cup {Nil}]
    /\ count \in Nat
    /\ done \in BOOLEAN
    /\ netUp \in BOOLEAN
    /\ rpcs \in [Objs -> Nat]
    /\ pc \in [Calls -> PCs]
    /\ hpc \in [Calls -> HandlerPCs]
    /\ endname \in [Calls -> Ends \cup {Nil}]
    /\ target \in [Calls -> ServerNames \cup {Nil}]
    /\ server \in [Calls -> Objs \cup {Nil}]
    /\ rel \in [Calls -> BOOLEAN]
    /\ replyOK \in [Calls -> BOOLEAN]
    /\ drainer \in [Calls -> BOOLEAN]
    /\ verdict \in [Calls -> Verdicts]
    /\ executed \in [Calls -> Nat]

\* MakeNetwork with no call in progress.
MakeNetwork ==
    /\ reliable = TRUE
    /\ ends = {}
    /\ enabled = {}
    /\ connections = [e \in Ends |-> Nil]
    /\ servers = [s \in ServerNames |-> Nil]
    /\ count = 0
    /\ done = FALSE
    /\ netUp = TRUE

NoCalls ==
    /\ rpcs = [o \in Objs |-> 0]
    /\ pc = [c \in Calls |-> "idle"]
    /\ hpc = [c \in Calls |-> "none"]
    /\ endname = [c \in Calls |-> Nil]
    /\ target = [c \in Calls |-> Nil]
    /\ server = [c \in Calls |-> Nil]
    /\ rel = [c \in Calls |-> TRUE]
    /\ replyOK = [c \in Calls |-> FALSE]
    /\ drainer = [c \in Calls |-> FALSE]
    /\ verdict = [c \in Calls |-> "none"]
    /\ executed = [c \in Calls |-> 0]

Init == MakeNetwork /\ NoCalls

-----------------------------------------------------------------------------
(***************************************************************************)
(* The caller and the network goroutine                                    *)
(***************************************************************************)
Goto(c, from, to) == pc[c] = from /\ pc' = [pc EXCEPT ![c] = to]

\* e.Call(...) is invoked: build the request, enter the select.
Call(c, e) ==
    /\ e \in ends
    /\ Goto(c, "idle", "sending")
    /\ endname' = [endname EXCEPT ![c] = e]
    /\ UNCHANGED <<tables, netVars, hpc, target, server, rel, replyOK, drainer,
                   verdict, executed>>

\* The network goroutine takes the request off endCh and starts processReq.
AcceptReq(c) ==
    /\ netUp
    /\ Goto(c, "sending", "accepted")
    /\ count' = count + 1
    /\ UNCHANGED <<tables, done, netUp, rpcs, hpc, locals, replyOK, drainer,
                   verdict, executed>>

\* Mutant: Call() learns of the cleanup only from a network goroutine that is
\* still running.
CallNetworkDoneWhileUp(c) ==
    /\ done /\ netUp
    /\ Goto(c, "sending", "returned")
    /\ verdict' = [verdict EXCEPT ![c] = "fail"]
    /\ UNCHANGED <<tables, netVars, hpc, locals, replyOK, drainer, executed>>

\* The whole Network has been destroyed: Call() returns false.
CallNetworkDone(c) ==
    /\ done
    /\ Goto(c, "sending", "returned")
    /\ verdict' = [verdict EXCEPT ![c] = "fail"]
    /\ UNCHANGED <<tables, netVars, hpc, locals, replyOK, drainer, executed>>

\* The network goroutine sees the closed done channel.
NetworkStop ==
    /\ done /\ netUp
    /\ netUp' = FALSE
    /\ UNCHANGED <<tables, count, done, rpcs, pc, hpc, locals, replyOK,
                   drainer, verdict, executed>>

-----------------------------------------------------------------------------
(***************************************************************************)
(* processReq                                                              *)
(***************************************************************************)

\* Mutant: the end's own name is taken for the name of its server (both are
\* interface{} values).
ServernameIsEndname(e) == e

\* readEndnameInfo's results for an end, read in one critical section.
Servername(e) == connections[e]
ServerOf(e) == IF connections[e] = Nil THEN Nil ELSE servers[connections[e]]
Reachable(e) == e \in enabled /\ ServerOf(e) # Nil

ReadEndnameInfo(c) ==
    LET e == endname[c] IN
    /\ Goto(c, "accepted", IF Reachable(e) THEN "routed" ELSE "unreachable")
    /\ target' = [target EXCEPT ![c] = Servername(e)]
    /\ server' = [server EXCEPT ![c] = ServerOf(e)]
    /\ rel' = [rel EXCEPT ![c] = reliable]
    /\ UNCHANGED <<tables, netVars, hpc, endname, replyOK, drainer, verdict,
                   executed>>

\* replyCh <- replyMsg{false, nil} without waiting for a handler.
FailCall(c, from) ==
    /\ Goto(c, from, "returned")
    /\ verdict' = [verdict EXCEPT ![c] = "fail"]
    /\ UNCHANGED <<tables, netVars, hpc, locals, replyOK, drainer, executed>>

\* No reply and eventual timeout.
Unreachable(c) == FailCall(c, "unreachable")

\* Drop the request, return as if timeout.
DropRequest(c) == ~rel[c] /\ FailCall(c, "routed")

\* Start the handler in a goroutine of its own.
StartHandler(c) ==
    /\ Goto(c, "routed", "waiting")
    /\ hpc' = [hpc EXCEPT ![c] = "dispatching"]
    /\ UNCHANGED <<tables, netVars, locals, replyOK, drainer, verdict, executed>>

\* Mutant: only a name without a server counts as dead.
IsServerDeadIfNil(c) == servers[target[c]] = Nil

\* Has the server this call was routed to been deleted or replaced, or the
\* end been disabled?
IsServerDead(c) ==
    \/ endname[c] \notin enabled
    \/ servers[target[c]] # server[c]

\* case reply = <-ech
ReceiveReply(c) ==
    /\ hpc[c] = "replying"
    /\ Goto(c, "waiting", "finished")
    /\ hpc' = [hpc EXCEPT ![c] = "exited"]
    /\ replyOK' = [replyOK EXCEPT ![c] = TRUE]
    /\ UNCHANGED <<tables, netVars, locals, drainer, verdict, executed>>

\* Mutants: nobody is left behind to drain ech; the request is sent again to
\* whatever server the name has now.
GiveUpNoDrain(c) ==
    /\ Goto(c, "waiting", "finished")
    /\ IsServerDead(c)
    /\ UNCHANGED <<tables, netVars, hpc, locals, replyOK, drainer, verdict,
                   executed>>

GiveUpRetry(c) ==
    /\ Goto(c, "waiting", "accepted")
    /\ IsServerDead(c)
    /\ UNCHANGED <<tables, netVars, hpc, locals, replyOK, drainer, verdict,
                   executed>>

\* case <-time.After: give up on a dead server, leaving a goroutine behind
\* to drain ech.  (When the server is not dead the loop goes round.)
GiveUp(c) ==
    /\ Goto(c, "waiting", "finished")
    /\ IsServerDead(c)
    /\ drainer' = [drainer EXCEPT ![c] = TRUE]
    /\ UNCHANGED <<tables, netVars, hpc, locals, replyOK, verdict, executed>>

\* Mutant: a request that was given up is answered by the final check alone.
RepliesNoReplyOK(c) ==
    IF IsServerDead(c) THEN {"fail"}
    ELSE {"ok"} \cup (IF rel[c] THEN {} ELSE {"fail"})

\* The reply the rest of processReq may choose once the loop has ended: an
\* error if the handler was given up or the server is dead by now, and on an
\* unreliable network an error as well, when the reply is dropped.
Replies(c) ==
    IF ~replyOK[c] \/ IsServerDead(c) THEN {"fail"}
    ELSE {"ok"} \cup (IF rel[c] THEN {} ELSE {"fail"})

ChooseReply(c) ==
    /\ Goto(c, "finished", "delivering")
    /\ \E v \in Replies(c) : verdict' = [verdict EXCEPT ![c] = v]
    /\ UNCHANGED <<tables, netVars, hpc, locals, replyOK, drainer, executed>>

\* The reply, delayed or not, reaches the caller and Call() returns.
Deliver(c) ==
    /\ Goto(c, "delivering", "returned")
    /\ UNCHANGED <<tables, netVars, hpc, locals, replyOK, drainer, verdict,
                   executed>>

-----------------------------------------------------------------------------
(***************************************************************************)
(* The handler goroutine                                                   *)
(***************************************************************************)
GotoHandler(c, from, to) ==
    hpc[c] = from /\ hpc' = [hpc EXCEPT ![c] = to]

\* Server.dispatch up to the unlock: count the RPC, find the service.
Dispatch(c) ==
    /\ GotoHandler(c, "dispatching", "running")
    /\ rpcs' = [rpcs EXCEPT ![server[c]] = @ + 1]
    /\ UNCHANGED <<tables, count, done, netUp, pc, locals, replyOK, drainer,
                   verdict, executed>>

\* Service.dispatch calls the method.
RunHandler(c) ==
    /\ GotoHandler(c, "running", "ran")
    /\ executed' = [executed EXCEPT ![c] = @ + 1]
    /\ UNCHANGED <<tables, netVars, pc, locals, replyOK, drainer, verdict>>

\* The method returns; the goroutine blocks in ech <- r.
ReturnFromHandler(c) ==
    /\ GotoHandler(c, "ran", "replying")
    /\ UNCHANGED <<tables, netVars, pc, locals, replyOK, drainer, verdict,
                   executed>>

\* The goroutine GiveUp left behind receives from ech.
Drain(c) ==
    /\ drainer[c]
    /\ GotoHandler(c, "replying", "exited")
    /\ drainer' = [drainer EXCEPT ![c] = FALSE]
    /\ UNCHANGED <<tables, netVars, pc, locals, replyOK, verdict, executed>>

-----------------------------------------------------------------------------
(***************************************************************************)
(* The tester's side of the network: one critical section each             *)
(***************************************************************************)
callVars == <<netVars, pc, hpc, locals, replyOK, drainer, verdict, executed>>

\* The name must be new (log.Fatalf ends the program otherwise).
MakeEnd(e) ==
    /\ e \notin ends
    /\ ends' = ends \cup {e}
    /\ enabled' = enabled \ {e}
    /\ connections' = [connections EXCEPT ![e] = Nil]
    /\ UNCHANGED <<reliable, servers, callVars>>

AddServer(s, o) ==
    /\ servers' = [servers EXCEPT ![s] = o]
    /\ UNCHANGED <<reliable, ends, enabled, connections, callVars>>

DeleteServer(s) ==
    /\ servers' = [servers EXCEPT ![s] = Nil]
    /\ UNCHANGED <<reliable, ends, enabled, connections, callVars>>

Connect(e, s) ==
    /\ e \in ends
    /\ connections' = [connections EXCEPT ![e] = s]
    /\ UNCHANGED <<reliable, ends, enabled, servers, callVars>>

Enable(e, b) ==
    /\ e \in ends
    /\ enabled' = IF b THEN enabled \cup {e} ELSE enabled \ {e}
    /\ UNCHANGED <<reliable, ends, connections, servers, callVars>>

Reliable(yes) ==
    /\ reliable' = yes
    /\ UNCHANGED <<ends, enabled, connections, servers, callVars>>

\* Closing done a second time would panic.
Cleanup ==
    /\ ~done
    /\ done' = TRUE
    /\ UNCHANGED <<tables, count, netUp, rpcs, pc, hpc, locals, replyOK,
                   drainer, verdict, executed>>
-----------------------------------------------------------------------------
(***************************************************************************)
(* Specifications                                                          *)
(***************************************************************************)

\* Steps of processReq's goroutine and of the caller, scheduled by Go.
Send(c) == AcceptReq(c) \/ CallNetworkDone(c)
Route(c) == ReadEndnameInfo(c)
Forward(c) == DropRequest(c) \/ StartHandler(c)
Await(c) == ReceiveReply(c) \/ GiveUp(c)
Finish(c) == ChooseReply(c) \/ Deliver(c) \/ Unreachable(c)
ProcessReq(c) == Route(c) \/ Forward(c) \/ Await(c) \/ Finish(c)

NetworkNext ==
    \/ \E c \in Calls : \/ \E e \in Ends : Call(c, e)
                        \/ Send(c)
                        \/ ProcessReq(c)
                        \/ Dispatch(c)
                        \/ Drain(c)
    \/ NetworkStop
    \/ Cleanup

\* The operations on the network's tables, in any order.
TesterNext ==
    \/ \E e \in Ends : \/ MakeEnd(e)
                       \/ \E s \in ServerNames : Connect(e, s)
                       \/ \E b \in BOOLEAN : Enable(e, b)
    \/ \E s \in ServerNames : \/ \E o \in Objs : AddServer(s, o)
                              \/ DeleteServer(s)
    \/ \E b \in BOOLEAN : Reliable(b)

\* The service's code, run by the handler goroutine.
HandlerNext == \E c \in Calls : RunHandler(c) \/ ReturnFromHandler(c)

Next == NetworkNext \/ HandlerNext \/ TesterNext

Spec == Init /\ [][Next]_vars

\* Go runs every goroutine that can take a step.  RunHandler and
\* ReturnFromHandler are the service's code, which may block for ever.
NetworkFairness ==
    \A c \in Calls : /\ WF_vars(Send(c))
                     /\ WF_vars(ProcessReq(c))
                     /\ WF_vars(Dispatch(c))
                     /\ WF_vars(Drain(c))

NetworkSpec == Spec /\ NetworkFairness

-----------------------------------------------------------------------------
(***************************************************************************)
(* Properties                                                              *)
(***************************************************************************)

\* A handler goroutine blocked in ech <- r always has a receiver: processReq
\* is still in its loop, or the goroutine that drains ech was started
\* (labrpc.go:254-257).  Without one the goroutine would leak.
EchHasReceiver ==
    \A c \in Calls :
        hpc[c] \in {"dispatching", "running", "ran", "replying"} =>
            pc[c] = "waiting" \/ drainer[c]

\* Call() returns true only for a request whose handler has run, exactly
\* once, and returned (labrpc.go:29-32, and 245-289 for the code).
OkMeansExecutedOnce ==
    \A c \in Calls :
        verdict[c] = "ok" => executed[c] = 1 /\ hpc[c] = "exited"

\* The abstract at-most-once call that RpcContract specifies.
Status(c) ==
    CASE pc[c] = "idle"     -> "idle"
      [] pc[c] = "returned" -> verdict[c]
      [] OTHER              -> "pending"

Contract == INSTANCE RpcContract
                WITH status <- [c \in Calls |-> Status(c)]

\* Labrpc implements the contract of at-most-once calls.
ContractSpec == Contract!Spec

\* "Call() is guaranteed to return (perhaps after a delay) *except* if the
\* handler function on the server side does not return" (labrpc.go:37-38):
\* also when the network is cleaned up, the server is deleted or replaced, or
\* the end is disabled while the call is in progress.
HandlerReturns(c) ==
    hpc[c] = "running" ~> hpc[c] \in {"replying", "exited"}
CallReturns ==
    \A c \in Calls :
        HandlerReturns(c) => (pc[c] = "sending" ~> pc[c] = "returned")

\* A call stuck in a handler that never returns gets unstuck once its server
\* stays dead: deleted, replaced, or cut off (labrpc.go:252-259).
ServerGone(c) ==
    /\ target[c] # Nil
    /\ endname[c] \notin enabled \/ servers[target[c]] # server[c]
DeadServerUnblocks ==
    \A c \in Calls :
        <>[]ServerGone(c) => (pc[c] = "waiting" ~> pc[c] = "returned")

\* A handler that returns is never left blocked in ech <- r, so no handler
\* goroutine outlives its handler (labrpc.go:254-257).
HandlerGoroutineExits ==
    \A c \in Calls : hpc[c] = "replying" ~> hpc[c] = "exited"

\* "do not reply if DeleteServer() has been called, i.e. the server has been
\* killed" (labrpc.go:262-263): a positive reply only reaches the caller while
\* the server that executed the request is still registered.  The code does
\* not ensure it: the reply is sent, or scheduled 200 to 2200 ms later, after
\* isServerDead has released the lock.
NoReplyFromDeletedServer ==
    [][\A c \in Calls :
          pc[c] = "delivering" /\ pc'[c] = "returned" /\ verdict[c] = "ok" =>
              servers[target[c]] = server[c]]_vars
=============================================================================
