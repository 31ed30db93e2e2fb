---------------------------- MODULE LabrpcProofs ----------------------------
(***************************************************************************)
(* Proofs about Labrpc, for any sets of calls, ends, names and server      *)
(* objects: the type invariant, the two safety invariants the runs check,  *)
(* and that Labrpc implements RpcContract.                                 *)
(***************************************************************************)
EXTENDS Labrpc, TLAPS

\* What the control points of a call's goroutines say of its other state.
\* EchHasReceiver and OkMeansExecutedOnce are not inductive: ReceiveReply and
\* StartHandler need to know what the request's earlier phases leave behind.
BeforeHandler(c) ==
    pc[c] \in {"idle", "sending", "accepted", "unreachable", "routed"} =>
        hpc[c] = "none" /\ ~drainer[c] /\ ~replyOK[c] /\ verdict[c] = "none"

InLoop(c) ==
    pc[c] = "waiting" => hpc[c] \in {"dispatching", "running", "ran", "replying"}
                         /\ ~drainer[c] /\ ~replyOK[c] /\ verdict[c] = "none"

AfterLoop(c) ==
    pc[c] = "finished" => verdict[c] = "none"

Answered(c) ==
    pc[c] \in {"delivering", "returned"} => verdict[c] # "none"

HasReceiver(c) ==
    hpc[c] \in {"dispatching", "running", "ran", "replying"} =>
        pc[c] = "waiting" \/ drainer[c]

ReplyReceived(c) ==
    replyOK[c] \/ verdict[c] = "ok" => hpc[c] = "exited"

ExecutedOnce(c) ==
    executed[c] = IF hpc[c] \in {"ran", "replying", "exited"} THEN 1 ELSE 0

HasEnd(c) ==
    pc[c] # "idle" => endname[c] \in Ends

HasServer(c) ==
    pc[c] = "routed" \/ hpc[c] # "none" =>
        target[c] \in ServerNames /\ server[c] \in Objs

CallInv(c) ==
    /\ HasEnd(c) /\ HasServer(c)
    /\ BeforeHandler(c) /\ InLoop(c) /\ AfterLoop(c) /\ Answered(c)
    /\ HasReceiver(c) /\ ReplyReceived(c) /\ ExecutedOnce(c)

Inv == TypeOK /\ \A c \in Calls : CallInv(c)

-----------------------------------------------------------------------------
\* The initial state satisfies the inductive invariant.
LEMMA InitInv == Init => Inv
  <1> SUFFICES ASSUME Init PROVE Inv
    OBVIOUS
  <1> USE DEF Init, MakeNetwork, NoCalls
  <1>1. TypeOK
    BY DEF TypeOK, PCs, HandlerPCs, Verdicts
  <1>2. ASSUME NEW c \in Calls PROVE CallInv(c)
    BY DEF CallInv, HasEnd, HasServer, BeforeHandler, InLoop, AfterLoop, Answered,
           HasReceiver, ReplyReceived, ExecutedOnce
  <1>. QED
    BY <1>1, <1>2 DEF Inv

\* Every step keeps the types.
LEMMA NextTypeOK == Inv /\ [Next]_vars => TypeOK'
  <1> SUFFICES ASSUME Inv, [Next]_vars PROVE TypeOK'
    OBVIOUS
  <1> USE DEF TypeOK, PCs, HandlerPCs, Verdicts, tables, netVars, locals,
              callVars, Goto, GotoHandler
  <1>0. TypeOK
    BY DEF Inv
  <1> USE <1>0
  <1>1. ASSUME NEW c \in Calls, NEW e \in Ends, Call(c, e) PROVE TypeOK'
    BY <1>1 DEF Call
  <1>2. ASSUME NEW c \in Calls, Send(c) PROVE TypeOK'
    BY <1>2 DEF Send, AcceptReq, CallNetworkDone
  <1>3. ASSUME NEW c \in Calls, ReadEndnameInfo(c) PROVE TypeOK'
    <2>1. endname[c] \in Ends
      BY <1>3 DEF Inv, CallInv, HasEnd, ReadEndnameInfo
    <2>2. /\ Servername(endname[c]) \in ServerNames \cup {Nil}
          /\ ServerOf(endname[c]) \in Objs \cup {Nil}
      BY <2>1 DEF Servername, ServerOf
    <2>. QED
      BY <1>3, <2>2 DEF ReadEndnameInfo
  <1>4. ASSUME NEW c \in Calls, Forward(c) PROVE TypeOK'
    BY <1>4 DEF Forward, DropRequest, FailCall, StartHandler
  <1>5. ASSUME NEW c \in Calls, Await(c) PROVE TypeOK'
    BY <1>5 DEF Await, ReceiveReply, GiveUp
  <1>6. ASSUME NEW c \in Calls, Finish(c) PROVE TypeOK'
    <2>1. CASE ChooseReply(c)
      <3>1. Replies(c) \subseteq Verdicts
        BY DEF Replies
      <3>. QED
        BY <2>1, <3>1 DEF ChooseReply
    <2>2. CASE Deliver(c) \/ Unreachable(c)
      BY <2>2 DEF Deliver, Unreachable, FailCall
    <2>. QED
      BY <1>6, <2>1, <2>2 DEF Finish
  <1>7. ASSUME NEW c \in Calls, Dispatch(c) PROVE TypeOK'
    <2>1. server[c] \in Objs
      BY <1>7 DEF Inv, CallInv, HasServer, Dispatch
    <2>. QED
      BY <1>7, <2>1 DEF Dispatch
  <1>8. ASSUME NEW c \in Calls, RunHandler(c) PROVE TypeOK'
    BY <1>8 DEF RunHandler
  <1>9. ASSUME NEW c \in Calls, ReturnFromHandler(c) \/ Drain(c) PROVE TypeOK'
    BY <1>9 DEF ReturnFromHandler, Drain
  <1>10. CASE NetworkStop \/ Cleanup
    BY <1>10 DEF NetworkStop, Cleanup
  <1>11. CASE TesterNext
    BY <1>11 DEF TesterNext, MakeEnd, AddServer, DeleteServer, Connect, Enable,
                 Reliable
  <1>12. CASE UNCHANGED vars
    BY <1>12 DEF vars
  <1>. QED
    BY <1>1, <1>2, <1>3, <1>4, <1>5, <1>6, <1>7, <1>8, <1>9, <1>10, <1>11, <1>12
       DEF Next, NetworkNext, HandlerNext, ProcessReq, Route

\* A step of one call keeps CallInv for every other call.
LEMMA Frame ==
    ASSUME NEW c \in Calls, CallInv(c),
           pc'[c] = pc[c], hpc'[c] = hpc[c], endname'[c] = endname[c],
           target'[c] = target[c], server'[c] = server[c],
           replyOK'[c] = replyOK[c], drainer'[c] = drainer[c],
           verdict'[c] = verdict[c], executed'[c] = executed[c]
    PROVE  CallInv(c)'
  BY DEF CallInv, HasEnd, HasServer, BeforeHandler, InLoop, AfterLoop, Answered,
         HasReceiver, ReplyReceived, ExecutedOnce

\* Every step keeps the inductive invariant.
LEMMA NextInv == Inv /\ [Next]_vars => Inv'
  <1> SUFFICES ASSUME Inv, [Next]_vars, NEW d \in Calls PROVE CallInv(d)'
    BY NextTypeOK DEF Inv
  <1> USE DEF tables, netVars, locals, callVars
  <1>0. TypeOK /\ CallInv(d)
    BY DEF Inv
  <1>1. ASSUME NEW c \in Calls, c # d,
               \/ \E e \in Ends : Call(c, e)
               \/ Send(c) \/ ProcessReq(c) \/ Dispatch(c) \/ RunHandler(c)
               \/ ReturnFromHandler(c) \/ Drain(c)
        PROVE  CallInv(d)'
    <2>1. /\ pc'[d] = pc[d] /\ hpc'[d] = hpc[d] /\ endname'[d] = endname[d]
          /\ target'[d] = target[d] /\ server'[d] = server[d]
          /\ replyOK'[d] = replyOK[d] /\ drainer'[d] = drainer[d]
          /\ verdict'[d] = verdict[d] /\ executed'[d] = executed[d]
      <3> USE <1>0, <1>1 DEF TypeOK, Goto, GotoHandler
      <3>1. CASE \E e \in Ends : Call(c, e)
        BY <3>1 DEF Call
      <3>2. CASE Send(c)
        BY <3>2 DEF Send, AcceptReq, CallNetworkDone
      <3>3. CASE Route(c)
        BY <3>3 DEF Route, ReadEndnameInfo
      <3>4. CASE Forward(c)
        BY <3>4 DEF Forward, DropRequest, FailCall, StartHandler
      <3>5. CASE Await(c)
        BY <3>5 DEF Await, ReceiveReply, GiveUp
      <3>6. CASE Finish(c)
        BY <3>6 DEF Finish, ChooseReply, Deliver, Unreachable, FailCall
      <3>7. CASE Dispatch(c) \/ RunHandler(c) \/ ReturnFromHandler(c) \/ Drain(c)
        BY <3>7 DEF Dispatch, RunHandler, ReturnFromHandler, Drain
      <3>. QED
        BY <3>1, <3>2, <3>3, <3>4, <3>5, <3>6, <3>7 DEF ProcessReq
    <2>. QED
      BY <1>0, <2>1, Frame
  <1>2. CASE NetworkStop \/ Cleanup \/ TesterNext \/ UNCHANGED vars
    <2>1. UNCHANGED <<pc, hpc, locals, replyOK, drainer, verdict, executed>>
      BY <1>2 DEF NetworkStop, Cleanup, TesterNext, MakeEnd, AddServer,
                  DeleteServer, Connect, Enable, Reliable, vars
    <2>. QED
      BY <1>0, <2>1, Frame
  <1>3. ASSUME \/ \E e \in Ends : Call(d, e)
               \/ Send(d) \/ ProcessReq(d) \/ Dispatch(d) \/ RunHandler(d)
               \/ ReturnFromHandler(d) \/ Drain(d)
        PROVE  CallInv(d)'
    <2> USE <1>0 DEF TypeOK, Goto, GotoHandler, CallInv, HasEnd, HasServer,
                     BeforeHandler, InLoop, AfterLoop, Answered, HasReceiver,
                     ReplyReceived, ExecutedOnce
    <2>1. CASE \E e \in Ends : Call(d, e)
      BY <2>1 DEF Call
    <2>2. CASE AcceptReq(d)
      BY <2>2 DEF AcceptReq
    <2>3. CASE CallNetworkDone(d)
      BY <2>3 DEF CallNetworkDone
    <2>4. CASE ReadEndnameInfo(d)
      <3>1. endname[d] \in Ends /\ hpc[d] = "none"
        BY <2>4 DEF ReadEndnameInfo
      <3>2. Reachable(endname[d]) =>
                /\ Servername(endname[d]) \in ServerNames
                /\ ServerOf(endname[d]) \in Objs
        BY <3>1, NilAssumption DEF Reachable, Servername, ServerOf
      <3>. QED
        BY <2>4, <3>1, <3>2 DEF ReadEndnameInfo
    <2>5. CASE DropRequest(d) \/ Unreachable(d)
      BY <2>5 DEF DropRequest, Unreachable, FailCall
    <2>6. CASE StartHandler(d)
      BY <2>6 DEF StartHandler
    <2>7. CASE ReceiveReply(d)
      BY <2>7 DEF ReceiveReply
    <2>8. CASE GiveUp(d)
      BY <2>8 DEF GiveUp
    <2>9. CASE ChooseReply(d)
      <3>1. \A v \in Replies(d) : v # "none" /\ (v = "ok" => replyOK[d])
        BY DEF Replies
      <3>. QED
        BY <2>9, <3>1 DEF ChooseReply
    <2>10. CASE Deliver(d)
      BY <2>10 DEF Deliver
    <2>11. CASE Dispatch(d)
      BY <2>11 DEF Dispatch
    <2>12. CASE RunHandler(d)
      BY <2>12 DEF RunHandler
    <2>13. CASE ReturnFromHandler(d)
      BY <2>13 DEF ReturnFromHandler
    <2>14. CASE Drain(d)
      BY <2>14 DEF Drain
    <2>. QED
      BY <1>3, <2>1, <2>2, <2>3, <2>4, <2>5, <2>6, <2>7, <2>8, <2>9, <2>10,
         <2>11, <2>12, <2>13, <2>14
         DEF Send, ProcessReq, Route, Forward, Await, Finish
  <1>. QED
    BY <1>1, <1>2, <1>3 DEF Next, NetworkNext, HandlerNext

\* A step of the surrounding program that only changes the network's tables
\* keeps the inductive invariant.
LEMMA TableStep ==
    Inv /\ TypeOK' /\ UNCHANGED <<pc, hpc, locals, replyOK, drainer, verdict, executed>>
        => Inv'
  BY Frame DEF Inv, locals

\* What the network may do to the tables and to a call, as far as the storage of
\* the clusters on it is concerned.
LEMMA NetworkFacts ==
    ASSUME TypeOK, NetworkNext, NEW d \in Calls
    PROVE  /\ servers' = servers /\ enabled' = enabled
           /\ ReadEndnameInfo(d) \/ (server'[d] = server[d] /\ target'[d] = target[d])
           /\ hpc'[d] \in {"replying", "exited"} => hpc[d] \in {"replying", "exited"}
           /\ verdict'[d] = "ok" => verdict[d] = "ok" \/ ChooseReply(d)
  <1> DEFINE Goal == /\ servers' = servers /\ enabled' = enabled
                     /\ \/ ReadEndnameInfo(d)
                        \/ server'[d] = server[d] /\ target'[d] = target[d]
                     /\ hpc'[d] \in {"replying", "exited"} =>
                            hpc[d] \in {"replying", "exited"}
                     /\ verdict'[d] = "ok" => verdict[d] = "ok" \/ ChooseReply(d)
  <1> USE DEF TypeOK, tables, netVars, locals, callVars, Goto, GotoHandler
  <1>1. ASSUME NEW c \in Calls, NEW e \in Ends, Call(c, e) PROVE Goal
    BY <1>1 DEF Call
  <1>2. ASSUME NEW c \in Calls, Send(c) PROVE Goal
    BY <1>2 DEF Send, AcceptReq, CallNetworkDone
  <1>3. ASSUME NEW c \in Calls, ReadEndnameInfo(c) PROVE Goal
    <2>1. CASE c = d
      BY <1>3, <2>1 DEF ReadEndnameInfo
    <2>2. CASE c # d
      BY <1>3, <2>2 DEF ReadEndnameInfo
    <2>. QED
      BY <2>1, <2>2
  <1>4. ASSUME NEW c \in Calls, Forward(c) PROVE Goal
    BY <1>4 DEF Forward, DropRequest, FailCall, StartHandler
  <1>5. ASSUME NEW c \in Calls, Await(c) PROVE Goal
    BY <1>5 DEF Await, ReceiveReply, GiveUp
  <1>6. ASSUME NEW c \in Calls, ChooseReply(c) PROVE Goal
    <2>1. CASE c = d
      BY <1>6, <2>1 DEF ChooseReply
    <2>2. CASE c # d
      BY <1>6, <2>2 DEF ChooseReply
    <2>. QED
      BY <2>1, <2>2
  <1>7. ASSUME NEW c \in Calls, Deliver(c) \/ Unreachable(c) PROVE Goal
    BY <1>7 DEF Deliver, Unreachable, FailCall
  <1>8. ASSUME NEW c \in Calls, Dispatch(c) \/ Drain(c) PROVE Goal
    BY <1>8 DEF Dispatch, Drain
  <1>9. CASE NetworkStop \/ Cleanup
    BY <1>9 DEF NetworkStop, Cleanup
  <1>. QED
    BY <1>1, <1>2, <1>3, <1>4, <1>5, <1>6, <1>7, <1>8, <1>9
       DEF NetworkNext, ProcessReq, Route, Finish

-----------------------------------------------------------------------------
\* The inductive invariant holds in every reachable state.
THEOREM Invariance == Spec => []Inv
  BY InitInv, NextInv, PTL DEF Spec

\* Every variable keeps its type, whatever the tester does to the tables.
THEOREM TypeCorrect == Spec => []TypeOK
  BY Invariance, PTL DEF Inv

\* No handler goroutine is ever left without a receiver on ech: processReq's
\* loop or the draining goroutine of labrpc.go:254-257.
THEOREM ReceiverCorrect == Spec => []EchHasReceiver
  <1>1. Inv => EchHasReceiver
    BY DEF Inv, CallInv, HasReceiver, EchHasReceiver
  <1>. QED
    BY Invariance, <1>1, PTL

\* Call() returns true only if the handler has run exactly once and returned.
THEOREM OkCorrect == Spec => []OkMeansExecutedOnce
  <1>1. Inv => OkMeansExecutedOnce
    BY DEF Inv, CallInv, ReplyReceived, ExecutedOnce, OkMeansExecutedOnce
  <1>. QED
    BY Invariance, <1>1, PTL

-----------------------------------------------------------------------------
(***************************************************************************)
(* Labrpc implements RpcContract.                                          *)
(***************************************************************************)
statuses == [c \in Calls |-> Status(c)]

\* A step that changes what one caller sees is that call's abstract step.
LEMMA StatusChange ==
    ASSUME NEW c \in Calls, NEW v,
           \A d \in Calls \ {c} : Status(d)' = Status(d),
           Status(c)' = v
    PROVE  statuses' = [statuses EXCEPT ![c] = v]
  BY DEF statuses

\* A step that changes what no caller sees leaves the abstract status alone.
LEMMA StatusSame ==
    ASSUME \A d \in Calls : Status(d)' = Status(d)
    PROVE  statuses' = statuses
  BY DEF statuses

\* Every step of Labrpc is a step of the contract or leaves it unchanged.
LEMMA NextRefines == Inv /\ [Next]_vars => [Contract!Next]_(Contract!vars)
  <1> SUFFICES ASSUME Inv, [Next]_vars
               PROVE  Contract!Next \/ (statuses' = statuses /\ executed' = executed)
    BY DEF Contract!vars, statuses
  <1> USE DEF tables, netVars, locals, callVars, Goto, GotoHandler
  <1>0. TypeOK
    BY DEF Inv
  <1>1. ASSUME NEW c \in Calls, NEW e \in Ends, Call(c, e) PROVE Contract!Next
    <2>1. /\ \A d \in Calls \ {c} : Status(d)' = Status(d)
          /\ Status(c) = "idle" /\ Status(c)' = "pending"
      BY <1>0, <1>1 DEF Call, Status, TypeOK
    <2>2. Contract!Invoke(c)
      BY <1>1, <2>1, StatusChange DEF Contract!Invoke, Call, statuses
    <2>. QED
      BY <2>2 DEF Contract!Next
  <1>2. ASSUME NEW c \in Calls, CallNetworkDone(c) \/ DropRequest(c) \/ Unreachable(c)
        PROVE  Contract!Next
    <2>1. /\ \A d \in Calls \ {c} : Status(d)' = Status(d)
          /\ Status(c) = "pending" /\ Status(c)' = "fail"
      BY <1>0, <1>2 DEF CallNetworkDone, DropRequest, Unreachable, FailCall, Status, TypeOK
    <2>2. Contract!ReturnFalse(c)
      BY <1>2, <2>1, StatusChange
         DEF Contract!ReturnFalse, CallNetworkDone, DropRequest, Unreachable,
             FailCall, statuses
    <2>. QED
      BY <2>2 DEF Contract!Next
  <1>3. ASSUME NEW c \in Calls, Deliver(c) PROVE Contract!Next
    <2>1. /\ \A d \in Calls \ {c} : Status(d)' = Status(d)
          /\ Status(c) = "pending" /\ Status(c)' = verdict[c]
      BY <1>0, <1>3 DEF Deliver, Status, TypeOK
    <2>2. verdict[c] \in {"ok", "fail"} /\ (verdict[c] = "ok" => executed[c] = 1)
      BY <1>0, <1>3 DEF Inv, CallInv, Answered, ReplyReceived, ExecutedOnce, Deliver,
                        TypeOK, Verdicts
    <2>3. Contract!ReturnTrue(c) \/ Contract!ReturnFalse(c)
      BY <1>3, <2>1, <2>2, StatusChange
         DEF Contract!ReturnTrue, Contract!ReturnFalse, Deliver, statuses
    <2>. QED
      BY <2>3 DEF Contract!Next
  <1>4. ASSUME NEW c \in Calls, RunHandler(c) PROVE Contract!Next
    <2>1. /\ statuses' = statuses
          /\ executed[c] = 0 /\ executed' = [executed EXCEPT ![c] = 1]
      <3>1. \A d \in Calls : Status(d)' = Status(d)
        BY <1>4 DEF RunHandler, Status
      <3>2. executed[c] = 0
        BY <1>4 DEF RunHandler, Inv, CallInv, ExecutedOnce
      <3>. QED
        BY <1>4, <3>1, <3>2, StatusSame DEF RunHandler
    <2>2. Status(c) \in {"pending", "fail"}
      BY <1>0, <1>4 DEF RunHandler, Inv, CallInv, BeforeHandler, Answered,
                        ReplyReceived, Status, TypeOK, PCs, Verdicts
    <2>3. Contract!Execute(c)
      BY <2>1, <2>2 DEF Contract!Execute, statuses
    <2>. QED
      BY <2>3 DEF Contract!Next
  <1>5. ASSUME NEW c \in Calls,
               \/ AcceptReq(c) \/ ReadEndnameInfo(c) \/ StartHandler(c) \/ Await(c)
               \/ ChooseReply(c) \/ Dispatch(c) \/ ReturnFromHandler(c) \/ Drain(c)
        PROVE  statuses' = statuses /\ executed' = executed
    <2>1. \A d \in Calls : Status(d)' = Status(d)
      <3> USE <1>0 DEF Status, TypeOK
      <3>1. CASE AcceptReq(c) \/ StartHandler(c)
        BY <3>1 DEF AcceptReq, StartHandler
      <3>2. CASE ReadEndnameInfo(c)
        BY <3>2 DEF ReadEndnameInfo
      <3>3. CASE Await(c)
        BY <3>3 DEF Await, ReceiveReply, GiveUp
      <3>4. CASE ChooseReply(c)
        BY <3>4 DEF ChooseReply
      <3>5. CASE Dispatch(c) \/ ReturnFromHandler(c) \/ Drain(c)
        BY <3>5 DEF Dispatch, ReturnFromHandler, Drain
      <3>. QED
        BY <1>5, <3>1, <3>2, <3>3, <3>4, <3>5
    <2>2. executed' = executed
      BY <1>5 DEF AcceptReq, ReadEndnameInfo, StartHandler, Await, ReceiveReply,
                  GiveUp, ChooseReply, Dispatch, ReturnFromHandler, Drain
    <2>. QED
      BY <2>1, <2>2, StatusSame
  <1>6. CASE NetworkStop \/ Cleanup \/ TesterNext \/ UNCHANGED vars
    <2>1. UNCHANGED <<pc, verdict, executed>>
      BY <1>6 DEF NetworkStop, Cleanup, TesterNext, MakeEnd, AddServer,
                  DeleteServer, Connect, Enable, Reliable, vars
    <2>. QED
      BY <2>1, StatusSame DEF Status
  <1>. QED
    BY <1>1, <1>2, <1>3, <1>4, <1>5, <1>6
       DEF Next, NetworkNext, HandlerNext, Send, ProcessReq, Route, Forward, Finish

\* Labrpc implements the at-most-once contract of labrpc.go:26-38.
THEOREM Refinement == Spec => ContractSpec
  <1>1. Init => Contract!Init
    BY DEF Init, NoCalls, Status, Contract!Init
  <1>. QED
    BY <1>1, Invariance, NextRefines, PTL DEF Spec, ContractSpec, Contract!Spec
=============================================================================
