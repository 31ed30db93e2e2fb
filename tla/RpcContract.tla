----------------------------- MODULE RpcContract -----------------------------
(***************************************************************************)
(* What labrpc promises its users (src/labrpc/labrpc.go:26-38): a call     *)
(* executes its handler at most once, also when the caller is told that it *)
(* failed; true is returned only after the handler has run; false says     *)
(* nothing, the handler may have run, may be running or may run later.     *)
(***************************************************************************)
EXTENDS Naturals

CONSTANT Calls

VARIABLES status,   \* what the caller of each call has seen
          executed  \* how often its handler has run

vars == <<status, executed>>

Init ==
    /\ status = [c \in Calls |-> "idle"]
    /\ executed = [c \in Calls |-> 0]

Invoke(c) ==
    /\ status[c] = "idle"
    /\ status' = [status EXCEPT ![c] = "pending"]
    /\ UNCHANGED executed

\* At any time after the invocation, even after the caller was told "fail".
Execute(c) ==
    /\ status[c] \in {"pending", "fail"}
    /\ executed[c] = 0
    /\ executed' = [executed EXCEPT ![c] = 1]
    /\ UNCHANGED status

ReturnTrue(c) ==
    /\ status[c] = "pending"
    /\ executed[c] = 1
    /\ status' = [status EXCEPT ![c] = "ok"]
    /\ UNCHANGED executed

ReturnFalse(c) ==
    /\ status[c] = "pending"
    /\ status' = [status EXCEPT ![c] = "fail"]
    /\ UNCHANGED executed

Next ==
    \E c \in Calls : Invoke(c) \/ Execute(c) \/ ReturnTrue(c) \/ ReturnFalse(c)

Spec == Init /\ [][Next]_vars
=============================================================================
