--------------------------- MODULE CheckParallel ---------------------------
(***************************************************************************)
(* porcupine's checkParallel (src/porcupine/checker.go): one goroutine per *)
(* partition runs checkSingle; the main goroutine collects their results   *)
(* from a channel until all have answered, one is false, or a timeout.     *)
(*                                                                         *)
(* The input is a list of operations, as checkOperations passes it on:     *)
(* KvModel partitions it by key, and makeEntries sorts each partition's    *)
(* calls and returns by time.  What checkSingle returns for a partition is *)
(* taken from CheckSingle, where AnswerCorrect shows it to be the          *)
(* reference definition, unless it has been killed.  Of the input only     *)
(* these answers are kept, and in history variables what the times say.    *)
(***************************************************************************)
EXTENDS KvModel

CONSTANTS
    Histories,  \* lists of operations to check, each with call < ret
    AllKeys     \* the keys they use

ASSUME ParallelAssumption ==
    /\ IsFiniteSet(AllKeys)
    /\ \A operations \in Histories :
           /\ Len(operations) \in Nat /\ DOMAIN operations = 1..Len(operations)
           /\ \A i \in DOMAIN operations :
                  /\ operations[i].key \in AllKeys
                  /\ operations[i].call \in Nat /\ operations[i].ret \in Nat
                  /\ operations[i].call < operations[i].ret

VARIABLES
    computeInfo,   \* verbose
    timeout,       \* is timeout > 0?
    linearizable,  \* by key: what an undisturbed checkSingle returns
    strict, weak,  \* is the whole history linearizable, if an operation precedes
                   \* another that is called later than, or not before, it returns?
    gpc,           \* by key: control point of its goroutine
    answer,        \* by key: its local ok
    results,       \* the channel
    kill, pc, count, ok, timedOut, result

input == <<computeInfo, timeout, linearizable, strict, weak>>
goroutines == <<gpc, answer>>
vars == <<input, goroutines, results, kill, pc, count, ok, timedOut, result>>

\* The calls and returns of the operations of a partition.
Entries(part) ==
    {[kind |-> "call", id |-> i, time |-> part[i].call] : i \in DOMAIN part}
    \cup {[kind |-> "return", id |-> i, time |-> part[i].ret] : i \in DOMAIN part}

\* byTime.Less
Less(d, e) == d.time < e.time

\* makeEntries: sort.Sort is not stable, so that entries with the same time may
\* come in any order.  sorted[n] are the first n entries, in these orders.
makeEntries(part) ==
    LET all == Entries(part)
        sorted[n \in 0..Cardinality(all)] ==
            IF n = 0 THEN {<<>>}
            ELSE UNION {LET rest == all \ {seq[p] : p \in DOMAIN seq}
                        IN  {Append(seq, e) : e \in {x \in rest : \A y \in rest : ~Less(y, x)}} :
                           seq \in sorted[n - 1]}
    IN  sorted[Cardinality(all)]

\* May checkSingle return a for the partition of a key?
MayAnswer(operations, k, a) ==
    LET part == Partition(operations, k)
    IN  \E entries \in makeEntries(part) : Linearizable(part, Before(entries)) = a

Partitions == DOMAIN linearizable

\* CheckOperations has no timeout and is not verbose; CheckOperationsTimeout and
\* CheckOperationsVerbose may have a timeout.
Mode == computeInfo \in BOOLEAN /\ timeout \in BOOLEAN

\* The pairs of operations of which the first returned before, or not after, the
\* second was called.
Earlier(operations) ==
    {p \in (DOMAIN operations) \X (DOMAIN operations) :
        operations[p[1]].ret < operations[p[2]].call}
NotLater(operations) ==
    {p \in (DOMAIN operations) \X (DOMAIN operations) :
        operations[p[1]].ret <= operations[p[2]].call}

Input(operations) ==
    LET answers == {p \in Keys(operations) \X BOOLEAN : MayAnswer(operations, p[1], p[2])}
    IN  /\ linearizable \in {f \in [Keys(operations) -> BOOLEAN] :
                                \A k \in DOMAIN f : <<k, f[k]>> \in answers}
        /\ strict = Linearizable(operations, Earlier(operations))
        /\ weak = Linearizable(operations, NotLater(operations))

Init ==
    /\ \E operations \in Histories : Input(operations)
    /\ Mode
    /\ gpc = [k \in Partitions |-> "checking"]
    /\ answer = [k \in Partitions |-> FALSE]
    /\ results = <<>>
    /\ kill = FALSE /\ pc = "loop" /\ count = 0 /\ ok = TRUE /\ timedOut = FALSE
    /\ result = "none"

-----------------------------------------------------------------------------
(***************************************************************************)
(* The goroutine of a partition                                            *)
(***************************************************************************)

\* checkSingle returns and longest[i] is written.
Check(k) ==
    /\ gpc[k] = "checking"
    /\ \E r \in {linearizable[k]} \cup (IF kill THEN {FALSE} ELSE {}) :
           answer' = [answer EXCEPT ![k] = r]
    /\ gpc' = [gpc EXCEPT ![k] = "checked"]
    /\ UNCHANGED <<input, results, kill, pc, count, ok, timedOut, result>>

\* Mutant: room for one result only.
OneSlot == 1

\* The channel has room for every result.
Capacity == Cardinality(Partitions)

\* results <- ok
Send(k) ==
    /\ gpc[k] = "checked" /\ Len(results) < Capacity
    /\ results' = Append(results, answer[k])
    /\ gpc' = [gpc EXCEPT ![k] = "sent"]
    /\ UNCHANGED <<input, answer, kill, pc, count, ok, timedOut, result>>

-----------------------------------------------------------------------------
(***************************************************************************)
(* The main goroutine                                                      *)
(***************************************************************************)
AfterLoop == IF computeInfo THEN "drain" ELSE "return"

\* Mutant: one result more than there are goroutines is awaited.
ReceiveOneMore ==
    /\ pc = "loop" /\ results # <<>>
    /\ results' = Tail(results)
    /\ count' = count + 1
    /\ ok' = (ok /\ Head(results))
    /\ IF ~ok' /\ ~computeInfo THEN kill' = TRUE /\ pc' = AfterLoop
       ELSE /\ pc' = IF count' > Cardinality(Partitions) THEN AfterLoop ELSE "loop"
            /\ UNCHANGED kill
    /\ UNCHANGED <<input, goroutines, timedOut, result>>

\* Mutant: only the latest result counts.
ReceiveLatest ==
    /\ pc = "loop" /\ results # <<>>
    /\ results' = Tail(results)
    /\ count' = count + 1
    /\ ok' = Head(results)
    /\ IF ~ok' /\ ~computeInfo THEN kill' = TRUE /\ pc' = AfterLoop
       ELSE /\ pc' = IF count' >= Cardinality(Partitions) THEN AfterLoop ELSE "loop"
            /\ UNCHANGED kill
    /\ UNCHANGED <<input, goroutines, timedOut, result>>

ReceiveResult ==
    /\ pc = "loop" /\ results # <<>>
    /\ results' = Tail(results)
    /\ count' = count + 1
    /\ ok' = (ok /\ Head(results))
    /\ IF ~ok' /\ ~computeInfo THEN kill' = TRUE /\ pc' = AfterLoop
       ELSE /\ pc' = IF count' >= Cardinality(Partitions) THEN AfterLoop ELSE "loop"
            /\ UNCHANGED kill
    /\ UNCHANGED <<input, goroutines, timedOut, result>>

TimeOut ==
    /\ pc = "loop" /\ timeout
    /\ timedOut' = TRUE /\ kill' = TRUE /\ pc' = AfterLoop
    /\ UNCHANGED <<input, goroutines, results, count, ok, result>>

\* Mutant: one result too few is awaited.
DrainAllButOne ==
    /\ pc = "drain"
    /\ IF count + 1 < Cardinality(Partitions)
       THEN results # <<>> /\ results' = Tail(results) /\ count' = count + 1 /\ pc' = pc
       ELSE pc' = "read" /\ UNCHANGED <<results, count>>
    /\ UNCHANGED <<input, goroutines, kill, ok, timedOut, result>>

\* Verbose: wait for all goroutines, whose results no longer count.
Drain ==
    /\ pc = "drain"
    /\ IF count < Cardinality(Partitions)
       THEN results # <<>> /\ results' = Tail(results) /\ count' = count + 1 /\ pc' = pc
       ELSE pc' = "read" /\ UNCHANGED <<results, count>>
    /\ UNCHANGED <<input, goroutines, kill, ok, timedOut, result>>

\* Then read longest[] of every partition.
ReadLongest ==
    /\ pc = "read" /\ pc' = "return"
    /\ UNCHANGED <<input, goroutines, results, kill, count, ok, timedOut, result>>

Return ==
    /\ pc = "return" /\ pc' = "returned"
    /\ result' = IF ~ok THEN "Illegal" ELSE IF timedOut THEN "Unknown" ELSE "Ok"
    /\ UNCHANGED <<input, goroutines, results, kill, count, ok, timedOut>>

Main == ReceiveResult \/ TimeOut \/ Drain \/ ReadLongest \/ Return

Done == pc = "returned" /\ UNCHANGED vars

Next == Main \/ (\E k \in Partitions : Check(k) \/ Send(k)) \/ Done

\* Go schedules every goroutine; checkSingle terminates (CheckSingle).
Goroutine(k) == k \in Partitions /\ (Check(k) \/ Send(k))

Fairness == WF_vars(Main) /\ \A k \in AllKeys : WF_vars(Goroutine(k))

Spec == Init /\ [][Next]_vars /\ Fairness

-----------------------------------------------------------------------------
(***************************************************************************)
(* Properties                                                              *)
(***************************************************************************)

\* "a history is linearizable if an only if each partition is linearizable"
\* (model.go:28-29), also when times are equal and makeEntries may order the
\* entries of each partition as it likes: then the answers for the partitions
\* lie between those for the two ways of reading equal times.
PartitionsSuffice ==
    /\ (\A k \in Partitions : linearizable[k] = TRUE) => strict
    /\ weak => \A k \in Partitions : linearizable[k] = TRUE

\* The verdict on the whole history, all keys together, is right: "Ok" only if
\* it is linearizable when an operation precedes those called after its return,
\* "Illegal" only if it is not even when it precedes those called at that very
\* time too; for distinct times the two are one.  Only a timeout makes it
\* "Unknown", and a false result of a killed checkSingle never counts
\* (checker.go:29-55, 289-304, 337-346; models/kv.go:18-34).
VerdictCorrect ==
    /\ result = "Ok" => strict
    /\ result = "Illegal" => ~weak
    /\ result = "Unknown" => timeout

\* "make sure we've waited for all goroutines to finish, otherwise we might
\* race on access to longest[]" (checker.go:308-309).
LongestNotRaced ==
    pc = "read" => \A k \in Partitions : gpc[k] # "checking"

\* A history with at least one operation gets an answer.
Answers == <>(pc = "returned")

\* No goroutine is left behind blocked in results <- ok, also when the main
\* goroutine stops receiving early (checker.go:272).
GoroutinesEnd ==
    \A k \in AllKeys : <>(k \in Partitions => gpc[k] = "sent")

\* "a history is linearizable if an only if each partition is linearizable"
\* (model.go:28-29): without a timeout, the verdict is "Ok" if and only if
\* every partition is linearizable.  For a history without operations, which
\* KvModel.Partition splits into no partitions, the loop waits for a result
\* that no goroutine will send.
OkIffEachPartition ==
    ~timeout ~> (pc = "returned"
                 /\ (result = "Ok" <=> \A k \in Partitions : linearizable[k]))
=============================================================================
