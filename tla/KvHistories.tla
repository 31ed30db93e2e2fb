---------------------------- MODULE KvHistories ----------------------------
(* The inputs the model-checking instances of porcupine's checker are run on. *)
EXTENDS Naturals, Sequences, FiniteSets

LOCAL Calls(h) == {p \in DOMAIN h : h[p].kind = "call"}

\* The id an event of the k-th of n operations carries: ids only have to tell
\* operations apart, so they run backwards and have gaps.
EventId(k, n) == 3 * (n - k) + 1

\* One more event: the next operation is called, or a pending one returns.
Extensions(h, n) ==
    {Append(h, [kind |-> "call", id |-> EventId(k, n)]) :
        k \in {Cardinality(Calls(h)) + 1} \cap (1..n)}
    \cup {Append(h, [kind |-> "return", id |-> h[p].id]) :
        p \in {q \in Calls(h) : \A r \in DOMAIN h :
                                    h[r] # [kind |-> "return", id |-> h[q].id]}}

\* n complete operations in every order of their calls and returns.
Orders(n) ==
    LET H[k \in 0..(2 * n)] ==
            IF k = 0 THEN {<<>>} ELSE UNION {Extensions(h, n) : h \in H[k - 1]}
    IN  H[2 * n]

\* Pairs <<ops, events>> of n operations out of a set.
EventHistories(operations, n) ==
    {<<o, h>> : o \in [{EventId(k, n) : k \in 1..n} -> operations], h \in Orders(n)}

\* Lists of n operations with times up to maxTime, in the order of their returns;
\* a time occurs at most twice.
TimedHistories(operations, n, maxTime) ==
    LET Times == {t \in (1..maxTime) \X (1..maxTime) : t[1] < t[2]}
        At(t, x) == {p \in (1..n) \X {1, 2} : t[p[1]][p[2]] = x}
        Timings == {t \in [1..n -> Times] :
                       /\ \A m \in 1..(n - 1) : t[m][2] <= t[m + 1][2]
                       /\ \A x \in 1..maxTime : Cardinality(At(t, x)) <= 2}
    IN  {[m \in 1..n |-> [key |-> o[m].key, op |-> o[m].op, value |-> o[m].value,
                          out |-> o[m].out, call |-> t[m][1], ret |-> t[m][2]]] :
            o \in [1..n -> operations], t \in Timings}
=============================================================================
