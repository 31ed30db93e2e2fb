------------------------------- MODULE KvModel -------------------------------
(***************************************************************************)
(* The sequential key/value store of src/models/kv.go, the histories that  *)
(* porcupine checks against it, and a reference definition of what it      *)
(* means for a history to be linearizable.                                 *)
(*                                                                         *)
(* An operation is a record with a key, an input op and value, and the     *)
(* value its output carries; where its call and return times matter, it    *)
(* has those too.  A value is the sequence of the pieces it was put        *)
(* together from.  ops maps the id of an operation to the operation.  A    *)
(* history is a sequence of entries [kind, id] in the order of their       *)
(* times.                                                                  *)
(***************************************************************************)
EXTENDS Naturals, Sequences, FiniteSets

\* KvModel.Init: the value of a key that was never written.
KvInit == <<>>

\* KvModel.Step: could the store take this step, and its new state.
KvOk(st, op) == op.op = "get" => op.out = st

KvState(st, op) ==
    CASE op.op = "get"    -> st
      [] op.op = "put"    -> op.value
      [] op.op = "append" -> st \o op.value

Keys(ops) == {ops[i].key : i \in DOMAIN ops}

\* Mutant: an operation takes the place of the earlier ones of its key.
PartitionLast(ops, k) ==
    LET m[n \in 0..Len(ops)] ==
            IF n = 0 THEN <<>>
            ELSE IF ops[n].key = k THEN <<ops[n]>> ELSE m[n - 1]
    IN  m[Len(ops)]

\* KvModel.Partition: the operations of one key, in order; their ids are their
\* places.  m[n] is the slice of the key after n operations.
Partition(ops, k) ==
    LET m[n \in 0..Len(ops)] ==
            IF n = 0 THEN <<>>
            ELSE IF ops[n].key = k THEN Append(m[n - 1], ops[n]) ELSE m[n - 1]
    IN  m[Len(ops)]

-----------------------------------------------------------------------------
(***************************************************************************)
(* Reference definitions                                                   *)
(***************************************************************************)

\* The pairs of operations of which the first returned before the second was
\* called.
Before(history) ==
    {<<history[pq[1]].id, history[pq[2]].id>> : pq \in
        {pq \in (DOMAIN history) \X (DOMAIN history) :
            pq[1] < pq[2] /\ history[pq[1]].kind = "return" /\ history[pq[2]].kind = "call"}}

\* The state of every key after the first n operations of a sequence.
StateAfter(ops, seq) ==
    LET st[n \in 0..Len(seq)] ==
            IF n = 0 THEN [k \in Keys(ops) |-> KvInit]
            ELSE LET op == ops[seq[n]]
                 IN  [st[n - 1] EXCEPT ![op.key] = KvState(@, op)]
    IN st

\* Executed one after the other, the operations have the outputs they had in
\* the history.
Legal(ops, seq) ==
    LET st == StateAfter(ops, seq)
    IN  \A n \in DOMAIN seq : KvOk(st[n - 1][ops[seq[n]].key], ops[seq[n]])

\* An operation comes after all those that were before it.
InOrder(before, seq) ==
    \A pair \in before, n \in DOMAIN seq :
        pair[2] = seq[n] => \E m \in 1..(n - 1) : seq[m] = pair[1]

Distinct(seq) == \A m, n \in DOMAIN seq : m # n => seq[m] # seq[n]

\* The sequences of distinct elements of a set.
Arrangements(S) ==
    {seq \in UNION {[1..n -> S] : n \in 0..Cardinality(S)} : Distinct(seq)}

\* Beginnings of linearizations of operations.
PartialLinearizations(ops, before) ==
    {seq \in Arrangements(DOMAIN ops) : InOrder(before, seq) /\ Legal(ops, seq)}

\* Operations are linearizable if they, all of them, can be arranged in an
\* order that the store allows and the clients have observed.
Linearizable(ops, before) ==
    \E seq \in [1..Cardinality(DOMAIN ops) -> DOMAIN ops] :
        Distinct(seq) /\ InOrder(before, seq) /\ Legal(ops, seq)
=============================================================================
