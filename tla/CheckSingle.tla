---------------------------- MODULE CheckSingle ----------------------------
(***************************************************************************)
(* porcupine's checkSingle (src/porcupine/checker.go): the search for a    *)
(* linearization of one partition of a history, over a doubly linked list  *)
(* of its calls and returns from which an operation is lifted when it is   *)
(* linearized and into which it is put back when the search backtracks.    *)
(*                                                                         *)
(* The partition is a list of events, as checkEvents passes it on, and     *)
(* what the search has found is prepared for display, as the verbose mode  *)
(* and computeVisualizationData (src/porcupine/visualization.go) do.       *)
(*                                                                         *)
(* A node of the list is the position of its entry in the history; 0 is    *)
(* headEntry and Nil the nil pointer.  A prefix of calls is recorded by    *)
(* value: two of the code's pointers never point to equal prefixes.        *)
(***************************************************************************)
EXTENDS KvModel, Bitset

CONSTANTS
    Histories,  \* pairs <<ops, events>> to check; one partition each
    Nil

\* Every operation is called once and returns once, later; all have one key.
WellFormed(o, e) ==
    /\ Len(e) \in Nat
    /\ e \in [1..Len(e) -> [kind : {"call", "return"}, id : DOMAIN o]]
    /\ \A i \in DOMAIN o : \E p, q \in 1..Len(e) :
           /\ p < q /\ e[p].kind = "call" /\ e[q].kind = "return"
           /\ \A n \in 1..Len(e) : e[n].id = i <=> n \in {p, q}
    /\ \A i \in DOMAIN o : o[i] = [key |-> o[i].key, op |-> o[i].op,
                                    value |-> o[i].value, out |-> o[i].out]
    /\ \A i, j \in DOMAIN o : o[i].key = o[j].key

\* Nil is neither a node nor a prefix.
ASSUME SingleAssumption ==
    /\ Nil \notin Nat /\ Nil \notin Seq(Nat)
    /\ \A h \in Histories : WellFormed(h[1], h[2])

VARIABLES
    ops, events,   \* the partition; events have the ids of ops
    history,       \* its entries; they have ids from 0
    kill,          \* *kill, set by checkParallel
    next, prev,    \* the links of the list
    entry,         \* the node the search looks at
    state, linearized, cache, calls, longest,
    result,        \* what checkSingle has returned: "none", "true" or "false"
    shown,         \* "no", "shown", or "panic": computeVisualizationData
    partials, largest  \* what it has computed

input == <<ops, events, history>>
list == <<next, prev, entry>>
display == <<shown, partials, largest>>
vars == <<input, kill, list, state, linearized, cache, calls, longest, result, display>>

\* renumber: ids in the order in which they first appear.
renumber(e) ==
    [p \in DOMAIN e |->
        LET first == CHOOSE q \in 1..p : /\ e[q].id = e[p].id
                                         /\ \A x \in 1..(q - 1) : e[x].id # e[p].id
        IN  Cardinality({e[q].id : q \in 1..(first - 1)})]

\* convertEntries: events become entries; the value is that of the event.
convertEntries(e) ==
    [p \in DOMAIN e |-> [kind |-> e[p].kind, id |-> renumber(e)[p]]]

Nodes == 1..Len(history)

\* The return node of a call node; nil in return nodes.
match(n) ==
    LET returns == {m \in (n + 1)..Len(history) :
                        history[m] = [kind |-> "return", id |-> history[n].id]}
    IN  IF history[n].kind = "return" \/ returns = {} THEN Nil
        ELSE CHOOSE m \in returns : \A l \in returns : m <= l

\* length(entry) / 2
Half(h) == Len(h) \div 2

\* makeLinkedEntries, with headEntry inserted before the first node.
After(n, len) == IF n = len THEN Nil ELSE n + 1
Init ==
    /\ \E h \in Histories : ops = h[1] /\ events = h[2]
    /\ history = convertEntries(events)
    /\ kill = FALSE
    /\ next = [n \in 0..Len(events) |-> After(n, Len(events))]
    /\ prev = [n \in 1..Len(events) |-> n - 1]
    /\ entry = After(0, Len(events))
    /\ state = KvInit
    /\ linearized = newBitset(Half(events))
    /\ cache = {}
    /\ calls = <<>>
    /\ longest = [i \in 0..(Half(events) - 1) |-> Nil]
    /\ result = "none"
    /\ shown = "no" /\ partials = <<>> /\ largest = <<>>

-----------------------------------------------------------------------------
\* The links after lift(n) and after unlift(n), in the order of the code's
\* assignments: the return node's links may be those the call's just changed.
Unlink(ln, lp, n) ==
    [next |-> [ln EXCEPT ![lp[n]] = ln[n]],
     prev |-> IF ln[n] = Nil THEN lp ELSE [lp EXCEPT ![ln[n]] = lp[n]]]

Relink(ln, lp, n) ==
    [next |-> [ln EXCEPT ![lp[n]] = n],
     prev |-> IF ln[n] = Nil THEN lp ELSE [lp EXCEPT ![ln[n]] = n]]

lift(n) ==
    LET l == Unlink(next, prev, n) IN Unlink(l.next, l.prev, match(n))

\* Mutant: the node after the return is not linked back to it.
unliftOneWay(n) ==
    LET l == Relink(next, prev, match(n)) IN Relink(l.next, prev, n)

unlift(n) ==
    LET l == Relink(next, prev, match(n)) IN Relink(l.next, l.prev, n)

\* The loop goes on: there are entries left and nobody has set kill.
Searching == result = "none" /\ next[0] # Nil /\ ~kill

\* The input of a call node with the output of its return node.
Op(n) == [ops[events[n].id] EXCEPT !.out = ops[events[match(n)].id].out]

newLinearized == set(linearized, history[entry].id)
newCacheEntry == [linearized |-> newLinearized, state |-> KvState(state, Op(entry))]

\* Mutant: the cache trusts the hash.
cacheContainsHash(new) ==
    \E c \in cache : hash(c.linearized) = hash(new.linearized) /\ c.state = new.state

\* cacheContains: an equal entry among those with the same hash.
cacheContains(new) ==
    \E c \in cache : /\ hash(c.linearized) = hash(new.linearized)
                     /\ equals(new.linearized, c.linearized) /\ c.state = new.state

\* The operation called here can be linearized next, in a configuration that
\* has not been tried.
CanLinearize == KvOk(state, Op(entry)) /\ ~cacheContains(newCacheEntry)

Linearize ==
    LET l == lift(entry) IN
    /\ Searching /\ match(entry) # Nil /\ CanLinearize
    /\ cache' = cache \cup {newCacheEntry}
    /\ calls' = Append(calls, [entry |-> entry, state |-> state])
    /\ state' = KvState(state, Op(entry))
    /\ linearized' = newLinearized
    /\ next' = l.next /\ prev' = l.prev
    /\ entry' = l.next[0]
    /\ UNCHANGED <<input, kill, longest, result, display>>

\* Mutant: a call that cannot be linearized sends the search back to the start.
SkipToHead ==
    /\ Searching /\ match(entry) # Nil /\ ~CanLinearize
    /\ entry' = next[0]
    /\ UNCHANGED <<input, kill, next, prev, state, linearized, cache, calls, longest,
                   result, display>>

Skip ==
    /\ Searching /\ match(entry) # Nil /\ ~CanLinearize
    /\ entry' = next[entry]
    /\ UNCHANGED <<input, kill, next, prev, state, linearized, cache, calls, longest,
                   result, display>>

\* The ids of the calls linearized so far.
Prefix == [n \in DOMAIN calls |-> history[calls[n].entry].id]

Stacked(i) == \E n \in DOMAIN calls : history[calls[n].entry].id = i

\* Mutant: the first prefix recorded for an operation stays.
FirstPrefix ==
    [i \in DOMAIN longest |->
        IF Stacked(i) /\ longest[i] = Nil THEN Prefix ELSE longest[i]]

\* Record the current prefix for those of its operations for which it is the
\* longest so far (computePartial).
UpdatedLongest ==
    [i \in DOMAIN longest |->
        IF Stacked(i) /\ (longest[i] = Nil \/ Len(calls) > Len(longest[i]))
        THEN Prefix ELSE longest[i]]

\* Mutant: the state is not put back.
BacktrackKeepState ==
    LET top == calls[Len(calls)]
        l == unlift(top.entry) IN
    /\ Searching /\ match(entry) = Nil /\ calls # <<>>
    /\ longest' = UpdatedLongest
    /\ linearized' = clear(linearized, history[top.entry].id)
    /\ calls' = SubSeq(calls, 1, Len(calls) - 1)
    /\ next' = l.next /\ prev' = l.prev
    /\ entry' = l.next[top.entry]
    /\ UNCHANGED <<input, kill, state, cache, result, display>>

\* A return whose call is not linearized: undo the latest choice.
Backtrack ==
    LET top == calls[Len(calls)]
        l == unlift(top.entry) IN
    /\ Searching /\ match(entry) = Nil /\ calls # <<>>
    /\ longest' = UpdatedLongest
    /\ state' = top.state
    /\ linearized' = clear(linearized, history[top.entry].id)
    /\ calls' = SubSeq(calls, 1, Len(calls) - 1)
    /\ next' = l.next /\ prev' = l.prev
    /\ entry' = l.next[top.entry]
    /\ UNCHANGED <<input, kill, cache, result, display>>

GiveUp ==
    /\ Searching /\ match(entry) = Nil /\ calls = <<>>
    /\ result' = "false"
    /\ UNCHANGED <<input, kill, list, state, linearized, cache, calls, longest, display>>

Killed ==
    /\ result = "none" /\ next[0] # Nil /\ kill
    /\ result' = "false"
    /\ UNCHANGED <<input, kill, list, state, linearized, cache, calls, longest, display>>

Succeed ==
    /\ result = "none" /\ next[0] = Nil
    /\ result' = "true"
    /\ longest' = [i \in DOMAIN longest |-> Prefix]
    /\ UNCHANGED <<input, kill, list, state, linearized, cache, calls, display>>

\* checkParallel stops the search.  (Afterwards kill is not looked at.)
Kill ==
    /\ result = "none" /\ ~kill /\ kill' = TRUE
    /\ UNCHANGED <<input, list, state, linearized, cache, calls, longest, result, display>>

-----------------------------------------------------------------------------
(***************************************************************************)
(* partialLinearizations and computeVisualizationData                      *)
(***************************************************************************)

\* The recorded prefixes, each once.
Collected == {longest[i] : i \in DOMAIN longest} \ {Nil}

\* Longest first; the sort is not stable, and the set was in no order.
ByLength(S) ==
    {seq \in Arrangements(S) : /\ Len(seq) = Cardinality(S)
                               /\ \A m, n \in DOMAIN seq : m < n => Len(seq[m]) >= Len(seq[n])}

\* The operation of an id, from callValue and returnValue.
Shown(id) == Op(CHOOSE n \in Nodes : history[n] = [kind |-> "call", id |-> id])

\* Does model.Step accept every step of a prefix?
Replays(seq) ==
    LET st[n \in 0..Len(seq)] ==
            IF n = 0 THEN KvInit ELSE KvState(st[n - 1], Shown(seq[n]))
    IN  \A n \in DOMAIN seq : KvOk(st[n - 1], Shown(seq[n]))

With(ps, id) == {m \in DOMAIN ps : \E n \in DOMAIN ps[m] : ps[m][n] = id}

\* The first of the longest prefixes with an operation.
Largest(ps, id) ==
    CHOOSE m \in With(ps, id) : \A l \in With(ps, id) :
        Len(ps[l]) < Len(ps[m]) \/ (Len(ps[l]) = Len(ps[m]) /\ m <= l)

Visualize ==
    /\ result # "none" /\ shown = "no"
    /\ \E ps \in ByLength(Collected) :
        IF \A m \in DOMAIN ps : Replays(ps[m])
        THEN /\ shown' = "shown" /\ partials' = ps
             /\ largest' = [id \in {i \in DOMAIN longest : With(ps, i) # {}} |-> Largest(ps, id)]
        ELSE shown' = "panic" /\ UNCHANGED <<partials, largest>>
    /\ UNCHANGED <<input, kill, list, state, linearized, cache, calls, longest, result>>

-----------------------------------------------------------------------------
Iterate == Linearize \/ Skip \/ Backtrack \/ GiveUp \/ Killed \/ Succeed

Done == shown # "no" /\ UNCHANGED vars

Next == Iterate \/ Kill \/ Visualize \/ Done

\* The goroutine that runs checkSingle is scheduled.
Spec == Init /\ [][Next]_vars /\ WF_vars(Iterate)

-----------------------------------------------------------------------------
(***************************************************************************)
(* Properties                                                              *)
(***************************************************************************)

\* The answer is the one of the reference definition for the events, whatever
\* ids they carry: true only for a linearizable history, and false, unless the
\* search was killed, only for one that is not (checker.go:87-114, 174-248).
\* Pruning with the cache loses no linearization.
AnswerCorrect ==
    /\ result = "true" => Linearizable(ops, Before(events))
    /\ result = "false" /\ ~kill => ~Linearizable(ops, Before(events))

\* The list is what lift and unlift must leave: the entries of the operations
\* that are not linearized, in the order of the history, linked both ways
\* (checker.go:154-172).  While there are any, the search is at one of them, so
\* that entry.match never dereferences a nil pointer (checker.go:190-191).
Remaining == {n \in Nodes : history[n].id \notin Members(linearized)}

IsNext(S, n, m) ==
    IF m = Nil THEN \A l \in S : l <= n ELSE m \in S /\ n < m /\ \A l \in S : l <= n \/ m <= l
IsPrev(S, n, m) == m \in S \cup {0} /\ m < n /\ \A l \in S : l <= m \/ n <= l

ListIntact ==
    /\ \A n \in Remaining \cup {0} : IsNext(Remaining, n, next[n])
    /\ \A n \in Remaining : IsPrev(Remaining, n, prev[n])
    /\ next[0] # Nil => entry \in Remaining

\* A sequence of the search's ids, in the ids of the events.
InEventIds(seq) ==
    [n \in DOMAIN seq |-> events[CHOOSE p \in Nodes : history[p].id = seq[n]].id]

\* The stack of calls is the beginning of a linearization, the bitset, in words
\* of W bits, holds exactly its operations, and state is the state it leads to
\* (checker.go:198-202, 230-236; bitset.go:23-37).
CallsLegal ==
    LET seq == InEventIds(Prefix)
    IN  /\ seq \in PartialLinearizations(ops, Before(events))
        /\ {Prefix[n] : n \in DOMAIN Prefix} = Members(linearized)
        /\ \A k \in Keys(ops) : StateAfter(ops, seq)[Len(seq)][k] = state

\* What is displayed for an operation is the "longest linearizable prefix that
\* includes the given entry" (checker.go:180, visualization.go:54-80): a
\* beginning of a linearization with it, than which, unless the search was
\* killed, no other is longer, and as long as the one recorded for it; an
\* operation has none only if there is none.
\* "valid partial linearization returned non-ok result from model step" is
\* never reached, also when the search was killed half way.
LargestIsLongest ==
    LET all == PartialLinearizations(ops, Before(events))
        with(id) == {seq \in all : \E n \in DOMAIN seq : seq[n] = InEventIds(<<id>>)[1]}
    IN  /\ shown # "panic"
        /\ shown = "shown" =>
            \A id \in DOMAIN longest :
                IF id \notin DOMAIN largest THEN kill \/ with(id) = {}
                ELSE LET seq == InEventIds(partials[largest[id]])
                     IN  /\ seq \in with(id)
                         /\ kill \/ /\ Len(longest[id]) = Len(seq)
                                    /\ \A other \in with(id) : Len(other) <= Len(seq)

\* The search ends.
Terminates == <>(result # "none")
=============================================================================
