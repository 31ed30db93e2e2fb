------------------------ MODULE CheckParallelProofs ------------------------
(***************************************************************************)
(* Proofs about CheckParallel, for histories of any length and any number  *)
(* of keys.  First the input: KvModel.Partition and makeEntries hand each  *)
(* checkSingle a well-formed history, and the answers for the partitions   *)
(* decide the whole history.  Then the goroutines: the channel has room    *)
(* for every result, longest[] is read when every goroutine has written to *)
(* it, and the verdict is that of the partitions, hence of the history.    *)
(* Until checkParallel returns, some goroutine can go on, and every step   *)
(* is one of a bounded number.                                             *)
(***************************************************************************)
EXTENDS CheckParallel, FiniteSetTheorems, SequenceTheorems, WellFoundedInduction, TLAPS

-----------------------------------------------------------------------------
(***************************************************************************)
(* Numbers, lists and states                                               *)
(***************************************************************************)

\* A nonempty set of natural numbers has a least element.
LEMMA Least ==
    ASSUME NEW S \in SUBSET Nat, S # {}
    PROVE  \E n \in S : \A m \in S : n <= m
  <1> DEFINE R == {p \in Nat \X Nat : p[1] < p[2]}
  <1>1. IsWellFoundedOn(R, Nat)
    BY NatLessThanWellFounded DEF OpToRel
  <1> HIDE DEF R
  <1>2. PICK x \in S : \A y \in S : ~(<<y, x>> \in R)
    BY <1>1, WFMin
  <1>3. \A y \in S : ~(y < x)
    <2> TAKE y \in S
    <2>1. ~(<<y, x>> \in R)
      BY <1>2
    <2>. QED
      BY <2>1 DEF R
  <1>. QED
    BY <1>3

\* The length of a function on an initial segment.
LEMMA LenOf ==
    ASSUME NEW S, NEW m \in Nat, NEW seq \in [1..m -> S]
    PROVE  Len(seq) = m /\ DOMAIN seq = 1..m
  <1>1. seq \in Seq(S) /\ DOMAIN seq = 1..m
    OBVIOUS
  <1>2. DOMAIN seq = 1..Len(seq) /\ Len(seq) \in Nat
    BY <1>1, LenProperties
  <1>. QED
    BY <1>1, <1>2

\* An initial segment is finite.
LEMMA SegmentSize ==
    ASSUME NEW m \in Nat
    PROVE  IsFiniteSet(1..m) /\ Cardinality(1..m) = m
  <1>1. 1 \in Int /\ m \in Int
    OBVIOUS
  <1>2. IsFiniteSet(1..m) /\ Cardinality(1..m) = IF 1 > m THEN 0 ELSE m - 1 + 1
    BY <1>1, FS_Interval
  <1>. QED
    BY <1>2

\* A finite set can be listed in the order of a total relation.
LEMMA Listing ==
    ASSUME NEW S, IsFiniteSet(S), NEW R,
           \A x \in S : <<x, x>> \notin R,
           \A x, y, z \in S : <<x, y>> \in R /\ <<y, z>> \in R => <<x, z>> \in R,
           \A x, y \in S : x # y => <<x, y>> \in R \/ <<y, x>> \in R
    PROVE  \E seq \in [1..Cardinality(S) -> S] :
               /\ \A x \in S : \E n \in 1..Cardinality(S) : seq[n] = x
               /\ \A a, b \in 1..Cardinality(S) : a < b <=> <<seq[a], seq[b]>> \in R
  <1> DEFINE m == Cardinality(S)
             Below(x) == {y \in S : <<y, x>> \in R}
             rank == [x \in S |-> Cardinality(Below(x)) + 1]
  <1>1. m \in Nat
    BY FS_CardinalityType
  <1>2. ASSUME NEW x \in S
        PROVE  /\ IsFiniteSet(Below(x)) /\ Cardinality(Below(x)) \in Nat
               /\ Cardinality(Below(x)) < m
    <2>1. Below(x) \in SUBSET S /\ Below(x) # S
      OBVIOUS
    <2> HIDE DEF Below
    <2>2. IsFiniteSet(Below(x)) /\ Cardinality(Below(x)) <= m /\ m # Cardinality(Below(x))
      BY <2>1, FS_Subset
    <2>3. Cardinality(Below(x)) \in Nat
      BY <2>2, FS_CardinalityType
    <2>. QED
      BY <1>1, <2>2, <2>3
  <1>3. ASSUME NEW x \in S, NEW y \in S, <<x, y>> \in R
        PROVE  Cardinality(Below(x)) < Cardinality(Below(y))
    <2>1. Below(x) \in SUBSET Below(y) /\ x \in Below(y) /\ x \notin Below(x)
      BY <1>3
    <2> HIDE DEF Below
    <2>2. Cardinality(Below(x)) <= Cardinality(Below(y)) /\ Cardinality(Below(y)) # Cardinality(Below(x))
      BY <1>2, <2>1, FS_Subset
    <2>. QED
      BY <1>2, <2>2
  <1> HIDE DEF Below
  <1>4. rank \in [S -> 1..m]
    BY <1>1, <1>2
  <1>5. \A x, y \in S : rank[x] < rank[y] <=> <<x, y>> \in R
    <2> SUFFICES ASSUME NEW x \in S, NEW y \in S PROVE rank[x] < rank[y] <=> <<x, y>> \in R
      OBVIOUS
    <2>1. rank[x] = Cardinality(Below(x)) + 1 /\ rank[y] = Cardinality(Below(y)) + 1
      OBVIOUS
    <2> HIDE DEF rank
    <2>2. CASE <<x, y>> \in R
      BY <1>2, <1>3, <2>1, <2>2
    <2>3. CASE <<y, x>> \in R
      <3>1. <<x, y>> \notin R
        BY <2>3
      <3>. QED
        BY <1>2, <1>3, <2>1, <2>3, <3>1
    <2>4. CASE x = y
      BY <1>2, <2>1, <2>4
    <2>. QED
      BY <2>2, <2>3, <2>4
  <1> HIDE DEF rank
  <1>6. \A x, y \in S : rank[x] = rank[y] => x = y
    <2> SUFFICES ASSUME NEW x \in S, NEW y \in S, x # y PROVE rank[x] # rank[y]
      OBVIOUS
    <2>1. rank[x] \in Nat /\ rank[y] \in Nat
      BY <1>4
    <2>. QED
      BY <1>5, <2>1
  <1>7. rank \in Injection(S, 1..m)
    BY <1>4, <1>6 DEF Injection, IsInjective
  <1>8. rank \in Surjection(S, 1..m)
    BY <1>1, <1>7, SegmentSize, FS_Injection
  <1>9. \A n \in 1..m : \E x \in S : rank[x] = n
    BY <1>8 DEF Surjection
  <1> DEFINE seq == [n \in 1..m |-> CHOOSE x \in S : rank[x] = n]
  <1>10. \A n \in 1..m : seq[n] \in S /\ rank[seq[n]] = n
    BY <1>9
  <1>11. seq \in [1..m -> S]
    BY <1>10
  <1> HIDE DEF seq, m
  <1>12. \A x \in S : \E n \in 1..m : seq[n] = x
    <2> SUFFICES ASSUME NEW x \in S PROVE seq[rank[x]] = x /\ rank[x] \in 1..m
      OBVIOUS
    <2>. QED
      BY <1>4, <1>6, <1>10
  <1>13. \A a, b \in 1..m : a < b <=> <<seq[a], seq[b]>> \in R
    BY <1>5, <1>10
  <1>. QED
    BY <1>11, <1>12, <1>13 DEF m

\* A list of distinct elements that is as long as the set has elements lists them all.
LEMMA Exhaustive ==
    ASSUME NEW S, IsFiniteSet(S), NEW m \in Nat, m = Cardinality(S), NEW seq \in [1..m -> S],
           Distinct(seq)
    PROVE  \A x \in S : \E n \in 1..m : seq[n] = x
  <1>1. seq \in Injection(1..m, S)
    BY DEF Injection, IsInjective, Distinct
  <1>2. seq \in Surjection(1..m, S)
    BY <1>1, SegmentSize, FS_Injection
  <1>. QED
    BY <1>2 DEF Surjection

\* A list of m different numbers up to m has them all.
LEMMA Permutes ==
    ASSUME NEW m \in Nat, NEW seq \in [1..m -> 1..m], Distinct(seq)
    PROVE  \A x \in 1..m : \E n \in 1..m : seq[n] = x
  <1> DEFINE S == 1..m
  <1>1. IsFiniteSet(S)
    BY SegmentSize
  <1>2. seq \in Injection(S, S)
    BY DEF Injection, IsInjective, Distinct
  <1> HIDE DEF S
  <1>3. seq \in Surjection(S, S)
    BY <1>1, <1>2, FS_Injection
  <1>. QED
    BY <1>3 DEF S, Surjection

\* f are the states the store goes through when it executes q.
Follows(o, m, q, f) == f[0] = KvInit /\ \A a \in 1..m : f[a] = KvState(f[a - 1], o[q[a]])

\* They are determined by the operations.
LEMMA SameStates ==
    ASSUME NEW o, NEW m \in Nat, NEW q, NEW f, NEW g, Follows(o, m, q, f), Follows(o, m, q, g)
    PROVE  \A a \in 0..m : f[a] = g[a]
  <1> DEFINE Bad == {a \in 0..m : f[a] # g[a]}
  <1> SUFFICES ASSUME Bad # {} PROVE FALSE
    OBVIOUS
  <1>1. Bad \in SUBSET Nat
    OBVIOUS
  <1> HIDE DEF Bad
  <1>2. PICK a \in Bad : \A x \in Bad : a <= x
    BY <1>1, Least
  <1>3. a \in 1..m /\ f[a] # g[a]
    BY DEF Bad, Follows
  <1>4. a - 1 \in 0..m /\ a - 1 \notin Bad
    BY <1>2, <1>3
  <1>5. f[a - 1] = g[a - 1]
    BY <1>4 DEF Bad
  <1>. QED
    BY <1>3, <1>5 DEF Follows

\* One step of StateAfter.
Apply(o, i, x) == [x EXCEPT ![o[i].key] = KvState(@, o[i])]

IsChain(o, seq, m, g) ==
    g = [n \in 0..m |-> IF n = 0 THEN [k \in Keys(o) |-> KvInit]
                        ELSE Apply(o, seq[n], g[n - 1])]

\* There is a function as the recursion of StateAfter defines it: otherwise there
\* would be a least length without one.
LEMMA ChainExists ==
    ASSUME NEW o, NEW seq, NEW m \in Nat
    PROVE  \E g : IsChain(o, seq, m, g)
  <1> DEFINE Bad == {n \in 0..m : ~\E g : IsChain(o, seq, n, g)}
  <1> SUFFICES ASSUME Bad # {} PROVE FALSE
    OBVIOUS
  <1>0. Bad \in SUBSET Nat
    OBVIOUS
  <1> HIDE DEF Bad
  <1>1. PICK n \in Bad : \A x \in Bad : n <= x
    BY <1>0, Least
  <1>2. n \in 0..m /\ ~\E g : IsChain(o, seq, n, g)
    BY DEF Bad
  <1>3. CASE n = 0
    <2> DEFINE zero == [k \in Keys(o) |-> KvInit]
               h == [x \in 0..0 |-> zero]
    <2>1. h = [x \in 0..0 |-> IF x = 0 THEN zero ELSE Apply(o, seq[x], h[x - 1])]
      OBVIOUS
    <2>. QED
      BY <1>2, <1>3, <2>1 DEF IsChain
  <1>4. CASE n # 0
    <2>1. n - 1 \in 0..m /\ n - 1 \notin Bad
      BY <1>1, <1>2, <1>4
    <2>2. PICK g : IsChain(o, seq, n - 1, g)
      BY <2>1 DEF Bad
    <2> DEFINE zero == [k \in Keys(o) |-> KvInit]
               h == [x \in 0..n |-> IF x = 0 THEN zero ELSE Apply(o, seq[x], g[x - 1])]
               h2 == [x \in 0..n |-> IF x = 0 THEN zero ELSE Apply(o, seq[x], h[x - 1])]
    <2>3. \A x \in 0..(n - 1) : g[x] = IF x = 0 THEN zero ELSE Apply(o, seq[x], g[x - 1])
      BY <2>2 DEF IsChain
    <2> HIDE DEF zero
    <2>4. \A x \in 0..(n - 1) : h[x] = g[x]
      BY <1>2, <1>4, <2>3
    <2>5. \A x \in 0..n : x # 0 => x - 1 \in 0..(n - 1)
      BY <1>2
    <2>6. h = h2
      BY <2>4, <2>5
    <2>. QED
      BY <1>2, <2>6 DEF IsChain, zero
  <1>. QED
    BY <1>3, <1>4

\* StateAfter is what its recursive definition says.
LEMMA StateAfterSteps ==
    ASSUME NEW o, NEW seq, Len(seq) \in Nat
    PROVE  /\ StateAfter(o, seq)[0] = [k \in Keys(o) |-> KvInit]
           /\ \A n \in 1..Len(seq) :
                 StateAfter(o, seq)[n] = Apply(o, seq[n], StateAfter(o, seq)[n - 1])
  <1> DEFINE st == StateAfter(o, seq)
             m == Len(seq)
  <1>1. \E g : IsChain(o, seq, m, g)
    BY ChainExists
  <1>2. st = CHOOSE g : IsChain(o, seq, m, g)
    BY DEF StateAfter, IsChain, Apply
  <1>3. IsChain(o, seq, m, st)
    BY <1>1, <1>2
  <1> HIDE DEF st
  <1>4. \A n \in 0..m : st[n] = IF n = 0 THEN [k \in Keys(o) |-> KvInit]
                                 ELSE Apply(o, seq[n], st[n - 1])
    BY <1>3 DEF IsChain
  <1>5. 0 \in 0..m /\ \A n \in 1..m : n \in 0..m /\ n # 0
    OBVIOUS
  <1>6. st[0] = [k \in Keys(o) |-> KvInit] /\ \A n \in 1..m : st[n] = Apply(o, seq[n], st[n - 1])
    BY <1>4, <1>5
  <1>. QED
    BY <1>6 DEF st

\* A step of StateAfter changes the state of one key.
LEMMA KeyStep ==
    ASSUME NEW o, NEW seq, Len(seq) \in Nat, \A n \in 1..Len(seq) : seq[n] \in DOMAIN o,
           NEW k \in Keys(o)
    PROVE  /\ StateAfter(o, seq)[0][k] = KvInit
           /\ \A n \in 1..Len(seq) :
                 StateAfter(o, seq)[n][k] =
                     IF o[seq[n]].key = k THEN KvState(StateAfter(o, seq)[n - 1][k], o[seq[n]])
                     ELSE StateAfter(o, seq)[n - 1][k]
  <1> DEFINE st == StateAfter(o, seq)
             m == Len(seq)
             Bad == {n \in 0..m : DOMAIN st[n] # Keys(o)}
  <1>1. /\ st[0] = [x \in Keys(o) |-> KvInit]
        /\ \A n \in 1..m : st[n] = Apply(o, seq[n], st[n - 1])
    BY StateAfterSteps
  <1> HIDE DEF st
  <1>2. Bad = {}
    <2> SUFFICES ASSUME Bad # {} PROVE FALSE
      OBVIOUS
    <2>1. Bad \in SUBSET Nat
      OBVIOUS
    <2> HIDE DEF Bad
    <2>2. PICK n \in Bad : \A x \in Bad : n <= x
      BY <2>1, Least
    <2>3. n \in 0..m /\ DOMAIN st[n] # Keys(o)
      BY DEF Bad
    <2>4. n # 0
      BY <1>1, <2>3
    <2>5. n - 1 \in 0..m /\ n - 1 \notin Bad
      BY <2>2, <2>3, <2>4
    <2>6. DOMAIN st[n - 1] = Keys(o)
      BY <2>5 DEF Bad
    <2>7. n \in 1..m
      BY <2>3, <2>4
    <2>8. DOMAIN st[n] = DOMAIN st[n - 1]
      BY <1>1, <2>7 DEF Apply
    <2>. QED
      BY <2>3, <2>6, <2>8
  <1>3. ASSUME NEW n \in 1..m
        PROVE  st[n][k] = IF o[seq[n]].key = k THEN KvState(st[n - 1][k], o[seq[n]])
                          ELSE st[n - 1][k]
    <2>1. n - 1 \in 0..m /\ seq[n] \in DOMAIN o
      OBVIOUS
    <2>2. DOMAIN st[n - 1] = Keys(o)
      BY <1>2, <2>1
    <2> DEFINE kk == o[seq[n]].key
               new == KvState(st[n - 1][kk], o[seq[n]])
    <2>3. st[n] = [st[n - 1] EXCEPT ![kk] = new]
      BY <1>1 DEF Apply
    <2>4. kk = k => new = KvState(st[n - 1][k], o[seq[n]])
      OBVIOUS
    <2> HIDE DEF new, kk
    <2>5. st[n][k] = IF kk = k THEN new ELSE st[n - 1][k]
      BY <2>2, <2>3
    <2>. QED
      BY <2>4, <2>5 DEF kk
  <1>4. st[0][k] = KvInit
    BY <1>1
  <1>. QED
    BY <1>3, <1>4 DEF st

-----------------------------------------------------------------------------
(***************************************************************************)
(* KvModel.Partition                                                       *)
(***************************************************************************)

\* One operation of the loop.
Grown(o, k, n, slice) == IF o[n].key = k THEN Append(slice, o[n]) ELSE slice

IsLoop(o, k, m, g) ==
    g = [n \in 0..m |-> IF n = 0 THEN <<>> ELSE Grown(o, k, n, g[n - 1])]

\* There is a function as the recursion of Partition defines it.
LEMMA LoopExists ==
    ASSUME NEW o, NEW k, NEW m \in Nat
    PROVE  \E g : IsLoop(o, k, m, g)
  <1> DEFINE Bad == {n \in 0..m : ~\E g : IsLoop(o, k, n, g)}
  <1> SUFFICES ASSUME Bad # {} PROVE FALSE
    OBVIOUS
  <1>0. Bad \in SUBSET Nat
    OBVIOUS
  <1> HIDE DEF Bad
  <1>1. PICK n \in Bad : \A x \in Bad : n <= x
    BY <1>0, Least
  <1>2. n \in 0..m /\ ~\E g : IsLoop(o, k, n, g)
    BY DEF Bad
  <1>3. CASE n = 0
    <2> DEFINE h == [x \in 0..0 |-> <<>>]
    <2>1. h = [x \in 0..0 |-> IF x = 0 THEN <<>> ELSE Grown(o, k, x, h[x - 1])]
      OBVIOUS
    <2>. QED
      BY <1>2, <1>3, <2>1 DEF IsLoop
  <1>4. CASE n # 0
    <2>1. n - 1 \in 0..m /\ n - 1 \notin Bad
      BY <1>1, <1>2, <1>4
    <2>2. PICK g : IsLoop(o, k, n - 1, g)
      BY <2>1 DEF Bad
    <2> DEFINE h == [x \in 0..n |-> IF x = 0 THEN <<>> ELSE Grown(o, k, x, g[x - 1])]
               h2 == [x \in 0..n |-> IF x = 0 THEN <<>> ELSE Grown(o, k, x, h[x - 1])]
    <2>3. \A x \in 0..(n - 1) : g[x] = IF x = 0 THEN <<>> ELSE Grown(o, k, x, g[x - 1])
      BY <2>2 DEF IsLoop
    <2>4. \A x \in 0..(n - 1) : h[x] = g[x]
      BY <1>2, <1>4, <2>3
    <2>5. \A x \in 0..n : x # 0 => x - 1 \in 0..(n - 1)
      BY <1>2
    <2>6. h = h2
      BY <2>4, <2>5
    <2>. QED
      BY <1>2, <2>6 DEF IsLoop
  <1>. QED
    BY <1>3, <1>4

\* part holds the operations of key k among the first n, and g says which.
Places(o, k, n, part, g) ==
    /\ Len(part) \in Nat /\ DOMAIN part = 1..Len(part)
    /\ g \in [1..Len(part) -> 1..n]
    /\ \A a, b \in 1..Len(part) : a # b => g[a] # g[b]
    /\ \A a \in 1..Len(part) : part[a] = o[g[a]] /\ o[g[a]].key = k
    /\ \A i \in 1..n : o[i].key = k => \E a \in 1..Len(part) : g[a] = i

\* Partition loses no operation of the key, takes none twice, and none of another.
LEMMA PartitionPlaces ==
    ASSUME NEW o, Len(o) \in Nat, NEW k
    PROVE  \E g : Places(o, k, Len(o), Partition(o, k), g)
  <1> DEFINE L == Len(o)
             V == {o[i] : i \in 1..L}
             m == CHOOSE g : IsLoop(o, k, L, g)
  <1>1. \E g : IsLoop(o, k, L, g)
    BY LoopExists
  <1>2. Partition(o, k) = m[L]
    BY DEF Partition, IsLoop, Grown
  <1>3. IsLoop(o, k, L, m)
    BY <1>1
  <1> HIDE DEF m
  <1>4. \A n \in 0..L : m[n] = IF n = 0 THEN <<>> ELSE Grown(o, k, n, m[n - 1])
    BY <1>3 DEF IsLoop
  <1> DEFINE Bad == {n \in 0..L : ~(m[n] \in Seq(V) /\ \E g : Places(o, k, n, m[n], g))}
  <1>5. Bad = {}
    <2> SUFFICES ASSUME Bad # {} PROVE FALSE
      OBVIOUS
    <2>1. Bad \in SUBSET Nat
      OBVIOUS
    <2> HIDE DEF Bad
    <2>2. PICK n \in Bad : \A x \in Bad : n <= x
      BY <2>1, Least
    <2>3. n \in 0..L /\ ~(m[n] \in Seq(V) /\ \E g : Places(o, k, n, m[n], g))
      BY DEF Bad
    <2>4. CASE n = 0
      <3>1. m[n] = <<>>
        BY <1>4, <2>4
      <3>2. <<>> \in Seq(V) /\ Len(<<>>) = 0 /\ DOMAIN <<>> = 1..0
        OBVIOUS
      <3> DEFINE e == [x \in 1..0 |-> x]
      <3>3. Places(o, k, n, m[n], e)
        BY <2>4, <3>1, <3>2 DEF Places
      <3>. QED
        BY <2>3, <3>1, <3>2, <3>3
    <2>5. CASE n # 0
      <3>1. n - 1 \in 0..L /\ n - 1 \notin Bad /\ n \in 1..L
        BY <2>2, <2>3, <2>5
      <3>2. m[n - 1] \in Seq(V) /\ \E g : Places(o, k, n - 1, m[n - 1], g)
        BY <3>1 DEF Bad
      <3>3. PICK g : Places(o, k, n - 1, m[n - 1], g)
        BY <3>2
      <3>4. m[n] = Grown(o, k, n, m[n - 1])
        BY <1>4, <2>3, <2>5
      <3> DEFINE s == m[n - 1]
                 l == Len(s)
      <3>5. /\ l \in Nat /\ DOMAIN s = 1..l /\ g \in [1..l -> 1..(n - 1)]
            /\ \A a, b \in 1..l : a # b => g[a] # g[b]
            /\ \A a \in 1..l : s[a] = o[g[a]] /\ o[g[a]].key = k
            /\ \A i \in 1..(n - 1) : o[i].key = k => \E a \in 1..l : g[a] = i
        BY <3>3 DEF Places
      <3>6. o[n] \in V
        BY <3>1
      <3>7. CASE o[n].key # k
        <4>1. m[n] = s
          BY <3>4, <3>7 DEF Grown
        <4>2. g \in [1..l -> 1..n]
          BY <3>1, <3>5
        <4>3. \A i \in 1..n : o[i].key = k => i \in 1..(n - 1)
          BY <3>1, <3>7
        <4> HIDE DEF s
        <4>4. Places(o, k, n, s, g)
          BY <3>5, <4>2, <4>3 DEF Places
        <4>. QED
          BY <2>3, <3>2, <4>1, <4>4 DEF s
      <3>8. CASE o[n].key = k
        <4> DEFINE t == Append(s, o[n])
                   h == [a \in 1..(l + 1) |-> IF a = l + 1 THEN n ELSE g[a]]
        <4>1. m[n] = t
          BY <3>4, <3>8 DEF Grown
        <4>2. /\ t \in Seq(V) /\ Len(t) = l + 1 /\ DOMAIN t = 1..(l + 1)
              /\ t[l + 1] = o[n] /\ \A a \in 1..l : t[a] = s[a]
          <5> HIDE DEF V
          <5>1. s \in Seq(V)
            BY <3>2
          <5> HIDE DEF s
          <5>. QED
            BY <3>6, <5>1, AppendProperties
        <4> HIDE DEF t, s, l
        <4>3. h \in [1..(l + 1) -> 1..n]
          BY <3>1, <3>5
        <4>4. h[l + 1] = n /\ \A a \in 1..(l + 1) : a # l + 1 => a \in 1..l /\ h[a] = g[a]
          BY <3>5
        <4>5. \A a \in 1..l : g[a] # n /\ a \in 1..(l + 1) /\ a # l + 1
          BY <3>1, <3>5
        <4> HIDE DEF h
        <4>6. \A a, b \in 1..(l + 1) : a # b => h[a] # h[b]
          BY <3>5, <4>4, <4>5
        <4>7. \A a \in 1..(l + 1) : t[a] = o[h[a]] /\ o[h[a]].key = k
          BY <3>5, <3>8, <4>2, <4>4
        <4>8. \A i \in 1..n : o[i].key = k => \E a \in 1..(l + 1) : h[a] = i
          <5> SUFFICES ASSUME NEW i \in 1..n, o[i].key = k
                       PROVE  \E a \in 1..(l + 1) : h[a] = i
            OBVIOUS
          <5>1. CASE i = n
            BY <3>5, <4>4, <5>1
          <5>2. CASE i # n
            <6>1. i \in 1..(n - 1)
              BY <3>1, <5>2
            <6>2. PICK a \in 1..l : g[a] = i
              BY <3>5, <6>1
            <6>. QED
              BY <4>4, <4>5, <6>2
          <5>. QED
            BY <5>1, <5>2
        <4>9. l + 1 \in Nat
          BY <3>5
        <4>10. Places(o, k, n, t, h)
          BY <4>2, <4>3, <4>6, <4>7, <4>8, <4>9 DEF Places
        <4>. QED
          BY <2>3, <4>1, <4>2, <4>10
      <3>. QED
        BY <3>7, <3>8
    <2>. QED
      BY <2>4, <2>5
  <1>6. L \in 0..L
    OBVIOUS
  <1>. QED
    BY <1>2, <1>5, <1>6

-----------------------------------------------------------------------------
(***************************************************************************)
(* makeEntries                                                             *)
(***************************************************************************)

\* The orders of one entry more.
Longer(all, orders) ==
    UNION {LET rest == all \ {seq[p] : p \in DOMAIN seq}
           IN  {Append(seq, e) : e \in {x \in rest : \A y \in rest : ~Less(y, x)}} :
              seq \in orders}

IsSort(all, m, g) ==
    g = [n \in 0..m |-> IF n = 0 THEN {<<>>} ELSE Longer(all, g[n - 1])]

\* There is a function as the recursion of makeEntries defines it.
LEMMA SortExists ==
    ASSUME NEW all, NEW m \in Nat
    PROVE  \E g : IsSort(all, m, g)
  <1> DEFINE Bad == {n \in 0..m : ~\E g : IsSort(all, n, g)}
  <1> SUFFICES ASSUME Bad # {} PROVE FALSE
    OBVIOUS
  <1>0. Bad \in SUBSET Nat
    OBVIOUS
  <1> HIDE DEF Bad
  <1>1. PICK n \in Bad : \A x \in Bad : n <= x
    BY <1>0, Least
  <1>2. n \in 0..m /\ ~\E g : IsSort(all, n, g)
    BY DEF Bad
  <1>3. CASE n = 0
    <2> DEFINE h == [x \in 0..0 |-> {<<>>}]
    <2>1. h = [x \in 0..0 |-> IF x = 0 THEN {<<>>} ELSE Longer(all, h[x - 1])]
      OBVIOUS
    <2>. QED
      BY <1>2, <1>3, <2>1 DEF IsSort
  <1>4. CASE n # 0
    <2>1. n - 1 \in 0..m /\ n - 1 \notin Bad
      BY <1>1, <1>2, <1>4
    <2>2. PICK g : IsSort(all, n - 1, g)
      BY <2>1 DEF Bad
    <2> DEFINE h == [x \in 0..n |-> IF x = 0 THEN {<<>>} ELSE Longer(all, g[x - 1])]
               h2 == [x \in 0..n |-> IF x = 0 THEN {<<>>} ELSE Longer(all, h[x - 1])]
    <2>3. \A x \in 0..(n - 1) : g[x] = IF x = 0 THEN {<<>>} ELSE Longer(all, g[x - 1])
      BY <2>2 DEF IsSort
    <2>4. \A x \in 0..(n - 1) : h[x] = g[x]
      BY <1>2, <1>4, <2>3
    <2>5. \A x \in 0..n : x # 0 => x - 1 \in 0..(n - 1)
      BY <1>2
    <2>6. h = h2
      BY <2>4, <2>5
    <2>. QED
      BY <1>2, <2>6 DEF IsSort
  <1>. QED
    BY <1>3, <1>4

\* seq has n different entries, sorted by time, and none left is less than one of them.
SortedBeginning(all, n, seq) ==
    /\ seq \in Seq(all) /\ Len(seq) = n
    /\ \A p, q \in 1..n : p < q => seq[p] # seq[q] /\ ~Less(seq[q], seq[p])
    /\ \A e \in all : (\A p \in 1..n : seq[p] # e) => \A p \in 1..n : ~Less(e, seq[p])

\* One entry more.
LEMMA LongerSorted ==
    ASSUME NEW all, NEW n \in Nat, n # 0, NEW orders,
           \A seq \in orders : SortedBeginning(all, n - 1, seq),
           NEW new \in Longer(all, orders)
    PROVE  SortedBeginning(all, n, new)
  <1>1. PICK seq \in orders, e \in all :
            /\ new = Append(seq, e)
            /\ e \notin {seq[p] : p \in DOMAIN seq}
            /\ \A y \in all \ {seq[p] : p \in DOMAIN seq} : ~Less(y, e)
    BY DEF Longer
  <1>2. /\ seq \in Seq(all) /\ Len(seq) = n - 1 /\ DOMAIN seq = 1..(n - 1)
        /\ \A p, q \in 1..(n - 1) : p < q => seq[p] # seq[q] /\ ~Less(seq[q], seq[p])
        /\ \A x \in all : (\A p \in 1..(n - 1) : seq[p] # x) =>
               \A p \in 1..(n - 1) : ~Less(x, seq[p])
    BY LenProperties DEF SortedBeginning
  <1>3. \A p \in 1..(n - 1) : seq[p] # e
    BY <1>1, <1>2
  <1>4. \A x \in all : (\A p \in 1..(n - 1) : seq[p] # x) => ~Less(x, e)
    BY <1>1, <1>2
  <1>5. /\ new \in Seq(all) /\ Len(new) = n
        /\ \A p \in 1..(n - 1) : new[p] = seq[p]
        /\ new[n] = e
    BY <1>1, <1>2, AppendProperties
  <1>6. \A p \in 1..n : p = n \/ p \in 1..(n - 1)
    OBVIOUS
  <1>7. \A p, q \in 1..n : p < q => p \in 1..(n - 1)
    OBVIOUS
  <1>8. ASSUME NEW p \in 1..n, NEW q \in 1..n, p < q
        PROVE  new[p] # new[q] /\ ~Less(new[q], new[p])
    <2>1. p \in 1..(n - 1) /\ new[p] = seq[p]
      BY <1>5, <1>7, <1>8
    <2>2. CASE q = n
      BY <1>2, <1>3, <1>5, <2>1, <2>2
    <2>3. CASE q \in 1..(n - 1)
      BY <1>2, <1>5, <1>8, <2>1, <2>3
    <2>. QED
      BY <1>6, <2>2, <2>3
  <1>9. ASSUME NEW x \in all, \A p \in 1..n : new[p] # x, NEW p \in 1..n
        PROVE  ~Less(x, new[p])
    <2>1. \A r \in 1..(n - 1) : r \in 1..n /\ seq[r] # x
      BY <1>5, <1>9
    <2>2. CASE p = n
      BY <1>4, <1>5, <2>1, <2>2
    <2>3. CASE p \in 1..(n - 1)
      BY <1>2, <1>5, <2>1, <2>3
    <2>. QED
      BY <1>6, <2>2, <2>3
  <1>. QED
    BY <1>5, <1>8, <1>9 DEF SortedBeginning

\* The calls and returns of finitely many operations are finitely many.
LEMMA EntriesFinite ==
    ASSUME NEW part, Len(part) \in Nat, DOMAIN part = 1..Len(part)
    PROVE  IsFiniteSet(Entries(part))
  <1> DEFINE C(i) == [kind |-> "call", id |-> i, time |-> part[i].call]
             R(i) == [kind |-> "return", id |-> i, time |-> part[i].ret]
             c == [i \in 1..Len(part) |-> C(i)]
             r == [i \in 1..Len(part) |-> R(i)]
             A == {C(i) : i \in 1..Len(part)}
             B == {R(i) : i \in 1..Len(part)}
  <1>1. IsFiniteSet(1..Len(part))
    BY SegmentSize
  <1>2. c \in Surjection(1..Len(part), A) /\ r \in Surjection(1..Len(part), B)
    BY DEF Surjection
  <1>3. Entries(part) = A \cup B
    BY DEF Entries
  <1> HIDE DEF A, B, c, r
  <1>4. IsFiniteSet(A) /\ IsFiniteSet(B)
    BY <1>1, <1>2, FS_Surjection
  <1>. QED
    BY <1>3, <1>4, FS_Union

\* All that the recursion of makeEntries lists are sorted beginnings.
LEMMA SortBeginnings ==
    ASSUME NEW all, NEW C \in Nat, NEW g, IsSort(all, C, g)
    PROVE  \A n \in 0..C : \A seq \in g[n] : SortedBeginning(all, n, seq)
  <1>1. \A n \in 0..C : g[n] = IF n = 0 THEN {<<>>} ELSE Longer(all, g[n - 1])
    BY DEF IsSort
  <1> DEFINE Bad == {n \in 0..C : ~\A seq \in g[n] : SortedBeginning(all, n, seq)}
  <1> SUFFICES ASSUME Bad # {} PROVE FALSE
    OBVIOUS
  <1>2. Bad \in SUBSET Nat
    OBVIOUS
  <1> HIDE DEF Bad
  <1>3. PICK n \in Bad : \A x \in Bad : n <= x
    BY <1>2, Least
  <1>4. n \in 0..C /\ ~\A seq \in g[n] : SortedBeginning(all, n, seq)
    BY DEF Bad
  <1>5. CASE n = 0
    <2>1. g[n] = {<<>>}
      BY <1>1, <1>4, <1>5
    <2>2. <<>> \in Seq(all) /\ Len(<<>>) = 0
      OBVIOUS
    <2>3. SortedBeginning(all, 0, <<>>)
      BY <2>2 DEF SortedBeginning
    <2>. QED
      BY <1>4, <1>5, <2>1, <2>3
  <1>6. CASE n # 0
    <2>1. n - 1 \in 0..C /\ n - 1 \notin Bad /\ n \in Nat
      BY <1>3, <1>4, <1>6
    <2>2. \A seq \in g[n - 1] : SortedBeginning(all, n - 1, seq)
      BY <2>1 DEF Bad
    <2>3. g[n] = Longer(all, g[n - 1])
      BY <1>1, <1>4, <1>6
    <2>. QED
      BY <1>4, <1>6, <2>1, <2>2, <2>3, LongerSorted
  <1>. QED
    BY <1>5, <1>6

\* What makeEntries returns has every entry once, sorted by time.
LEMMA EntriesSorted ==
    ASSUME NEW part, Len(part) \in Nat, DOMAIN part = 1..Len(part),
           NEW entries \in makeEntries(part)
    PROVE  /\ Len(entries) = Cardinality(Entries(part))
           /\ Cardinality(Entries(part)) \in Nat
           /\ entries \in [1..Cardinality(Entries(part)) -> Entries(part)]
           /\ \A e \in Entries(part) : \E p \in 1..Cardinality(Entries(part)) : entries[p] = e
           /\ \A p, q \in 1..Cardinality(Entries(part)) :
                 p < q => entries[p] # entries[q] /\ ~Less(entries[q], entries[p])
  <1> DEFINE all == Entries(part)
             C == Cardinality(all)
             g == CHOOSE f : IsSort(all, C, f)
  <1>1. IsFiniteSet(all) /\ C \in Nat
    BY EntriesFinite, FS_CardinalityType
  <1>2. makeEntries(part) = g[C]
    BY DEF makeEntries, IsSort, Longer
  <1>3. IsSort(all, C, g)
    BY <1>1, SortExists
  <1> HIDE DEF g, all, C
  <1>4. SortedBeginning(all, C, entries)
    BY <1>1, <1>2, <1>3, SortBeginnings
  <1>5. entries \in [1..C -> all] /\ Len(entries) = C
    BY <1>4 DEF SortedBeginning
  <1>6. \A p, q \in 1..C : p < q => entries[p] # entries[q] /\ ~Less(entries[q], entries[p])
    BY <1>4 DEF SortedBeginning
  <1>7. Distinct(entries)
    BY <1>1, <1>5, <1>6 DEF Distinct
  <1>8. \A e \in all : \E p \in 1..C : entries[p] = e
    BY <1>1, <1>5, <1>7, Exhaustive DEF C
  <1>. QED
    BY <1>1, <1>5, <1>6, <1>8 DEF all, C

\* Entries can always be sorted.
LEMMA EntriesExist ==
    ASSUME NEW part, Len(part) \in Nat, DOMAIN part = 1..Len(part),
           \A i \in DOMAIN part : part[i].call \in Nat /\ part[i].ret \in Nat
    PROVE  makeEntries(part) # {}
  <1> DEFINE all == Entries(part)
             C == Cardinality(all)
             g == CHOOSE f : IsSort(all, C, f)
             Bad == {n \in 0..C : g[n] = {}}
  <1>1. IsFiniteSet(all) /\ C \in Nat
    BY EntriesFinite, FS_CardinalityType
  <1>2. makeEntries(part) = g[C]
    BY DEF makeEntries, IsSort, Longer
  <1>3. IsSort(all, C, g)
    BY <1>1, SortExists
  <1>4. \A e \in all : e.time \in Nat
    BY DEF Entries
  <1> HIDE DEF g, all
  <1>5. \A n \in 0..C : \A seq \in g[n] : SortedBeginning(all, n, seq)
    BY <1>1, <1>3, SortBeginnings
  <1>6. \A n \in 0..C : g[n] = IF n = 0 THEN {<<>>} ELSE Longer(all, g[n - 1])
    BY <1>3 DEF IsSort
  <1>7. Bad \in SUBSET Nat
    BY <1>1
  <1>8. ASSUME Bad # {} PROVE FALSE
    <2> HIDE DEF Bad, C
    <2>1. PICK n \in Bad : \A x \in Bad : n <= x
      BY <1>7, <1>8, Least
    <2>2. n \in 0..C /\ g[n] = {}
      BY DEF Bad
    <2>3. n # 0
      BY <1>1, <1>6, <2>2
    <2>4. n - 1 \in 0..C /\ n - 1 \notin Bad /\ n - 1 \in Nat /\ n - 1 < C
      BY <1>1, <2>1, <2>2, <2>3
    <2>5. PICK seq : seq \in g[n - 1]
      BY <2>4 DEF Bad
    <2>6. seq \in Seq(all) /\ Len(seq) = n - 1 /\ DOMAIN seq = 1..(n - 1)
      BY <1>5, <2>4, <2>5, LenProperties DEF SortedBeginning
    <2> DEFINE taken == {seq[p] : p \in DOMAIN seq}
               rest == all \ taken
               times == {e.time : e \in rest}
    <2>7. rest # {}
      <3>1. seq \in Surjection(1..(n - 1), taken)
        BY <2>6 DEF Surjection
      <3>2. IsFiniteSet(1..(n - 1)) /\ Cardinality(1..(n - 1)) = n - 1
        BY <2>4, SegmentSize
      <3>3. taken \in SUBSET all
        BY <2>6
      <3> HIDE DEF taken
      <3>4. IsFiniteSet(taken) /\ Cardinality(taken) <= n - 1
        BY <3>1, <3>2, FS_Surjection
      <3>5. Cardinality(taken) \in Nat
        BY <3>4, FS_CardinalityType
      <3>6. taken # all
        BY <1>1, <2>4, <3>4, <3>5 DEF C
      <3>. QED
        BY <3>3, <3>6
    <2>8. times \in SUBSET Nat /\ times # {}
      BY <1>4, <2>7
    <2>9. PICK x \in times : \A y \in times : x <= y
      <3> HIDE DEF times
      <3>. QED
        BY <2>8, Least
    <2>10. PICK e \in rest : e.time = x
      BY <2>9
    <2>11. \A y \in rest : ~Less(y, e)
      <3> SUFFICES ASSUME NEW y \in rest PROVE ~(y.time < e.time)
        BY DEF Less
      <3>1. y.time \in times /\ y.time \in Nat /\ e.time \in Nat
        BY <1>4
      <3> HIDE DEF times, rest
      <3>2. e.time <= y.time
        BY <2>9, <2>10, <3>1
      <3>. QED
        BY <3>1, <3>2
    <2>12. Append(seq, e) \in Longer(all, g[n - 1])
      BY <2>5, <2>10, <2>11 DEF Longer
    <2>. QED
      BY <1>6, <2>2, <2>3, <2>12
  <1>. QED
    BY <1>1, <1>2, <1>8

\* Whatever sort.Sort does with equal times, an operation that returns before
\* another is called is before it, and one that is before another returns no later
\* than that is called.
LEMMA EntriesOrder ==
    ASSUME NEW part, Len(part) \in Nat, DOMAIN part = 1..Len(part),
           \A i \in DOMAIN part : part[i].call \in Nat /\ part[i].ret \in Nat,
           NEW entries \in makeEntries(part)
    PROVE  Earlier(part) \subseteq Before(entries) /\ Before(entries) \subseteq NotLater(part)
  <1> DEFINE C == Cardinality(Entries(part))
             Call(i) == [kind |-> "call", id |-> i, time |-> part[i].call]
             Ret(i) == [kind |-> "return", id |-> i, time |-> part[i].ret]
  <1>1. /\ DOMAIN entries = 1..C /\ C \in Nat /\ \A p \in 1..C : entries[p] \in Entries(part)
        /\ \A e \in Entries(part) : \E p \in 1..C : entries[p] = e
        /\ \A p, q \in 1..C : p < q => entries[p] # entries[q] /\ ~Less(entries[q], entries[p])
    BY EntriesSorted
  <1>2. \A i \in DOMAIN part : Call(i) \in Entries(part) /\ Ret(i) \in Entries(part)
    BY DEF Entries
  <1>3. \A e \in Entries(part) :
            /\ e.id \in DOMAIN part
            /\ e.kind = "call" => e.time = part[e.id].call
            /\ e.kind = "return" => e.time = part[e.id].ret
    BY DEF Entries
  <1> HIDE DEF C
  <1>4. ASSUME NEW i \in DOMAIN part, NEW j \in DOMAIN part, part[i].ret < part[j].call
        PROVE  <<i, j>> \in Before(entries)
    <2>1. PICK p \in 1..C : entries[p] = Ret(i)
      BY <1>1, <1>2
    <2>2. PICK q \in 1..C : entries[q] = Call(j)
      BY <1>1, <1>2
    <2>3. Less(entries[p], entries[q])
      BY <1>4, <2>1, <2>2 DEF Less
    <2>4. p # q
      BY <2>1, <2>2
    <2>5. p < q
      BY <1>1, <2>3, <2>4
    <2>6. /\ entries[p].kind = "return" /\ entries[q].kind = "call"
          /\ entries[p].id = i /\ entries[q].id = j
      BY <2>1, <2>2
    <2> DEFINE S == {pq \in (DOMAIN entries) \X (DOMAIN entries) :
                        pq[1] < pq[2] /\ entries[pq[1]].kind = "return"
                        /\ entries[pq[2]].kind = "call"}
    <2>7. <<p, q>> \in S
      BY <1>1, <2>5, <2>6
    <2>8. Before(entries) = {<<entries[pq[1]].id, entries[pq[2]].id>> : pq \in S}
      BY DEF Before
    <2> HIDE DEF S
    <2>. QED
      BY <2>6, <2>7, <2>8
  <1>5. ASSUME NEW pair \in Before(entries) PROVE pair \in NotLater(part)
    <2>1. PICK p \in 1..C, q \in 1..C :
              /\ p < q /\ entries[p].kind = "return" /\ entries[q].kind = "call"
              /\ pair = <<entries[p].id, entries[q].id>>
      BY <1>1 DEF Before
    <2>2. ~(entries[q].time < entries[p].time)
      BY <1>1, <2>1 DEF Less
    <2>3. /\ entries[p].id \in DOMAIN part /\ entries[q].id \in DOMAIN part
          /\ entries[p].time = part[entries[p].id].ret
          /\ entries[q].time = part[entries[q].id].call
      BY <1>1, <1>3, <2>1
    <2>4. part[entries[p].id].ret <= part[entries[q].id].call
      BY <2>2, <2>3
    <2>. QED
      BY <2>1, <2>3, <2>4 DEF NotLater
  <1>6. Earlier(part) \subseteq Before(entries)
    BY <1>4 DEF Earlier
  <1>. QED
    BY <1>5, <1>6

-----------------------------------------------------------------------------
(***************************************************************************)
(* Histories and their partitions                                          *)
(***************************************************************************)

\* A list of operations with times.
Timed(o) ==
    /\ Len(o) \in Nat /\ DOMAIN o = 1..Len(o)
    /\ \A i \in DOMAIN o : o[i].call \in Nat /\ o[i].ret \in Nat /\ o[i].call < o[i].ret

\* q arranges the operations of key k in an order that the store, whose states are
\* f, allows and the clients have observed.
KeyOrder(o, k, before, m, q, f) ==
    /\ m \in Nat /\ q \in [1..m -> DOMAIN o]
    /\ \A a, b \in 1..m : a # b => q[a] # q[b]
    /\ \A i \in DOMAIN o : o[i].key = k <=> \E a \in 1..m : q[a] = i
    /\ \A a, b \in 1..m : <<q[a], q[b]>> \in before => a < b
    /\ Follows(o, m, q, f) /\ \A a \in 1..m : KvOk(f[a - 1], o[q[a]])

\* What is known of a partition.
LEMMA PartFacts ==
    ASSUME NEW o, Timed(o), NEW k \in Keys(o), NEW g,
           NEW part, Places(o, k, Len(o), part, g)
    PROVE  /\ Timed(part) /\ k \in Keys(part) /\ \A x \in DOMAIN part : part[x].key = k
           /\ g \in [DOMAIN part -> DOMAIN o]
           /\ \A x, y \in DOMAIN part :
                 /\ <<g[x], g[y]>> \in Earlier(o) => <<x, y>> \in Earlier(part)
                 /\ <<x, y>> \in NotLater(part) => <<g[x], g[y]>> \in NotLater(o)
           /\ Cardinality(DOMAIN part) = Len(part)
  <1>1. /\ Len(part) \in Nat /\ DOMAIN part = 1..Len(part) /\ DOMAIN o = 1..Len(o)
        /\ g \in [DOMAIN part -> DOMAIN o]
        /\ \A x \in DOMAIN part : part[x] = o[g[x]] /\ o[g[x]].key = k
        /\ \A i \in DOMAIN o : o[i].key = k => \E x \in DOMAIN part : g[x] = i
    BY DEF Places, Timed
  <1>2. PICK i \in DOMAIN o : o[i].key = k
    BY DEF Keys
  <1>3. PICK x \in DOMAIN part : g[x] = i
    BY <1>1, <1>2
  <1>4. k \in Keys(part)
    BY <1>1, <1>3 DEF Keys
  <1>5. Timed(part)
    BY <1>1 DEF Timed
  <1>6. Cardinality(DOMAIN part) = Len(part)
    BY <1>1, SegmentSize
  <1>7. ASSUME NEW y \in DOMAIN part, NEW z \in DOMAIN part
        PROVE  /\ <<g[y], g[z]>> \in Earlier(o) => <<y, z>> \in Earlier(part)
               /\ <<y, z>> \in NotLater(part) => <<g[y], g[z]>> \in NotLater(o)
    <2>1. part[y] = o[g[y]] /\ part[z] = o[g[z]] /\ g[y] \in DOMAIN o /\ g[z] \in DOMAIN o
      BY <1>1
    <2>. QED
      BY <2>1 DEF Earlier, NotLater
  <1>. QED
    BY <1>1, <1>4, <1>5, <1>6, <1>7

\* A linearization of a partition orders the operations of its key.
LEMMA OrderOfPart ==
    ASSUME NEW o, Timed(o), NEW k \in Keys(o), NEW before,
           Earlier(Partition(o, k)) \subseteq before, Linearizable(Partition(o, k), before)
    PROVE  \E m, q, f : KeyOrder(o, k, Earlier(o), m, q, f)
  <1> DEFINE part == Partition(o, k)
             M == Len(part)
  <1>1. PICK g : Places(o, k, Len(o), part, g)
    BY PartitionPlaces DEF Timed
  <1> HIDE DEF part
  <1>2. /\ Timed(part) /\ k \in Keys(part) /\ \A x \in DOMAIN part : part[x].key = k
        /\ g \in [DOMAIN part -> DOMAIN o] /\ Cardinality(DOMAIN part) = M
        /\ \A x, y \in DOMAIN part :
              <<g[x], g[y]>> \in Earlier(o) => <<x, y>> \in Earlier(part)
    BY <1>1, PartFacts
  <1>3. M \in Nat /\ DOMAIN part = 1..M
    BY <1>2 DEF Timed
  <1>4. PICK seq \in [1..M -> 1..M] :
            Distinct(seq) /\ InOrder(before, seq) /\ Legal(part, seq)
    BY <1>2, <1>3 DEF Linearizable, part
  <1>5. \A x \in 1..M : \E n \in 1..M : seq[n] = x
    BY <1>3, <1>4, Permutes
  <1>6. Len(seq) = M /\ DOMAIN seq = 1..M
    BY <1>3, LenOf
  <1> DEFINE q == [a \in 1..M |-> g[seq[a]]]
             st == StateAfter(part, seq)
             f == [a \in 0..M |-> st[a][k]]
  <1>7. /\ st[0][k] = KvInit
        /\ \A n \in 1..M : st[n][k] = IF part[seq[n]].key = k
                                      THEN KvState(st[n - 1][k], part[seq[n]])
                                      ELSE st[n - 1][k]
    BY <1>2, <1>3, <1>6, KeyStep
  <1>8. \A n \in 1..M : KvOk(st[n - 1][part[seq[n]].key], part[seq[n]])
    BY <1>4, <1>6 DEF Legal
  <1> HIDE DEF st, M
  <1>9. \A n \in 1..M : /\ st[n][k] = KvState(st[n - 1][k], part[seq[n]])
                        /\ KvOk(st[n - 1][k], part[seq[n]])
    BY <1>2, <1>3, <1>7, <1>8
  <1>10. \A a \in 1..M : part[seq[a]] = o[q[a]] /\ o[q[a]].key = k
    BY <1>1, <1>3 DEF Places, M
  <1>11. q \in [1..M -> DOMAIN o]
    BY <1>2, <1>3
  <1>12. \A a, b \in 1..M : a # b => q[a] # q[b]
    <2>1. \A x, y \in 1..M : x # y => g[x] # g[y]
      BY <1>1 DEF Places, M
    <2>2. \A a, b \in 1..M : a # b => seq[a] # seq[b]
      BY <1>4, <1>6 DEF Distinct
    <2>. QED
      BY <1>4, <2>1, <2>2
  <1>13. \A i \in DOMAIN o : o[i].key = k <=> \E a \in 1..M : q[a] = i
    <2>1. ASSUME NEW i \in DOMAIN o, o[i].key = k PROVE \E a \in 1..M : q[a] = i
      <3>1. PICK x \in 1..M : g[x] = i
        BY <1>1, <2>1 DEF Places, Timed, M
      <3>. QED
        BY <1>5, <3>1
    <2>. QED
      BY <1>10, <2>1
  <1>14. ASSUME NEW a \in 1..M, NEW b \in 1..M, <<q[a], q[b]>> \in Earlier(o)
         PROVE  a < b
    <2>1. seq[a] \in 1..M /\ seq[b] \in 1..M
      BY <1>4
    <2>2. <<seq[a], seq[b]>> \in before
      BY <1>2, <1>3, <1>14, <2>1 DEF part
    <2>3. PICK n \in 1..(b - 1) : seq[n] = seq[a]
      <3>1. <<seq[a], seq[b]>>[2] = seq[b] /\ <<seq[a], seq[b]>>[1] = seq[a]
        OBVIOUS
      <3>. QED
        BY <1>4, <1>6, <2>2, <3>1 DEF InOrder
    <2>4. n \in 1..M
      BY <1>3
    <2>5. n = a
      BY <1>4, <1>6, <2>3, <2>4 DEF Distinct
    <2>. QED
      BY <1>3, <2>3, <2>5
  <1>15. /\ f[0] = KvInit
         /\ \A a \in 1..M : f[a] = st[a][k] /\ f[a - 1] = st[a - 1][k]
    BY <1>3, <1>7
  <1> HIDE DEF q, f
  <1>16. \A a \in 1..M : KvOk(f[a - 1], o[q[a]]) /\ f[a] = KvState(f[a - 1], o[q[a]])
    BY <1>9, <1>10, <1>15
  <1>17. KeyOrder(o, k, Earlier(o), M, q, f)
    BY <1>3, <1>11, <1>12, <1>13, <1>14, <1>15, <1>16 DEF KeyOrder, Follows
  <1>. QED
    BY <1>17

\* An order of the operations of a key linearizes its partition.
LEMMA PartOfOrder ==
    ASSUME NEW o, Timed(o), NEW k \in Keys(o), NEW before,
           before \subseteq NotLater(Partition(o, k)),
           NEW m, NEW q, NEW f, KeyOrder(o, k, NotLater(o), m, q, f)
    PROVE  Linearizable(Partition(o, k), before)
  <1> DEFINE part == Partition(o, k)
             M == Len(part)
  <1>1. PICK g : Places(o, k, Len(o), part, g)
    BY PartitionPlaces DEF Timed
  <1> HIDE DEF part
  <1>2. /\ Timed(part) /\ k \in Keys(part) /\ \A x \in DOMAIN part : part[x].key = k
        /\ g \in [DOMAIN part -> DOMAIN o] /\ Cardinality(DOMAIN part) = M
        /\ \A x, y \in DOMAIN part :
              <<x, y>> \in NotLater(part) => <<g[x], g[y]>> \in NotLater(o)
    BY <1>1, PartFacts
  <1>3. M \in Nat /\ DOMAIN part = 1..M /\ DOMAIN o = 1..Len(o)
    BY <1>2 DEF Timed
  <1>4. /\ m \in Nat /\ q \in [1..m -> DOMAIN o]
        /\ \A a, b \in 1..m : a # b => q[a] # q[b]
        /\ \A i \in DOMAIN o : o[i].key = k <=> \E a \in 1..m : q[a] = i
        /\ \A a, b \in 1..m : <<q[a], q[b]>> \in NotLater(o) => a < b
        /\ Follows(o, m, q, f) /\ \A a \in 1..m : KvOk(f[a - 1], o[q[a]])
    BY DEF KeyOrder
  <1>5. /\ \A x, y \in 1..M : x # y => g[x] # g[y]
        /\ \A x \in 1..M : part[x] = o[g[x]] /\ o[g[x]].key = k
        /\ \A i \in DOMAIN o : o[i].key = k => \E x \in 1..M : g[x] = i
    BY <1>1, <1>3 DEF Places
  <1> HIDE DEF M
  <1> DEFINE seq == [a \in 1..m |-> CHOOSE x \in 1..M : g[x] = q[a]]
  <1>6. \A a \in 1..m : seq[a] \in 1..M /\ g[seq[a]] = q[a]
    <2> SUFFICES ASSUME NEW a \in 1..m PROVE \E x \in 1..M : g[x] = q[a]
      OBVIOUS
    <2>1. q[a] \in DOMAIN o /\ o[q[a]].key = k
      BY <1>4
    <2>. QED
      BY <1>5, <2>1
  <1>7. seq \in [1..m -> 1..M]
    BY <1>6
  <1> HIDE DEF seq
  <1>8. \A a, b \in 1..m : a # b => seq[a] # seq[b]
    BY <1>4, <1>6
  <1>9. \A x \in 1..M : \E a \in 1..m : seq[a] = x
    <2> SUFFICES ASSUME NEW x \in 1..M PROVE \E a \in 1..m : seq[a] = x
      OBVIOUS
    <2>1. g[x] \in DOMAIN o /\ o[g[x]].key = k
      BY <1>2, <1>3, <1>5
    <2>2. PICK a \in 1..m : q[a] = g[x]
      BY <1>4, <2>1
    <2>. QED
      BY <1>5, <1>6, <2>2
  <1>10. m = M
    <2>1. seq \in Injection(1..m, 1..M) /\ seq \in Surjection(1..m, 1..M)
      BY <1>7, <1>8, <1>9 DEF Injection, IsInjective, Surjection
    <2>. QED
      BY <1>3, <1>4, <2>1, SegmentSize, FS_Injection
  <1>11. Len(seq) = M /\ DOMAIN seq = 1..M
    BY <1>3, <1>7, <1>10, LenOf
  <1>12. Distinct(seq)
    BY <1>8, <1>10, <1>11 DEF Distinct
  <1>13. InOrder(before, seq)
    <2> SUFFICES ASSUME NEW pair \in before, NEW b \in 1..M, pair[2] = seq[b]
                 PROVE  \E n \in 1..(b - 1) : seq[n] = pair[1]
      BY <1>11 DEF InOrder
    <2>1. pair \in NotLater(part)
      BY DEF part
    <2>2. pair[1] \in 1..M /\ pair[2] \in 1..M /\ pair = <<pair[1], pair[2]>>
      BY <1>3, <2>1 DEF NotLater
    <2>3. PICK a \in 1..M : seq[a] = pair[1]
      BY <1>9, <1>10, <2>2
    <2>4. <<g[pair[1]], g[pair[2]]>> \in NotLater(o)
      BY <1>2, <1>3, <2>1, <2>2
    <2>5. <<q[a], q[b]>> \in NotLater(o)
      BY <1>6, <1>10, <2>3, <2>4
    <2>6. a < b
      BY <1>4, <1>10, <2>5
    <2>. QED
      BY <1>3, <2>3, <2>6
  <1>14. Legal(part, seq)
    <2> DEFINE st == StateAfter(part, seq)
               s == [a \in 0..M |-> st[a][k]]
    <2>1. /\ st[0][k] = KvInit
          /\ \A n \in 1..M : st[n][k] = IF part[seq[n]].key = k
                                        THEN KvState(st[n - 1][k], part[seq[n]])
                                        ELSE st[n - 1][k]
      <3>1. Len(seq) \in Nat /\ \A n \in 1..Len(seq) : seq[n] \in DOMAIN part
        BY <1>3, <1>6, <1>10, <1>11
      <3>. QED
        BY <1>2, <1>11, <3>1, KeyStep
    <2> HIDE DEF st
    <2>2. \A a \in 1..M : part[seq[a]] = o[q[a]] /\ part[seq[a]].key = k
      BY <1>5, <1>6, <1>10
    <2>3. /\ s[0] = KvInit
          /\ \A a \in 1..M : s[a] = st[a][k] /\ s[a - 1] = st[a - 1][k]
      BY <1>3, <2>1
    <2> HIDE DEF s
    <2>4. Follows(o, M, q, s)
      BY <2>1, <2>2, <2>3 DEF Follows
    <2>5. \A a \in 0..M : s[a] = f[a]
      BY <1>3, <1>4, <1>10, <2>4, SameStates
    <2>6. \A a \in 1..M : a - 1 \in 0..M
      BY <1>3
    <2>7. \A a \in 1..M : KvOk(st[a - 1][k], part[seq[a]])
      BY <1>4, <1>10, <2>2, <2>3, <2>5, <2>6
    <2>. QED
      BY <1>11, <2>2, <2>7 DEF Legal, st
  <1>. QED
    BY <1>2, <1>3, <1>7, <1>10, <1>12, <1>13, <1>14 DEF Linearizable, part

\* hh lists, after 0, the places in s of the operations of key k.
KeyPlaces(o, s, k, m, hh) ==
    /\ m \in Nat /\ hh \in [0..m -> 0..Len(s)] /\ hh[0] = 0
    /\ \A a, b \in 0..m : a < b => hh[a] < hh[b]
    /\ \A n \in 1..Len(s) : o[s[n]].key = k <=> \E a \in 1..m : hh[a] = n

\* The state of key k at those places: each of its operations acts on what the last one left.
StatesAt(o, s, k, m, hh) ==
    /\ StateAfter(o, s)[0][k] = KvInit
    /\ \A a \in 1..m :
          /\ hh[a] \in 1..Len(s) /\ o[s[hh[a]]].key = k
          /\ StateAfter(o, s)[hh[a] - 1][k] = StateAfter(o, s)[hh[a - 1]][k]
          /\ StateAfter(o, s)[hh[a]][k] =
                KvState(StateAfter(o, s)[hh[a - 1]][k], o[s[hh[a]]])

\* The state of a key changes only at its own operations.
LEMMA StateAtPlaces ==
    ASSUME NEW o, NEW s, Len(s) \in Nat, \A n \in 1..Len(s) : s[n] \in DOMAIN o,
           NEW k \in Keys(o), NEW m, NEW hh, KeyPlaces(o, s, k, m, hh)
    PROVE  StatesAt(o, s, k, m, hh)
  <1> DEFINE st == StateAfter(o, s)
             L == Len(s)
  <1>1. /\ st[0][k] = KvInit
        /\ \A n \in 1..L : st[n][k] = IF o[s[n]].key = k
                                      THEN KvState(st[n - 1][k], o[s[n]]) ELSE st[n - 1][k]
    BY KeyStep
  <1>2. /\ m \in Nat /\ hh \in [0..m -> 0..L] /\ hh[0] = 0
        /\ \A a, b \in 0..m : a < b => hh[a] < hh[b]
        /\ \A n \in 1..L : o[s[n]].key = k <=> \E a \in 1..m : hh[a] = n
    BY DEF KeyPlaces
  <1> HIDE DEF st, L
  <1>3. ASSUME NEW a \in 1..m
        PROVE  /\ hh[a] \in 1..L /\ o[s[hh[a]]].key = k
               /\ st[hh[a] - 1][k] = st[hh[a - 1]][k]
               /\ st[hh[a]][k] = KvState(st[hh[a - 1]][k], o[s[hh[a]]])
    <2> DEFINE lo == hh[a - 1]
               hi == hh[a]
               Bad == {n \in lo..(hi - 1) : st[n][k] # st[lo][k]}
    <2>1. a \in 0..m /\ a - 1 \in 0..m /\ 0 \in 0..m
      BY <1>2
    <2>2. lo \in 0..L /\ hi \in 0..L /\ lo < hi
      BY <1>2, <2>1
    <2>3. L \in Nat
      BY DEF L
    <2>4. hi \in 1..L
      BY <2>2, <2>3
    <2>5. o[s[hi]].key = k
      BY <1>2, <2>4
    <2>6. ASSUME NEW n \in 1..L, lo < n, n < hi PROVE o[s[n]].key # k
      <3> SUFFICES ASSUME NEW b \in 1..m, hh[b] = n PROVE FALSE
        BY <1>2
      <3>1. b \in 0..m /\ (b <= a - 1 \/ a <= b)
        BY <1>2
      <3>2. hh[b] \in 0..L /\ b \in Int /\ a \in Int
        BY <1>2, <3>1
      <3>3. b <= a - 1 => hh[b] <= lo
        <4>1. CASE b = a - 1
          BY <2>2, <4>1
        <4>2. CASE b < a - 1
          <5>1. hh[b] < hh[a - 1]
            BY <1>2, <2>1, <3>1, <4>2
          <5>. QED
            BY <2>2, <3>2, <5>1
        <4>. QED
          BY <3>2, <4>1, <4>2
      <3>4. a <= b => hi <= hh[b]
        <4>1. CASE b = a
          BY <2>2, <4>1
        <4>2. CASE a < b
          <5>1. hh[a] < hh[b]
            BY <1>2, <2>1, <3>1, <4>2
          <5>. QED
            BY <2>2, <3>2, <5>1
        <4>. QED
          BY <3>2, <4>1, <4>2
      <3>. QED
        BY <2>2, <2>3, <2>6, <3>1, <3>2, <3>3, <3>4
    <2>7. Bad = {}
      <3> SUFFICES ASSUME Bad # {} PROVE FALSE
        OBVIOUS
      <3>1. Bad \in SUBSET Nat
        BY <2>2, <2>3
      <3> HIDE DEF Bad
      <3>2. PICK n \in Bad : \A x \in Bad : n <= x
        BY <3>1, Least
      <3>3. n \in lo..(hi - 1) /\ st[n][k] # st[lo][k]
        BY DEF Bad
      <3>4. n # lo
        BY <3>3
      <3> HIDE DEF lo, hi
      <3>5. n \in 1..L /\ lo < n /\ n < hi /\ n - 1 \in lo..(hi - 1) /\ n - 1 \in Nat
        BY <2>2, <2>3, <3>3, <3>4
      <3>6. n - 1 \notin Bad
        BY <3>1, <3>2, <3>5
      <3>7. st[n - 1][k] = st[lo][k]
        BY <3>5, <3>6 DEF Bad
      <3>8. st[n][k] = st[n - 1][k]
        BY <1>1, <2>6, <3>5
      <3>. QED
        BY <3>3, <3>7, <3>8
    <2>8. hi - 1 \in lo..(hi - 1)
      BY <2>2, <2>3
    <2>9. st[hi - 1][k] = st[lo][k]
      BY <2>7, <2>8
    <2> HIDE DEF lo, hi
    <2>10. st[hi][k] = KvState(st[lo][k], o[s[hi]])
      BY <1>1, <2>4, <2>5, <2>9
    <2>. QED
      BY <2>4, <2>5, <2>9, <2>10 DEF lo, hi
  <1>. QED
    BY <1>1, <1>3 DEF st, L, StatesAt

\* A linearization of the history orders the operations of every key.
LEMMA OrderOfWhole ==
    ASSUME NEW o, Timed(o), NEW k \in Keys(o), NEW before, Linearizable(o, before)
    PROVE  \E m, q, f : KeyOrder(o, k, before, m, q, f)
  <1> DEFINE L == Len(o)
  <1>1. L \in Nat /\ DOMAIN o = 1..L /\ Cardinality(DOMAIN o) = L
    BY SegmentSize DEF Timed
  <1>2. PICK s \in [1..L -> 1..L] : Distinct(s) /\ InOrder(before, s) /\ Legal(o, s)
    BY <1>1 DEF Linearizable
  <1>3. \A x \in 1..L : \E n \in 1..L : s[n] = x
    BY <1>1, <1>2, Permutes
  <1>4. Len(s) = L /\ DOMAIN s = 1..L
    BY <1>1, LenOf
  <1> HIDE DEF L
  <1> DEFINE S == {n \in 1..L : o[s[n]].key = k}
             R == {p \in (1..L) \X (1..L) : p[1] < p[2]}
             m == Cardinality(S)
  <1>5. S \in SUBSET (1..L)
    OBVIOUS
  <1>6. IsFiniteSet(S) /\ m \in Nat
    BY <1>1, <1>5, SegmentSize, FS_Subset, FS_CardinalityType
  <1>7. /\ \A x \in S : <<x, x>> \notin R
        /\ \A x, y, z \in S : <<x, y>> \in R /\ <<y, z>> \in R => <<x, z>> \in R
        /\ \A x, y \in S : x # y => <<x, y>> \in R \/ <<y, x>> \in R
    <2>1. \A x, y \in 1..L : <<x, y>> \in R <=> x < y
      OBVIOUS
    <2> HIDE DEF S, R
    <2>2. \A x, y, z \in 1..L : ~(x < x) /\ (x < y /\ y < z => x < z) /\ (x # y => x < y \/ y < x)
      BY <1>1
    <2>. QED
      BY <1>5, <2>1, <2>2
  <1>8. PICK h \in [1..m -> S] :
            /\ \A x \in S : \E n \in 1..m : h[n] = x
            /\ \A a, b \in 1..m : a < b <=> <<h[a], h[b]>> \in R
    <2> HIDE DEF S, R
    <2>. QED
      BY <1>6, <1>7, Listing
  <1>9. \A a \in 1..m : h[a] \in 1..L /\ o[s[h[a]]].key = k
    BY <1>8
  <1>10. \A a, b \in 1..m : a < b <=> h[a] < h[b]
    BY <1>8, <1>9
  <1>11. \A n \in 1..L : o[s[n]].key = k => \E a \in 1..m : h[a] = n
    BY <1>8
  <1> HIDE DEF S, R, m
  <1> DEFINE hh == [a \in 0..m |-> IF a = 0 THEN 0 ELSE h[a]]
             st == StateAfter(o, s)
             q == [a \in 1..m |-> s[h[a]]]
             f == [a \in 0..m |-> st[hh[a]][k]]
  <1>12. \A a \in 1..m : hh[a] = h[a] /\ a \in 0..m /\ a - 1 \in 0..m /\ q[a] = s[h[a]]
    BY <1>6
  <1>13. KeyPlaces(o, s, k, m, hh)
    <2>1. hh[0] = 0 /\ hh \in [0..m -> 0..L]
      <3>1. \A a \in 0..m : (IF a = 0 THEN 0 ELSE h[a]) \in 0..L
        <4> TAKE a \in 0..m
        <4>1. CASE a = 0
          BY <1>1, <4>1
        <4>2. CASE a # 0
          <5>1. a \in 1..m
            BY <1>6, <4>2
          <5>. QED
            BY <1>1, <1>9, <4>2, <5>1
        <4>. QED
          BY <4>1, <4>2
      <3>. QED
        BY <1>6, <3>1
    <2>2. ASSUME NEW a \in 0..m, NEW b \in 0..m, a < b PROVE hh[a] < hh[b]
      <3>1. b \in 1..m /\ hh[b] = h[b] /\ h[b] \in 1..L
        BY <1>6, <1>9, <2>2
      <3>2. CASE a = 0
        BY <1>1, <2>1, <3>1, <3>2
      <3>3. CASE a # 0
        <4>1. a \in 1..m /\ hh[a] = h[a]
          BY <1>6, <3>3
        <4>. QED
          BY <1>10, <2>2, <3>1, <4>1
      <3>. QED
        BY <3>2, <3>3
    <2>3. \A n \in 1..L : o[s[n]].key = k <=> \E a \in 1..m : hh[a] = n
      <3> HIDE DEF hh
      <3> TAKE n \in 1..L
      <3>1. ASSUME o[s[n]].key = k PROVE \E a \in 1..m : hh[a] = n
        <4>1. PICK a \in 1..m : h[a] = n
          BY <1>11, <3>1
        <4>. QED
          BY <1>12, <4>1
      <3>2. ASSUME NEW a \in 1..m, hh[a] = n PROVE o[s[n]].key = k
        <4>1. h[a] = n
          BY <1>12, <3>2
        <4>. QED
          BY <1>9, <4>1
      <3>. QED
        BY <3>1, <3>2
    <2> HIDE DEF hh
    <2>. QED
      BY <1>4, <1>6, <2>1, <2>2, <2>3 DEF KeyPlaces
  <1>14. /\ st[0][k] = KvInit
         /\ \A a \in 1..m :
               /\ st[hh[a] - 1][k] = st[hh[a - 1]][k]
               /\ st[hh[a]][k] = KvState(st[hh[a - 1]][k], o[s[hh[a]]])
    <2>1. \A n \in 1..Len(s) : s[n] \in DOMAIN o
      BY <1>1, <1>4
    <2>2. Len(s) \in Nat
      BY <1>1, <1>4
    <2> HIDE DEF hh, f, q, st
    <2>3. StatesAt(o, s, k, m, hh)
      BY <1>13, <2>1, <2>2, StateAtPlaces
    <2>. QED
      BY <2>3 DEF st, StatesAt
  <1>15. hh[0] = 0 /\ 0 \in 0..m
    BY <1>6
  <1> HIDE DEF hh, st
  <1>16. f[0] = KvInit /\ \A a \in 1..m : f[a] = st[hh[a]][k] /\ f[a - 1] = st[hh[a - 1]][k]
    BY <1>12, <1>14, <1>15
  <1>17. \A a \in 1..m : KvOk(st[hh[a] - 1][k], o[s[hh[a]]])
    <2>1. \A n \in 1..L : KvOk(st[n - 1][o[s[n]].key], o[s[n]])
      BY <1>2, <1>4 DEF Legal, st
    <2>. QED
      BY <1>9, <1>12, <2>1
  <1> HIDE DEF f, q
  <1>18. Follows(o, m, q, f) /\ \A a \in 1..m : KvOk(f[a - 1], o[q[a]])
    <2>1. ASSUME NEW a \in 1..m
          PROVE  f[a] = KvState(f[a - 1], o[q[a]]) /\ KvOk(f[a - 1], o[q[a]])
      <3>1. q[a] = s[hh[a]]
        BY <1>12
      <3>2. f[a] = st[hh[a]][k] /\ f[a - 1] = st[hh[a - 1]][k]
        BY <1>16
      <3>3. st[hh[a] - 1][k] = f[a - 1] /\ f[a] = KvState(f[a - 1], o[s[hh[a]]])
        BY <1>14, <3>2
      <3>4. KvOk(st[hh[a] - 1][k], o[s[hh[a]]])
        BY <1>17
      <3>. QED
        BY <3>1, <3>3, <3>4
    <2>. QED
      BY <1>16, <2>1 DEF Follows
  <1>19. q \in [1..m -> DOMAIN o]
    BY <1>1, <1>2, <1>9 DEF q
  <1>20. \A a, b \in 1..m : a # b => q[a] # q[b]
    <2> SUFFICES ASSUME NEW a \in 1..m, NEW b \in 1..m, a # b PROVE q[a] # q[b]
      OBVIOUS
    <2>1. h[a] # h[b]
      BY <1>6, <1>9, <1>10
    <2>. QED
      BY <1>2, <1>4, <1>9, <1>12, <2>1 DEF Distinct
  <1>21. \A i \in DOMAIN o : o[i].key = k <=> \E a \in 1..m : q[a] = i
    <2>1. ASSUME NEW i \in DOMAIN o, o[i].key = k PROVE \E a \in 1..m : q[a] = i
      <3>1. PICK n \in 1..L : s[n] = i
        BY <1>1, <1>3
      <3>2. PICK a \in 1..m : h[a] = n
        BY <1>11, <2>1, <3>1
      <3>. QED
        BY <1>12, <3>1, <3>2
    <2>. QED
      BY <1>9, <1>12, <2>1
  <1>22. ASSUME NEW a \in 1..m, NEW b \in 1..m, <<q[a], q[b]>> \in before PROVE a < b
    <2> DEFINE pair == <<q[a], q[b]>>
    <2>1. pair[2] = s[h[b]] /\ pair[1] = s[h[a]] /\ h[a] \in 1..L /\ h[b] \in 1..L
      BY <1>9, <1>12
    <2> HIDE DEF pair
    <2>2. PICK n \in 1..(h[b] - 1) : s[n] = pair[1]
      BY <1>2, <1>4, <1>22, <2>1 DEF InOrder, pair
    <2>3. n \in 1..L
      BY <1>1, <2>1
    <2>4. n = h[a]
      BY <1>2, <1>4, <2>1, <2>2, <2>3 DEF Distinct
    <2>5. h[a] < h[b]
      BY <1>1, <2>1, <2>2, <2>4
    <2>. QED
      BY <1>10, <2>5
  <1>23. KeyOrder(o, k, before, m, q, f)
    BY <1>6, <1>18, <1>19, <1>20, <1>21, <1>22 DEF KeyOrder
  <1>. QED
    BY <1>23

\* s keeps the order q.
Keeps(o, m, q, s) ==
    \A x, y \in 1..Len(o), a, b \in 1..m : s[x] = q[a] /\ s[y] = q[b] /\ a < b => x < y

\* The operations of key k have, executed in the sequence s, the outputs they had.
LegalFor(o, k, s) ==
    \A n \in 1..Len(o) : o[s[n]].key = k => KvOk(StateAfter(o, s)[n - 1][k], o[s[n]])

\* A sequence of all operations that keeps the order of key k is legal for key k.
LEMMA LegalForKey ==
    ASSUME NEW o, Timed(o), NEW k \in Keys(o), NEW before,
           NEW m, NEW q, NEW f, KeyOrder(o, k, before, m, q, f),
           NEW s \in [1..Len(o) -> 1..Len(o)], Distinct(s), Keeps(o, m, q, s)
    PROVE  LegalFor(o, k, s)
  <1> DEFINE L == Len(o)
             st == StateAfter(o, s)
  <1>1. L \in Nat /\ DOMAIN o = 1..L
    BY DEF Timed
  <1>2. Len(s) = L /\ DOMAIN s = 1..L
    BY <1>1, LenOf
  <1>3. \A x \in 1..L : \E n \in 1..L : s[n] = x
    BY <1>1, Permutes
  <1>4. \A x, y \in 1..L : s[x] = s[y] => x = y
    BY <1>2 DEF Distinct
  <1>5. /\ m \in Nat /\ q \in [1..m -> 1..L]
        /\ \A i \in 1..L : o[i].key = k <=> \E a \in 1..m : q[a] = i
        /\ Follows(o, m, q, f) /\ \A a \in 1..m : KvOk(f[a - 1], o[q[a]])
    BY <1>1 DEF KeyOrder
  <1>6. \A x, y \in 1..L, a, b \in 1..m : s[x] = q[a] /\ s[y] = q[b] /\ a < b => x < y
    BY DEF Keeps
  <1>7. \A x \in 1..L : s[x] \in 1..L
    OBVIOUS
  <1> HIDE DEF L, st
  <1> DEFINE h(a) == CHOOSE x \in 1..L : s[x] = q[a]
             hh == [a \in 0..m |-> IF a = 0 THEN 0 ELSE h(a)]
             g == [a \in 0..m |-> st[hh[a]][k]]
  <1>8. \A a \in 1..m : h(a) \in 1..L /\ s[h(a)] = q[a]
    <2> TAKE a \in 1..m
    <2>1. \E x \in 1..L : s[x] = q[a]
      BY <1>3, <1>5
    <2>. QED
      BY <2>1
  <1> HIDE DEF h
  <1>9. \A a \in 1..m : hh[a] = h(a) /\ a \in 0..m /\ a - 1 \in 0..m
    BY <1>5
  <1>10. hh[0] = 0 /\ 0 \in 0..m
    BY <1>5
  <1>11. hh \in [0..m -> 0..L]
    <2>1. ASSUME NEW a \in 0..m PROVE (IF a = 0 THEN 0 ELSE h(a)) \in 0..L
      <3>1. CASE a = 0
        BY <1>1, <3>1 DEF L
      <3>2. CASE a # 0
        <4>1. a \in 1..m
          BY <1>5, <3>2
        <4>. QED
          BY <1>1, <1>8, <3>2, <4>1
      <3>. QED
        BY <3>1, <3>2
    <2>. QED
      BY <2>1
  <1> HIDE DEF hh
  <1>12. ASSUME NEW a \in 0..m, NEW b \in 0..m, a < b PROVE hh[a] < hh[b]
    <2>1. b \in 1..m
      BY <1>5, <1>12
    <2>2. hh[b] = h(b) /\ h(b) \in 1..L /\ s[h(b)] = q[b]
      BY <1>8, <1>9, <2>1
    <2>3. CASE a = 0
      BY <1>1, <1>10, <2>2, <2>3
    <2>4. CASE a # 0
      <3>1. a \in 1..m
        BY <1>5, <2>4
      <3>2. hh[a] = h(a) /\ h(a) \in 1..L /\ s[h(a)] = q[a]
        BY <1>8, <1>9, <3>1
      <3>. QED
        BY <1>6, <1>12, <2>1, <2>2, <3>1, <3>2
    <2>. QED
      BY <2>3, <2>4
  <1>13. ASSUME NEW n \in 1..L PROVE o[s[n]].key = k <=> \E a \in 1..m : hh[a] = n
    <2>1. s[n] \in 1..L
      BY <1>7
    <2>2. ASSUME NEW a \in 1..m, q[a] = s[n] PROVE hh[a] = n
      BY <1>4, <1>8, <1>9, <2>2
    <2>3. ASSUME NEW a \in 1..m, hh[a] = n PROVE q[a] = s[n]
      BY <1>8, <1>9, <2>3
    <2>. QED
      BY <1>5, <2>1, <2>2, <2>3
  <1>14. KeyPlaces(o, s, k, m, hh)
    BY <1>2, <1>5, <1>10, <1>11, <1>12, <1>13 DEF KeyPlaces
  <1>15. StatesAt(o, s, k, m, hh)
    <2>1. Len(s) \in Nat
      BY <1>1, <1>2
    <2>2. \A n \in 1..Len(s) : s[n] \in DOMAIN o
      BY <1>1, <1>2, <1>7
    <2>. QED
      BY <1>14, <2>1, <2>2, StateAtPlaces
  <1>16. /\ st[0][k] = KvInit
         /\ \A a \in 1..m : /\ st[hh[a] - 1][k] = st[hh[a - 1]][k]
                            /\ st[hh[a]][k] = KvState(st[hh[a - 1]][k], o[s[hh[a]]])
    BY <1>15 DEF StatesAt, st
  <1>17. g[0] = KvInit /\ \A a \in 1..m : g[a] = st[hh[a]][k] /\ g[a - 1] = st[hh[a - 1]][k]
    BY <1>9, <1>10, <1>16
  <1> HIDE DEF g
  <1>18. Follows(o, m, q, g)
    <2>1. ASSUME NEW a \in 1..m PROVE g[a] = KvState(g[a - 1], o[q[a]])
      <3>1. s[hh[a]] = q[a]
        BY <1>8, <1>9
      <3>. QED
        BY <1>16, <1>17, <3>1
    <2>. QED
      BY <1>17, <2>1 DEF Follows
  <1>19. \A a \in 0..m : g[a] = f[a]
    BY <1>5, <1>18, SameStates
  <1>20. ASSUME NEW n \in 1..L, o[s[n]].key = k PROVE KvOk(st[n - 1][k], o[s[n]])
    <2>1. PICK a \in 1..m : hh[a] = n
      BY <1>13, <1>20
    <2>2. s[n] = q[a] /\ a - 1 \in 0..m
      BY <1>8, <1>9, <2>1
    <2>3. st[hh[a] - 1][k] = f[a - 1]
      BY <1>16, <1>17, <1>19, <2>2
    <2>4. KvOk(f[a - 1], o[q[a]])
      BY <1>5
    <2>. QED
      BY <2>1, <2>2, <2>3, <2>4
  <1>. QED
    BY <1>20 DEF L, st, LegalFor

\* p gives each operation of an order a point in time between its call and its return,
\* later ones later points.
Points(o, m, q, p) ==
    /\ p \in [1..m -> Nat]
    /\ \A a \in 1..m : o[q[a]].call <= p[a] /\ p[a] <= o[q[a]].ret
    /\ \A a, b \in 1..m : a < b => p[a] <= p[b]

\* The point of an operation: the least time at which it and all before it have been called.
LEMMA PointsExist ==
    ASSUME NEW o, Timed(o), NEW k, NEW m, NEW q, NEW f, KeyOrder(o, k, Earlier(o), m, q, f)
    PROVE  \E p : Points(o, m, q, p)
  <1>1. /\ m \in Nat /\ q \in [1..m -> DOMAIN o]
        /\ \A a, b \in 1..m : <<q[a], q[b]>> \in Earlier(o) => a < b
    BY DEF KeyOrder
  <1> DEFINE call(a) == o[q[a]].call
             ret(a) == o[q[a]].ret
             Above(a) == {x \in Nat : \A l \in 1..a : call(l) <= x}
             p == [a \in 1..m |-> CHOOSE x \in Above(a) : \A y \in Above(a) : x <= y]
  <1>2. \A a \in 1..m : call(a) \in Nat /\ ret(a) \in Nat
    BY <1>1 DEF Timed
  <1>3. \A a, l \in 1..m : ret(a) < call(l) => a < l
    <2> SUFFICES ASSUME NEW a \in 1..m, NEW l \in 1..m, ret(a) < call(l) PROVE a < l
      OBVIOUS
    <2>1. q[a] \in DOMAIN o /\ q[l] \in DOMAIN o
      BY <1>1
    <2>2. <<q[a], q[l]>> \in Earlier(o)
      BY <2>1 DEF Earlier
    <2>. QED
      BY <1>1, <2>2
  <1> HIDE DEF call, ret
  <1>4. ASSUME NEW a \in 1..m PROVE ret(a) \in Above(a)
    <2>1. ASSUME NEW l \in 1..a PROVE call(l) <= ret(a)
      <3>1. l \in 1..m /\ ~(a < l)
        BY <1>1
      <3>. QED
        BY <1>2, <1>3, <3>1
    <2>. QED
      BY <1>2, <2>1
  <1>5. \A a \in 1..m : \A x \in Above(a) : x \in Nat /\ call(a) <= x
    BY <1>1
  <1>6. \A a, b \in 1..m : a < b => Above(b) \subseteq Above(a)
    BY <1>1
  <1>7. \A a \in 1..m : Above(a) \in SUBSET Nat
    OBVIOUS
  <1> HIDE DEF Above
  <1>8. \A a \in 1..m : p[a] \in Above(a) /\ \A y \in Above(a) : p[a] <= y
    <2> TAKE a \in 1..m
    <2>1. \E x \in Above(a) : \A y \in Above(a) : x <= y
      BY <1>4, <1>7, Least
    <2>. QED
      BY <2>1
  <1>9. DOMAIN p = 1..m /\ p = [a \in 1..m |-> p[a]]
    OBVIOUS
  <1> HIDE DEF p
  <1>10. p \in [1..m -> Nat]
    BY <1>5, <1>8, <1>9
  <1>11. \A a \in 1..m : call(a) <= p[a] /\ p[a] <= ret(a)
    BY <1>4, <1>5, <1>8
  <1>12. \A a, b \in 1..m : a < b => p[a] <= p[b]
    BY <1>6, <1>8
  <1>13. Points(o, m, q, p)
    BY <1>10, <1>11, <1>12 DEF Points, call, ret
  <1>. QED
    BY <1>13


\* What is chosen of a key: an order w.q of its w.m operations, the states w.f and the
\* points w.p.
Timeline(o, k, w) == KeyOrder(o, k, Earlier(o), w.m, w.q, w.f) /\ Points(o, w.m, w.q, w.p)

\* Operations by their points t, then by their places n in the orders of their keys,
\* then by their ids.
Lex(t, n, x, y) ==
    \/ t[x] < t[y]
    \/ t[x] = t[y] /\ (n[x] < n[y] \/ (n[x] = n[y] /\ x < y))

\* That is a strict total order.
LEMMA LexOrder ==
    ASSUME NEW L \in Nat, NEW t \in [1..L -> Nat], NEW n \in [1..L -> Nat]
    PROVE  /\ \A x \in 1..L : ~Lex(t, n, x, x)
           /\ \A x, y, z \in 1..L : Lex(t, n, x, y) /\ Lex(t, n, y, z) => Lex(t, n, x, z)
           /\ \A x, y \in 1..L : x # y => Lex(t, n, x, y) \/ Lex(t, n, y, x)
  <1>1. \A x \in 1..L : t[x] \in Nat /\ n[x] \in Nat
    OBVIOUS
  <1>2. \A x \in 1..L : ~Lex(t, n, x, x)
    BY <1>1 DEF Lex
  <1>3. ASSUME NEW x \in 1..L, NEW y \in 1..L, NEW z \in 1..L, Lex(t, n, x, y), Lex(t, n, y, z)
        PROVE  Lex(t, n, x, z)
    BY <1>1, <1>3 DEF Lex
  <1>4. ASSUME NEW x \in 1..L, NEW y \in 1..L, x # y
        PROVE  Lex(t, n, x, y) \/ Lex(t, n, y, x)
    BY <1>1, <1>4 DEF Lex
  <1>. QED
    BY <1>2, <1>3, <1>4

\* s is sorted by it.
LexSorted(L, t, n, s) == \A x, y \in 1..L : Lex(t, n, s[x], s[y]) => x < y

\* Operations can be listed in that order.
LEMMA LexListing ==
    ASSUME NEW L \in Nat, NEW t \in [1..L -> Nat], NEW n \in [1..L -> Nat]
    PROVE  \E s \in [1..L -> 1..L] : Distinct(s) /\ LexSorted(L, t, n, s)
  <1> DEFINE S == 1..L
             R == {p \in S \X S : Lex(t, n, p[1], p[2])}
  <1>1. IsFiniteSet(S) /\ Cardinality(S) = L
    BY SegmentSize
  <1>2. \A x, y \in S : <<x, y>> \in R <=> Lex(t, n, x, y)
    OBVIOUS
  <1>3. /\ \A x \in S : ~Lex(t, n, x, x)
        /\ \A x, y, z \in S : Lex(t, n, x, y) /\ Lex(t, n, y, z) => Lex(t, n, x, z)
        /\ \A x, y \in S : x # y => Lex(t, n, x, y) \/ Lex(t, n, y, x)
    BY LexOrder
  <1> HIDE DEF S, R
  <1>4. /\ \A x \in S : <<x, x>> \notin R
        /\ \A x, y, z \in S : <<x, y>> \in R /\ <<y, z>> \in R => <<x, z>> \in R
        /\ \A x, y \in S : x # y => <<x, y>> \in R \/ <<y, x>> \in R
    BY <1>2, <1>3
  <1>5. PICK s \in [1..Cardinality(S) -> S] :
            \A a, b \in 1..Cardinality(S) : a < b <=> <<s[a], s[b]>> \in R
    BY <1>1, <1>4, Listing
  <1>6. s \in [1..L -> S] /\ \A a, b \in 1..L : a < b <=> <<s[a], s[b]>> \in R
    BY <1>1, <1>5
  <1>7. \A a \in 1..L : s[a] \in S
    BY <1>6
  <1>8. DOMAIN s = 1..L
    BY <1>6
  <1>9. Distinct(s)
    <2> SUFFICES ASSUME NEW a \in 1..L, NEW b \in 1..L, a # b PROVE s[a] # s[b]
      BY <1>8 DEF Distinct
    <2>1. a < b \/ b < a
      OBVIOUS
    <2>2. <<s[a], s[b]>> \in R \/ <<s[b], s[a]>> \in R
      BY <1>6, <2>1
    <2>. QED
      BY <1>4, <1>7, <2>2
  <1>10. \A x, y \in 1..L : Lex(t, n, s[x], s[y]) => x < y
    BY <1>2, <1>6, <1>7
  <1>. QED
    BY <1>6, <1>9, <1>10 DEF S, LexSorted

\* If every key's operations can be ordered, so can all of them.
LEMMA Merge ==
    ASSUME NEW o, Timed(o),
           \A k \in Keys(o) : \E m, q, f : KeyOrder(o, k, Earlier(o), m, q, f)
    PROVE  Linearizable(o, Earlier(o))
  <1> DEFINE L == Len(o)
             W(k) == CHOOSE w : Timeline(o, k, w)
  <1>1. /\ L \in Nat /\ DOMAIN o = 1..L /\ Cardinality(DOMAIN o) = L
        /\ \A i \in 1..L : o[i].call \in Nat /\ o[i].ret \in Nat
    BY SegmentSize DEF Timed
  <1>2. ASSUME NEW k \in Keys(o) PROVE Timeline(o, k, W(k))
    <2>1. PICK m, q, f : KeyOrder(o, k, Earlier(o), m, q, f)
      OBVIOUS
    <2>2. PICK p : Points(o, m, q, p)
      BY <2>1, PointsExist
    <2> DEFINE w == [m |-> m, q |-> q, f |-> f, p |-> p]
    <2>3. w.m = m /\ w.q = q /\ w.f = f /\ w.p = p
      OBVIOUS
    <2> HIDE DEF w
    <2>4. Timeline(o, k, w)
      BY <2>1, <2>2, <2>3 DEF Timeline
    <2>. QED
      BY <2>4
  <1> HIDE DEF W, L
  <1> DEFINE m(k) == W(k).m
             q(k) == W(k).q
             f(k) == W(k).f
             p(k) == W(k).p
  <1>3. \A k \in Keys(o) : KeyOrder(o, k, Earlier(o), m(k), q(k), f(k))
    BY <1>2 DEF Timeline
  <1>4. \A k \in Keys(o) : Points(o, m(k), q(k), p(k))
    BY <1>2 DEF Timeline
  <1> HIDE DEF m, q, f, p
  <1>5. \A k \in Keys(o) :
            /\ m(k) \in Nat /\ q(k) \in [1..m(k) -> 1..L]
            /\ \A a, b \in 1..m(k) : a # b => q(k)[a] # q(k)[b]
            /\ \A i \in 1..L : o[i].key = k <=> \E a \in 1..m(k) : q(k)[a] = i
    BY <1>1, <1>3 DEF KeyOrder
  <1>6. \A i \in 1..L : o[i].key \in Keys(o)
    BY <1>1 DEF Keys
  <1> DEFINE place(i) == CHOOSE a \in 1..m(o[i].key) : q(o[i].key)[a] = i
             n == [i \in 1..L |-> place(i)]
             t == [i \in 1..L |-> p(o[i].key)[place(i)]]
  <1>7. \A i \in 1..L : place(i) \in 1..m(o[i].key) /\ q(o[i].key)[place(i)] = i
    <2> TAKE i \in 1..L
    <2>1. \E a \in 1..m(o[i].key) : q(o[i].key)[a] = i
      BY <1>5, <1>6
    <2>. QED
      BY <2>1
  <1>8. \A k \in Keys(o), i \in 1..L, a \in Nat :
            a \in 1..m(k) /\ q(k)[a] = i => o[i].key = k /\ place(i) = a
    <2> SUFFICES ASSUME NEW k \in Keys(o), NEW i \in 1..L, NEW a \in 1..m(k), q(k)[a] = i
                 PROVE  o[i].key = k /\ place(i) = a
      OBVIOUS
    <2>1. o[i].key = k
      BY <1>5
    <2> HIDE DEF place
    <2>2. place(i) \in 1..m(k) /\ q(k)[place(i)] = i
      BY <1>7, <2>1
    <2>. QED
      BY <1>5, <2>1, <2>2
  <1> HIDE DEF place
  <1>9. \A i \in 1..L : /\ place(i) \in Nat /\ p(o[i].key)[place(i)] \in Nat
                        /\ o[i].call <= p(o[i].key)[place(i)]
                        /\ p(o[i].key)[place(i)] <= o[i].ret
    <2> TAKE i \in 1..L
    <2> DEFINE k == o[i].key
    <2>1. k \in Keys(o)
      BY <1>6
    <2>2. place(i) \in 1..m(k) /\ q(k)[place(i)] = i
      BY <1>7
    <2> HIDE DEF k
    <2>3. Points(o, m(k), q(k), p(k)) /\ m(k) \in Nat
      BY <1>4, <1>5, <2>1
    <2>4. /\ place(i) \in Nat /\ p(k)[place(i)] \in Nat
          /\ o[i].call <= p(k)[place(i)] /\ p(k)[place(i)] <= o[i].ret
      BY <2>2, <2>3 DEF Points
    <2>. QED
      BY <2>4 DEF k
  <1>10. n \in [1..L -> Nat] /\ t \in [1..L -> Nat]
    BY <1>9
  <1>11. \A i \in 1..L : n[i] = place(i) /\ t[i] = p(o[i].key)[place(i)]
    OBVIOUS
  <1> HIDE DEF n, t
  <1>12. \A i \in 1..L : t[i] \in Nat /\ o[i].call <= t[i] /\ t[i] <= o[i].ret
    BY <1>9, <1>11
  <1>13. PICK s \in [1..L -> 1..L] : Distinct(s) /\ LexSorted(L, t, n, s)
    BY <1>1, <1>10, LexListing
  <1>14. \A x \in 1..L : s[x] \in 1..L
    OBVIOUS
  <1>15. DOMAIN s = 1..L /\ \A x \in 1..L : \E y \in 1..L : s[y] = x
    BY <1>1, <1>13, Permutes
  <1>16. InOrder(Earlier(o), s)
    <2> SUFFICES ASSUME NEW pair \in Earlier(o), NEW y \in 1..L, pair[2] = s[y]
                 PROVE  \E x \in 1..(y - 1) : s[x] = pair[1]
      BY <1>15 DEF InOrder
    <2>1. pair[1] \in 1..L /\ pair[2] \in 1..L /\ o[pair[1]].ret < o[pair[2]].call
      BY <1>1 DEF Earlier
    <2>2. PICK x \in 1..L : s[x] = pair[1]
      BY <1>15, <2>1
    <2>3. t[s[x]] < t[s[y]]
      <3> DEFINE i == pair[1]
                 j == pair[2]
      <3>1. t[i] \in Nat /\ t[i] <= o[i].ret /\ o[i].ret \in Nat
        BY <1>1, <1>12, <2>1
      <3>2. t[j] \in Nat /\ o[j].call <= t[j] /\ o[j].call \in Nat
        BY <1>1, <1>12, <2>1
      <3>3. o[i].ret < o[j].call
        BY <2>1
      <3> HIDE DEF i, j
      <3>4. t[i] < t[j]
        BY <3>1, <3>2, <3>3
      <3>. QED
        BY <2>2, <3>4 DEF i, j
    <2>4. x < y
      BY <1>13, <2>3 DEF Lex, LexSorted
    <2>5. x \in 1..(y - 1)
      BY <1>1, <2>4
    <2>. QED
      BY <2>2, <2>5
  <1>17. ASSUME NEW k \in Keys(o), NEW x \in 1..L, NEW y \in 1..L,
                NEW a \in 1..m(k), NEW b \in 1..m(k), s[x] = q(k)[a], s[y] = q(k)[b], a < b
         PROVE  x < y
    <2>1. /\ o[s[x]].key = k /\ place(s[x]) = a
          /\ o[s[y]].key = k /\ place(s[y]) = b
      BY <1>5, <1>8, <1>14, <1>17
    <2>2. /\ n[s[x]] = a /\ t[s[x]] = p(k)[a]
          /\ n[s[y]] = b /\ t[s[y]] = p(k)[b]
      BY <1>11, <1>14, <2>1
    <2>3. p(k)[a] \in Nat /\ p(k)[b] \in Nat /\ p(k)[a] <= p(k)[b]
      BY <1>4, <1>17 DEF Points
    <2>4. Lex(t, n, s[x], s[y])
      BY <1>17, <2>2, <2>3 DEF Lex
    <2>. QED
      BY <1>13, <2>4 DEF LexSorted
  <1>18. Legal(o, s)
    <2> SUFFICES ASSUME NEW x \in 1..L
                 PROVE  KvOk(StateAfter(o, s)[x - 1][o[s[x]].key], o[s[x]])
      BY <1>15 DEF Legal
    <2> DEFINE k == o[s[x]].key
    <2>1. k \in Keys(o)
      BY <1>6, <1>14
    <2>2. o[s[x]].key = k
      OBVIOUS
    <2> HIDE DEF k
    <2>3. KeyOrder(o, k, Earlier(o), m(k), q(k), f(k))
      BY <1>3, <2>1
    <2>4. Keeps(o, m(k), q(k), s)
      BY <1>17, <2>1 DEF Keeps, L
    <2>5. LegalFor(o, k, s)
      BY <1>13, <2>1, <2>3, <2>4, LegalForKey DEF L
    <2>. QED
      BY <2>2, <2>5 DEF LegalFor, L
  <1>. QED
    BY <1>1, <1>13, <1>16, <1>18 DEF Linearizable

\* A partition is answered for some order of its entries, which lies between the two
\* ways of reading equal times.
LEMMA AnswerOrder ==
    ASSUME NEW o, Timed(o), NEW k \in Keys(o), NEW a \in BOOLEAN, MayAnswer(o, k, a)
    PROVE  \E before : /\ Earlier(Partition(o, k)) \subseteq before
                       /\ before \subseteq NotLater(Partition(o, k))
                       /\ (a = TRUE) <=> Linearizable(Partition(o, k), before)
  <1> DEFINE part == Partition(o, k)
  <1>1. PICK entries \in makeEntries(part) : Linearizable(part, Before(entries)) = a
    BY Zenon DEF MayAnswer
  <1>2. PICK g : Places(o, k, Len(o), part, g)
    BY PartitionPlaces DEF Timed
  <1> HIDE DEF part
  <1>3. Timed(part)
    BY <1>2, PartFacts
  <1>4. Earlier(part) \subseteq Before(entries) /\ Before(entries) \subseteq NotLater(part)
    <2>1. /\ Len(part) \in Nat /\ DOMAIN part = 1..Len(part)
          /\ \A i \in DOMAIN part : part[i].call \in Nat /\ part[i].ret \in Nat
      BY <1>3 DEF Timed
    <2>. QED
      BY <2>1, EntriesOrder
  <1>5. (a = TRUE) <=> Linearizable(part, Before(entries))
    BY <1>1
  <1>. QED
    BY <1>4, <1>5 DEF part

\* The histories that are checked.
LEMMA HistoryFacts ==
    ASSUME NEW o \in Histories
    PROVE  Timed(o) /\ Keys(o) \in SUBSET AllKeys
  BY ParallelAssumption DEF Timed, Keys

\* The answers for the partitions of a history decide it.
LEMMA InitSuffice == Init => PartitionsSuffice
  <1> SUFFICES ASSUME Init PROVE PartitionsSuffice
    OBVIOUS
  <1>1. PICK o \in Histories : Input(o)
    BY DEF Init
  <1>2. Timed(o)
    BY HistoryFacts
  <1>3. Partitions = Keys(o) /\ linearizable \in [Keys(o) -> BOOLEAN]
    BY <1>1 DEF Input, Partitions
  <1>4. \A k \in Keys(o) : linearizable[k] \in BOOLEAN /\ MayAnswer(o, k, linearizable[k])
    BY <1>1 DEF Input
  <1>5. strict <=> Linearizable(o, Earlier(o))
    BY <1>1 DEF Input
  <1>6. weak <=> Linearizable(o, NotLater(o))
    BY <1>1 DEF Input
  <1>7. ASSUME \A k \in Keys(o) : linearizable[k] = TRUE PROVE Linearizable(o, Earlier(o))
    <2>1. ASSUME NEW k \in Keys(o) PROVE \E m, q, f : KeyOrder(o, k, Earlier(o), m, q, f)
      <3>1. PICK before : /\ Earlier(Partition(o, k)) \subseteq before
                          /\ Linearizable(Partition(o, k), before)
        BY <1>2, <1>4, <1>7, AnswerOrder
      <3>. QED
        BY <1>2, <3>1, OrderOfPart
    <2>. QED
      BY <1>2, <2>1, Merge
  <1>8. ASSUME Linearizable(o, NotLater(o)), NEW k \in Keys(o) PROVE linearizable[k] = TRUE
    <2>1. PICK m, q, f : KeyOrder(o, k, NotLater(o), m, q, f)
      BY <1>2, <1>8, OrderOfWhole
    <2>2. PICK before : /\ before \subseteq NotLater(Partition(o, k))
                        /\ (linearizable[k] = TRUE) <=> Linearizable(Partition(o, k), before)
      BY <1>2, <1>4, AnswerOrder
    <2>3. Linearizable(Partition(o, k), before)
      BY <1>2, <2>1, <2>2, PartOfOrder
    <2>. QED
      BY <2>2, <2>3
  <1>. QED
    BY <1>3, <1>5, <1>6, <1>7, <1>8 DEF PartitionsSuffice

\* Every partition gets some answer: no history is left out by Input.
LEMMA SomeAnswer ==
    ASSUME NEW o, Timed(o), NEW k \in Keys(o)
    PROVE  \E a \in BOOLEAN : MayAnswer(o, k, a)
  <1> DEFINE part == Partition(o, k)
  <1>1. PICK g : Places(o, k, Len(o), part, g)
    BY PartitionPlaces DEF Timed
  <1>2. Timed(part)
    <2> HIDE DEF part
    <2>. QED
      BY <1>1, PartFacts
  <1>3. PICK entries : entries \in makeEntries(part)
    <2> HIDE DEF part
    <2>1. /\ Len(part) \in Nat /\ DOMAIN part = 1..Len(part)
          /\ \A i \in DOMAIN part : part[i].call \in Nat /\ part[i].ret \in Nat
      BY <1>2 DEF Timed
    <2>. QED
      BY <2>1, EntriesExist
  <1> DEFINE a == Linearizable(part, Before(entries))
  <1>4. a \in BOOLEAN
    BY DEF Linearizable
  <1>5. MayAnswer(o, k, a)
    BY <1>3, Zenon DEF MayAnswer
  <1>. QED
    BY <1>4, <1>5, Zenon

\* entries has a call and a later return of operation i, and nothing else of it.
CalledThenReturns(entries, i) ==
    \E p, q \in DOMAIN entries :
        /\ p < q /\ entries[p].kind = "call" /\ entries[q].kind = "return"
        /\ \A n \in DOMAIN entries : entries[n].id = i <=> n \in {p, q}

\* What makeEntries returns.
LEMMA EntriesPaired ==
    ASSUME NEW part, Timed(part), NEW entries \in makeEntries(part), NEW i \in DOMAIN part
    PROVE  CalledThenReturns(entries, i)
  <1> DEFINE C == Cardinality(Entries(part))
             call == [kind |-> "call", id |-> i, time |-> part[i].call]
             ret == [kind |-> "return", id |-> i, time |-> part[i].ret]
  <1>1. /\ DOMAIN entries = 1..C /\ C \in Nat /\ \A p \in 1..C : entries[p] \in Entries(part)
        /\ \A e \in Entries(part) : \E p \in 1..C : entries[p] = e
        /\ \A p, q \in 1..C : p < q => entries[p] # entries[q] /\ ~Less(entries[q], entries[p])
    <2>1. Len(part) \in Nat /\ DOMAIN part = 1..Len(part)
      BY DEF Timed
    <2>. QED
      BY <2>1, EntriesSorted
  <1>2. call \in Entries(part) /\ ret \in Entries(part)
    BY DEF Entries
  <1>3. \A e \in Entries(part) : e.id = i => e = call \/ e = ret
    BY DEF Entries
  <1>4. /\ call.kind = "call" /\ call.id = i /\ call.time = part[i].call
        /\ ret.kind = "return" /\ ret.id = i /\ ret.time = part[i].ret
        /\ part[i].call \in Nat /\ part[i].ret \in Nat /\ part[i].call < part[i].ret
    BY DEF Timed
  <1> HIDE DEF C, call, ret
  <1>5. PICK p \in 1..C : entries[p] = call
    BY <1>1, <1>2
  <1>6. PICK q \in 1..C : entries[q] = ret
    BY <1>1, <1>2
  <1>7. Less(call, ret) /\ call # ret
    BY <1>4 DEF Less
  <1>8. p < q
    BY <1>1, <1>5, <1>6, <1>7
  <1>9. \A x, y \in 1..C : entries[x] = entries[y] => x = y
    BY <1>1
  <1>10. ASSUME NEW n \in 1..C PROVE entries[n].id = i <=> n \in {p, q}
    <2>1. ASSUME entries[n].id = i PROVE n = p \/ n = q
      BY <1>1, <1>3, <1>5, <1>6, <1>9, <2>1
    <2>2. entries[p].id = i /\ entries[q].id = i
      BY <1>4, <1>5, <1>6
    <2>. QED
      BY <2>1, <2>2
  <1>. QED
    BY <1>1, <1>4, <1>5, <1>6, <1>8, <1>10 DEF CalledThenReturns

\* makeEntries gives checkSingle what it relies on (and CheckSingle assumes), however
\* sort.Sort orders entries of equal times: a history of a partition has operations of
\* one key only, each called once and returning once, later (checker.go:29-55).  There
\* is at least one such history.
THEOREM PartitionsWellFormed ==
    ASSUME NEW operations \in Histories, NEW k \in Keys(operations)
    PROVE  /\ \A i \in DOMAIN Partition(operations, k) : Partition(operations, k)[i].key = k
           /\ \A entries \in makeEntries(Partition(operations, k)),
                 i \in DOMAIN Partition(operations, k) : CalledThenReturns(entries, i)
           /\ \E a \in BOOLEAN : MayAnswer(operations, k, a)
  <1> DEFINE part == Partition(operations, k)
  <1>1. Timed(operations)
    BY HistoryFacts
  <1>2. \E a \in BOOLEAN : MayAnswer(operations, k, a)
    BY <1>1, SomeAnswer
  <1>3. PICK g : Places(operations, k, Len(operations), part, g)
    BY <1>1, PartitionPlaces DEF Timed
  <1> HIDE DEF part
  <1>4. Timed(part) /\ \A i \in DOMAIN part : part[i].key = k
    BY <1>1, <1>3, PartFacts
  <1>5. \A entries \in makeEntries(part), i \in DOMAIN part : CalledThenReturns(entries, i)
    BY <1>4, EntriesPaired
  <1>. QED
    BY <1>2, <1>4, <1>5 DEF part

-----------------------------------------------------------------------------
(***************************************************************************)
(* The goroutines                                                          *)
(***************************************************************************)

TypeOK ==
    /\ computeInfo \in BOOLEAN /\ timeout \in BOOLEAN
    /\ IsFiniteSet(Partitions) /\ linearizable \in [Partitions -> BOOLEAN]
    /\ gpc \in [Partitions -> {"checking", "checked", "sent"}]
    /\ answer \in [Partitions -> BOOLEAN]
    /\ results \in Seq(BOOLEAN)
    /\ kill \in BOOLEAN
    /\ pc \in {"loop", "drain", "read", "return", "returned"}
    /\ count \in Nat
    /\ ok \in BOOLEAN /\ timedOut \in BOOLEAN
    /\ result \in {"none", "Ok", "Illegal", "Unknown"}

\* The partitions whose goroutine has sent its result.
Sent == {k \in Partitions : gpc[k] = "sent"}

\* Every result that was sent is in the channel or has been received.
ChannelInv == Len(results) + count = Cardinality(Sent)

\* longest[] is read only after all results have been received.
ReadInv == pc = "read" => Sent = Partitions

\* kill is set when the loop is left, so that no answer received in the loop is
\* that of a search that was killed.
AnswerInv ==
    /\ pc = "loop" => ~kill /\ ~timedOut
    /\ ~kill => \A k \in Partitions : gpc[k] # "checking" => answer[k] = linearizable[k]

\* A false answer is remembered in ok, or is still in the channel.
SomeFalse == ok = FALSE \/ \E n \in DOMAIN results : results[n] = FALSE
FalseInv == pc = "loop" => (SomeFalse <=> \E k \in Sent : answer[k] = FALSE)

AllTrue == \A k \in Partitions : linearizable[k] = TRUE

OutcomeInv ==
    /\ ok = FALSE => ~AllTrue
    /\ pc # "loop" /\ ok = TRUE /\ timedOut = FALSE => AllTrue
    /\ timedOut => timeout
    /\ result = "Ok" => AllTrue
    /\ result = "Illegal" => ~AllTrue
    /\ result = "Unknown" => timeout

ParallelInv ==
    TypeOK /\ ChannelInv /\ ReadInv /\ AnswerInv /\ FalseInv /\ OutcomeInv

-----------------------------------------------------------------------------
\* The initial state satisfies the invariant.
LEMMA InitInv == Init => ParallelInv
  <1> SUFFICES ASSUME Init PROVE ParallelInv
    OBVIOUS
  <1>1. PICK operations \in Histories : linearizable \in [Keys(operations) -> BOOLEAN]
    BY DEF Init, Input
  <1>2. Partitions = Keys(operations) /\ IsFiniteSet(Partitions)
    BY <1>1, ParallelAssumption, HistoryFacts, FS_Subset DEF Partitions
  <1>3. TypeOK
    <2>1. linearizable \in [Partitions -> BOOLEAN]
      BY <1>1, <1>2
    <2>2. answer \in [Partitions -> BOOLEAN] /\ results \in Seq(BOOLEAN)
      BY DEF Init
    <2>3. gpc \in [Partitions -> {"checking", "checked", "sent"}]
      BY DEF Init
    <2>. QED
      BY <1>2, <2>1, <2>2, <2>3 DEF Init, Mode, TypeOK
  <1>4. Sent = {}
    BY DEF Init, Sent
  <1>5. ChannelInv
    BY <1>4, FS_EmptySet DEF Init, ChannelInv
  <1>. QED
    BY <1>3, <1>4, <1>5 DEF Init, ParallelInv, ReadInv, AnswerInv, FalseInv, SomeFalse,
       OutcomeInv

\* The results that were sent are no more than there are partitions.
LEMMA SentBound ==
    ASSUME TypeOK
    PROVE  /\ IsFiniteSet(Sent)
           /\ Cardinality(Sent) \in Nat /\ Cardinality(Partitions) \in Nat
           /\ Cardinality(Sent) <= Cardinality(Partitions)
           /\ Cardinality(Sent) = Cardinality(Partitions) => Sent = Partitions
  BY FS_Subset, FS_CardinalityType DEF TypeOK, Sent

\* A goroutine's steps keep the invariant.
LEMMA CheckInv ==
    ASSUME ParallelInv, NEW k \in Partitions, Check(k)
    PROVE  ParallelInv'
  <1> USE DEF input
  <1>0. TypeOK /\ ChannelInv /\ ReadInv /\ AnswerInv /\ FalseInv /\ OutcomeInv
    BY DEF ParallelInv
  <1>1. PICK r \in BOOLEAN : /\ answer' = [answer EXCEPT ![k] = r]
                             /\ ~kill => r = linearizable[k]
    BY <1>0 DEF Check, TypeOK
  <1>2. /\ gpc[k] = "checking" /\ gpc' = [gpc EXCEPT ![k] = "checked"]
        /\ UNCHANGED <<input, results, kill, pc, count, ok, timedOut, result, Partitions>>
    BY DEF Check, Partitions
  <1>3. TypeOK'
    BY <1>0, <1>1, <1>2 DEF TypeOK
  <1>4. Sent' = Sent /\ k \notin Sent
    BY <1>0, <1>2 DEF Sent, TypeOK
  <1>5. \A j \in Partitions : j # k => answer'[j] = answer[j] /\ gpc'[j] = gpc[j]
    BY <1>0, <1>1, <1>2 DEF TypeOK
  <1>6. AnswerInv'
    BY <1>0, <1>1, <1>2, <1>5 DEF AnswerInv, TypeOK
  <1>7. FalseInv'
    BY <1>0, <1>2, <1>4, <1>5 DEF FalseInv, SomeFalse, Sent
  <1>8. OutcomeInv'
    BY <1>0, <1>2 DEF OutcomeInv, AllTrue
  <1>. QED
    BY <1>0, <1>2, <1>3, <1>4, <1>6, <1>7, <1>8 DEF ParallelInv, ChannelInv, ReadInv

\* A goroutine sends its result (checker.go:275-281).
LEMMA SendInv ==
    ASSUME ParallelInv, NEW k \in Partitions, Send(k)
    PROVE  ParallelInv'
  <1> USE DEF input
  <1>0. TypeOK /\ ChannelInv /\ ReadInv /\ AnswerInv /\ FalseInv /\ OutcomeInv
    BY DEF ParallelInv
  <1>1. /\ gpc[k] = "checked" /\ gpc' = [gpc EXCEPT ![k] = "sent"]
        /\ results' = Append(results, answer[k])
        /\ UNCHANGED <<input, answer, kill, pc, count, ok, timedOut, result, Partitions>>
    BY DEF Send, Partitions
  <1>2. answer[k] \in BOOLEAN
    BY <1>0 DEF TypeOK
  <1>3. TypeOK'
    BY <1>0, <1>1, <1>2 DEF TypeOK
  <1>4. Sent' = Sent \cup {k} /\ k \notin Sent
    BY <1>0, <1>1 DEF Sent, TypeOK
  <1>5. ChannelInv'
    <2>1. Cardinality(Sent') = Cardinality(Sent) + 1
      BY <1>0, <1>4, SentBound, FS_AddElement
    <2>2. Len(results') = Len(results) + 1 /\ Len(results) \in Nat
      BY <1>0, <1>1, <1>2 DEF TypeOK
    <2>. QED
      BY <1>0, <1>1, <2>1, <2>2, SentBound DEF ChannelInv, TypeOK
  <1>6. FalseInv'
    <2>1. /\ DOMAIN results' = DOMAIN results \cup {Len(results) + 1}
          /\ \A n \in DOMAIN results : results'[n] = results[n]
          /\ results'[Len(results) + 1] = answer[k]
      BY <1>0, <1>1, <1>2 DEF TypeOK
    <2>2. SomeFalse' <=> SomeFalse \/ answer[k] = FALSE
      BY <1>1, <2>1 DEF SomeFalse
    <2>. QED
      BY <1>0, <1>1, <1>4, <2>2 DEF FalseInv
  <1>7. AnswerInv' /\ OutcomeInv'
    BY <1>0, <1>1 DEF AnswerInv, OutcomeInv, AllTrue, TypeOK
  <1>8. ReadInv'
    BY <1>0, <1>1, <1>4 DEF ReadInv
  <1>. QED
    BY <1>3, <1>5, <1>6, <1>7, <1>8 DEF ParallelInv

\* The result at the head of the channel is received, in the loop.
LEMMA ReceiveInv ==
    ASSUME ParallelInv, ReceiveResult
    PROVE  ParallelInv'
  <1> USE DEF input, goroutines
  <1>0. TypeOK /\ ChannelInv /\ ReadInv /\ AnswerInv /\ FalseInv /\ OutcomeInv
    BY DEF ParallelInv
  <1>1. /\ pc = "loop" /\ results # <<>>
        /\ results' = Tail(results) /\ count' = count + 1
        /\ UNCHANGED <<input, goroutines, timedOut, result, Partitions, Sent>>
    BY DEF ReceiveResult, Partitions, Sent
  <1>2. /\ Head(results) \in BOOLEAN /\ Head(results) = results[1]
        /\ results' \in Seq(BOOLEAN) /\ Len(results') = Len(results) - 1
        /\ Len(results) \in Nat /\ Len(results') \in Nat
        /\ DOMAIN results = 1..Len(results) /\ DOMAIN results' = 1..Len(results')
        /\ \A n \in 1..Len(results') : results'[n] = results[n + 1]
    <2> DEFINE S == BOOLEAN
    <2>1. results \in Seq(S)
      BY <1>0 DEF TypeOK
    <2> HIDE DEF S
    <2>2. /\ Head(results) \in S
          /\ results' \in Seq(S) /\ Len(results') = Len(results) - 1
          /\ \A n \in 1..Len(results') : results'[n] = results[n + 1]
      BY <1>1, <2>1, HeadTailProperties
    <2>3. Head(results) = results[1]
      BY <2>1
    <2>4. /\ Len(results) \in Nat /\ Len(results') \in Nat
          /\ DOMAIN results = 1..Len(results) /\ DOMAIN results' = 1..Len(results')
      BY <2>1, <2>2, LenProperties
    <2>. QED
      BY <2>2, <2>3, <2>4 DEF S
  <1>3. ok' \in BOOLEAN /\ (ok' = FALSE <=> ok = FALSE \/ Head(results) = FALSE)
    <2>1. ok' = (ok /\ Head(results))
      BY DEF ReceiveResult
    <2>. QED
      BY <1>0, <1>2, <2>1, Zenon DEF TypeOK
  <1>4. /\ kill' \in BOOLEAN /\ pc' \in {"loop", "drain", "return"}
        /\ pc' = "loop" => ~kill'
        /\ pc' # "loop" => (ok' = FALSE) \/ count' >= Cardinality(Partitions)
    <2>1. ~kill /\ kill \in BOOLEAN
      BY <1>0, <1>1 DEF AnswerInv, TypeOK
    <2>2. CASE ~ok' /\ ~computeInfo
      BY <1>3, <2>2 DEF ReceiveResult, AfterLoop
    <2>3. CASE ~(~ok' /\ ~computeInfo)
      BY <2>1, <2>3 DEF ReceiveResult, AfterLoop
    <2>. QED
      BY <2>2, <2>3
  <1>5. TypeOK'
    <2>1. count' \in Nat
      BY <1>0, <1>1 DEF TypeOK
    <2>2. /\ UNCHANGED <<input, goroutines, timedOut, result, Partitions>>
          /\ results' \in Seq(BOOLEAN) /\ ok' \in BOOLEAN
      BY <1>1, <1>2, <1>3, Zenon
    <2>. QED
      BY <1>0, <1>4, <2>1, <2>2 DEF TypeOK
  <1>6. ChannelInv'
    BY <1>0, <1>1, <1>2 DEF ChannelInv, TypeOK
  <1>7. ReadInv' /\ AnswerInv'
    BY <1>0, <1>1, <1>4 DEF ReadInv, AnswerInv
  <1>8. SomeFalse' <=> \E k \in Sent : answer[k] = FALSE
    <2>1. (\E n \in DOMAIN results : results[n] = FALSE) <=>
              Head(results) = FALSE \/ \E n \in DOMAIN results' : results'[n] = FALSE
      <3>1. 1 \in DOMAIN results
        BY <1>2
      <3>2. \A n \in DOMAIN results' : n + 1 \in DOMAIN results /\ results'[n] = results[n + 1]
        BY <1>2
      <3>3. \A n \in DOMAIN results :
                n = 1 \/ (n - 1 \in DOMAIN results' /\ results[n] = results'[n - 1])
        BY <1>2
      <3>4. ASSUME NEW n \in DOMAIN results, results[n] = FALSE
            PROVE  Head(results) = FALSE \/ \E m \in DOMAIN results' : results'[m] = FALSE
        <4>1. CASE n = 1
          BY <1>2, <3>4, <4>1
        <4>2. CASE n - 1 \in DOMAIN results' /\ results[n] = results'[n - 1]
          BY <3>4, <4>2
        <4>. QED
          BY <3>3, <4>1, <4>2
      <3>5. ASSUME NEW n \in DOMAIN results', results'[n] = FALSE
            PROVE  \E m \in DOMAIN results : results[m] = FALSE
        BY <3>2, <3>5
      <3>6. Head(results) = results[1]
        BY <1>2
      <3>. QED
        BY <3>1, <3>4, <3>5, <3>6
    <2>. QED
      BY <1>0, <1>1, <1>3, <2>1 DEF FalseInv, SomeFalse
  <1>9. FalseInv'
    BY <1>1, <1>8 DEF FalseInv
  <1>10. OutcomeInv'
    <2>1. \A k \in Sent : answer[k] = linearizable[k] /\ k \in Partitions
      BY <1>0, <1>1 DEF AnswerInv, Sent
    <2>2. ok' = FALSE => ~AllTrue
      BY <1>8, <2>1 DEF SomeFalse, AllTrue
    <2>3. ASSUME pc' # "loop", ok' = TRUE PROVE AllTrue
      <3>1. count' >= Cardinality(Partitions)
        BY <1>4, <2>3
      <3>2. Len(results') = 0 /\ Sent = Partitions
        BY <1>0, <1>1, <1>2, <1>6, <3>1, SentBound DEF ChannelInv, TypeOK
      <3>3. ~SomeFalse'
        BY <1>2, <2>3, <3>2 DEF SomeFalse
      <3>. QED
        BY <1>0, <1>8, <2>1, <3>2, <3>3 DEF AllTrue, TypeOK
    <2>. QED
      BY <1>0, <1>1, <2>2, <2>3 DEF OutcomeInv, AllTrue
  <1>. QED
    BY <1>5, <1>6, <1>7, <1>9, <1>10 DEF ParallelInv

\* The main goroutine's other steps.
LEMMA MainInv ==
    ASSUME ParallelInv, TimeOut \/ Drain \/ ReadLongest \/ Return
    PROVE  ParallelInv'
  <1> USE DEF input, goroutines
  <1>0. TypeOK /\ ChannelInv /\ ReadInv /\ AnswerInv /\ FalseInv /\ OutcomeInv
    BY DEF ParallelInv
  <1>1. CASE TimeOut
    <2>1. /\ pc = "loop" /\ timeout /\ timedOut' = TRUE /\ kill' = TRUE
          /\ pc' \in {"drain", "return"}
          /\ UNCHANGED <<input, goroutines, results, count, ok, result, Partitions, Sent>>
      BY <1>1 DEF TimeOut, AfterLoop, Partitions, Sent
    <2>2. TypeOK'
      BY <1>0, <2>1 DEF TypeOK
    <2>3. OutcomeInv'
      BY <1>0, <2>1 DEF OutcomeInv, AllTrue
    <2>. QED
      BY <1>0, <2>1, <2>2, <2>3 DEF ParallelInv, ChannelInv, ReadInv, AnswerInv, FalseInv
  <1>2. CASE Drain
    <2>1. /\ pc = "drain"
          /\ UNCHANGED <<input, goroutines, kill, ok, timedOut, result, Partitions, Sent>>
      BY <1>2 DEF Drain, Partitions, Sent
    <2>2. CASE count < Cardinality(Partitions)
      <3>1. results # <<>> /\ results' = Tail(results) /\ count' = count + 1 /\ pc' = pc
        BY <1>2, <2>2 DEF Drain
      <3>2. /\ results' \in Seq(BOOLEAN) /\ Len(results') = Len(results) - 1
            /\ Len(results) \in Nat
        BY <1>0, <3>1, HeadTailProperties DEF TypeOK
      <3>3. TypeOK' /\ ChannelInv'
        BY <1>0, <2>1, <3>1, <3>2 DEF TypeOK, ChannelInv
      <3>. QED
        BY <1>0, <2>1, <3>1, <3>3 DEF ParallelInv, ReadInv, AnswerInv, FalseInv,
           OutcomeInv, AllTrue
    <2>3. CASE ~(count < Cardinality(Partitions))
      <3>1. pc' = "read" /\ UNCHANGED <<results, count>>
        BY <1>2, <2>3 DEF Drain
      <3>2. Sent = Partitions
        BY <1>0, <2>3, SentBound DEF ChannelInv, TypeOK
      <3>3. TypeOK' /\ ChannelInv'
        BY <1>0, <2>1, <3>1 DEF TypeOK, ChannelInv
      <3>. QED
        BY <1>0, <2>1, <3>1, <3>2, <3>3 DEF ParallelInv, ReadInv, AnswerInv, FalseInv,
           OutcomeInv, AllTrue
    <2>. QED
      BY <2>2, <2>3
  <1>3. CASE ReadLongest \/ Return
    <2>1. /\ pc \in {"read", "return"} /\ pc' \in {"return", "returned"}
          /\ UNCHANGED <<input, goroutines, results, kill, count, ok, timedOut,
                         Partitions, Sent>>
      BY <1>3 DEF ReadLongest, Return, Partitions, Sent
    <2>2. \/ result' = result
          \/ result' = "Illegal" /\ ok = FALSE
          \/ result' = "Unknown" /\ timedOut
          \/ result' = "Ok" /\ ok = TRUE /\ timedOut = FALSE
      BY <1>0, <1>3 DEF ReadLongest, Return, TypeOK
    <2>3. TypeOK'
      BY <1>0, <2>1, <2>2 DEF TypeOK
    <2>4. OutcomeInv'
      BY <1>0, <2>1, <2>2 DEF OutcomeInv, AllTrue
    <2>. QED
      BY <1>0, <2>1, <2>3, <2>4 DEF ParallelInv, ChannelInv, ReadInv, AnswerInv, FalseInv
  <1>. QED
    BY <1>1, <1>2, <1>3

-----------------------------------------------------------------------------
\* The inductive invariant holds in every reachable state.
THEOREM ParallelInvariance == Spec => []ParallelInv
  <1>1. ParallelInv /\ [Next]_vars => ParallelInv'
    <2> SUFFICES ASSUME ParallelInv, [Next]_vars PROVE ParallelInv'
      OBVIOUS
    <2>1. CASE Main
      BY <2>1, ReceiveInv, MainInv DEF Main
    <2>2. CASE \E k \in Partitions : Check(k) \/ Send(k)
      BY <2>2, CheckInv, SendInv
    <2>3. CASE Done \/ UNCHANGED vars
      BY <2>3 DEF Done, vars, input, goroutines, ParallelInv, TypeOK, ChannelInv, ReadInv,
         AnswerInv, FalseInv, SomeFalse, OutcomeInv, AllTrue, Sent, Partitions
    <2>. QED
      BY <2>1, <2>2, <2>3 DEF Next
  <1>. QED
    BY <1>1, InitInv, PTL DEF Spec

\* longest[] is read only after every goroutine has written its part of it.
THEOREM LongestCorrect == Spec => []LongestNotRaced
  <1>1. ParallelInv => LongestNotRaced
    BY DEF ParallelInv, ReadInv, Sent, LongestNotRaced
  <1>. QED
    BY <1>1, ParallelInvariance, PTL

\* No goroutine ever blocks in results <- ok, however early the main goroutine
\* stopped receiving: the channel has room for it (checker.go:272).
THEOREM ChannelHasRoom ==
    Spec => [](\A k \in Partitions : gpc[k] = "checked" => Len(results) < Capacity)
  <1>1. ParallelInv => \A k \in Partitions : gpc[k] = "checked" => Len(results) < Capacity
    <2> SUFFICES ASSUME ParallelInv, NEW k \in Partitions, gpc[k] = "checked"
                 PROVE  Len(results) < Cardinality(Partitions)
      BY DEF Capacity
    <2>1. Sent # Partitions
      BY DEF Sent
    <2>. QED
      BY <2>1, SentBound DEF ParallelInv, ChannelInv, TypeOK
  <1>. QED
    BY <1>1, ParallelInvariance, PTL

\* Checking each partition is enough: if every checkSingle would return true, the whole
\* history is linearizable, and if it is linearizable even with equal times read as an
\* order, each returns true, whatever sort.Sort does with equal times (model.go:28-29).
THEOREM SufficeCorrect == Spec => []PartitionsSuffice
  <1>1. PartitionsSuffice /\ [Next]_vars => PartitionsSuffice'
    <2>1. [Next]_vars => UNCHANGED <<linearizable, strict, weak>>
      BY DEF Next, vars, Main, ReceiveResult, TimeOut, Drain, ReadLongest, Return, Check,
         Send, Done, input
    <2>. QED
      BY <2>1 DEF PartitionsSuffice, Partitions
  <1>. QED
    BY <1>1, InitSuffice, PTL DEF Spec

\* The verdict on the history is right, for every history and every schedule of the
\* goroutines: no early exit, kill or timeout can make it wrong (checker.go:269-348).
THEOREM VerdictSound == Spec => []VerdictCorrect
  <1>1. ParallelInv /\ PartitionsSuffice => VerdictCorrect
    BY DEF ParallelInv, OutcomeInv, AllTrue, PartitionsSuffice, VerdictCorrect
  <1>. QED
    BY <1>1, ParallelInvariance, SufficeCorrect, PTL

-----------------------------------------------------------------------------
(***************************************************************************)
(* Termination: checkParallel cannot get stuck and cannot go on for ever.  *)
(***************************************************************************)

\* In the loop some result is still to be received.
LoopInv == pc = "loop" => Partitions = {} \/ count < Cardinality(Partitions)

\* LoopInv holds in every reachable state.
LEMMA LoopInvariance == Spec => []LoopInv
  <1>1. ParallelInv /\ Init => LoopInv
    <2> SUFFICES ASSUME ParallelInv, Init, Partitions # {} PROVE 0 < Cardinality(Partitions)
      BY DEF LoopInv, Init
    <2>1. IsFiniteSet(Partitions) /\ Cardinality(Partitions) \in Nat
      BY SentBound DEF ParallelInv, TypeOK
    <2>2. Cardinality(Partitions) # 0
      BY <2>1, FS_EmptySet
    <2>. QED
      BY <2>1, <2>2
  <1>2. ParallelInv /\ LoopInv /\ [Next]_vars => LoopInv'
    <2> SUFFICES ASSUME ParallelInv, LoopInv, [Next]_vars, pc' = "loop"
                 PROVE  Partitions' = {} \/ count' < Cardinality(Partitions')
      BY DEF LoopInv
    <2>1. CASE ReceiveResult
      <3>1. Partitions' = Partitions
        BY <2>1 DEF ReceiveResult, input, Partitions
      <3>2. ~(count' >= Cardinality(Partitions)) /\ count' = count + 1
        BY <2>1 DEF ReceiveResult, AfterLoop
      <3>3. count \in Nat /\ Cardinality(Partitions) \in Nat
        BY SentBound DEF ParallelInv, TypeOK
      <3>. QED
        BY <3>1, <3>2, <3>3
    <2>2. CASE TimeOut \/ Drain \/ ReadLongest \/ Return
      BY <2>2 DEF TimeOut, Drain, ReadLongest, Return, AfterLoop
    <2>3. CASE (\E k \in Partitions : Check(k) \/ Send(k)) \/ Done \/ UNCHANGED vars
      <3>1. UNCHANGED <<linearizable, pc, count>>
        BY <2>3 DEF Check, Send, Done, vars, input
      <3>. QED
        BY <3>1 DEF LoopInv, Partitions
    <2>. QED
      BY <2>1, <2>2, <2>3 DEF Next, Main
  <1>. QED
    BY <1>1, <1>2, InitInv, ParallelInvariance, PTL DEF Spec

\* The main goroutine or one of a partition can take a step.
SomeStep ==
    \/ pc \in {"read", "return"}
    \/ pc = "loop" /\ results # <<>>
    \/ pc = "drain" /\ (count < Cardinality(Partitions) => results # <<>>)
    \/ \E k \in Partitions : \/ gpc[k] = "checking"
                             \/ gpc[k] = "checked" /\ Len(results) < Capacity

\* Until checkParallel has returned, some goroutine can go on, whether or not there is
\* a timeout: the main goroutine never waits for a result that nobody will send.  (A
\* history without operations is the exception: nobody will send it anything.)
THEOREM NeverStuck == Spec => [](Partitions # {} /\ pc # "returned" => SomeStep)
  <1>1. ParallelInv /\ LoopInv => (Partitions # {} /\ pc # "returned" => SomeStep)
    <2> SUFFICES ASSUME ParallelInv, LoopInv, Partitions # {}, pc # "returned", ~SomeStep
                 PROVE  FALSE
      OBVIOUS
    <2>1. pc \in {"loop", "drain"} /\ count < Cardinality(Partitions) /\ results = <<>>
      BY DEF ParallelInv, TypeOK, LoopInv, SomeStep
    <2>2. \A k \in Partitions : gpc[k] = "sent"
      <3> SUFFICES ASSUME NEW k \in Partitions, gpc[k] # "sent" PROVE FALSE
        OBVIOUS
      <3>1. gpc[k] = "checked" /\ ~(Len(results) < Capacity)
        BY DEF ParallelInv, TypeOK, SomeStep
      <3>2. Len(results) = 0 /\ Cardinality(Partitions) \in Nat /\ count \in Nat
        BY <2>1, SentBound DEF ParallelInv, TypeOK
      <3>. QED
        BY <2>1, <3>1, <3>2 DEF Capacity
    <2>3. Sent = Partitions
      BY <2>2 DEF Sent
    <2>4. count = Cardinality(Partitions)
      BY <2>1, <2>3 DEF ParallelInv, ChannelInv, TypeOK
    <2>. QED
      BY <2>1, <2>4 DEF ParallelInv, TypeOK
  <1>. QED
    BY <1>1, ParallelInvariance, LoopInvariance, PTL

\* How far the goroutines have come.
Checked == {k \in Partitions : gpc[k] # "checking"}
Rank == CASE pc = "loop" -> 0 [] pc = "drain" -> 1 [] pc = "read" -> 2
          [] pc = "return" -> 3 [] pc = "returned" -> 4
Progress == Cardinality(Checked) + Cardinality(Sent) + count + Rank

ProgressInv ==
    /\ IsFiniteSet(Checked) /\ IsFiniteSet(Sent)
    /\ Cardinality(Checked) \in Nat /\ Cardinality(Sent) \in Nat
    /\ count \in Nat /\ Rank \in 0..4
    /\ Progress <= 3 * Cardinality(Partitions) + 4

\* These are natural numbers, and bounded.
LEMMA ProgressBound == ParallelInv => ProgressInv
  <1> SUFFICES ASSUME ParallelInv PROVE ProgressInv
    OBVIOUS
  <1>1. IsFiniteSet(Partitions) /\ Checked \in SUBSET Partitions
    BY DEF ParallelInv, TypeOK, Checked
  <1>2. IsFiniteSet(Checked) /\ Cardinality(Checked) <= Cardinality(Partitions)
    BY <1>1, FS_Subset
  <1>3. Cardinality(Checked) \in Nat
    BY <1>2, FS_CardinalityType
  <1>4. /\ IsFiniteSet(Sent) /\ Cardinality(Sent) \in Nat /\ Cardinality(Partitions) \in Nat
        /\ Cardinality(Sent) <= Cardinality(Partitions)
    BY SentBound DEF ParallelInv
  <1>5. Rank \in 0..4
    BY DEF Rank, ParallelInv, TypeOK
  <1>6. count \in Nat /\ count <= Cardinality(Sent)
    <2>1. Len(results) \in Nat /\ count \in Nat /\ Len(results) + count = Cardinality(Sent)
      BY DEF ParallelInv, TypeOK, ChannelInv
    <2>. QED
      BY <2>1
  <1>7. Progress <= 3 * Cardinality(Partitions) + 4
    BY <1>2, <1>3, <1>4, <1>5, <1>6 DEF Progress
  <1>. QED
    BY <1>2, <1>3, <1>4, <1>5, <1>6, <1>7 DEF ProgressInv

\* Every step of checkParallel is progress, and there is only so much of it: it takes at
\* most three steps per partition and four more.  With NeverStuck and goroutines that
\* are scheduled, it returns and all its goroutines end.
THEOREM ProgressMade ==
    Spec => []( Progress <= 3 * Cardinality(Partitions) + 4 ) /\ [][Progress < Progress']_vars
  <1>1. ProgressInv => Progress <= 3 * Cardinality(Partitions) + 4
    BY DEF ProgressInv
  <1>2. ParallelInv /\ ProgressInv /\ ProgressInv' /\ [Next]_vars => [Progress < Progress']_vars
    <2> SUFFICES ASSUME ParallelInv, ProgressInv, ProgressInv', Next, vars' # vars
                 PROVE  Progress < Progress'
      OBVIOUS
    <2> DEFINE c == Cardinality(Checked)
               s == Cardinality(Sent)
    <2>1. /\ c \in Nat /\ s \in Nat /\ count \in Nat /\ Rank \in 0..4
          /\ c' \in Nat /\ s' \in Nat /\ count' \in Nat /\ Rank' \in 0..4
      BY DEF ProgressInv
    <2>2. CASE Main
      <3>1. Partitions' = Partitions /\ gpc' = gpc
        BY <2>2 DEF Main, ReceiveResult, TimeOut, Drain, ReadLongest, Return, input,
           goroutines, Partitions
      <3>2. c' = c /\ s' = s
        BY <3>1 DEF Checked, Sent
      <3>3. \/ count' = count + 1 /\ Rank' >= Rank
            \/ count' = count /\ Rank' > Rank
        <4>1. CASE ReceiveResult
          <5>1. pc = "loop" /\ count' = count + 1
            BY <4>1 DEF ReceiveResult
          <5>2. Rank = 0
            BY <5>1 DEF Rank
          <5>. QED
            BY <2>1, <5>1, <5>2
        <4>2. CASE TimeOut
          BY <4>2 DEF TimeOut, AfterLoop, Rank
        <4>3. CASE Drain
          BY <4>3 DEF Drain, Rank
        <4>4. CASE ReadLongest
          BY <4>4 DEF ReadLongest, Rank
        <4>5. CASE Return
          BY <4>5 DEF Return, Rank
        <4>. QED
          BY <2>2, <4>1, <4>2, <4>3, <4>4, <4>5 DEF Main
      <3> HIDE DEF c, s
      <3>4. c + s + count + Rank < c' + s' + count' + Rank'
        <4>1. c + s + count + Rank < c + s + count' + Rank'
          <5>1. \A a, b, n, x, m, y \in Nat :
                    (m = n + 1 /\ y >= x) \/ (m = n /\ y > x) => a + b + n + x < a + b + m + y
            OBVIOUS
          <5>2. Rank \in Nat /\ Rank' \in Nat
            BY <2>1
          <5>. QED
            BY <2>1, <3>3, <5>1, <5>2
        <4>. QED
          BY <3>2, <4>1
      <3>. QED
        BY <3>4 DEF Progress, c, s
    <2>3. ASSUME NEW k \in Partitions, Check(k) PROVE Progress < Progress'
      <3>1. /\ Partitions' = Partitions /\ gpc[k] = "checking" /\ UNCHANGED <<pc, count>>
            /\ gpc' = [gpc EXCEPT ![k] = "checked"]
        BY <2>3 DEF Check, input, Partitions
      <3>2. gpc \in [Partitions -> {"checking", "checked", "sent"}]
        BY DEF ParallelInv, TypeOK
      <3>3. Checked' = Checked \cup {k} /\ k \notin Checked /\ Sent' = Sent
        BY <3>1, <3>2 DEF Checked, Sent
      <3>4. c' = c + 1
        BY <3>3, FS_AddElement DEF ProgressInv
      <3>5. s' = s /\ Rank' = Rank /\ count' = count
        BY <3>1, <3>3 DEF Rank
      <3> HIDE DEF c, s
      <3>6. c + s + count + Rank < c' + s' + count' + Rank'
        BY <2>1, <3>4, <3>5
      <3>. QED
        BY <3>6 DEF Progress, c, s
    <2>4. ASSUME NEW k \in Partitions, Send(k) PROVE Progress < Progress'
      <3>1. /\ Partitions' = Partitions /\ gpc[k] = "checked" /\ UNCHANGED <<pc, count>>
            /\ gpc' = [gpc EXCEPT ![k] = "sent"]
        BY <2>4 DEF Send, input, Partitions
      <3>2. gpc \in [Partitions -> {"checking", "checked", "sent"}]
        BY DEF ParallelInv, TypeOK
      <3>3. Sent' = Sent \cup {k} /\ k \notin Sent /\ Checked' = Checked
        BY <3>1, <3>2 DEF Checked, Sent
      <3>4. s' = s + 1
        BY <3>3, FS_AddElement DEF ProgressInv
      <3>5. c' = c /\ Rank' = Rank /\ count' = count
        BY <3>1, <3>3 DEF Rank
      <3> HIDE DEF c, s
      <3>6. c + s + count + Rank < c' + s' + count' + Rank'
        BY <2>1, <3>4, <3>5
      <3>. QED
        BY <3>6 DEF Progress, c, s
    <2>5. CASE Done
      BY <2>5 DEF Done
    <2>. QED
      BY <2>2, <2>3, <2>4, <2>5 DEF Next
  <1>. QED
    BY <1>1, <1>2, ParallelInvariance, ProgressBound, PTL DEF Spec
=============================================================================
