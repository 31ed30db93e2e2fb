------------------------- MODULE CheckSingleProofs -------------------------
(***************************************************************************)
(* Proofs about CheckSingle, for any histories and any width of a word:    *)
(* the linked list is what lift and unlift must leave, the stack of calls  *)
(* is the beginning of a linearization, the answer of the search is that   *)
(* of the reference definition, and what is displayed for an operation is  *)
(* a longest beginning of a linearization with it.  Every iteration        *)
(* descends in an order in which the search cannot descend for ever.       *)
(***************************************************************************)
EXTENDS CheckSingle, FiniteSetTheorems, SequenceTheorems, WellFoundedInduction, TLAPS

-----------------------------------------------------------------------------
(***************************************************************************)
(* Bitsets                                                                 *)
(***************************************************************************)

\* An initial segment is finite.
LEMMA SegmentSize ==
    ASSUME NEW m \in Nat
    PROVE  IsFiniteSet(1..m) /\ Cardinality(1..m) = m
  <1>1. 1 \in Int /\ m \in Int
    OBVIOUS
  <1>2. IsFiniteSet(1..m) /\ Cardinality(1..m) = IF 1 > m THEN 0 ELSE m - 1 + 1
    BY <1>1, FS_Interval
  <1>. QED
    BY <1>2

\* What div and mod compute.
LEMMA DivMod ==
    ASSUME NEW a \in Nat
    PROVE  /\ a \div W \in Nat /\ a % W \in 0..(W - 1)
           /\ a = (a \div W) * W + (a % W)
  <1> DEFINE q == a \div W
             r == a % W
  <1>1. q \in Nat /\ r \in 0..(W - 1) /\ r = a - W * q
    BY BitsetAssumption
  <1> HIDE DEF q, r
  <1>2. W * q \in Nat /\ W * q = q * W
    BY <1>1, BitsetAssumption
  <1>3. a = q * W + r
    BY <1>1, <1>2, BitsetAssumption
  <1>. QED
    BY <1>1, <1>3 DEF q, r

\* A product of two natural numbers is monotonic.
LEMMA TimesMonotonic ==
    ASSUME NEW p \in Nat, NEW q \in Nat, p < q
    PROVE  p * W + W <= q * W
  <1>1. PICK d \in Nat : q = p + 1 + d
    <2>1. q - p - 1 \in Nat /\ q = p + 1 + (q - p - 1)
      OBVIOUS
    <2>. QED
      BY <2>1
  <1>2. q * W = p * W + W + d * W
    BY <1>1, BitsetAssumption
  <1>3. p * W \in Nat /\ d * W \in Nat
    BY <1>1, BitsetAssumption
  <1>. QED
    BY <1>2, <1>3, BitsetAssumption

\* A position determines its word and its bit.
LEMMA PositionUnique ==
    ASSUME NEW p \in Nat, NEW q \in Nat, NEW r \in 0..(W - 1), NEW s \in 0..(W - 1),
           p * W + r = q * W + s
    PROVE  p = q /\ r = s
  <1>1. p * W \in Nat /\ q * W \in Nat
    BY BitsetAssumption
  <1>2. ~(p < q)
    BY <1>1, TimesMonotonic, BitsetAssumption
  <1>3. ~(q < p)
    BY <1>1, TimesMonotonic, BitsetAssumption
  <1>. QED
    BY <1>1, <1>2, <1>3, BitsetAssumption

Bitsets(n) == [0..(Chunks(n) - 1) -> SUBSET (0..(W - 1))]

\* A position below n lies in one of the words of newBitset(n).
LEMMA PositionInside ==
    ASSUME NEW n \in Nat, NEW pos \in Nat, pos < n
    PROVE  /\ Major(pos) \in 0..(Chunks(n) - 1) /\ Minor(pos) \in 0..(W - 1)
           /\ pos = Major(pos) * W + Minor(pos)
  <1> DEFINE a == pos \div W
             b == n \div W
             r == pos % W
             s == n % W
  <1>1. a \in Nat /\ r \in 0..(W - 1) /\ pos = a * W + r
    BY DivMod
  <1>2. b \in Nat /\ s \in 0..(W - 1) /\ n = b * W + s
    BY DivMod
  <1> HIDE DEF a, b, r, s
  <1>3. a * W \in Nat /\ b * W \in Nat
    BY <1>1, <1>2, BitsetAssumption
  <1>4. ~(b < a)
    BY <1>1, <1>2, <1>3, TimesMonotonic, BitsetAssumption
  <1>5. a = b => s # 0
    BY <1>1, <1>2, <1>3
  <1>6. a \in 0..(Chunks(n) - 1)
    BY <1>1, <1>2, <1>4, <1>5 DEF Chunks, b, s
  <1>. QED
    BY <1>1, <1>6 DEF Major, Minor, a, r

\* set and clear add and remove one member.
LEMMA SetClear ==
    ASSUME NEW n \in Nat, NEW b \in Bitsets(n), NEW pos \in Nat, pos < n
    PROVE  /\ set(b, pos) \in Bitsets(n) /\ Members(set(b, pos)) = Members(b) \cup {pos}
           /\ clear(b, pos) \in Bitsets(n) /\ Members(clear(b, pos)) = Members(b) \ {pos}
  <1> DEFINE a == Major(pos)
             r == Minor(pos)
  <1>1. a \in 0..(Chunks(n) - 1) /\ a \in Nat /\ r \in 0..(W - 1) /\ pos = a * W + r
    BY PositionInside, BitsetAssumption
  <1> HIDE DEF a, r
  <1>2. ASSUME NEW c \in Bitsets(n)
        PROVE  \A x : x \in Members(c) <=> \E p \in 0..(Chunks(n) - 1), q \in 0..(W - 1) :
                                              q \in c[p] /\ x = p * W + q
    <2>1. DOMAIN c = 0..(Chunks(n) - 1)
      BY DEF Bitsets
    <2> DEFINE P == (0..(Chunks(n) - 1)) \X (0..(W - 1))
    <2>2. Members(c) = {p[1] * W + p[2] : p \in {p \in P : p[2] \in c[p[1]]}}
      BY <2>1 DEF Members
    <2>3. ASSUME NEW p \in 0..(Chunks(n) - 1), NEW q \in 0..(W - 1), q \in c[p]
          PROVE  p * W + q \in Members(c)
      <3>1. <<p, q>> \in P /\ <<p, q>>[1] = p /\ <<p, q>>[2] = q
        OBVIOUS
      <3>. QED
        BY <2>2, <2>3, <3>1
    <2>4. ASSUME NEW x \in Members(c)
          PROVE  \E p \in 0..(Chunks(n) - 1), q \in 0..(W - 1) : q \in c[p] /\ x = p * W + q
      <3>1. PICK p \in P : p[2] \in c[p[1]] /\ x = p[1] * W + p[2]
        BY <2>2
      <3>2. p[1] \in 0..(Chunks(n) - 1) /\ p[2] \in 0..(W - 1)
        OBVIOUS
      <3>. QED
        BY <3>1, <3>2
    <2>. QED
      BY <2>3, <2>4
  <1>3. ASSUME NEW p \in 0..(Chunks(n) - 1), NEW q \in 0..(W - 1)
        PROVE  p * W + q = pos <=> p = a /\ q = r
    BY <1>1, PositionUnique
  <1>4. /\ set(b, pos) = [b EXCEPT ![a] = b[a] \cup {r}]
        /\ clear(b, pos) = [b EXCEPT ![a] = b[a] \ {r}]
    BY DEF set, clear, a, r
  <1>5. set(b, pos) \in Bitsets(n) /\ clear(b, pos) \in Bitsets(n)
    BY <1>1, <1>4 DEF Bitsets
  <1>6. ASSUME NEW p \in 0..(Chunks(n) - 1), NEW q \in 0..(W - 1)
        PROVE  /\ q \in set(b, pos)[p] <=> q \in b[p] \/ p * W + q = pos
               /\ q \in clear(b, pos)[p] <=> q \in b[p] /\ p * W + q # pos
    <2>1. b[p] \in SUBSET (0..(W - 1)) /\ DOMAIN b = 0..(Chunks(n) - 1)
      BY DEF Bitsets
    <2>2. set(b, pos)[p] = IF p = a THEN b[p] \cup {r} ELSE b[p]
      BY <1>1, <1>4, <2>1
    <2>3. clear(b, pos)[p] = IF p = a THEN b[p] \ {r} ELSE b[p]
      BY <1>1, <1>4, <2>1
    <2>4. p * W + q = pos <=> p = a /\ q = r
      BY <1>3
    <2> DEFINE same == p * W + q = pos
    <2> HIDE DEF same
    <2>5. same <=> p = a /\ q = r
      BY <2>4 DEF same
    <2>6. /\ q \in set(b, pos)[p] <=> q \in b[p] \/ same
          /\ q \in clear(b, pos)[p] <=> q \in b[p] /\ ~same
      BY <2>2, <2>3, <2>5
    <2>. QED
      BY <2>6 DEF same
  <1>7. \A x : x \in Members(set(b, pos)) <=> x \in Members(b) \/ x = pos
    <2>1. ASSUME NEW x, x \in Members(set(b, pos))
          PROVE  x \in Members(b) \/ x = pos
      BY <1>2, <1>5, <1>6, <2>1
    <2>2. ASSUME NEW x, x \in Members(b)
          PROVE  x \in Members(set(b, pos))
      BY <1>2, <1>5, <1>6, <2>2
    <2>3. pos \in Members(set(b, pos))
      BY <1>1, <1>2, <1>5, <1>6
    <2>. QED
      BY <2>1, <2>2, <2>3
  <1>8. \A x : x \in Members(clear(b, pos)) <=> x \in Members(b) /\ x # pos
    <2>1. ASSUME NEW x, x \in Members(clear(b, pos))
          PROVE  x \in Members(b) /\ x # pos
      BY <1>2, <1>5, <1>6, <2>1
    <2>2. ASSUME NEW x, x \in Members(b), x # pos
          PROVE  x \in Members(clear(b, pos))
      BY <1>2, <1>5, <1>6, <2>2
    <2>. QED
      BY <2>1, <2>2
  <1>. QED
    BY <1>5, <1>7, <1>8

\* A new bitset has no members.
LEMMA NewBitset ==
    ASSUME NEW n \in Nat
    PROVE  newBitset(n) \in Bitsets(n) /\ Members(newBitset(n)) = {}
  BY DEF newBitset, Bitsets, Members

-----------------------------------------------------------------------------
(***************************************************************************)
(* The events of a partition and their entries                             *)
(***************************************************************************)

\* Where an operation is called and where it returns.
CallOf(e, i) == CHOOSE p \in 1..Len(e) : e[p].id = i /\ e[p].kind = "call"
RetOf(e, i) == CHOOSE p \in 1..Len(e) : e[p].id = i /\ e[p].kind = "return"

\* The call and the return of an operation are two entries, in this order, and it
\* has no others.
LEMMA CallRet ==
    ASSUME NEW o, NEW e, WellFormed(o, e), NEW i \in DOMAIN o
    PROVE  /\ CallOf(e, i) \in 1..Len(e) /\ RetOf(e, i) \in 1..Len(e)
           /\ CallOf(e, i) < RetOf(e, i)
           /\ e[CallOf(e, i)].kind = "call" /\ e[RetOf(e, i)].kind = "return"
           /\ e[CallOf(e, i)].id = i /\ e[RetOf(e, i)].id = i
           /\ \A n \in 1..Len(e) : e[n].id = i => n \in {CallOf(e, i), RetOf(e, i)}
  <1>1. PICK p \in 1..Len(e), q \in 1..Len(e) :
           /\ p < q /\ e[p].kind = "call" /\ e[q].kind = "return"
           /\ \A n \in 1..Len(e) : e[n].id = i <=> n \in {p, q}
    BY DEF WellFormed
  <1>2. e[p].id = i /\ e[q].id = i
    BY <1>1
  <1>3. CallOf(e, i) = p
    BY <1>1, <1>2 DEF CallOf
  <1>4. RetOf(e, i) = q
    BY <1>1, <1>2 DEF RetOf
  <1>. QED
    BY <1>1, <1>2, <1>3, <1>4

\* Every event is the call or the return of an operation.
LEMMA EventOf ==
    ASSUME NEW o, NEW e, WellFormed(o, e), NEW n \in 1..Len(e)
    PROVE  /\ Len(e) \in Nat /\ n \in Nat
           /\ e[n].id \in DOMAIN o
           /\ \/ e[n].kind = "call" /\ n = CallOf(e, e[n].id)
              \/ e[n].kind = "return" /\ n = RetOf(e, e[n].id)
  <1>1. Len(e) \in Nat /\ e[n] \in [kind : {"call", "return"}, id : DOMAIN o]
    BY DEF WellFormed
  <1>. QED
    BY <1>1, CallRet

\* There are finitely many operations, half as many as events.
LEMMA HalfBound ==
    ASSUME NEW o, NEW e, WellFormed(o, e)
    PROVE  /\ IsFiniteSet(DOMAIN o) /\ Cardinality(DOMAIN o) \in Nat
           /\ Half(e) \in Nat /\ Cardinality(DOMAIN o) = Half(e)
  <1> DEFINE D == DOMAIN o
             N == 1..Len(e)
             f == [i \in D |-> CallOf(e, i)]
             g == [i \in D |-> RetOf(e, i)]
             C == {f[i] : i \in D}
             R == {g[i] : i \in D}
  <1>1. Len(e) \in Nat
    BY DEF WellFormed
  <1>2. IsFiniteSet(N) /\ Cardinality(N) = Len(e)
    BY <1>1, SegmentSize
  <1>3. f \in Injection(D, N) /\ f \in Bijection(D, C)
    BY CallRet DEF Injection, IsInjective, Bijection, Surjection
  <1>4. g \in Bijection(D, R)
    BY CallRet DEF Injection, IsInjective, Bijection, Surjection
  <1>5. IsFiniteSet(D)
    BY <1>2, <1>3, FS_Injection
  <1>6. ExistsBijection(D, C) /\ ExistsBijection(D, R)
    BY <1>3, <1>4 DEF ExistsBijection
  <1>7. /\ IsFiniteSet(C) /\ Cardinality(C) = Cardinality(D)
        /\ IsFiniteSet(R) /\ Cardinality(R) = Cardinality(D)
    BY <1>5, <1>6, FS_Bijection
  <1>8. C \cap R = {} /\ C \cup R = N
    <2>1. ASSUME NEW i \in D
          PROVE  f[i] \in N /\ e[f[i]].kind = "call" /\ g[i] \in N /\ e[g[i]].kind = "return"
      BY CallRet
    <2>2. ASSUME NEW n \in N PROVE n \in C \cup R
      <3>1. e[n].id \in D /\ (n = f[e[n].id] \/ n = g[e[n].id])
        BY EventOf
      <3>. QED
        BY <3>1
    <2>. QED
      BY <2>1, <2>2
  <1> HIDE DEF C, R, N, D
  <1>9. Cardinality(C \cup R) = Cardinality(C) + Cardinality(R) - Cardinality({})
    BY <1>7, <1>8, FS_Union
  <1>10. Cardinality(C \cup R) = Len(e)
    BY <1>2, <1>8
  <1>11. Cardinality(D) \in Nat
    BY <1>5, FS_CardinalityType
  <1>12. Cardinality(D) + Cardinality(D) = Len(e)
    BY <1>7, <1>9, <1>10, <1>11, FS_EmptySet
  <1>. QED
    BY <1>1, <1>5, <1>11, <1>12 DEF Half, D

\* The ids seen before a position.
Seen(e, p) == {e[q].id : q \in 1..(p - 1)}

\* convertEntries numbers the operations in the order of their calls.
LEMMA Renumbered ==
    ASSUME NEW o, NEW e, WellFormed(o, e), NEW p \in 1..Len(e)
    PROVE  renumber(e)[p] = Cardinality(Seen(e, CallOf(e, e[p].id)))
  <1> DEFINE c == CallOf(e, e[p].id)
             P(q) == /\ e[q].id = e[p].id
                     /\ \A x \in 1..(q - 1) : e[x].id # e[p].id
  <1>1. /\ Len(e) \in Nat /\ p \in Nat /\ DOMAIN e = 1..Len(e) /\ e[p].id \in DOMAIN o
    BY EventOf DEF WellFormed
  <1>2. /\ c \in 1..p /\ e[c].id = e[p].id
        /\ \A n \in 1..Len(e) : e[n].id = e[p].id => c <= n
    BY <1>1, CallRet
  <1>3. P(c)
    BY <1>1, <1>2
  <1>4. ASSUME NEW q \in 1..p, P(q) PROVE q = c
    BY <1>1, <1>2, <1>4
  <1>5. (CHOOSE q \in 1..p : P(q)) = c
    BY <1>2, <1>3, <1>4
  <1>. QED
    BY <1>1, <1>5 DEF renumber, Seen

\* Distinct operations have distinct numbers, all below length(entry) / 2.
LEMMA EntryIds ==
    ASSUME NEW o, NEW e, WellFormed(o, e)
    PROVE  \A p \in 1..Len(e) :
               /\ renumber(e)[p] \in Nat /\ renumber(e)[p] < Half(e)
               /\ \A q \in 1..Len(e) : renumber(e)[p] = renumber(e)[q] <=> e[p].id = e[q].id
  <1> DEFINE D == DOMAIN o
             num(i) == Cardinality(Seen(e, CallOf(e, i)))
  <1>1. /\ Len(e) \in Nat
        /\ \A n \in 1..Len(e) : e[n].id \in D
    BY EventOf DEF WellFormed
  <1>2. /\ IsFiniteSet(D) /\ Cardinality(D) \in Nat
        /\ Half(e) \in Nat /\ Cardinality(D) <= Half(e)
    BY HalfBound
  <1>0. ASSUME NEW i \in D
        PROVE  /\ CallOf(e, i) \in 1..Len(e) /\ CallOf(e, i) \in Nat
               /\ e[CallOf(e, i)].id = i
               /\ \A n \in 1..Len(e) : e[n].id = i => CallOf(e, i) <= n
    <2>1. /\ CallOf(e, i) \in 1..Len(e) /\ RetOf(e, i) \in 1..Len(e)
          /\ CallOf(e, i) < RetOf(e, i) /\ e[CallOf(e, i)].id = i
          /\ \A n \in 1..Len(e) : e[n].id = i => n \in {CallOf(e, i), RetOf(e, i)}
      BY CallRet
    <2>. QED
      BY <1>1, <2>1
  <1>3. ASSUME NEW i \in D
        PROVE  /\ Seen(e, CallOf(e, i)) \in SUBSET D /\ i \notin Seen(e, CallOf(e, i))
               /\ IsFiniteSet(Seen(e, CallOf(e, i))) /\ num(i) \in Nat
    <2>1. Seen(e, CallOf(e, i)) \in SUBSET D /\ i \notin Seen(e, CallOf(e, i))
      <3>1. \A q \in 1..(CallOf(e, i) - 1) : q \in 1..Len(e) /\ ~(CallOf(e, i) <= q)
        BY <1>0, <1>1
      <3>. QED
        BY <1>0, <1>1, <3>1 DEF Seen
    <2>2. IsFiniteSet(Seen(e, CallOf(e, i)))
      BY <1>2, <2>1, FS_Subset
    <2>. QED
      BY <2>1, <2>2, FS_CardinalityType
  <1>4. ASSUME NEW i \in D, NEW T \in SUBSET D,
               Seen(e, CallOf(e, i)) \subseteq T, i \in T
        PROVE  num(i) < Cardinality(T)
    <2> DEFINE S == Seen(e, CallOf(e, i))
    <2>1. IsFiniteSet(T) /\ Cardinality(T) \in Nat
      BY <1>2, FS_Subset, FS_CardinalityType
    <2>2. IsFiniteSet(S) /\ i \notin S /\ Cardinality(S) \in Nat /\ S \subseteq T
      BY <1>3, <1>4
    <2> HIDE DEF S
    <2>3. Cardinality(S \cup {i}) = Cardinality(S) + 1
      BY <2>2, FS_AddElement
    <2>4. Cardinality(S \cup {i}) <= Cardinality(T)
      BY <1>4, <2>1, <2>2, FS_Subset
    <2>5. Cardinality(S) < Cardinality(T)
      BY <2>1, <2>2, <2>3, <2>4
    <2>. QED
      BY <2>5 DEF S
  <1>5. ASSUME NEW i \in D, NEW j \in D, CallOf(e, i) < CallOf(e, j)
        PROVE  num(i) < num(j)
    <2>1. Seen(e, CallOf(e, i)) \subseteq Seen(e, CallOf(e, j)) /\ i \in Seen(e, CallOf(e, j))
      <3> DEFINE p == CallOf(e, i)
                 q == CallOf(e, j)
      <3>1. p \in 1..Len(e) /\ q \in 1..Len(e) /\ p < q /\ e[p].id = i
        BY <1>0, <1>5
      <3> HIDE DEF p, q
      <3>2. p \in 1..(q - 1) /\ \A x \in 1..(p - 1) : x \in 1..(q - 1)
        BY <1>1, <3>1
      <3>3. Seen(e, p) \subseteq Seen(e, q) /\ i \in Seen(e, q)
        BY <3>1, <3>2 DEF Seen
      <3>. QED
        BY <3>3 DEF p, q
    <2>. QED
      BY <1>3, <1>4, <2>1
  <1>6. ASSUME NEW i \in D PROVE num(i) < Half(e)
    BY <1>2, <1>3, <1>4
  <1>7. ASSUME NEW i \in D, NEW j \in D, num(i) = num(j) PROVE i = j
    <2>1. CallOf(e, i) \in Nat /\ CallOf(e, j) \in Nat /\ num(i) \in Nat
      BY <1>0, <1>3
    <2>2. CallOf(e, i) = CallOf(e, j)
      BY <1>5, <1>7, <2>1
    <2>. QED
      BY <1>0, <2>2
  <1>8. \A p \in 1..Len(e) : renumber(e)[p] = num(e[p].id) /\ e[p].id \in D
    BY <1>1, Renumbered
  <1> HIDE DEF num, D
  <1>. QED
    BY <1>3, <1>6, <1>7, <1>8 DEF num

-----------------------------------------------------------------------------
(***************************************************************************)
(* The linked list                                                         *)
(***************************************************************************)

\* S is a set of nodes, and nx and pv map nodes to nodes.
Links(N, S, nx, pv) ==
    /\ N \in Nat /\ S \in SUBSET (1..N)
    /\ nx \in [0..N -> (1..N) \cup {Nil}] /\ pv \in [1..N -> 0..N]

\* The nodes of S, in order, are linked both ways.
Linked(S, nx, pv) ==
    /\ \A n \in S \cup {0} : IsNext(S, n, nx[n])
    /\ \A n \in S : IsPrev(S, n, pv[n])

\* The links of a node itself are those it has among the nodes of S.
Cut(S, n, nx, pv) == IsNext(S, n, nx[n]) /\ IsPrev(S, n, pv[n])

Without(S, n) == S \ {n}

\* The nodes outside S have the links in l that they had.
Kept(N, S, nx, pv, l) == \A n \in (1..N) \ S : l.next[n] = nx[n] /\ l.prev[n] = pv[n]

\* Unlinking a node takes it out of the list, and leaves its own links, and
\* those of the nodes that are not in the list, alone.
LEMMA UnlinkStep ==
    ASSUME NEW N, NEW S, NEW c \in S, NEW nx, NEW pv,
           Links(N, S, nx, pv), Linked(S, nx, pv), NEW l, l = Unlink(nx, pv, c)
    PROVE  /\ Links(N, Without(S, c), l.next, l.prev) /\ Linked(Without(S, c), l.next, l.prev)
           /\ Kept(N, Without(S, c), nx, pv, l)
  <1>0. N \in Nat /\ S \in SUBSET (1..N)
    BY DEF Links
  <1> DEFINE a == pv[c]
             b == nx[c]
             T == S \ {c}
             nx2 == [nx EXCEPT ![a] = b]
             pv2 == IF b = Nil THEN pv ELSE [pv EXCEPT ![b] = a]
  <1>1. l.next = nx2 /\ l.prev = pv2
    BY DEF Unlink
  <1>2. /\ c \in 1..N /\ a \in 0..N /\ b \in (1..N) \cup {Nil} /\ Nil \notin Nat
        /\ DOMAIN nx = 0..N /\ DOMAIN pv = 1..N
    BY <1>0, SingleAssumption DEF Links
  <1>3. Links(N, T, nx2, pv2)
    BY <1>0, <1>2 DEF Links
  <1>4. a \in S \cup {0} /\ a < c /\ \A x \in S : x <= a \/ c <= x
    BY DEF Linked, IsPrev
  <1>5. /\ b = Nil => \A x \in S : x <= c
        /\ b # Nil => b \in S /\ c < b /\ \A x \in S : x <= c \/ b <= x
    BY DEF Linked, IsNext
  <1> HIDE DEF a, b
  <1>6. ASSUME NEW n \in (1..N) \ T PROVE nx2[n] = nx[n] /\ pv2[n] = pv[n]
    BY <1>2, <1>4, <1>5
  <1>7. ASSUME NEW n \in T \cup {0} PROVE IsNext(T, n, nx2[n])
    <2>0. n \in Nat /\ n \in 0..N /\ \A x \in S : x \in Nat /\ x \in 1..N
      BY <1>0
    <2>1. CASE n = a
      <3>1. nx2[n] = b
        BY <1>2, <2>0, <2>1
      <3>2. CASE b = Nil
        BY <1>2, <1>4, <1>5, <2>0, <2>1, <3>1, <3>2 DEF IsNext
      <3>3. CASE b # Nil
        BY <1>2, <1>4, <1>5, <2>0, <2>1, <3>1, <3>3 DEF IsNext
      <3>. QED
        BY <3>2, <3>3
    <2>2. CASE n # a
      <3>1. nx2[n] = nx[n]
        BY <1>2, <2>0, <2>2
      <3>2. IsNext(S, n, nx[n])
        BY DEF Linked
      <3>3. nx[n] # c
        <4> SUFFICES ASSUME nx[n] = c PROVE FALSE
          OBVIOUS
        <4>1. n < c /\ \A x \in S : x <= n \/ c <= x
          BY <1>2, <3>2 DEF IsNext
        <4>. QED
          BY <1>2, <1>4, <2>0, <2>2, <4>1
      <3>. QED
        BY <3>1, <3>2, <3>3 DEF IsNext
    <2>. QED
      BY <2>1, <2>2
  <1>8. ASSUME NEW n \in T PROVE IsPrev(T, n, pv2[n])
    <2>0. n \in Nat /\ n \in 1..N /\ \A x \in S : x \in Nat /\ x \in 1..N
      BY <1>0
    <2>1. IsPrev(S, n, pv[n]) /\ pv[n] \in 0..N
      BY <2>0 DEF Linked, Links
    <2>2. CASE n = b
      <3>1. pv2[n] = a
        BY <1>2, <2>0, <2>2
      <3>. QED
        BY <1>2, <1>4, <1>5, <2>0, <2>2, <3>1 DEF IsPrev
    <2>3. CASE n # b
      <3>1. pv2[n] = pv[n]
        BY <1>2, <2>0, <2>3
      <3>2. pv[n] # c
        <4> SUFFICES ASSUME pv[n] = c PROVE FALSE
          OBVIOUS
        <4>1. c < n /\ \A x \in S : x <= c \/ n <= x
          BY <2>1 DEF IsPrev
        <4>. QED
          BY <1>2, <1>5, <2>0, <2>3, <4>1
      <3>. QED
        BY <2>1, <3>1, <3>2 DEF IsPrev
    <2>. QED
      BY <2>2, <2>3
  <1> HIDE DEF nx2, pv2, T
  <1>9. Linked(T, nx2, pv2)
    BY <1>7, <1>8 DEF Linked
  <1>. QED
    BY <1>1, <1>3, <1>6, <1>9 DEF T, Without, Kept

\* Relinking a node whose own links are still those it had in the list puts it
\* back, and leaves the links of the nodes outside alone.
LEMMA RelinkStep ==
    ASSUME NEW N, NEW S, NEW c \in S, NEW nx, NEW pv,
           Links(N, S, nx, pv), Linked(Without(S, c), nx, pv), Cut(S, c, nx, pv),
           NEW l, l = Relink(nx, pv, c)
    PROVE  /\ Links(N, S, l.next, l.prev) /\ Linked(S, l.next, l.prev)
           /\ Kept(N, S, nx, pv, l)
  <1>0. N \in Nat /\ S \in SUBSET (1..N)
    BY DEF Links
  <1> DEFINE a == pv[c]
             b == nx[c]
             T == S \ {c}
             nx2 == [nx EXCEPT ![a] = c]
             pv2 == IF b = Nil THEN pv ELSE [pv EXCEPT ![b] = c]
  <1>1. l.next = nx2 /\ l.prev = pv2
    BY DEF Relink
  <1>2. /\ c \in 1..N /\ a \in 0..N /\ b \in (1..N) \cup {Nil} /\ Nil \notin Nat
        /\ DOMAIN nx = 0..N /\ DOMAIN pv = 1..N
    BY <1>0, SingleAssumption DEF Links
  <1>3. Links(N, S, nx2, pv2)
    BY <1>0, <1>2 DEF Links
  <1>4. a \in S \cup {0} /\ a < c /\ \A x \in S : x <= a \/ c <= x
    BY DEF Cut, IsPrev
  <1>5. /\ b = Nil => \A x \in S : x <= c
        /\ b # Nil => b \in S /\ c < b /\ \A x \in S : x <= c \/ b <= x
    BY DEF Cut, IsNext
  <1>a. nx[c] = b /\ pv[c] = a
    OBVIOUS
  <1> HIDE DEF a, b
  <1>6. ASSUME NEW n \in (1..N) \ S PROVE nx2[n] = nx[n] /\ pv2[n] = pv[n]
    BY <1>2, <1>4, <1>5
  <1>7. ASSUME NEW n \in S \cup {0} PROVE IsNext(S, n, nx2[n])
    <2>0. n \in Nat /\ n \in 0..N /\ \A x \in S : x \in Nat /\ x \in 1..N
      BY <1>0
    <2>1. CASE n = a
      <3>1. nx2[n] = c
        BY <1>2, <2>0, <2>1
      <3>. QED
        BY <1>2, <1>4, <2>0, <2>1, <3>1 DEF IsNext
    <2>2. CASE n = c
      <3>1. nx2[n] = b
        BY <1>2, <1>4, <1>a, <2>0, <2>2
      <3>2. CASE b = Nil
        BY <1>5, <2>2, <3>1, <3>2 DEF IsNext
      <3>3. CASE b # Nil
        BY <1>5, <2>2, <3>1, <3>3 DEF IsNext
      <3>. QED
        BY <3>2, <3>3
    <2>3. CASE n # a /\ n # c
      <3>1. nx2[n] = nx[n] /\ nx[n] \in (1..N) \cup {Nil}
        BY <1>2, <2>0, <2>3 DEF Links
      <3>2. IsNext(T, n, nx[n])
        BY <2>3 DEF Linked, Without
      <3>3. CASE nx[n] = Nil
        <4>1. \A x \in T : x <= n
          BY <3>2, <3>3 DEF IsNext
        <4>2. c <= n
          BY <1>2, <1>4, <2>0, <2>3, <4>1
        <4>. QED
          BY <3>1, <3>3, <4>1, <4>2 DEF IsNext
      <3>4. CASE nx[n] # Nil
        <4>1. nx[n] \in T /\ n < nx[n] /\ \A x \in T : x <= n \/ nx[n] <= x
          BY <3>2, <3>4 DEF IsNext
        <4>2. c <= n \/ nx[n] <= c
          <5> SUFFICES ASSUME n < c, c < nx[n] PROVE FALSE
            BY <1>2, <2>0, <3>1, <3>4
          <5>1. n < a
            BY <1>2, <1>4, <2>0, <2>3
          <5>2. a \in T
            BY <1>2, <1>4, <2>0, <5>1
          <5>3. nx[n] <= a
            BY <1>2, <2>0, <4>1, <5>1, <5>2
          <5>. QED
            BY <1>2, <1>4, <3>1, <3>4, <5>3
        <4>. QED
          BY <3>1, <3>4, <4>1, <4>2 DEF IsNext
      <3>. QED
        BY <3>3, <3>4
    <2>. QED
      BY <2>1, <2>2, <2>3
  <1>8. ASSUME NEW n \in S PROVE IsPrev(S, n, pv2[n])
    <2>0. n \in Nat /\ n \in 1..N /\ \A x \in S : x \in Nat /\ x \in 1..N
      BY <1>0
    <2>1. CASE n = b
      <3>1. pv2[n] = c
        BY <1>2, <2>0, <2>1
      <3>. QED
        BY <1>2, <1>5, <2>0, <2>1, <3>1 DEF IsPrev
    <2>2. CASE n = c
      <3>1. pv2[n] = a
        BY <1>2, <1>5, <1>a, <2>0, <2>2
      <3>. QED
        BY <1>4, <2>2, <3>1 DEF IsPrev
    <2>3. CASE n # b /\ n # c
      <3>1. pv2[n] = pv[n] /\ pv[n] \in 0..N
        BY <1>2, <2>0, <2>3 DEF Links
      <3>2. IsPrev(T, n, pv[n])
        BY <2>3 DEF Linked, Without
      <3>3. pv[n] \in T \cup {0} /\ pv[n] < n /\ \A x \in T : x <= pv[n] \/ n <= x
        BY <3>2 DEF IsPrev
      <3>4. c <= pv[n] \/ n <= c
        BY <1>2, <1>5, <2>0, <2>3, <3>1, <3>3
      <3>. QED
        BY <3>1, <3>3, <3>4 DEF IsPrev
    <2>. QED
      BY <2>1, <2>2, <2>3
  <1> HIDE DEF nx2, pv2
  <1>9. Linked(S, nx2, pv2)
    BY <1>7, <1>8 DEF Linked
  <1>. QED
    BY <1>1, <1>3, <1>6, <1>9 DEF Kept

-----------------------------------------------------------------------------
(***************************************************************************)
(* The stack of calls                                                      *)
(***************************************************************************)

\* A sequence, whatever the states on it are.
IsStack(cs) == \E V : cs \in Seq(V)

\* The operations that the first j calls of a stack linearize, and the events
\* that are left when a set of operations is linearized.
Ids(e, cs, j) == {e[cs[i].entry].id : i \in 1..j}
Rest(e, D) == {n \in 1..Len(e) : e[n].id \notin D}

\* The state, and the entry the search has come to, after the first j calls.
StateAt(cs, st, j) == IF j = Len(cs) THEN st ELSE cs[j + 1].state
EntryAt(cs, en, j) == IF j = Len(cs) THEN en ELSE cs[j + 1].entry

\* A stack has a length, and only the empty one has length 0.
LEMMA StackType ==
    ASSUME NEW cs, IsStack(cs)
    PROVE  Len(cs) \in Nat /\ DOMAIN cs = 1..Len(cs) /\ (cs # <<>> => Len(cs) > 0)
  <1>1. PICK V : cs \in Seq(V)
    BY DEF IsStack
  <1>. QED
    BY <1>1, LenProperties, EmptySeq

Pushed(cs, en, st) == Append(cs, [entry |-> en, state |-> st])
Popped(cs) == SubSeq(cs, 1, Len(cs) - 1)

\* A call is pushed.
LEMMA Push ==
    ASSUME NEW cs, IsStack(cs), NEW en, NEW st, NEW cs2,
           cs2 = Pushed(cs, en, st)
    PROVE  /\ IsStack(cs2) /\ Len(cs2) = Len(cs) + 1
           /\ \A j \in 1..Len(cs) : cs2[j] = cs[j]
           /\ cs2[Len(cs) + 1].entry = en /\ cs2[Len(cs) + 1].state = st
  <1> DEFINE x == [entry |-> en, state |-> st]
  <1>1. PICK V : cs \in Seq(V)
    BY DEF IsStack
  <1>2. cs \in Seq(V \cup {x}) /\ x \in V \cup {x}
    BY <1>1, SeqMonotonic
  <1>3. x.entry = en /\ x.state = st
    OBVIOUS
  <1> HIDE DEF x
  <1>4. /\ cs2 \in Seq(V \cup {x}) /\ Len(cs2) = Len(cs) + 1
        /\ \A i \in 1..Len(cs) : cs2[i] = cs[i]
        /\ cs2[Len(cs) + 1] = x
    BY <1>2, AppendProperties DEF x, Pushed
  <1>. QED
    BY <1>3, <1>4 DEF IsStack

\* A push adds a level and leaves those below it as they were.
LEMMA PushLevels ==
    ASSUME NEW cs, IsStack(cs), NEW en, NEW st, NEW cs2, cs2 = Pushed(cs, en, st)
    PROVE  /\ \A e : /\ \A j \in 0..Len(cs) : Ids(e, cs2, j) = Ids(e, cs, j)
                     /\ \A x : x \in Ids(e, cs2, Len(cs) + 1) <=>
                                  x \in Ids(e, cs, Len(cs)) \/ x = e[en].id
           /\ \A st2 : /\ \A j \in 0..Len(cs) : StateAt(cs2, st2, j) = StateAt(cs, st, j)
                       /\ StateAt(cs2, st2, Len(cs) + 1) = st2
           /\ \A en2 : /\ \A j \in 0..Len(cs) : EntryAt(cs2, en2, j) = EntryAt(cs, en, j)
                       /\ EntryAt(cs2, en2, Len(cs) + 1) = en2
  <1>1. /\ Len(cs) \in Nat /\ Len(cs2) = Len(cs) + 1
        /\ \A j \in 1..Len(cs) : cs2[j] = cs[j]
        /\ cs2[Len(cs) + 1].entry = en /\ cs2[Len(cs) + 1].state = st
    BY Push, StackType
  <1> DEFINE k == Len(cs)
  <1> SUFFICES ASSUME NEW e, NEW st2, NEW en2
               PROVE  /\ \A j \in 0..k : /\ Ids(e, cs2, j) = Ids(e, cs, j)
                                         /\ StateAt(cs2, st2, j) = StateAt(cs, st, j)
                                         /\ EntryAt(cs2, en2, j) = EntryAt(cs, en, j)
                      /\ \A x : x \in Ids(e, cs2, k + 1) <=> x \in Ids(e, cs, k) \/ x = e[en].id
                      /\ StateAt(cs2, st2, k + 1) = st2 /\ EntryAt(cs2, en2, k + 1) = en2
    OBVIOUS
  <1>2. ASSUME NEW j \in 0..k
        PROVE  /\ Ids(e, cs2, j) = Ids(e, cs, j)
               /\ StateAt(cs2, st2, j) = StateAt(cs, st, j)
               /\ EntryAt(cs2, en2, j) = EntryAt(cs, en, j)
    <2>1. \A i \in 1..j : cs2[i] = cs[i]
      BY <1>1
    <2>2. Ids(e, cs2, j) = Ids(e, cs, j)
      BY <2>1 DEF Ids
    <2>3. CASE j = k
      BY <1>1, <2>2, <2>3 DEF StateAt, EntryAt
    <2>4. CASE j # k
      <3>1. j + 1 \in 1..k /\ j # Len(cs2)
        BY <1>1, <2>4
      <3>. QED
        BY <1>1, <2>2, <2>4, <3>1 DEF StateAt, EntryAt
    <2>. QED
      BY <2>3, <2>4
  <1>3. \A x : x \in Ids(e, cs2, k + 1) <=> x \in Ids(e, cs, k) \/ x = e[en].id
    <2>1. \A i : i \in 1..(k + 1) <=> i \in 1..k \/ i = k + 1
      BY <1>1
    <2>. QED
      BY <1>1, <2>1 DEF Ids
  <1>4. StateAt(cs2, st2, k + 1) = st2 /\ EntryAt(cs2, en2, k + 1) = en2
    BY <1>1 DEF StateAt, EntryAt
  <1>. QED
    BY <1>2, <1>3, <1>4

\* A call is popped.
LEMMA Pop ==
    ASSUME NEW cs, IsStack(cs), cs # <<>>, NEW cs2, cs2 = Popped(cs)
    PROVE  /\ IsStack(cs2) /\ Len(cs) \in Nat /\ Len(cs) > 0 /\ Len(cs2) = Len(cs) - 1
           /\ \A j \in 1..(Len(cs) - 1) : cs2[j] = cs[j]
  <1>1. PICK V : cs \in Seq(V)
    BY DEF IsStack
  <1>2. Len(cs) \in Nat /\ Len(cs) > 0 /\ \A i \in 1..Len(cs) : cs[i] \in V
    BY <1>1, StackType, ElementOfSeq
  <1> DEFINE k == Len(cs) - 1
  <1>3. k \in Int /\ 1 \in Int /\ \A i \in 1..k : cs[i] \in V
    BY <1>2
  <1>4. /\ SubSeq(cs, 1, k) \in Seq(V)
        /\ Len(SubSeq(cs, 1, k)) = IF 1 <= k THEN k - 1 + 1 ELSE 0
        /\ \A i \in 1..(k - 1 + 1) : SubSeq(cs, 1, k)[i] = cs[1 + i - 1]
    BY <1>3, SubSeqProperties
  <1>5. \A i \in 1..k : i \in 1..(k - 1 + 1) /\ 1 + i - 1 = i
    BY <1>2
  <1>6. (IF 1 <= k THEN k - 1 + 1 ELSE 0) = k
    <2>1. k \in Nat
      BY <1>2
    <2> HIDE DEF k
    <2>2. CASE k = 0
      BY <2>2
    <2>3. CASE k # 0
      <3>1. 1 <= k /\ k - 1 + 1 = k
        BY <2>1, <2>3
      <3>. QED
        BY <3>1
    <2>. QED
      BY <2>2, <2>3
  <1> HIDE DEF k
  <1>7. cs2 = SubSeq(cs, 1, k)
    BY DEF k, Popped
  <1>8. IsStack(cs2)
    BY <1>4, <1>7 DEF IsStack
  <1>9. Len(cs2) = k /\ \A j \in 1..k : cs2[j] = cs[j]
    BY <1>4, <1>5, <1>6, <1>7
  <1>. QED
    BY <1>2, <1>8, <1>9 DEF k

\* A pop removes the last level and leaves those below it as they were.
LEMMA PopLevels ==
    ASSUME NEW cs, IsStack(cs), cs # <<>>, NEW cs2, cs2 = Popped(cs)
    PROVE  /\ \A e : /\ \A j \in 0..(Len(cs) - 1) : Ids(e, cs2, j) = Ids(e, cs, j)
                     /\ \A x : x \in Ids(e, cs, Len(cs)) <=>
                                  x \in Ids(e, cs, Len(cs) - 1) \/ x = e[cs[Len(cs)].entry].id
           /\ \A en, en2 :
                  /\ \A j \in 0..(Len(cs) - 1) : EntryAt(cs2, en2, j) =
                         IF j = Len(cs) - 1 THEN en2 ELSE EntryAt(cs, en, j)
                  /\ EntryAt(cs, en, Len(cs) - 1) = cs[Len(cs)].entry
  <1> DEFINE k == Len(cs)
  <1> SUFFICES ASSUME NEW e, NEW en, NEW en2
               PROVE  /\ \A j \in 0..(k - 1) :
                            /\ Ids(e, cs2, j) = Ids(e, cs, j)
                            /\ EntryAt(cs2, en2, j) = IF j = k - 1 THEN en2 ELSE EntryAt(cs, en, j)
                      /\ \A x : x \in Ids(e, cs, k) <=>
                                   x \in Ids(e, cs, k - 1) \/ x = e[cs[k].entry].id
                      /\ EntryAt(cs, en, k - 1) = cs[k].entry
    OBVIOUS
  <1>1. /\ k \in Nat /\ k > 0 /\ Len(cs2) = k - 1
        /\ \A j \in 1..(k - 1) : cs2[j] = cs[j]
    BY Pop
  <1>2. ASSUME NEW j \in 0..(k - 1)
        PROVE  /\ Ids(e, cs2, j) = Ids(e, cs, j)
               /\ EntryAt(cs2, en2, j) = IF j = k - 1 THEN en2 ELSE EntryAt(cs, en, j)
    <2>1. \A i \in 1..j : cs2[i] = cs[i]
      BY <1>1
    <2>2. Ids(e, cs2, j) = Ids(e, cs, j)
      BY <2>1 DEF Ids
    <2>3. CASE j = k - 1
      BY <1>1, <2>2, <2>3 DEF StateAt, EntryAt
    <2>4. CASE j # k - 1
      <3>1. j + 1 \in 1..(k - 1) /\ j # Len(cs2) /\ j # k
        BY <1>1, <2>4
      <3>. QED
        BY <1>1, <2>2, <2>4, <3>1 DEF StateAt, EntryAt
    <2>. QED
      BY <2>3, <2>4
  <1>3. \A x : x \in Ids(e, cs, k) <=> x \in Ids(e, cs, k - 1) \/ x = e[cs[k].entry].id
    <2>1. \A i : i \in 1..k <=> i \in 1..(k - 1) \/ i = k
      BY <1>1
    <2>. QED
      BY <2>1 DEF Ids
  <1>4. EntryAt(cs, en, k - 1) = cs[k].entry
    BY <1>1 DEF EntryAt
  <1>. QED
    BY <1>2, <1>3, <1>4

\* An operation is linearized: its call and its return leave the list.
LEMMA RestRemove ==
    ASSUME NEW o, NEW e, WellFormed(o, e), NEW D, NEW c \in Rest(e, D), e[c].kind = "call",
           NEW r, r = RetOf(e, e[c].id)
    PROVE  /\ r \in Without(Rest(e, D), c) /\ c < r /\ e[r].id = e[c].id
           /\ Rest(e, D \cup {e[c].id}) = Without(Without(Rest(e, D), c), r)
  <1> DEFINE i == e[c].id
  <1>1. c \in 1..Len(e) /\ c \in Nat /\ i \in DOMAIN o /\ i \notin D /\ c = CallOf(e, i)
    BY EventOf DEF Rest
  <1>2. /\ r \in 1..Len(e) /\ c < r /\ e[r].id = i
        /\ \A n \in 1..Len(e) : e[n].id = i => n \in {c, r}
    BY <1>1, CallRet
  <1>3. r # c
    BY <1>1, <1>2, EventOf
  <1>. QED
    BY <1>1, <1>2, <1>3 DEF Rest, Without

\* The call c was lifted when the events of S were left: all before it were
\* calls, and its own links and those of its return are still as they were.
Level(e, S, c, nx, pv) ==
    /\ c \in S /\ e[c].kind = "call"
    /\ \A n \in S : n < c => e[n].kind = "call"
    /\ Cut(S, c, nx, pv) /\ Cut(Without(S, c), RetOf(e, e[c].id), nx, pv)

\* lift and unlift, with the return of the call.
Lifted(nx, pv, c, r) == LET l == Unlink(nx, pv, c) IN Unlink(l.next, l.prev, r)
Unlifted(nx, pv, c, r) == LET l == Relink(nx, pv, r) IN Relink(l.next, l.prev, c)

\* lift() unlinks a call and its return: the list without them is intact, and the
\* two entries still know their neighbours (checker.go:154-162).
LEMMA LiftStep ==
    ASSUME NEW o, NEW e, WellFormed(o, e), NEW D, NEW c \in Rest(e, D), e[c].kind = "call",
           \A n \in Rest(e, D) : n < c => e[n].kind = "call",
           NEW nx, NEW pv, Links(Len(e), Rest(e, D), nx, pv), Linked(Rest(e, D), nx, pv),
           NEW l, l = Lifted(nx, pv, c, RetOf(e, e[c].id))
    PROVE  /\ Links(Len(e), Rest(e, D \cup {e[c].id}), l.next, l.prev)
           /\ Linked(Rest(e, D \cup {e[c].id}), l.next, l.prev)
           /\ Level(e, Rest(e, D), c, l.next, l.prev)
           /\ Kept(Len(e), Rest(e, D), nx, pv, l)
  <1> DEFINE S == Rest(e, D)
             T == Without(S, c)
             N == Len(e)
             r == RetOf(e, e[c].id)
             l1 == Unlink(nx, pv, c)
             l2 == Unlink(l1.next, l1.prev, r)
  <1>1. N \in Nat /\ S \in SUBSET (1..N) /\ c \in S
    BY DEF Rest, WellFormed
  <1>2. r \in T /\ c < r /\ Rest(e, D \cup {e[c].id}) = Without(T, r)
    BY RestRemove
  <1>3. Links(N, T, l1.next, l1.prev) /\ Linked(T, l1.next, l1.prev) /\ Kept(N, T, nx, pv, l1)
    BY UnlinkStep
  <1>a. T \in SUBSET S /\ c \notin T
    BY DEF Without
  <1>b. l = l2
    BY DEF Lifted
  <1> HIDE DEF l1, S, T, N, r
  <1>4. /\ Links(N, Without(T, r), l2.next, l2.prev) /\ Linked(Without(T, r), l2.next, l2.prev)
        /\ Kept(N, Without(T, r), l1.next, l1.prev, l2)
    BY <1>2, <1>3, UnlinkStep
  <1> HIDE DEF l2
  <1>5. l2.next[c] = nx[c] /\ l2.prev[c] = pv[c]
    BY <1>1, <1>3, <1>4, <1>a DEF Kept, Without
  <1>6. l2.next[r] = l1.next[r] /\ l2.prev[r] = l1.prev[r]
    BY <1>1, <1>2, <1>4, <1>a DEF Kept, Without
  <1>7. Cut(S, c, nx, pv)
    BY DEF Linked, Cut, S
  <1>8. Cut(T, r, l1.next, l1.prev)
    BY <1>2, <1>3 DEF Linked, Cut
  <1>9. Level(e, S, c, l2.next, l2.prev)
    BY <1>1, <1>5, <1>6, <1>7, <1>8 DEF Level, Cut, S, T, r
  <1>10. Kept(N, S, nx, pv, l2)
    BY <1>3, <1>4, <1>a DEF Kept, Without
  <1>. QED
    BY <1>2, <1>4, <1>9, <1>10, <1>b DEF S, N

\* unlift() links them again exactly where they were (checker.go:164-172).
LEMMA UnliftStep ==
    ASSUME NEW o, NEW e, WellFormed(o, e), NEW D, NEW c, NEW nx, NEW pv,
           Level(e, Rest(e, D), c, nx, pv),
           Links(Len(e), Rest(e, D \cup {e[c].id}), nx, pv),
           Linked(Rest(e, D \cup {e[c].id}), nx, pv),
           NEW l, l = Unlifted(nx, pv, c, RetOf(e, e[c].id))
    PROVE  /\ Links(Len(e), Rest(e, D), l.next, l.prev) /\ Linked(Rest(e, D), l.next, l.prev)
           /\ Kept(Len(e), Rest(e, D), nx, pv, l)
  <1> DEFINE S == Rest(e, D)
             T == Without(S, c)
             N == Len(e)
             r == RetOf(e, e[c].id)
             l1 == Relink(nx, pv, r)
             l2 == Relink(l1.next, l1.prev, c)
  <1>1. c \in S /\ e[c].kind = "call" /\ N \in Nat /\ S \in SUBSET (1..N)
    BY DEF Level, Rest, WellFormed
  <1>2. r \in T /\ c < r /\ Rest(e, D \cup {e[c].id}) = Without(T, r)
    BY <1>1, RestRemove
  <1>3. Cut(S, c, nx, pv) /\ Cut(T, r, nx, pv)
    BY DEF Level
  <1>a. T \in SUBSET S /\ c \notin T
    BY DEF Without
  <1>b. l = l2
    BY DEF Unlifted
  <1> HIDE DEF l1, S, T, N, r
  <1>4. Linked(Without(T, r), nx, pv) /\ Links(N, T, nx, pv)
    BY <1>1, <1>2, <1>a DEF Links, N
  <1>5. Links(N, T, l1.next, l1.prev) /\ Linked(T, l1.next, l1.prev) /\ Kept(N, T, nx, pv, l1)
    BY <1>2, <1>3, <1>4, RelinkStep DEF l1
  <1>6. l1.next[c] = nx[c] /\ l1.prev[c] = pv[c]
    BY <1>1, <1>5, <1>a DEF Kept
  <1>7. Cut(S, c, l1.next, l1.prev)
    BY <1>3, <1>6 DEF Cut
  <1>8. Links(N, S, l1.next, l1.prev) /\ Linked(Without(S, c), l1.next, l1.prev)
    BY <1>1, <1>5 DEF Links, T
  <1>9. /\ Links(N, S, l2.next, l2.prev) /\ Linked(S, l2.next, l2.prev)
        /\ Kept(N, S, l1.next, l1.prev, l2)
    BY <1>1, <1>7, <1>8, RelinkStep
  <1> HIDE DEF l2
  <1>10. Kept(N, S, nx, pv, l2)
    BY <1>5, <1>9, <1>a DEF Kept
  <1>. QED
    BY <1>9, <1>10, <1>b DEF S, N

\* A level of the stack is not disturbed by links that change elsewhere.
LEMMA LevelKept ==
    ASSUME NEW o, NEW e, WellFormed(o, e), NEW E, NEW c, NEW nx, NEW pv,
           Level(e, Rest(e, E), c, nx, pv),
           NEW D, e[c].id \in D, NEW l, Kept(Len(e), Rest(e, D), nx, pv, l)
    PROVE  Level(e, Rest(e, E), c, l.next, l.prev)
  <1> DEFINE r == RetOf(e, e[c].id)
  <1>1. c \in Rest(e, E) /\ e[c].kind = "call" /\ c \in 1..Len(e)
    BY DEF Level, Rest
  <1>2. r \in 1..Len(e) /\ e[r].id = e[c].id
    BY <1>1, EventOf, CallRet
  <1>3. l.next[c] = nx[c] /\ l.prev[c] = pv[c] /\ l.next[r] = nx[r] /\ l.prev[r] = pv[r]
    BY <1>1, <1>2 DEF Kept, Rest
  <1>. QED
    BY <1>3 DEF Level, Cut

-----------------------------------------------------------------------------
(***************************************************************************)
(* The reference definitions                                               *)
(***************************************************************************)

\* A nonempty set of natural numbers has a least element.
LEMMA Least ==
    ASSUME NEW S \in SUBSET Nat, S # {}
    PROVE  \E n \in S : \A m \in S : n <= m
  <1> DEFINE R == {p \in Nat \X Nat : p[1] < p[2]}
  <1>1. IsWellFoundedOn(R, Nat)
    BY NatLessThanWellFounded DEF OpToRel
  <1> HIDE DEF R
  <1>2. PICK x \in S : \A y \in S : ~(<<y, x>> \in R)
    BY <1>1, WFMin
  <1>3. \A y \in S : ~(y < x)
    <2> TAKE y \in S
    <2>1. ~(<<y, x>> \in R)
      BY <1>2
    <2>. QED
      BY <2>1 DEF R
  <1>. QED
    BY <1>3

\* One step of StateAfter.
Apply(o, i, x) == [x EXCEPT ![o[i].key] = KvState(@, o[i])]

IsChain(o, seq, m, g) ==
    g = [n \in 0..m |-> IF n = 0 THEN [k \in Keys(o) |-> KvInit]
                        ELSE Apply(o, seq[n], g[n - 1])]

\* There is a function as the recursion of StateAfter defines it: otherwise there
\* would be a least length without one.
LEMMA ChainExists ==
    ASSUME NEW o, NEW seq, NEW m \in Nat
    PROVE  \E g : IsChain(o, seq, m, g)
  <1> DEFINE Bad == {n \in 0..m : ~\E g : IsChain(o, seq, n, g)}
  <1> SUFFICES ASSUME Bad # {} PROVE FALSE
    OBVIOUS
  <1>0. Bad \in SUBSET Nat
    OBVIOUS
  <1> HIDE DEF Bad
  <1>1. PICK n \in Bad : \A x \in Bad : n <= x
    BY <1>0, Least
  <1>2. n \in 0..m /\ ~\E g : IsChain(o, seq, n, g)
    BY DEF Bad
  <1>3. CASE n = 0
    <2> DEFINE zero == [k \in Keys(o) |-> KvInit]
               h == [x \in 0..0 |-> zero]
    <2>1. h = [x \in 0..0 |-> IF x = 0 THEN zero ELSE Apply(o, seq[x], h[x - 1])]
      OBVIOUS
    <2>. QED
      BY <1>2, <1>3, <2>1 DEF IsChain
  <1>4. CASE n # 0
    <2>1. n - 1 \in 0..m /\ n - 1 \notin Bad
      BY <1>1, <1>2, <1>4
    <2>2. PICK g : IsChain(o, seq, n - 1, g)
      BY <2>1 DEF Bad
    <2> DEFINE zero == [k \in Keys(o) |-> KvInit]
               h == [x \in 0..n |-> IF x = 0 THEN zero ELSE Apply(o, seq[x], g[x - 1])]
               h2 == [x \in 0..n |-> IF x = 0 THEN zero ELSE Apply(o, seq[x], h[x - 1])]
    <2>3. \A x \in 0..(n - 1) : g[x] = IF x = 0 THEN zero ELSE Apply(o, seq[x], g[x - 1])
      BY <2>2 DEF IsChain
    <2> HIDE DEF zero
    <2>4. \A x \in 0..(n - 1) : h[x] = g[x]
      BY <1>2, <1>4, <2>3
    <2>5. \A x \in 0..n : x # 0 => x - 1 \in 0..(n - 1)
      BY <1>2
    <2>6. h = h2
      BY <2>4, <2>5
    <2>. QED
      BY <1>2, <2>6 DEF IsChain, zero
  <1>. QED
    BY <1>3, <1>4

\* StateAfter is what its recursive definition says.
LEMMA StateAfterSteps ==
    ASSUME NEW o, NEW seq, Len(seq) \in Nat
    PROVE  /\ StateAfter(o, seq)[0] = [k \in Keys(o) |-> KvInit]
           /\ \A n \in 1..Len(seq) :
                 StateAfter(o, seq)[n] = Apply(o, seq[n], StateAfter(o, seq)[n - 1])
  <1> DEFINE st == StateAfter(o, seq)
             m == Len(seq)
  <1>1. \E g : IsChain(o, seq, m, g)
    BY ChainExists
  <1>2. st = CHOOSE g : IsChain(o, seq, m, g)
    BY DEF StateAfter, IsChain, Apply
  <1>3. IsChain(o, seq, m, st)
    BY <1>1, <1>2
  <1> HIDE DEF st
  <1>4. \A n \in 0..m : st[n] = IF n = 0 THEN [k \in Keys(o) |-> KvInit]
                                 ELSE Apply(o, seq[n], st[n - 1])
    BY <1>3 DEF IsChain
  <1>5. 0 \in 0..m /\ \A n \in 1..m : n \in 0..m /\ n # 0
    OBVIOUS
  <1>6. st[0] = [k \in Keys(o) |-> KvInit] /\ \A n \in 1..m : st[n] = Apply(o, seq[n], st[n - 1])
    BY <1>4, <1>5
  <1>. QED
    BY <1>6 DEF st

\* With one key, its state is that of the store.
LEMMA KeyState ==
    ASSUME NEW o, NEW e, WellFormed(o, e), NEW seq, Len(seq) \in Nat,
           \A n \in 1..Len(seq) : seq[n] \in DOMAIN o, NEW k \in Keys(o)
    PROVE  /\ StateAfter(o, seq)[0][k] = KvInit
           /\ \A n \in 1..Len(seq) :
                 StateAfter(o, seq)[n][k] = KvState(StateAfter(o, seq)[n - 1][k], o[seq[n]])
           /\ \A i \in DOMAIN o : o[i].key = k
  <1> DEFINE st == StateAfter(o, seq)
             m == Len(seq)
             Bad == {n \in 0..m : DOMAIN st[n] # Keys(o)}
  <1>1. /\ st[0] = [x \in Keys(o) |-> KvInit]
        /\ \A n \in 1..m : st[n] = Apply(o, seq[n], st[n - 1])
    BY StateAfterSteps
  <1> HIDE DEF st
  <1>2. Bad = {}
    <2> SUFFICES ASSUME Bad # {} PROVE FALSE
      OBVIOUS
    <2>1. Bad \in SUBSET Nat
      OBVIOUS
    <2> HIDE DEF Bad
    <2>2. PICK n \in Bad : \A x \in Bad : n <= x
      BY <2>1, Least
    <2>3. n \in 0..m /\ DOMAIN st[n] # Keys(o)
      BY DEF Bad
    <2>4. n # 0
      BY <1>1, <2>3
    <2>5. n - 1 \in 0..m /\ n - 1 \notin Bad
      BY <2>2, <2>3, <2>4
    <2>6. DOMAIN st[n - 1] = Keys(o)
      BY <2>5 DEF Bad
    <2>7. n \in 1..m
      BY <2>3, <2>4
    <2>8. DOMAIN st[n] = DOMAIN st[n - 1]
      BY <1>1, <2>7 DEF Apply
    <2>. QED
      BY <2>3, <2>6, <2>8
  <1>3. \A i \in DOMAIN o : o[i].key = k
    BY DEF WellFormed, Keys
  <1>4. ASSUME NEW n \in 1..m PROVE st[n][k] = KvState(st[n - 1][k], o[seq[n]])
    <2>1. n - 1 \in 0..m /\ seq[n] \in DOMAIN o
      OBVIOUS
    <2>2. DOMAIN st[n - 1] = Keys(o) /\ o[seq[n]].key = k
      BY <1>2, <1>3, <2>1
    <2>3. st[n] = [st[n - 1] EXCEPT ![k] = KvState(st[n - 1][k], o[seq[n]])]
      BY <1>1, <2>2 DEF Apply
    <2>. QED
      BY <2>2, <2>3
  <1>5. st[0][k] = KvInit
    BY <1>1
  <1>. QED
    BY <1>3, <1>4, <1>5 DEF st

\* f is the sequence of the store's states when it executes seq from st, and
\* every operation of seq has the output it had.
Executes(o, st, m, seq, f) ==
    /\ f[0] = st
    /\ \A n \in 1..m : KvOk(f[n - 1], o[seq[n]]) /\ f[n] = KvState(f[n - 1], o[seq[n]])

\* Legal is Executes, for some f.
LEMMA LegalExecutes ==
    ASSUME NEW o, NEW e, WellFormed(o, e), NEW m \in Nat, NEW seq \in [1..m -> DOMAIN o],
           Len(seq) = m, Legal(o, seq)
    PROVE  \E f : Executes(o, KvInit, m, seq, f)
  <1>1. CASE m = 0
    <2> DEFINE f == [n \in {0} |-> KvInit]
    <2>1. Executes(o, KvInit, m, seq, f)
      BY <1>1 DEF Executes
    <2>. QED
      BY <2>1
  <1>2. CASE m # 0
    <2>1. 1 \in 1..m /\ seq[1] \in DOMAIN o
      BY <1>2
    <2> DEFINE k == o[seq[1]].key
               st == StateAfter(o, seq)
               f == [n \in 0..m |-> st[n][k]]
    <2>2. k \in Keys(o)
      BY <2>1 DEF Keys
    <2> HIDE DEF k
    <2>3. /\ st[0][k] = KvInit
          /\ \A n \in 1..m : st[n][k] = KvState(st[n - 1][k], o[seq[n]])
          /\ \A i \in DOMAIN o : o[i].key = k
      BY <2>2, KeyState
    <2>4. \A n \in 1..m : KvOk(st[n - 1][o[seq[n]].key], o[seq[n]])
      BY DEF Legal
    <2> HIDE DEF st
    <2>5. \A n \in 1..m : KvOk(st[n - 1][k], o[seq[n]])
      BY <2>3, <2>4
    <2>6. /\ \A n \in 1..m : f[n] = st[n][k] /\ f[n - 1] = st[n - 1][k]
          /\ f[0] = st[0][k]
      OBVIOUS
    <2> HIDE DEF f
    <2>7. Executes(o, KvInit, m, seq, f)
      BY <2>3, <2>5, <2>6 DEF Executes
    <2>. QED
      BY <2>7
  <1>. QED
    BY <1>1, <1>2

\* Operations that execute one after the other are legal, and StateAfter is the
\* state they lead to.
LEMMA ExecutesLegal ==
    ASSUME NEW o, NEW e, WellFormed(o, e), NEW m \in Nat, NEW seq \in [1..m -> DOMAIN o],
           Len(seq) = m, NEW f, Executes(o, KvInit, m, seq, f)
    PROVE  /\ Legal(o, seq)
           /\ \A k \in Keys(o) : StateAfter(o, seq)[m][k] = f[m]
  <1> DEFINE st == StateAfter(o, seq)
  <1>1. ASSUME NEW k \in Keys(o)
        PROVE  /\ \A n \in 0..m : st[n][k] = f[n]
               /\ \A i \in DOMAIN o : o[i].key = k
    <2>1. /\ st[0][k] = KvInit
          /\ \A n \in 1..m : st[n][k] = KvState(st[n - 1][k], o[seq[n]])
          /\ \A i \in DOMAIN o : o[i].key = k
      BY KeyState
    <2> DEFINE Bad == {n \in 0..m : st[n][k] # f[n]}
    <2> HIDE DEF st
    <2>2. Bad = {}
      <3> SUFFICES ASSUME Bad # {} PROVE FALSE
        OBVIOUS
      <3>1. Bad \in SUBSET Nat
        OBVIOUS
      <3> HIDE DEF Bad
      <3>2. PICK n \in Bad : \A x \in Bad : n <= x
        BY <3>1, Least
      <3>3. n \in 0..m /\ st[n][k] # f[n]
        BY DEF Bad
      <3>4. n # 0
        BY <2>1, <3>3 DEF Executes
      <3>5. n - 1 \in 0..m /\ n - 1 \notin Bad
        BY <3>2, <3>3, <3>4
      <3>6. st[n - 1][k] = f[n - 1] /\ n \in 1..m
        BY <3>3, <3>4, <3>5 DEF Bad
      <3>. QED
        BY <2>1, <3>3, <3>6 DEF Executes
    <2>. QED
      BY <2>1, <2>2
  <1>2. DOMAIN seq = 1..m /\ \A n \in 1..m : seq[n] \in DOMAIN o /\ o[seq[n]].key \in Keys(o)
    BY DEF Keys
  <1>3. ASSUME NEW n \in 1..m PROVE KvOk(st[n - 1][o[seq[n]].key], o[seq[n]])
    <2>1. n - 1 \in 0..m
      OBVIOUS
    <2>2. st[n - 1][o[seq[n]].key] = f[n - 1]
      BY <1>1, <1>2, <2>1
    <2>. QED
      BY <2>2 DEF Executes
  <1>4. Legal(o, seq)
    BY <1>2, <1>3 DEF Legal
  <1>5. m \in 0..m
    OBVIOUS
  <1>. QED
    BY <1>1, <1>4, <1>5

\* The pairs of Before, by the places of return and call.
LEMMA BeforePairs ==
    ASSUME NEW o, NEW e, WellFormed(o, e)
    PROVE  /\ \A i, j \in DOMAIN o : <<i, j>> \in Before(e) <=> RetOf(e, i) < CallOf(e, j)
           /\ \A pair \in Before(e) : /\ pair[1] \in DOMAIN o /\ pair[2] \in DOMAIN o
                                      /\ RetOf(e, pair[1]) < CallOf(e, pair[2])
  <1>1. DOMAIN e = 1..Len(e)
    BY DEF WellFormed
  <1> DEFINE N == 1..Len(e)
             P(p, q) == p < q /\ e[p].kind = "return" /\ e[q].kind = "call"
             PQ == {pq \in N \X N : P(pq[1], pq[2])}
  <1>2. Before(e) = {<<e[pq[1]].id, e[pq[2]].id>> : pq \in PQ}
    BY <1>1 DEF Before
  <1>3. ASSUME NEW i \in DOMAIN o, NEW j \in DOMAIN o, RetOf(e, i) < CallOf(e, j)
        PROVE  <<i, j>> \in Before(e)
    <2> DEFINE pq == <<RetOf(e, i), CallOf(e, j)>>
    <2>1. pq \in PQ /\ e[pq[1]].id = i /\ e[pq[2]].id = j
      BY <1>3, CallRet
    <2>. QED
      BY <1>2, <2>1
  <1>4. ASSUME NEW pair \in Before(e)
        PROVE  /\ pair[1] \in DOMAIN o /\ pair[2] \in DOMAIN o
               /\ RetOf(e, pair[1]) < CallOf(e, pair[2])
    <2>1. PICK pq \in PQ : pair = <<e[pq[1]].id, e[pq[2]].id>>
      BY <1>2
    <2>2. pq[1] \in N /\ pq[2] \in N /\ P(pq[1], pq[2])
      OBVIOUS
    <2>3. pair[1] = e[pq[1]].id /\ pair[2] = e[pq[2]].id
      BY <2>1
    <2>4. /\ pair[1] \in DOMAIN o /\ pair[2] \in DOMAIN o
          /\ pq[1] = RetOf(e, pair[1]) /\ pq[2] = CallOf(e, pair[2])
      BY <2>2, <2>3, EventOf
    <2>. QED
      BY <2>2, <2>4
  <1>5. ASSUME NEW i \in DOMAIN o, NEW j \in DOMAIN o, <<i, j>> \in Before(e)
        PROVE  RetOf(e, i) < CallOf(e, j)
    <2>1. <<i, j>>[1] = i /\ <<i, j>>[2] = j
      OBVIOUS
    <2>. QED
      BY <1>4, <1>5, <2>1
  <1>. QED
    BY <1>3, <1>4, <1>5

-----------------------------------------------------------------------------
(***************************************************************************)
(* What the search has still to try                                        *)
(***************************************************************************)

\* seq continues, from state st, a beginning of a linearization that consists
\* of the operations D.
Continues(o, e, D, st, m, seq, f) ==
    /\ m \in Nat /\ seq \in [1..m -> (DOMAIN o) \ D]
    /\ \A a, b \in 1..m : a # b => seq[a] # seq[b]
    /\ \A n \in 1..m, i \in DOMAIN o :
           RetOf(e, i) < CallOf(e, seq[n]) => i \in D \/ \E x \in 1..(n - 1) : seq[x] = i
    /\ Executes(o, st, m, seq, f)

\* The recorded prefix lg[x] has at least d operations.
AtLeast(lg, x, d) == lg[x] # Nil /\ Len(lg[x]) >= d

\* A continuation is not a linearization: an operation is missing.  And for
\* each of its operations a prefix at least as long has been recorded.
Missing(o, D, m, seq) == \E i \in (DOMAIN o) \ D : \A n \in 1..m : seq[n] # i
Recorded(e, lg, D, m, seq) ==
    \A p \in 1..Len(e) :
        e[p].id \in D \/ (\E n \in 1..m : seq[n] = e[p].id) =>
            AtLeast(lg, renumber(e)[p], Cardinality(D) + m)

\* The search need not look at D with state st again.
Explored(o, e, lg, D, st) ==
    \A m, seq, f : Continues(o, e, D, st, m, seq, f) =>
        Missing(o, D, m, seq) /\ Recorded(e, lg, D, m, seq)

\* A continuation, and its states, without the first step.
Later(m, seq) == [n \in 1..(m - 1) |-> seq[n + 1]]
LaterStates(m, f) == [n \in 0..(m - 1) |-> f[n + 1]]

\* A continuation starts with an operation that may come next, and the rest
\* continues from there.
LEMMA FirstStep ==
    ASSUME NEW o, NEW e, NEW D, NEW st, NEW m, NEW seq, NEW f,
           Continues(o, e, D, st, m, seq, f), m # 0
    PROVE  /\ seq[1] \in DOMAIN o /\ seq[1] \notin D /\ KvOk(st, o[seq[1]])
           /\ \A j \in DOMAIN o : RetOf(e, j) < CallOf(e, seq[1]) => j \in D
           /\ Continues(o, e, D \cup {seq[1]}, KvState(st, o[seq[1]]), m - 1,
                        Later(m, seq), LaterStates(m, f))
  <1> DEFINE i == seq[1]
             seq2 == [n \in 1..(m - 1) |-> seq[n + 1]]
             f2 == [n \in 0..(m - 1) |-> f[n + 1]]
  <1>1. /\ m \in Nat /\ m - 1 \in Nat /\ seq \in [1..m -> (DOMAIN o) \ D] /\ 1 \in 1..m
        /\ \A a, b \in 1..m : a # b => seq[a] # seq[b]
    BY DEF Continues
  <1>2. /\ f[0] = st
        /\ \A n \in 1..m : KvOk(f[n - 1], o[seq[n]]) /\ f[n] = KvState(f[n - 1], o[seq[n]])
    BY DEF Continues, Executes
  <1>3. i \in (DOMAIN o) \ D
    BY <1>1
  <1>4. KvOk(st, o[i]) /\ f[1] = KvState(st, o[i])
    <2>1. 1 - 1 = 0
      OBVIOUS
    <2>. QED
      BY <1>1, <1>2, <2>1
  <1>5. \A j \in DOMAIN o : RetOf(e, j) < CallOf(e, i) => j \in D
    <2>1. \A x \in 1..(1 - 1) : FALSE
      OBVIOUS
    <2>. QED
      BY <1>1, <2>1 DEF Continues
  <1>6. \A n \in 1..(m - 1) : n + 1 \in 1..m /\ n + 1 # 1 /\ seq2[n] = seq[n + 1]
    BY <1>1
  <1>7. seq2 \in [1..(m - 1) -> (DOMAIN o) \ (D \cup {i})]
    BY <1>1, <1>6
  <1>8. \A a, b \in 1..(m - 1) : a # b => seq2[a] # seq2[b]
    <2> TAKE a, b \in 1..(m - 1)
    <2>1. a # b => a + 1 # b + 1
      OBVIOUS
    <2>. QED
      BY <1>1, <1>6, <2>1
  <1>9. ASSUME NEW n \in 1..(m - 1), NEW j \in DOMAIN o, RetOf(e, j) < CallOf(e, seq2[n])
        PROVE  j \in D \cup {i} \/ \E x \in 1..(n - 1) : seq2[x] = j
    <2>1. j \in D \/ \E x \in 1..n : seq[x] = j
      <3>1. RetOf(e, j) < CallOf(e, seq[n + 1]) /\ n + 1 \in 1..m /\ (n + 1) - 1 = n
        BY <1>6, <1>9
      <3>. QED
        BY <3>1 DEF Continues
    <2>2. ASSUME NEW x \in 1..n, seq[x] = j, x # 1 PROVE \E y \in 1..(n - 1) : seq2[y] = j
      <3>1. x - 1 \in 1..(n - 1) /\ x - 1 \in 1..(m - 1) /\ (x - 1) + 1 = x
        BY <1>1, <2>2
      <3>2. seq2[x - 1] = j
        BY <1>6, <2>2, <3>1
      <3>. QED
        BY <3>1, <3>2
    <2>. QED
      BY <2>1, <2>2
  <1>10. Executes(o, KvState(st, o[i]), m - 1, seq2, f2)
    <2>1. \A n \in 0..(m - 1) : f2[n] = f[n + 1]
      OBVIOUS
    <2>2. f2[0] = KvState(st, o[i])
      <3>1. 0 \in 0..(m - 1) /\ 0 + 1 = 1
        BY <1>1
      <3>. QED
        BY <1>4, <2>1, <3>1
    <2>3. ASSUME NEW n \in 1..(m - 1)
          PROVE  KvOk(f2[n - 1], o[seq2[n]]) /\ f2[n] = KvState(f2[n - 1], o[seq2[n]])
      <3>1. n \in 0..(m - 1) /\ n - 1 \in 0..(m - 1) /\ (n - 1) + 1 = n /\ (n + 1) - 1 = n
        BY <1>1
      <3>2. f2[n] = f[n + 1] /\ f2[n - 1] = f[n] /\ seq2[n] = seq[n + 1] /\ n + 1 \in 1..m
        BY <1>6, <2>1, <3>1
      <3>3. KvOk(f[(n + 1) - 1], o[seq[n + 1]]) /\ f[n + 1] = KvState(f[(n + 1) - 1], o[seq[n + 1]])
        BY <1>2, <3>2
      <3>. QED
        BY <3>1, <3>2, <3>3
    <2>. QED
      BY <2>2, <2>3 DEF Executes
  <1>11. Continues(o, e, D \cup {i}, KvState(st, o[i]), m - 1, seq2, f2)
    BY <1>1, <1>7, <1>8, <1>9, <1>10 DEF Continues
  <1>. QED
    BY <1>3, <1>4, <1>5, <1>11 DEF Later, LaterStates

\* When a return is met whose call is not linearized, and each call before it
\* has been explored or cannot be linearized, then everything has been.
LEMMA AllTried ==
    ASSUME NEW o, NEW e, WellFormed(o, e), NEW lg, NEW D \in SUBSET DOMAIN o, NEW st,
           NEW r \in Rest(e, D), e[r].kind = "return",
           \A n \in Rest(e, D) : n < r /\ KvOk(st, o[e[n].id]) =>
               Explored(o, e, lg, D \cup {e[n].id}, KvState(st, o[e[n].id])),
           \A p \in 1..Len(e) : e[p].id \in D => AtLeast(lg, renumber(e)[p], Cardinality(D))
    PROVE  Explored(o, e, lg, D, st)
  <1>1. /\ IsFiniteSet(D) /\ Cardinality(D) \in Nat
    BY HalfBound, FS_Subset, FS_CardinalityType
  <1>2. r \in 1..Len(e) /\ r \in Nat /\ e[r].id \in (DOMAIN o) \ D /\ r = RetOf(e, e[r].id)
    BY EventOf DEF Rest
  <1> SUFFICES ASSUME NEW m, NEW seq, NEW f, Continues(o, e, D, st, m, seq, f)
               PROVE  Missing(o, D, m, seq) /\ Recorded(e, lg, D, m, seq)
    BY DEF Explored
  <1>3. m \in Nat
    BY DEF Continues
  <1>4. CASE m = 0
    <2>1. \A n \in 1..m : FALSE
      BY <1>4
    <2>2. Missing(o, D, m, seq)
      BY <1>2, <2>1 DEF Missing
    <2>3. Cardinality(D) + m = Cardinality(D)
      BY <1>1, <1>4
    <2>4. Recorded(e, lg, D, m, seq)
      BY <2>1, <2>3 DEF Recorded
    <2>. QED
      BY <2>2, <2>4
  <1>5. CASE m # 0
    <2> DEFINE i == seq[1]
               D2 == D \cup {i}
               seq2 == Later(m, seq)
               f2 == LaterStates(m, f)
               c == CallOf(e, i)
    <2>1. /\ i \in DOMAIN o /\ i \notin D /\ KvOk(st, o[i])
          /\ \A j \in DOMAIN o : RetOf(e, j) < CallOf(e, i) => j \in D
          /\ Continues(o, e, D2, KvState(st, o[i]), m - 1, seq2, f2)
      BY <1>5, FirstStep
    <2>0. i = seq[1] /\ seq2 = [n \in 1..(m - 1) |-> seq[n + 1]]
      BY DEF Later
    <2> HIDE DEF i, seq2, f2
    <2>2. c \in 1..Len(e) /\ c \in Nat /\ e[c].id = i /\ e[c].kind = "call"
      <3>1. i \in DOMAIN o
        BY <2>1
      <3>. QED
        BY <3>1, CallRet, EventOf
    <2>3. c \in Rest(e, D) /\ c < r
      BY <1>2, <2>1, <2>2 DEF Rest
    <2>4. Missing(o, D2, m - 1, seq2) /\ Recorded(e, lg, D2, m - 1, seq2)
      <3>1. Explored(o, e, lg, D2, KvState(st, o[i]))
        BY <2>1, <2>2, <2>3
      <3> HIDE DEF D2
      <3>. QED
        BY <2>1, <3>1 DEF Explored
    <2>5. /\ \A n \in 1..(m - 1) : n + 1 \in 1..m /\ seq2[n] = seq[n + 1]
          /\ \A n \in 1..m : n # 1 => n - 1 \in 1..(m - 1) /\ (n - 1) + 1 = n
          /\ 1 \in 1..m
      BY <1>3, <1>5, <2>0
    <2>6. \A n \in 1..m : IF n = 1 THEN seq[n] = i ELSE seq[n] = seq2[n - 1]
      BY <2>0, <2>5
    <2>7. Missing(o, D, m, seq)
      <3>1. PICK j \in (DOMAIN o) \ D2 : \A n \in 1..(m - 1) : seq2[n] # j
        BY <2>4 DEF Missing
      <3>2. \A n \in 1..m : seq[n] # j
        BY <2>5, <2>6, <3>1
      <3>. QED
        BY <3>1, <3>2 DEF Missing
    <2>8. Cardinality(D2) + (m - 1) = Cardinality(D) + m
      <3>1. Cardinality(D2) = Cardinality(D) + 1
        BY <1>1, <2>1, FS_AddElement
      <3> HIDE DEF D2
      <3>. QED
        BY <1>1, <1>3, <3>1
    <2>9. Recorded(e, lg, D, m, seq)
      <3> SUFFICES ASSUME NEW p \in 1..Len(e),
                          e[p].id \in D \/ (\E n \in 1..m : seq[n] = e[p].id)
                   PROVE  AtLeast(lg, renumber(e)[p], Cardinality(D) + m)
        BY DEF Recorded
      <3>1. e[p].id \in D2 \/ (\E n \in 1..(m - 1) : seq2[n] = e[p].id)
        BY <2>5, <2>6
      <3>2. AtLeast(lg, renumber(e)[p], Cardinality(D2) + (m - 1))
        BY <2>4, <3>1 DEF Recorded
      <3>. QED
        BY <2>8, <3>2
    <2>. QED
      BY <2>7, <2>9
  <1>. QED
    BY <1>4, <1>5

\* Prefixes that are recorded may be replaced by longer ones.
LEMMA StillExplored ==
    ASSUME NEW o, NEW e, WellFormed(o, e), NEW lg, NEW lg2, NEW D \in SUBSET DOMAIN o, NEW st,
           \A p \in 1..Len(e), d \in Nat :
               AtLeast(lg, renumber(e)[p], d) => AtLeast(lg2, renumber(e)[p], d),
           Explored(o, e, lg, D, st)
    PROVE  Explored(o, e, lg2, D, st)
  <1>1. Cardinality(D) \in Nat
    BY HalfBound, FS_Subset, FS_CardinalityType
  <1> SUFFICES ASSUME NEW m, NEW seq, NEW f, Continues(o, e, D, st, m, seq, f)
               PROVE  Missing(o, D, m, seq) /\ Recorded(e, lg2, D, m, seq)
    BY DEF Explored
  <1>2. m \in Nat /\ Cardinality(D) + m \in Nat
    BY <1>1 DEF Continues
  <1>3. Missing(o, D, m, seq) /\ Recorded(e, lg, D, m, seq)
    BY DEF Explored
  <1>. QED
    BY <1>2, <1>3 DEF Recorded

\* A beginning of a linearization is a continuation of nothing.
LEMMA PartialContinues ==
    ASSUME NEW o, NEW e, WellFormed(o, e), NEW m \in Nat, NEW seq \in [1..m -> DOMAIN o],
           Distinct(seq), InOrder(Before(e), seq), Legal(o, seq)
    PROVE  \E f : Continues(o, e, {}, KvInit, m, seq, f)
  <1>1. seq \in Seq(DOMAIN o) /\ Len(seq) = m /\ DOMAIN seq = 1..m
    OBVIOUS
  <1>2. PICK f : Executes(o, KvInit, m, seq, f)
    BY <1>1, LegalExecutes
  <1>3. ASSUME NEW n \in 1..m, NEW i \in DOMAIN o, RetOf(e, i) < CallOf(e, seq[n])
        PROVE  \E x \in 1..(n - 1) : seq[x] = i
    <2>1. <<i, seq[n]>> \in Before(e) /\ <<i, seq[n]>>[1] = i /\ <<i, seq[n]>>[2] = seq[n]
      BY <1>3, BeforePairs
    <2>. QED
      BY <1>1, <2>1 DEF InOrder
  <1>4. seq \in [1..m -> (DOMAIN o) \ {}] /\ \A a, b \in 1..m : a # b => seq[a] # seq[b]
    BY <1>1 DEF Distinct
  <1>5. Continues(o, e, {}, KvInit, m, seq, f)
    BY <1>2, <1>3, <1>4 DEF Continues
  <1>. QED
    BY <1>5

\* And a continuation of nothing is a beginning of a linearization: of one
\* that is complete, if no operation is missing.
LEMMA ContinuesPartial ==
    ASSUME NEW o, NEW e, WellFormed(o, e), NEW m, NEW seq, NEW f,
           Continues(o, e, {}, KvInit, m, seq, f)
    PROVE  /\ m \in Nat /\ Len(seq) = m /\ m <= Cardinality(DOMAIN o)
           /\ seq \in PartialLinearizations(o, Before(e))
           /\ \A k \in Keys(o) : StateAfter(o, seq)[Len(seq)][k] = f[m]
           /\ ~Missing(o, {}, m, seq) => Linearizable(o, Before(e))
  <1> DEFINE D == DOMAIN o
  <1>1. /\ m \in Nat /\ seq \in [1..m -> D] /\ seq \in Seq(D) /\ Len(seq) = m
        /\ DOMAIN seq = 1..m
        /\ Executes(o, KvInit, m, seq, f)
    BY DEF Continues
  <1>2. Legal(o, seq) /\ \A k \in Keys(o) : StateAfter(o, seq)[m][k] = f[m]
    BY <1>1, ExecutesLegal
  <1>3. Distinct(seq)
    BY <1>1 DEF Distinct, Continues
  <1>4. InOrder(Before(e), seq)
    <2> SUFFICES ASSUME NEW pair \in Before(e), NEW n \in 1..m, pair[2] = seq[n]
                 PROVE  \E x \in 1..(n - 1) : seq[x] = pair[1]
      BY <1>1 DEF InOrder
    <2>1. pair[1] \in D /\ RetOf(e, pair[1]) < CallOf(e, seq[n])
      BY BeforePairs
    <2>. QED
      BY <2>1 DEF Continues
  <1>5. IsFiniteSet(D) /\ Cardinality(D) \in Nat
    BY HalfBound
  <1>6. IsFiniteSet(1..m) /\ Cardinality(1..m) = m
    BY <1>1, SegmentSize
  <1>7. seq \in Injection(1..m, D)
    BY <1>1, <1>3 DEF Distinct, Injection, IsInjective
  <1>8. /\ m <= Cardinality(D)
        /\ (Cardinality(1..m) = Cardinality(D) <=> seq \in Surjection(1..m, D))
    BY <1>5, <1>6, <1>7, FS_Injection
  <1>9. seq \in Arrangements(D)
    <2>1. m \in 0..Cardinality(D)
      BY <1>1, <1>5, <1>8
    <2>2. seq \in UNION {[1..n -> D] : n \in 0..Cardinality(D)}
      BY <1>1, <2>1
    <2>. QED
      BY <1>3, <2>2 DEF Arrangements
  <1>10. seq \in PartialLinearizations(o, Before(e))
    BY <1>2, <1>4, <1>9 DEF PartialLinearizations
  <1>11. ASSUME ~Missing(o, {}, m, seq) PROVE Linearizable(o, Before(e))
    <2>1. \A i \in D : \E n \in 1..m : seq[n] = i
      BY <1>11 DEF Missing
    <2>2. seq \in Surjection(1..m, D)
      BY <1>1, <2>1 DEF Surjection
    <2>3. m = Cardinality(D)
      BY <1>6, <1>8, <2>2
    <2>. QED
      BY <1>1, <1>2, <1>3, <1>4, <2>3 DEF Linearizable
  <1>. QED
    BY <1>1, <1>2, <1>8, <1>10, <1>11

\* When everything has been explored, there is no linearization.
LEMMA NotLinearizable ==
    ASSUME NEW o, NEW e, WellFormed(o, e), NEW lg, Explored(o, e, lg, {}, KvInit)
    PROVE  ~Linearizable(o, Before(e))
  <1> DEFINE D == DOMAIN o
             m == Cardinality(D)
  <1>1. IsFiniteSet(D) /\ m \in Nat
    BY HalfBound
  <1> SUFFICES ASSUME NEW seq \in [1..m -> D],
                      Distinct(seq), InOrder(Before(e), seq), Legal(o, seq)
               PROVE  FALSE
    BY DEF Linearizable
  <1> HIDE DEF m
  <1>2. PICK f : Continues(o, e, {}, KvInit, m, seq, f)
    BY <1>1, PartialContinues
  <1>3. Missing(o, {}, m, seq)
    BY <1>2 DEF Explored
  <1>4. IsFiniteSet(1..m) /\ Cardinality(1..m) = m
    BY <1>1, SegmentSize
  <1>5. seq \in Injection(1..m, D)
    BY DEF Distinct, Injection, IsInjective
  <1>6. seq \in Surjection(1..m, D)
    BY <1>1, <1>4, <1>5, FS_Injection DEF m
  <1>. QED
    BY <1>3, <1>6 DEF Missing, Surjection

-----------------------------------------------------------------------------
(***************************************************************************)
(* The numbers of operations                                               *)
(***************************************************************************)

\* The numbers that convertEntries has given to the operations D.
Numbers(e, D) == {renumber(e)[n] : n \in {p \in 1..Len(e) : e[p].id \in D}}

\* Operations have the numbers of their own entries only.
LEMMA NumberIn ==
    ASSUME NEW o, NEW e, WellFormed(o, e), NEW D, NEW p \in 1..Len(e)
    PROVE  renumber(e)[p] \in Numbers(e, D) <=> e[p].id \in D
  BY EntryIds DEF Numbers

\* Setting or clearing the bit of an operation adds or removes its number.
LEMMA NumbersAdd ==
    ASSUME NEW o, NEW e, WellFormed(o, e), NEW D, NEW c \in Rest(e, D)
    PROVE  /\ Numbers(e, D \cup {e[c].id}) = Numbers(e, D) \cup {renumber(e)[c]}
           /\ Numbers(e, D \cup {e[c].id}) \ {renumber(e)[c]} = Numbers(e, D)
  <1>1. c \in 1..Len(e) /\ e[c].id \notin D
    BY DEF Rest
  <1>2. \A p \in 1..Len(e) : renumber(e)[p] = renumber(e)[c] <=> e[p].id = e[c].id
    BY <1>1, EntryIds
  <1>3. \A x : x \in Numbers(e, D \cup {e[c].id}) <=>
                  \E p \in 1..Len(e) : (e[p].id \in D \/ e[p].id = e[c].id) /\ x = renumber(e)[p]
    BY DEF Numbers
  <1>4. \A x : x \in Numbers(e, D) <=> \E p \in 1..Len(e) : e[p].id \in D /\ x = renumber(e)[p]
    BY DEF Numbers
  <1>5. \A x : x \in Numbers(e, D \cup {e[c].id}) <=> x \in Numbers(e, D) \/ x = renumber(e)[c]
    <2> TAKE x
    <2>1. ASSUME x \in Numbers(e, D \cup {e[c].id})
          PROVE  x \in Numbers(e, D) \/ x = renumber(e)[c]
      <3>1. PICK p \in 1..Len(e) : (e[p].id \in D \/ e[p].id = e[c].id) /\ x = renumber(e)[p]
        BY <1>3, <2>1
      <3>. QED
        BY <1>2, <1>4, <3>1
    <2>2. x \in Numbers(e, D) => x \in Numbers(e, D \cup {e[c].id})
      BY <1>3, <1>4
    <2>3. renumber(e)[c] \in Numbers(e, D \cup {e[c].id})
      BY <1>1, <1>3
    <2>. QED
      BY <2>1, <2>2, <2>3
  <1>6. renumber(e)[c] \notin Numbers(e, D)
    BY <1>1, <1>2, <1>4
  <1>. QED
    BY <1>5, <1>6

\* Different sets of operations have different sets of numbers.
LEMMA NumbersInjective ==
    ASSUME NEW o, NEW e, WellFormed(o, e), NEW D \in SUBSET DOMAIN o, NEW E \in SUBSET DOMAIN o,
           Numbers(e, D) = Numbers(e, E)
    PROVE  D = E
  <1>1. ASSUME NEW i \in DOMAIN o PROVE i \in D <=> i \in E
    <2>1. CallOf(e, i) \in 1..Len(e) /\ e[CallOf(e, i)].id = i
      BY CallRet
    <2>. QED
      BY <2>1, NumberIn
  <1>. QED
    BY <1>1

-----------------------------------------------------------------------------
(***************************************************************************)
(* The inductive invariant                                                 *)
(***************************************************************************)

InputInv == WellFormed(ops, events) /\ history = convertEntries(events)

TypeInv ==
    /\ IsStack(calls) /\ linearized \in Bitsets(Half(events))
    /\ DOMAIN longest = 0..(Half(events) - 1)
    /\ \A x \in DOMAIN longest : longest[x] # Nil => Len(longest[x]) \in Nat

\* The operations on the stack, and the events that are left.
Linearized == Ids(events, calls, Len(calls))
Left == Rest(events, Linearized)

\* The list holds what is left.  The search is at one of its nodes, and has
\* passed only calls.
ListInv ==
    /\ Links(Len(events), Left, next, prev) /\ Linked(Left, next, prev)
    /\ next[0] # Nil => entry \in Left /\ \A n \in Left : n < entry => events[n].kind = "call"

StackInv ==
    \A j \in 1..Len(calls) :
        Level(events, Rest(events, Ids(events, calls, j - 1)), calls[j].entry, next, prev)

BitInv == Members(linearized) = Numbers(events, Linearized)

\* The states on the stack are those the store goes through.
ReplayInv ==
    /\ StateAt(calls, state, 0) = KvInit
    /\ \A j \in 1..Len(calls) :
           LET op == ops[events[calls[j].entry].id]
           IN  /\ KvOk(StateAt(calls, state, j - 1), op)
               /\ StateAt(calls, state, j) = KvState(StateAt(calls, state, j - 1), op)

\* Linearizing i next has been explored, or is not possible.
Tried(o, e, lg, D, st, i) ==
    KvOk(st, o[i]) => Explored(o, e, lg, D \cup {i}, KvState(st, o[i]))

\* On every level of the stack, the calls the search has passed have been tried.
SearchInv ==
    result = "none" => \A j \in 0..Len(calls) : \A n \in Rest(events, Ids(events, calls, j)) :
        n < EntryAt(calls, entry, j) =>
            Tried(ops, events, longest, Ids(events, calls, j), StateAt(calls, state, j),
                  events[n].id)

\* What is in the cache has been explored, or is on the stack.
CacheInv ==
    result = "none" => \A c \in cache : \E D \in SUBSET DOMAIN ops :
        /\ Members(c.linearized) = Numbers(events, D)
        /\ \/ Explored(ops, events, longest, D, c.state)
           \/ \E j \in 1..Len(calls) :
                 D = Ids(events, calls, j) /\ c.state = StateAt(calls, state, j)

ResultInv ==
    /\ result = "true" => next[0] = Nil
    /\ result = "false" => kill \/ Explored(ops, events, longest, {}, KvInit)

SingleInv ==
    /\ InputInv /\ TypeInv /\ ListInv /\ StackInv
    /\ BitInv /\ ReplayInv /\ SearchInv /\ CacheInv /\ ResultInv

-----------------------------------------------------------------------------
\* What the search reads from an entry.
LEMMA EntryFacts ==
    ASSUME InputInv, NEW n \in 1..Len(events)
    PROVE  /\ n \in Nat /\ events[n].id \in DOMAIN ops /\ Len(events) \in Nat
           /\ Nodes = 1..Len(events)
           /\ history[n].id = renumber(events)[n] /\ history[n].kind = events[n].kind
           /\ events[n].kind = "call" =>
                  /\ match(n) = RetOf(events, events[n].id) /\ match(n) # Nil
                  /\ Op(n) = ops[events[n].id]
           /\ events[n].kind = "return" => match(n) = Nil
           /\ events[n].kind \in {"call", "return"}
  <1> DEFINE N == Len(events)
             i == events[n].id
             r == RetOf(events, i)
  <1>1. /\ WellFormed(ops, events) /\ N \in Nat /\ DOMAIN events = 1..N /\ n \in Nat
        /\ i \in DOMAIN ops
        /\ events \in [1..N -> [kind : {"call", "return"}, id : DOMAIN ops]]
    BY EventOf DEF InputInv, WellFormed
  <1>2. /\ history = [p \in 1..N |-> [kind |-> events[p].kind, id |-> renumber(events)[p]]]
    BY <1>1 DEF InputInv, convertEntries
  <1>3. Len(history) = N /\ Nodes = 1..N
    <2>1. history \in Seq({history[p] : p \in 1..N}) /\ DOMAIN history = 1..N
      BY <1>1, <1>2
    <2>2. DOMAIN history = 1..Len(history) /\ Len(history) \in Nat
      BY <2>1, LenProperties
    <2>3. Len(history) = N
      BY <1>1, <2>1, <2>2
    <2>. QED
      BY <2>3 DEF Nodes
  <1>4. ASSUME NEW p \in 1..N
        PROVE  /\ history[p].kind = events[p].kind /\ history[p].id = renumber(events)[p]
               /\ \A k, x : history[p] = [kind |-> k, id |-> x] <=>
                               events[p].kind = k /\ renumber(events)[p] = x
    <2>1. history[p] = [kind |-> events[p].kind, id |-> renumber(events)[p]]
      BY <1>2
    <2>. QED
      BY <2>1
  <1>n. n \in 1..N /\ i = events[n].id
    OBVIOUS
  <1> HIDE DEF N, i
  <1>5. CASE events[n].kind = "call"
    <2>1. /\ n = CallOf(events, i) /\ r \in 1..N /\ n < r
          /\ events[r].kind = "return" /\ events[r].id = i
          /\ \A p \in 1..N : events[p].id = i => p \in {n, r}
      <3>1. n = CallOf(events, i)
        BY <1>1, <1>5, <1>n, EventOf DEF N
      <3>2. /\ r \in 1..Len(events) /\ CallOf(events, i) < r
            /\ events[r].kind = "return" /\ events[r].id = i
            /\ \A p \in 1..Len(events) : events[p].id = i => p \in {CallOf(events, i), r}
        <4>1. WellFormed(ops, events) /\ i \in DOMAIN ops
          BY <1>1
        <4>. QED
          BY <4>1, CallRet
      <3>. QED
        BY <3>1, <3>2 DEF N
    <2> DEFINE returns == {m \in (n + 1)..N :
                              history[m] = [kind |-> "return", id |-> history[n].id]}
    <2> HIDE DEF r
    <2>2. returns = {r}
      <3>1. r \in returns
        <4>1. r \in (n + 1)..N
          BY <1>1, <2>1
        <4>2. renumber(events)[r] = renumber(events)[n]
          BY <1>1, <1>n, <2>1, EntryIds DEF N
        <4>. QED
          BY <1>4, <1>n, <2>1, <4>1, <4>2
      <3>2. ASSUME NEW m \in returns PROVE m = r
        <4>1. m \in 1..N /\ m # n
          BY <1>1
        <4>2. renumber(events)[m] = renumber(events)[n]
          BY <1>4, <1>n, <4>1
        <4>3. events[m].id = i
          BY <1>1, <1>n, <4>1, <4>2, EntryIds DEF N
        <4>. QED
          BY <2>1, <4>1, <4>3
      <3>. QED
        BY <3>1, <3>2
    <2>3. history[n].kind = "call"
      BY <1>4, <1>5, <1>n
    <2>4. match(n) = CHOOSE m \in returns : \A l \in returns : m <= l
      BY <1>3, <2>2, <2>3 DEF match
    <2>5. match(n) = r
      BY <1>1, <2>1, <2>2, <2>4
    <2>6. r # Nil
      BY <1>1, <2>1, SingleAssumption
    <2>7. Op(n) = ops[i]
      <3>1. ops[i] = [key |-> ops[i].key, op |-> ops[i].op,
                      value |-> ops[i].value, out |-> ops[i].out]
        BY <1>1 DEF WellFormed
      <3>2. Op(n) = [ops[i] EXCEPT !.out = ops[i].out]
        BY <1>n, <2>1, <2>5 DEF Op
      <3>. QED
        BY <3>1, <3>2
    <2>. QED
      BY <1>1, <1>3, <1>4, <1>5, <1>n, <2>5, <2>6, <2>7 DEF r, N
  <1>6. CASE events[n].kind = "return"
    <2>1. match(n) = Nil
      BY <1>4, <1>6, <1>n DEF match
    <2>. QED
      BY <1>1, <1>3, <1>4, <1>6, <1>n, <2>1 DEF N
  <1>7. events[n].kind \in {"call", "return"}
    BY <1>1, <1>n
  <1>. QED
    BY <1>5, <1>6, <1>7

\* The initial state satisfies the invariant.
LEMMA InitInv == Init => SingleInv
  <1> SUFFICES ASSUME Init PROVE SingleInv
    OBVIOUS
  <1> DEFINE N == Len(events)
  <1>1. WellFormed(ops, events) /\ N \in Nat /\ Half(events) \in Nat
    <2>1. PICK h \in Histories : ops = h[1] /\ events = h[2]
      BY DEF Init
    <2>2. WellFormed(ops, events)
      BY <2>1, SingleAssumption
    <2>3. N \in Nat
      BY <2>2 DEF WellFormed
    <2>. QED
      BY <2>2, <2>3, HalfBound
  <1>2. InputInv
    BY <1>1 DEF Init, InputInv
  <1>3. IsStack(calls) /\ Len(calls) = 0
    BY DEF Init, IsStack
  <1>4. linearized \in Bitsets(Half(events)) /\ Members(linearized) = {}
    BY <1>1, NewBitset DEF Init
  <1>5. TypeInv
    BY <1>1, <1>3, <1>4 DEF Init, TypeInv
  <1>6. Linearized = {} /\ Ids(events, calls, 0) = {}
    BY <1>3 DEF Linearized, Ids
  <1>7. Left = 1..N /\ Rest(events, {}) = 1..N
    BY <1>6 DEF Left, Rest
  <1>8. /\ next = [n \in 0..N |-> After(n, N)] /\ prev = [n \in 1..N |-> n - 1]
        /\ entry = After(0, N) /\ \A n \in 0..N : After(n, N) = IF n = N THEN Nil ELSE n + 1
    BY DEF Init, After
  <1>9. ListInv
    <2>1. Links(N, 1..N, next, prev)
      BY <1>1, <1>8 DEF Links
    <2>2. ASSUME NEW n \in (1..N) \cup {0} PROVE IsNext(1..N, n, next[n])
      <3>1. n \in 0..N /\ next[n] = IF n = N THEN Nil ELSE n + 1
        BY <1>1, <1>8
      <3>2. CASE n = N
        BY <1>1, <3>1, <3>2 DEF IsNext
      <3>3. CASE n # N
        <4>1. n + 1 # Nil /\ next[n] = n + 1
          BY <3>1, <3>3, SingleAssumption
        <4>. QED
          BY <1>1, <3>1, <3>3, <4>1 DEF IsNext
      <3>. QED
        BY <3>2, <3>3
    <2>3. ASSUME NEW n \in 1..N PROVE IsPrev(1..N, n, prev[n])
      BY <1>1, <1>8 DEF IsPrev
    <2>4. next[0] # Nil => entry = 1 /\ 1 \in 1..N
      BY <1>1, <1>8
    <2>5. \A n \in 1..N : ~(n < 1)
      OBVIOUS
    <2>. QED
      BY <1>7, <2>1, <2>2, <2>3, <2>4, <2>5 DEF ListInv, Linked
  <1>10. StackInv /\ CacheInv
    BY <1>3 DEF Init, StackInv, CacheInv
  <1>11. BitInv
    BY <1>4, <1>6 DEF BitInv, Numbers
  <1>12. ReplayInv
    BY <1>3 DEF Init, ReplayInv, StateAt
  <1>13. SearchInv
    <2>1. ASSUME NEW n \in 1..N, n < entry PROVE FALSE
      <3>1. N # 0 /\ entry = 1
        BY <1>1, <1>8
      <3>. QED
        BY <2>1, <3>1
    <2>2. ASSUME NEW j \in 0..Len(calls)
          PROVE  /\ Rest(events, Ids(events, calls, j)) = 1..N
                 /\ EntryAt(calls, entry, j) = entry
      <3>1. j = 0
        BY <1>3
      <3>. QED
        BY <1>3, <1>6, <1>7, <3>1 DEF EntryAt
    <2>. QED
      BY <2>1, <2>2 DEF SearchInv
  <1>14. ResultInv
    BY DEF Init, ResultInv
  <1>. QED
    BY <1>2, <1>5, <1>9, <1>10, <1>11, <1>12, <1>13, <1>14 DEF SingleInv

\* When there is something left, the search is at an event that is left.
LEMMA Looking ==
    ASSUME SingleInv, next[0] # Nil
    PROVE  /\ WellFormed(ops, events) /\ entry \in Left /\ entry \in 1..Len(events)
           /\ events[entry].id \notin Linearized
           /\ Linearized \in SUBSET DOMAIN ops /\ Left \in SUBSET (1..Len(events))
           /\ Len(calls) \in Nat
  <1>1. WellFormed(ops, events) /\ entry \in Left /\ Len(calls) \in Nat
    BY StackType DEF SingleInv, InputInv, ListInv, TypeInv
  <1>2. entry \in 1..Len(events) /\ events[entry].id \notin Linearized
    BY <1>1 DEF Left, Rest
  <1>3. ASSUME NEW j \in 1..Len(calls) PROVE calls[j].entry \in 1..Len(events)
    BY DEF SingleInv, StackInv, Level, Rest
  <1>4. Linearized \in SUBSET DOMAIN ops
    BY <1>1, <1>3, EventOf DEF Linearized, Ids
  <1>5. Left \in SUBSET (1..Len(events))
    BY DEF Left, Rest
  <1>. QED
    BY <1>1, <1>2, <1>4, <1>5

\* A call can be passed: its return comes after it.
LEMMA PassCall ==
    ASSUME NEW o, NEW e, WellFormed(o, e), NEW D, NEW c \in Rest(e, D), e[c].kind = "call",
           \A n \in Rest(e, D) : n < c => e[n].kind = "call",
           NEW nx, NEW pv, Links(Len(e), Rest(e, D), nx, pv), Linked(Rest(e, D), nx, pv)
    PROVE  /\ nx[c] \in Rest(e, D)
           /\ \A n \in Rest(e, D) : n < nx[c] => n < c \/ n = c
           /\ \A n \in Rest(e, D) : n < nx[c] => e[n].kind = "call"
           /\ nx[0] # Nil
  <1> DEFINE S == Rest(e, D)
             r == RetOf(e, e[c].id)
  <1>1. S \in SUBSET (1..Len(e)) /\ Len(e) \in Nat
    BY DEF Rest, WellFormed
  <1>2. r \in S /\ c < r /\ c \in S
    <2>1. r \in Without(S, c) /\ c < r
      BY RestRemove
    <2>. QED
      BY <2>1 DEF Without
  <1> HIDE DEF S, r
  <1>3. IsNext(S, c, nx[c]) /\ IsNext(S, 0, nx[0])
    BY <1>2 DEF Linked, S
  <1>4. \A n \in S : n \in Nat /\ n > 0
    BY <1>1
  <1>5. nx[c] # Nil
    BY <1>2, <1>3, <1>4 DEF IsNext
  <1>6. nx[c] \in S /\ c < nx[c] /\ \A n \in S : n <= c \/ nx[c] <= n
    BY <1>3, <1>5 DEF IsNext
  <1>7. \A n \in S : n < nx[c] => n < c \/ n = c
    BY <1>2, <1>4, <1>6
  <1>8. nx[0] # Nil
    BY <1>2, <1>3, <1>4 DEF IsNext
  <1>. QED
    BY <1>6, <1>7, <1>8 DEF S

\* A call that is passed has been tried: the cache holds only what has been
\* explored, and larger sets of operations than those on the stack.
LEMMA PassedIsTried ==
    ASSUME SingleInv, Searching, match(entry) # Nil, ~CanLinearize
    PROVE  /\ events[entry].kind = "call"
           /\ Tried(ops, events, longest, Linearized, state, events[entry].id)
  <1> DEFINE i == events[entry].id
             D2 == Linearized \cup {i}
             op == ops[i]
  <1>1. /\ WellFormed(ops, events) /\ entry \in Left /\ entry \in 1..Len(events)
        /\ i \notin Linearized /\ Linearized \in SUBSET DOMAIN ops /\ Len(calls) \in Nat
    BY Looking DEF Searching
  <1>2. /\ events[entry].kind = "call" /\ Op(entry) = op /\ i \in DOMAIN ops
        /\ history[entry].id = renumber(events)[entry]
    BY <1>1, EntryFacts DEF SingleInv
  <1>3. SUFFICES ASSUME KvOk(state, op)
                 PROVE  Explored(ops, events, longest, D2, KvState(state, op))
    BY <1>2 DEF Tried
  <1>4. PICK c \in cache : equals(newLinearized, c.linearized) /\ c.state = KvState(state, op)
    BY <1>2, <1>3 DEF CanLinearize, cacheContains, newCacheEntry
  <1>5. Members(c.linearized) = Members(newLinearized)
    BY <1>4 DEF equals, Members
  <1>6. Members(newLinearized) = Numbers(events, D2)
    <2>1. /\ Half(events) \in Nat /\ linearized \in Bitsets(Half(events))
          /\ renumber(events)[entry] \in Nat /\ renumber(events)[entry] < Half(events)
      BY <1>1, HalfBound, EntryIds DEF SingleInv, TypeInv
    <2>2. Members(newLinearized) = Members(linearized) \cup {renumber(events)[entry]}
      BY <1>2, <2>1, SetClear DEF newLinearized
    <2>3. Numbers(events, D2) = Numbers(events, Linearized) \cup {renumber(events)[entry]}
      BY <1>1, NumbersAdd DEF Left
    <2>. QED
      BY <2>2, <2>3 DEF SingleInv, BitInv
  <1>7. PICK D \in SUBSET DOMAIN ops :
           /\ Members(c.linearized) = Numbers(events, D)
           /\ \/ Explored(ops, events, longest, D, c.state)
              \/ \E j \in 1..Len(calls) :
                    D = Ids(events, calls, j) /\ c.state = StateAt(calls, state, j)
    BY DEF SingleInv, CacheInv, Searching
  <1>8. D2 \in SUBSET DOMAIN ops
    BY <1>1, <1>2
  <1> HIDE DEF D2
  <1>9. D = D2
    BY <1>1, <1>5, <1>6, <1>7, <1>8, NumbersInjective
  <1>10. ASSUME NEW j \in 1..Len(calls) PROVE D # Ids(events, calls, j)
    <2>1. Ids(events, calls, j) \subseteq Linearized
      BY <1>1 DEF Ids, Linearized
    <2>. QED
      BY <1>1, <1>9, <2>1 DEF D2
  <1>. QED
    BY <1>4, <1>7, <1>9, <1>10

\* Skipping an entry (checker.go:203-208): no linearization from here begins
\* with its operation, which the model refuses or the cache has refuted.
LEMMA SkipInv == SingleInv /\ Skip => SingleInv'
  <1> SUFFICES ASSUME SingleInv, Skip PROVE SingleInv'
    OBVIOUS
  <1>1. /\ Searching /\ match(entry) # Nil /\ ~CanLinearize /\ entry' = next[entry]
        /\ ops' = ops /\ events' = events /\ history' = history /\ kill' = kill
        /\ next' = next /\ prev' = prev /\ state' = state /\ linearized' = linearized
        /\ cache' = cache /\ calls' = calls /\ longest' = longest /\ result' = result
    BY DEF Skip, input, display
  <1>2. /\ WellFormed(ops, events) /\ entry \in Left /\ entry \in 1..Len(events)
        /\ Len(calls) \in Nat
    BY <1>1, Looking DEF Searching
  <1>3. /\ events[entry].kind = "call"
        /\ Tried(ops, events, longest, Linearized, state, events[entry].id)
    BY <1>1, PassedIsTried
  <1>4. /\ next[entry] \in Left
        /\ \A n \in Left : n < next[entry] => n < entry \/ n = entry
        /\ \A n \in Left : n < next[entry] => events[n].kind = "call"
    <2>1. /\ Links(Len(events), Left, next, prev) /\ Linked(Left, next, prev)
          /\ \A n \in Left : n < entry => events[n].kind = "call"
      BY <1>1 DEF SingleInv, ListInv, Searching
    <2>. QED
      BY <1>2, <1>3, <2>1, PassCall DEF Left
  <1>5. Left' = Left /\ Linearized' = Linearized
    BY <1>1 DEF Left, Linearized
  <1>6. ListInv'
    BY <1>1, <1>4, <1>5 DEF SingleInv, ListInv
  <1>7. SearchInv'
    <2> SUFFICES ASSUME NEW j \in 0..Len(calls), NEW n \in Rest(events, Ids(events, calls, j)),
                        n < EntryAt(calls, entry', j)
                 PROVE  Tried(ops, events, longest, Ids(events, calls, j),
                              StateAt(calls, state, j), events[n].id)
      BY <1>1 DEF SearchInv
    <2>1. CASE n < EntryAt(calls, entry, j)
      BY <1>1, <2>1 DEF SingleInv, SearchInv, Searching
    <2>2. CASE ~(n < EntryAt(calls, entry, j))
      <3>1. j = Len(calls)
        BY <2>2 DEF EntryAt
      <3>2. n \in Left /\ n = entry
        BY <1>1, <1>4, <2>2, <3>1 DEF EntryAt, Left, Linearized
      <3>. QED
        BY <1>3, <3>1, <3>2 DEF StateAt, Linearized
    <2>. QED
      BY <2>1, <2>2
  <1>8. InputInv' /\ TypeInv' /\ StackInv' /\ ReplayInv' /\ ResultInv'
    BY <1>1 DEF SingleInv, InputInv, TypeInv, StackInv, ReplayInv, ResultInv
  <1>9. BitInv' /\ CacheInv'
    BY <1>1, <1>5 DEF SingleInv, BitInv, CacheInv
  <1>. QED
    BY <1>6, <1>7, <1>8, <1>9 DEF SingleInv

\* Linearizing an operation (checker.go:189-202): the call is pushed and lifted, its
\* bit set, and the new pair of bitset and state cached before it is explored.
LEMMA LinearizeInv == SingleInv /\ Linearize => SingleInv'
  <1> SUFFICES ASSUME SingleInv, Linearize PROVE SingleInv'
    OBVIOUS
  <1> DEFINE i == events[entry].id
             op == ops[i]
             k == Len(calls)
             D2 == Linearized \cup {i}
             l == lift(entry)
  <1>1. /\ Searching /\ match(entry) # Nil /\ CanLinearize
        /\ cache' = cache \cup {newCacheEntry}
        /\ calls' = Append(calls, [entry |-> entry, state |-> state])
        /\ state' = KvState(state, Op(entry)) /\ linearized' = newLinearized
        /\ next' = l.next /\ prev' = l.prev /\ entry' = l.next[0]
        /\ ops' = ops /\ events' = events /\ history' = history /\ kill' = kill
        /\ longest' = longest /\ result' = result
    BY DEF Linearize, input, display
  <1>2. /\ WellFormed(ops, events) /\ entry \in Left /\ entry \in 1..Len(events)
        /\ i \notin Linearized /\ Linearized \in SUBSET DOMAIN ops /\ k \in Nat
    BY <1>1, Looking DEF Searching
  <1>3. /\ events[entry].kind = "call" /\ Op(entry) = op /\ i \in DOMAIN ops
        /\ history[entry].id = renumber(events)[entry]
        /\ match(entry) = RetOf(events, i)
    BY <1>1, <1>2, EntryFacts DEF SingleInv
  <1>p. calls' = Pushed(calls, entry, state)
    BY <1>1 DEF Pushed
  <1>4. /\ IsStack(calls) /\ IsStack(calls') /\ Len(calls') = k + 1
        /\ \A j \in 1..k : calls'[j] = calls[j]
        /\ calls'[k + 1].entry = entry /\ calls'[k + 1].state = state
    <2>1. IsStack(calls)
      BY DEF SingleInv, TypeInv
    <2>. QED
      BY <1>p, <2>1, Push
  <1>5. /\ \A j \in 0..k : /\ Ids(events, calls', j) = Ids(events, calls, j)
                           /\ StateAt(calls', state', j) = StateAt(calls, state, j)
                           /\ EntryAt(calls', entry', j) = EntryAt(calls, entry, j)
        /\ Ids(events, calls', k + 1) = Ids(events, calls, k) \cup {i}
        /\ StateAt(calls', state', k + 1) = state' /\ EntryAt(calls', entry', k + 1) = entry'
    <2>1. /\ \A j \in 0..k : /\ Ids(events, calls', j) = Ids(events, calls, j)
                             /\ StateAt(calls', state', j) = StateAt(calls, state, j)
                             /\ EntryAt(calls', entry', j) = EntryAt(calls, entry, j)
          /\ \A x : x \in Ids(events, calls', k + 1) <=> x \in Ids(events, calls, k) \/ x = i
          /\ StateAt(calls', state', k + 1) = state' /\ EntryAt(calls', entry', k + 1) = entry'
      <3>1. IsStack(calls)
        BY <1>4
      <3>. QED
        BY ONLY <3>1, <1>p, PushLevels
    <2>. QED
      BY <2>1
  <1>6. Linearized' = D2 /\ Left' = Rest(events, D2)
    BY <1>1, <1>4, <1>5 DEF Linearized, Left
  <1>7. /\ Links(Len(events), Rest(events, D2), next', prev')
        /\ Linked(Rest(events, D2), next', prev')
        /\ Level(events, Left, entry, next', prev')
        /\ Kept(Len(events), Left, next, prev, l)
    <2>1. l = Lifted(next, prev, entry, RetOf(events, i))
      BY <1>3 DEF lift, Lifted
    <2>2. /\ Links(Len(events), Left, next, prev) /\ Linked(Left, next, prev)
          /\ \A n \in Left : n < entry => events[n].kind = "call"
      BY <1>1 DEF SingleInv, ListInv, Searching
    <2> HIDE DEF l
    <2>. QED
      BY <1>1, <1>2, <1>3, <2>1, <2>2, LiftStep DEF Left
  <1> HIDE DEF l
  <1>8. /\ entry' # Nil => entry' \in Left'
        /\ \A n \in Left' : ~(n < entry')
    <2>1. IsNext(Left', 0, entry') /\ Left' \in SUBSET (1..Len(events))
      BY <1>1, <1>6, <1>7 DEF Linked, Links
    <2>2. CASE entry' = Nil
      <3>1. \A n \in Left' : n <= 0
        BY <2>1, <2>2 DEF IsNext
      <3>2. \A n \in Left' : n \in Nat /\ n > 0
        BY <2>1
      <3>. QED
        BY <2>2, <3>1, <3>2
    <2>3. CASE entry' # Nil
      <3>1. entry' \in Left' /\ \A n \in Left' : n <= 0 \/ entry' <= n
        BY <2>1, <2>3 DEF IsNext
      <3>2. \A n \in Left' : n \in Nat /\ n > 0
        BY <2>1
      <3>3. \A n \in Left' : entry' <= n
        BY <3>1, <3>2
      <3>. QED
        BY <3>1, <3>2, <3>3
    <2>. QED
      BY <2>2, <2>3
  <1>9. ListInv'
    BY <1>1, <1>6, <1>7, <1>8 DEF ListInv
  <1>10. StackInv'
    <2> SUFFICES ASSUME NEW j \in 1..(k + 1)
                 PROVE  Level(events, Rest(events, Ids(events, calls', j - 1)),
                              calls'[j].entry, next', prev')
      BY <1>1, <1>4 DEF StackInv
    <2>1. CASE j = k + 1
      <3>1. j - 1 = k /\ k \in 0..k
        BY <1>2, <2>1
      <3>2. Rest(events, Ids(events, calls', j - 1)) = Left
        BY <1>5, <3>1 DEF Left, Linearized
      <3>. QED
        BY <1>4, <1>7, <2>1, <3>2
    <2>2. CASE j # k + 1
      <3>1. j \in 1..k /\ j - 1 \in 0..k
        BY <1>2, <2>2
      <3>2. /\ Level(events, Rest(events, Ids(events, calls, j - 1)), calls[j].entry, next, prev)
            /\ events[calls[j].entry].id \in Linearized
        BY <3>1 DEF SingleInv, StackInv, Linearized, Ids
      <3>3. Kept(Len(events), Rest(events, Linearized), next, prev, l)
        BY <1>7 DEF Left
      <3>4. Level(events, Rest(events, Ids(events, calls, j - 1)), calls[j].entry,
                  l.next, l.prev)
        BY <1>2, <3>2, <3>3, LevelKept
      <3>. QED
        BY <1>1, <1>4, <1>5, <3>1, <3>4
    <2>. QED
      BY <2>1, <2>2
  <1>11. /\ linearized' \in Bitsets(Half(events))
         /\ Members(linearized') = Numbers(events, D2)
    <2>1. /\ Half(events) \in Nat /\ linearized \in Bitsets(Half(events))
          /\ renumber(events)[entry] \in Nat /\ renumber(events)[entry] < Half(events)
      BY <1>2, HalfBound, EntryIds DEF SingleInv, TypeInv
    <2>2. /\ linearized' \in Bitsets(Half(events))
          /\ Members(linearized') = Members(linearized) \cup {renumber(events)[entry]}
      BY <1>1, <1>3, <2>1, SetClear DEF newLinearized
    <2>3. Numbers(events, D2) = Numbers(events, Linearized) \cup {renumber(events)[entry]}
      BY <1>2, NumbersAdd DEF Left
    <2>. QED
      BY <2>2, <2>3 DEF SingleInv, BitInv
  <1>12. InputInv' /\ TypeInv'
    BY <1>1, <1>4, <1>11 DEF SingleInv, InputInv, TypeInv
  <1>13. BitInv'
    BY <1>1, <1>6, <1>11 DEF BitInv
  <1>14. ReplayInv'
    <2>1. StateAt(calls', state', 0) = KvInit
      BY <1>2, <1>5 DEF SingleInv, ReplayInv
    <2>2. ASSUME NEW j \in 1..(k + 1)
          PROVE  LET op2 == ops[events[calls'[j].entry].id]
                 IN  /\ KvOk(StateAt(calls', state', j - 1), op2)
                     /\ StateAt(calls', state', j) = KvState(StateAt(calls', state', j - 1), op2)
      <3>1. CASE j = k + 1
        <4>1. j - 1 = k /\ k \in 0..k
          BY <1>2, <3>1
        <4>2. StateAt(calls', state', j - 1) = state
          BY <1>5, <4>1 DEF StateAt
        <4>3. KvOk(state, op) /\ state' = KvState(state, op)
          BY <1>1, <1>3 DEF CanLinearize
        <4>. QED
          BY <1>4, <1>5, <3>1, <4>2, <4>3
      <3>2. CASE j # k + 1
        <4>1. j \in 1..k /\ j - 1 \in 0..k /\ j \in 0..k
          BY <1>2, <3>2
        <4>. QED
          BY <1>4, <1>5, <4>1 DEF SingleInv, ReplayInv
      <3>. QED
        BY <3>1, <3>2
    <2>. QED
      BY <1>1, <1>4, <2>1, <2>2 DEF ReplayInv
  <1>15. SearchInv'
    <2> SUFFICES ASSUME NEW j \in 0..(k + 1), NEW n \in Rest(events, Ids(events, calls', j)),
                        n < EntryAt(calls', entry', j)
                 PROVE  Tried(ops, events, longest, Ids(events, calls', j),
                              StateAt(calls', state', j), events[n].id)
      BY <1>1, <1>4 DEF SearchInv
    <2>1. CASE j = k + 1
      <3>1. n \in Left' /\ n < entry'
        BY <1>1, <1>4, <1>5, <2>1 DEF Left, Linearized
      <3>. QED
        BY <1>8, <3>1
    <2>2. CASE j # k + 1
      <3>1. j \in 0..k
        BY <1>2, <2>2
      <3>2. n \in Rest(events, Ids(events, calls, j)) /\ n < EntryAt(calls, entry, j)
        BY <1>5, <3>1
      <3>. QED
        BY <1>1, <1>5, <3>1, <3>2 DEF SingleInv, SearchInv, Searching
    <2>. QED
      BY <2>1, <2>2
  <1>16. CacheInv'
    <2> SUFFICES ASSUME NEW c \in cache'
                 PROVE  \E D \in SUBSET DOMAIN ops :
                            /\ Members(c.linearized) = Numbers(events, D)
                            /\ \/ Explored(ops, events, longest, D, c.state)
                               \/ \E j \in 1..(k + 1) : /\ D = Ids(events, calls', j)
                                                        /\ c.state = StateAt(calls', state', j)
      BY <1>1, <1>4 DEF CacheInv
    <2>1. CASE c = newCacheEntry
      <3>1. Members(c.linearized) = Numbers(events, D2) /\ c.state = state'
        BY <1>1, <1>11, <2>1 DEF newCacheEntry
      <3>2. D2 \in SUBSET DOMAIN ops /\ D2 = Ids(events, calls', k + 1) /\ k + 1 \in 1..(k + 1)
        BY <1>2, <1>3, <1>5 DEF Linearized
      <3>. QED
        BY <1>5, <3>1, <3>2
    <2>2. CASE c \in cache
      <3>1. PICK D \in SUBSET DOMAIN ops :
               /\ Members(c.linearized) = Numbers(events, D)
               /\ \/ Explored(ops, events, longest, D, c.state)
                  \/ \E j \in 1..k : D = Ids(events, calls, j) /\ c.state = StateAt(calls, state, j)
        BY <1>1, <2>2 DEF SingleInv, CacheInv, Searching
      <3>2. \A j \in 1..k : j \in 0..k /\ j \in 1..(k + 1)
        BY <1>2
      <3>. QED
        BY <1>5, <3>1, <3>2
    <2>. QED
      BY <1>1, <2>1, <2>2
  <1>17. ResultInv'
    BY <1>1 DEF ResultInv, Searching
  <1>. QED
    BY <1>9, <1>10, <1>12, <1>13, <1>14, <1>15, <1>16, <1>17 DEF SingleInv

\* The calls on the stack are calls of the partition, and the prefix that is
\* recorded for them is a sequence of numbers as long as the stack.
LEMMA PrefixType ==
    ASSUME SingleInv
    PROVE  /\ WellFormed(ops, events) /\ Len(calls) \in Nat /\ DOMAIN calls = 1..Len(calls)
           /\ \A j \in 1..Len(calls) :
                  /\ calls[j].entry \in 1..Len(events) /\ events[calls[j].entry].kind = "call"
                  /\ events[calls[j].entry].id \in DOMAIN ops
                  /\ Prefix[j] = renumber(events)[calls[j].entry]
                  /\ history[calls[j].entry].id = renumber(events)[calls[j].entry]
           /\ Len(Prefix) = Len(calls) /\ DOMAIN Prefix = 1..Len(calls) /\ Prefix # Nil
  <1> DEFINE k == Len(calls)
  <1>1. WellFormed(ops, events) /\ k \in Nat /\ DOMAIN calls = 1..k
    BY StackType DEF SingleInv, InputInv, TypeInv
  <1>2. ASSUME NEW j \in 1..k
        PROVE  calls[j].entry \in 1..Len(events) /\ events[calls[j].entry].kind = "call"
    BY DEF SingleInv, StackInv, Level, Rest
  <1>3. Prefix = [n \in 1..k |-> history[calls[n].entry].id]
    BY <1>1 DEF Prefix
  <1>4. ASSUME NEW j \in 1..k
        PROVE  /\ Prefix[j] = renumber(events)[calls[j].entry]
               /\ history[calls[j].entry].id = renumber(events)[calls[j].entry]
               /\ events[calls[j].entry].id \in DOMAIN ops
               /\ renumber(events)[calls[j].entry] \in Nat
    <2>1. /\ history[calls[j].entry].id = renumber(events)[calls[j].entry]
          /\ events[calls[j].entry].id \in DOMAIN ops
      BY <1>2, EntryFacts DEF SingleInv
    <2>2. renumber(events)[calls[j].entry] \in Nat
      BY <1>1, <1>2, EntryIds
    <2>. QED
      BY <1>3, <2>1, <2>2
  <1> HIDE DEF k
  <1>5. Prefix \in [1..k -> Nat]
    BY <1>3, <1>4
  <1>6. Prefix \in Seq(Nat) /\ DOMAIN Prefix = 1..k
    BY <1>1, <1>5
  <1>7. Len(Prefix) = k
    BY <1>1, <1>6, LenProperties
  <1>8. Prefix # Nil
    BY <1>6, SingleAssumption
  <1>. QED
    BY <1>1, <1>2, <1>4, <1>6, <1>7, <1>8 DEF k

\* A stack of k calls linearizes at most k operations.
LEMMA IdsBound ==
    ASSUME NEW e, NEW cs, NEW k \in Nat
    PROVE  Cardinality(Ids(e, cs, k)) \in Nat /\ Cardinality(Ids(e, cs, k)) <= k
  <1> DEFINE f == [i \in 1..k |-> e[cs[i].entry].id]
             D == Ids(e, cs, k)
  <1>1. f \in Surjection(1..k, D)
    BY DEF Surjection, Ids
  <1>2. IsFiniteSet(1..k) /\ Cardinality(1..k) = k
    BY SegmentSize
  <1> HIDE DEF D, f
  <1>3. IsFiniteSet(D) /\ Cardinality(D) <= k
    BY <1>1, <1>2, FS_Surjection
  <1>. QED
    BY <1>3, FS_CardinalityType DEF D

\* computePartial replaces prefixes by longer ones only, and afterwards one as
\* long as the stack is recorded for every operation on it.
LEMMA LongestGrows ==
    ASSUME SingleInv
    PROVE  /\ DOMAIN UpdatedLongest = DOMAIN longest
           /\ \A x \in DOMAIN longest :
                  UpdatedLongest[x] # Nil => Len(UpdatedLongest[x]) \in Nat
           /\ \A p \in 1..Len(events), d \in Nat :
                  AtLeast(longest, renumber(events)[p], d) =>
                      AtLeast(UpdatedLongest, renumber(events)[p], d)
           /\ \A p \in 1..Len(events) : events[p].id \in Linearized =>
                  AtLeast(UpdatedLongest, renumber(events)[p], Cardinality(Linearized))
  <1> DEFINE k == Len(calls)
             R(x) == Stacked(x) /\ (longest[x] = Nil \/ k > Len(longest[x]))
  <1>1. /\ WellFormed(ops, events) /\ k \in Nat /\ DOMAIN calls = 1..k
        /\ \A j \in 1..k : /\ calls[j].entry \in 1..Len(events)
                           /\ history[calls[j].entry].id = renumber(events)[calls[j].entry]
        /\ Len(Prefix) = k /\ Prefix # Nil
    BY PrefixType
  <1>2. /\ DOMAIN longest = 0..(Half(events) - 1) /\ Half(events) \in Nat
        /\ \A x \in DOMAIN longest : longest[x] # Nil => Len(longest[x]) \in Nat
    BY <1>1, HalfBound DEF SingleInv, TypeInv
  <1>3. ASSUME NEW p \in 1..Len(events)
        PROVE  renumber(events)[p] \in DOMAIN longest
    <2>1. renumber(events)[p] \in Nat /\ renumber(events)[p] < Half(events)
      BY <1>1, EntryIds
    <2>. QED
      BY <1>2, <2>1
  <1>4. \A x \in DOMAIN longest :
           UpdatedLongest[x] = IF R(x) THEN Prefix ELSE longest[x]
    BY DEF UpdatedLongest
  <1>5. DOMAIN UpdatedLongest = DOMAIN longest
    BY DEF UpdatedLongest
  <1>6. \A x \in DOMAIN longest : UpdatedLongest[x] # Nil => Len(UpdatedLongest[x]) \in Nat
    BY <1>1, <1>2, <1>4
  <1>7. ASSUME NEW x \in DOMAIN longest, NEW d \in Nat, AtLeast(longest, x, d)
        PROVE  AtLeast(UpdatedLongest, x, d)
    <2>1. longest[x] # Nil /\ Len(longest[x]) >= d /\ Len(longest[x]) \in Nat
      BY <1>2, <1>7 DEF AtLeast
    <2>2. CASE R(x)
      BY <1>1, <1>4, <2>1, <2>2 DEF AtLeast
    <2>3. CASE ~R(x)
      BY <1>4, <2>1, <2>3 DEF AtLeast
    <2>. QED
      BY <2>2, <2>3
  <1>8. Cardinality(Linearized) \in Nat /\ Cardinality(Linearized) <= k
    BY <1>1, IdsBound DEF Linearized
  <1>9. ASSUME NEW p \in 1..Len(events), events[p].id \in Linearized
        PROVE  AtLeast(UpdatedLongest, renumber(events)[p], Cardinality(Linearized))
    <2> DEFINE x == renumber(events)[p]
               d == Cardinality(Linearized)
    <2>1. PICK j \in 1..k : events[calls[j].entry].id = events[p].id
      BY <1>9 DEF Linearized, Ids
    <2>2. history[calls[j].entry].id = x
      BY <1>1, <2>1, EntryIds
    <2>3. Stacked(x) /\ x \in DOMAIN longest
      BY <1>1, <1>3, <2>2 DEF Stacked
    <2> HIDE DEF x, d
    <2>4. CASE R(x)
      <3>1. UpdatedLongest[x] = Prefix
        BY <1>4, <2>3, <2>4
      <3>. QED
        BY <1>1, <1>8, <3>1 DEF AtLeast, x, d
    <2>5. CASE ~R(x)
      <3>1. UpdatedLongest[x] = longest[x] /\ longest[x] # Nil /\ ~(k > Len(longest[x]))
            /\ Len(longest[x]) \in Nat
        BY <1>2, <1>4, <2>3, <2>5
      <3>. QED
        BY <1>1, <1>8, <3>1 DEF AtLeast, x, d
    <2>. QED
      BY <2>4, <2>5
  <1>. QED
    BY <1>3, <1>5, <1>6, <1>7, <1>9

\* When the search is at a return, its present configuration has been explored.
LEMMA ReturnExplored ==
    ASSUME SingleInv, Searching, match(entry) = Nil, NEW lg,
           \A p \in 1..Len(events), d \in Nat :
               AtLeast(longest, renumber(events)[p], d) => AtLeast(lg, renumber(events)[p], d),
           \A p \in 1..Len(events) : events[p].id \in Linearized =>
               AtLeast(lg, renumber(events)[p], Cardinality(Linearized))
    PROVE  Explored(ops, events, lg, Linearized, state)
  <1>1. /\ WellFormed(ops, events) /\ entry \in Left /\ entry \in 1..Len(events)
        /\ Linearized \in SUBSET DOMAIN ops /\ Len(calls) \in Nat
    BY Looking DEF Searching
  <1>2. events[entry].kind = "return"
    BY <1>1, EntryFacts DEF SingleInv
  <1>3. ASSUME NEW n \in Rest(events, Linearized), n < entry /\ KvOk(state, ops[events[n].id])
        PROVE  Explored(ops, events, lg, Linearized \cup {events[n].id},
                        KvState(state, ops[events[n].id]))
    <2> DEFINE i == events[n].id
               D2 == Linearized \cup {i}
    <2>1. n \in 1..Len(events)
      BY DEF Rest
    <2>2. i \in DOMAIN ops
      BY <1>1, <2>1, EventOf
    <2>3. Len(calls) \in 0..Len(calls) /\ EntryAt(calls, entry, Len(calls)) = entry
          /\ StateAt(calls, state, Len(calls)) = state
      BY <1>1 DEF EntryAt, StateAt
    <2>4. Tried(ops, events, longest, Linearized, state, i)
      BY <1>3, <2>3 DEF SingleInv, SearchInv, Searching, Linearized
    <2>5. Explored(ops, events, longest, D2, KvState(state, ops[i]))
      BY <1>3, <2>4 DEF Tried
    <2>6. D2 \in SUBSET DOMAIN ops
      BY <1>1, <2>2
    <2> HIDE DEF D2
    <2>7. Explored(ops, events, lg, D2, KvState(state, ops[i]))
      BY <1>1, <2>5, <2>6, StillExplored
    <2>. QED
      BY <2>7 DEF D2
  <1>4. entry \in Rest(events, Linearized)
    BY <1>1 DEF Left
  <1>. QED
    BY <1>1, <1>2, <1>3, <1>4, AllTried

\* Backtracking: the latest call has been tried.
LEMMA BacktrackInv == SingleInv /\ Backtrack => SingleInv'
  <1> SUFFICES ASSUME SingleInv, Backtrack PROVE SingleInv'
    OBVIOUS
  <1> DEFINE k == Len(calls)
             top == calls[k]
             c == top.entry
             i == events[c].id
             op == ops[i]
             D == Ids(events, calls, k - 1)
             l == unlift(c)
  <1>1. /\ Searching /\ match(entry) = Nil /\ calls # <<>>
        /\ longest' = UpdatedLongest /\ state' = top.state
        /\ linearized' = clear(linearized, history[c].id)
        /\ calls' = SubSeq(calls, 1, Len(calls) - 1)
        /\ next' = l.next /\ prev' = l.prev /\ entry' = l.next[c]
        /\ ops' = ops /\ events' = events /\ history' = history /\ kill' = kill
        /\ cache' = cache /\ result' = result
    BY DEF Backtrack, input, display
  <1>2. /\ WellFormed(ops, events) /\ Linearized \in SUBSET DOMAIN ops /\ k \in Nat
    BY <1>1, Looking DEF Searching
  <1>p. calls' = Popped(calls) /\ IsStack(calls)
    BY <1>1 DEF Popped, SingleInv, TypeInv
  <1>3. /\ IsStack(calls') /\ k > 0 /\ Len(calls') = k - 1
        /\ \A j \in 1..(k - 1) : calls'[j] = calls[j]
    BY <1>1, <1>p, Pop
  <1>a. k \in 1..k /\ k - 1 \in 0..(k - 1) /\ k - 1 \in Nat
    BY <1>2, <1>3
  <1>4. /\ \A j \in 0..(k - 1) :
              /\ Ids(events, calls', j) = Ids(events, calls, j)
              /\ StateAt(calls', top.state, j) = StateAt(calls, state, j)
              /\ EntryAt(calls', entry', j) = IF j = k - 1 THEN entry' ELSE EntryAt(calls, entry, j)
        /\ \A x : x \in Ids(events, calls, k) <=> x \in D \/ x = i
        /\ StateAt(calls, state, k) = state /\ EntryAt(calls, entry, k - 1) = c
    <2>1. IsStack(calls) /\ calls # <<>>
      BY <1>1, <1>p
    <2>2. /\ \A j \in 0..(k - 1) : Ids(events, calls', j) = Ids(events, calls, j)
          /\ \A x : x \in Ids(events, calls, k) <=> x \in D \/ x = i
      BY ONLY <2>1, <1>p, PopLevels
    <2>3. /\ \A j \in 0..(k - 1) : StateAt(calls', top.state, j) = StateAt(calls, state, j)
          /\ StateAt(calls, state, k) = state
      <3>1. ASSUME NEW j \in 0..(k - 1) PROVE StateAt(calls', top.state, j) = StateAt(calls, state, j)
        <4>1. CASE j = k - 1
          BY <1>2, <1>3, <4>1 DEF StateAt
        <4>2. CASE j # k - 1
          <5>1. j + 1 \in 1..(k - 1) /\ j # Len(calls') /\ j # k
            BY <1>2, <1>3, <4>2
          <5>. QED
            BY <1>3, <5>1 DEF StateAt
        <4>. QED
          BY <4>1, <4>2
      <3>. QED
        BY <3>1 DEF StateAt
    <2>4. \A en, en2 :
             /\ \A j \in 0..(k - 1) : EntryAt(calls', en2, j) =
                    IF j = k - 1 THEN en2 ELSE EntryAt(calls, en, j)
             /\ EntryAt(calls, en, k - 1) = c
      BY ONLY <2>1, <1>p, PopLevels
    <2>. QED
      BY <2>2, <2>3, <2>4
  <1>5. /\ Linearized = D \cup {i} /\ Linearized' = D /\ Left' = Rest(events, D)
    <2>1. Linearized = D \cup {i}
      BY <1>4 DEF Linearized
    <2>2. Linearized' = D
      BY <1>1, <1>3, <1>4, <1>a DEF Linearized
    <2>. QED
      BY <1>1, <2>1, <2>2 DEF Left
  <1>6. /\ c \in 1..Len(events) /\ events[c].kind = "call" /\ i \in DOMAIN ops
        /\ history[c].id = renumber(events)[c] /\ match(c) = RetOf(events, i)
        /\ Level(events, Rest(events, D), c, next, prev)
        /\ c \in Rest(events, D) /\ i \notin D
        /\ \A n \in Rest(events, D) : n < c => events[n].kind = "call"
    <2>1. Level(events, Rest(events, D), c, next, prev)
      BY <1>a DEF SingleInv, StackInv
    <2>2. /\ c \in Rest(events, D) /\ events[c].kind = "call"
          /\ \A n \in Rest(events, D) : n < c => events[n].kind = "call"
      BY <2>1 DEF Level
    <2>3. c \in 1..Len(events) /\ i \notin D
      BY <2>2 DEF Rest
    <2>4. /\ i \in DOMAIN ops
          /\ history[c].id = renumber(events)[c] /\ match(c) = RetOf(events, i)
      BY <2>2, <2>3, EntryFacts DEF SingleInv
    <2>. QED
      BY <2>1, <2>2, <2>3, <2>4
  <1>7. /\ Links(Len(events), Rest(events, D), next', prev')
        /\ Linked(Rest(events, D), next', prev')
        /\ Kept(Len(events), Rest(events, D), next, prev, l)
    <2>1. l = Unlifted(next, prev, c, RetOf(events, i))
      BY <1>6 DEF unlift, Unlifted
    <2>2. /\ Links(Len(events), Rest(events, D \cup {i}), next, prev)
          /\ Linked(Rest(events, D \cup {i}), next, prev)
      BY <1>5 DEF SingleInv, ListInv, Left
    <2> HIDE DEF l, c, D
    <2>3. /\ Links(Len(events), Rest(events, D), l.next, l.prev)
          /\ Linked(Rest(events, D), l.next, l.prev)
          /\ Kept(Len(events), Rest(events, D), next, prev, l)
      BY <1>2, <1>6, <2>1, <2>2, UnliftStep
    <2>. QED
      BY <1>1, <2>3
  <1> HIDE DEF l
  <1>8. /\ entry' \in Rest(events, D)
        /\ \A n \in Rest(events, D) : n < entry' => n < c \/ n = c
        /\ \A n \in Rest(events, D) : n < entry' => events[n].kind = "call"
    <2>1. entry' = next'[c]
      BY <1>1
    <2> HIDE DEF c, D
    <2>2. /\ next'[c] \in Rest(events, D)
          /\ \A n \in Rest(events, D) : n < next'[c] => n < c \/ n = c
          /\ \A n \in Rest(events, D) : n < next'[c] => events[n].kind = "call"
      BY <1>2, <1>6, <1>7, PassCall
    <2>. QED
      BY <2>1, <2>2
  <1>9. ListInv'
    BY <1>1, <1>5, <1>7, <1>8 DEF ListInv
  <1>10. StackInv'
    <2> SUFFICES ASSUME NEW j \in 1..(k - 1)
                 PROVE  Level(events, Rest(events, Ids(events, calls', j - 1)),
                              calls'[j].entry, next', prev')
      BY <1>1, <1>3 DEF StackInv
    <2>1. j \in 1..k /\ j - 1 \in 0..(k - 1)
      BY <1>2, <1>3
    <2>2. /\ Level(events, Rest(events, Ids(events, calls, j - 1)), calls[j].entry, next, prev)
          /\ events[calls[j].entry].id \in D
      BY <2>1 DEF SingleInv, StackInv, Ids
    <2> HIDE DEF D
    <2>3. Level(events, Rest(events, Ids(events, calls, j - 1)), calls[j].entry,
                l.next, l.prev)
      BY <1>2, <1>7, <2>2, LevelKept
    <2>. QED
      BY <1>1, <1>3, <1>4, <2>1, <2>3
  <1>11. /\ linearized' \in Bitsets(Half(events))
         /\ Members(linearized') = Numbers(events, D)
    <2>1. /\ Half(events) \in Nat /\ linearized \in Bitsets(Half(events))
          /\ renumber(events)[c] \in Nat /\ renumber(events)[c] < Half(events)
      BY <1>2, <1>6, HalfBound, EntryIds DEF SingleInv, TypeInv
    <2>2. /\ linearized' \in Bitsets(Half(events))
          /\ Members(linearized') = Members(linearized) \ {renumber(events)[c]}
      BY <1>1, <1>6, <2>1, SetClear
    <2> HIDE DEF c, D
    <2>3. Numbers(events, D \cup {i}) \ {renumber(events)[c]} = Numbers(events, D)
      BY <1>2, <1>6, NumbersAdd
    <2>. QED
      BY <1>5, <2>2, <2>3 DEF SingleInv, BitInv
  <1>12. /\ DOMAIN longest' = DOMAIN longest
         /\ \A x \in DOMAIN longest : longest'[x] # Nil => Len(longest'[x]) \in Nat
         /\ \A p \in 1..Len(events), d \in Nat :
                AtLeast(longest, renumber(events)[p], d) =>
                    AtLeast(longest', renumber(events)[p], d)
         /\ Explored(ops, events, longest', Linearized, state)
    <2> DEFINE lg == UpdatedLongest
    <2>1. /\ DOMAIN lg = DOMAIN longest
          /\ \A x \in DOMAIN longest : lg[x] # Nil => Len(lg[x]) \in Nat
          /\ \A p \in 1..Len(events), d \in Nat :
                 AtLeast(longest, renumber(events)[p], d) => AtLeast(lg, renumber(events)[p], d)
          /\ \A p \in 1..Len(events) : events[p].id \in Linearized =>
                 AtLeast(lg, renumber(events)[p], Cardinality(Linearized))
      BY LongestGrows
    <2> HIDE DEF lg
    <2>2. Explored(ops, events, lg, Linearized, state)
      BY <1>1, <2>1, ReturnExplored
    <2>. QED
      BY <1>1, <2>1, <2>2 DEF lg
  <1>13. InputInv' /\ TypeInv'
    BY <1>1, <1>3, <1>11, <1>12 DEF SingleInv, InputInv, TypeInv
  <1>14. BitInv'
    BY <1>1, <1>5, <1>11 DEF BitInv
  <1>15. ReplayInv'
    <2>1. StateAt(calls', state', 0) = KvInit
      BY <1>1, <1>2, <1>3, <1>4 DEF SingleInv, ReplayInv
    <2>2. ASSUME NEW j \in 1..(k - 1)
          PROVE  LET op2 == ops[events[calls'[j].entry].id]
                 IN  /\ KvOk(StateAt(calls', state', j - 1), op2)
                     /\ StateAt(calls', state', j) = KvState(StateAt(calls', state', j - 1), op2)
      <3>1. j \in 1..k /\ j - 1 \in 0..(k - 1) /\ j \in 0..(k - 1)
        BY <1>2, <1>3
      <3>2. /\ StateAt(calls', state', j - 1) = StateAt(calls, state, j - 1)
            /\ StateAt(calls', state', j) = StateAt(calls, state, j)
            /\ calls'[j] = calls[j]
        BY <1>1, <1>3, <1>4, <3>1
      <3>. QED
        BY <3>1, <3>2 DEF SingleInv, ReplayInv
    <2>. QED
      BY <1>1, <1>3, <2>1, <2>2 DEF ReplayInv
  <1>16. KvOk(top.state, op) /\ state = KvState(top.state, op)
    <2>1. StateAt(calls, state, k - 1) = top.state
      BY <1>a DEF StateAt
    <2>2. /\ KvOk(StateAt(calls, state, k - 1), op)
          /\ StateAt(calls, state, k) = KvState(StateAt(calls, state, k - 1), op)
      BY <1>a DEF SingleInv, ReplayInv
    <2>. QED
      BY <1>4, <2>1, <2>2
  <1>17. ASSUME NEW j \in 0..k PROVE Ids(events, calls, j) \in SUBSET DOMAIN ops
    <2>1. \A x \in 1..j : x \in 1..k
      BY <1>2
    <2>. QED
      BY <1>2, <2>1 DEF Linearized, Ids
  <1>18. SearchInv'
    <2> SUFFICES ASSUME NEW j \in 0..(k - 1), NEW n \in Rest(events, Ids(events, calls, j)),
                        n < EntryAt(calls', entry', j)
                 PROVE  Tried(ops, events, longest', Ids(events, calls, j),
                              StateAt(calls, state, j), events[n].id)
      BY <1>1, <1>3, <1>4 DEF SearchInv
    <2>0. j \in 0..k /\ n \in 1..Len(events) /\ events[n].id \in DOMAIN ops
      BY <1>2, <1>3, EventOf DEF Rest
    <2>1. CASE n < EntryAt(calls, entry, j)
      <3> DEFINE E == Ids(events, calls, j)
                 st == StateAt(calls, state, j)
                 i2 == events[n].id
                 E2 == E \cup {i2}
                 st2 == KvState(st, ops[i2])
      <3>1. Tried(ops, events, longest, E, st, i2)
        BY <1>1, <2>0, <2>1 DEF SingleInv, SearchInv, Searching
      <3>2. SUFFICES ASSUME KvOk(st, ops[i2])
                     PROVE  Explored(ops, events, longest', E2, st2)
        BY DEF Tried
      <3>3. Explored(ops, events, longest, E2, st2)
        BY <3>1, <3>2 DEF Tried
      <3>4. E2 \in SUBSET DOMAIN ops
        BY <1>17, <2>0
      <3> HIDE DEF E2, st2
      <3>. QED
        BY <1>2, <1>12, <3>3, <3>4, StillExplored
    <2>2. CASE ~(n < EntryAt(calls, entry, j))
      <3>1. j = k - 1 /\ n < entry'
        BY <1>4, <2>2
      <3>2. n = c
        BY <1>4, <1>8, <2>2, <3>1
      <3>3. StateAt(calls, state, j) = top.state
        BY <1>1, <1>4, <1>a, <3>1 DEF StateAt
      <3>4. Explored(ops, events, longest', D \cup {i}, KvState(top.state, op))
        BY <1>5, <1>12, <1>16
      <3>. QED
        BY <3>1, <3>2, <3>3, <3>4 DEF Tried
    <2>. QED
      BY <2>1, <2>2
  <1>19. CacheInv'
    <2> SUFFICES ASSUME NEW ce \in cache
                 PROVE  \E E \in SUBSET DOMAIN ops :
                            /\ Members(ce.linearized) = Numbers(events, E)
                            /\ \/ Explored(ops, events, longest', E, ce.state)
                               \/ \E j \in 1..(k - 1) : /\ E = Ids(events, calls', j)
                                                        /\ ce.state = StateAt(calls', state', j)
      BY <1>1, <1>3 DEF CacheInv
    <2>1. PICK E \in SUBSET DOMAIN ops :
             /\ Members(ce.linearized) = Numbers(events, E)
             /\ \/ Explored(ops, events, longest, E, ce.state)
                \/ \E j \in 1..k : E = Ids(events, calls, j) /\ ce.state = StateAt(calls, state, j)
      BY <1>1 DEF SingleInv, CacheInv, Searching
    <2>2. CASE Explored(ops, events, longest, E, ce.state)
      <3>1. Explored(ops, events, longest', E, ce.state)
        BY <1>2, <1>12, <2>2, StillExplored
      <3>. QED
        BY <2>1, <3>1
    <2>3. CASE \E j \in 1..k : E = Ids(events, calls, j) /\ ce.state = StateAt(calls, state, j)
      <3>1. PICK j \in 1..k : E = Ids(events, calls, j) /\ ce.state = StateAt(calls, state, j)
        BY <2>3
      <3>2. CASE j = k
        <4>1. E = Linearized /\ ce.state = state
          BY <1>4, <3>1, <3>2 DEF Linearized
        <4>. QED
          BY <1>12, <2>1, <4>1
      <3>3. CASE j # k
        <4>1. j \in 1..(k - 1) /\ j \in 0..(k - 1)
          BY <1>2, <3>3
        <4>2. E = Ids(events, calls', j) /\ ce.state = StateAt(calls', state', j)
          BY <1>1, <1>4, <3>1, <4>1
        <4>. QED
          BY <2>1, <4>1, <4>2
      <3>. QED
        BY <3>2, <3>3
    <2>. QED
      BY <2>1, <2>2, <2>3
  <1>20. ResultInv'
    BY <1>1 DEF ResultInv, Searching
  <1>. QED
    BY <1>9, <1>10, <1>13, <1>14, <1>15, <1>18, <1>19, <1>20 DEF SingleInv

\* The search ends, one way or another.
LEMMA GiveUpInv == SingleInv /\ GiveUp => SingleInv'
  <1> SUFFICES ASSUME SingleInv, GiveUp PROVE SingleInv'
    OBVIOUS
  <1>1. /\ Searching /\ match(entry) = Nil /\ calls = <<>> /\ result' = "false"
        /\ ops' = ops /\ events' = events /\ history' = history /\ kill' = kill
        /\ next' = next /\ prev' = prev /\ entry' = entry /\ state' = state
        /\ linearized' = linearized /\ cache' = cache /\ calls' = calls /\ longest' = longest
    BY DEF GiveUp, input, list, display
  <1>2. Linearized = {} /\ Len(calls) = 0
    BY <1>1 DEF Linearized, Ids
  <1>3. state = KvInit
    BY <1>1, <1>2 DEF SingleInv, ReplayInv, StateAt
  <1>4. Explored(ops, events, longest, Linearized, state)
    <2>1. \A p \in 1..Len(events) : events[p].id \in Linearized => FALSE
      BY <1>2
    <2>. QED
      BY <1>1, <2>1, ReturnExplored
  <1>5. ResultInv'
    BY <1>1, <1>2, <1>3, <1>4 DEF ResultInv
  <1>6. Left' = Left /\ Linearized' = Linearized
    BY <1>1 DEF Left, Linearized
  <1>7. InputInv' /\ TypeInv' /\ ListInv' /\ StackInv' /\ BitInv' /\ ReplayInv'
    BY <1>1, <1>6
    DEF SingleInv, InputInv, TypeInv, ListInv, StackInv, BitInv, ReplayInv
  <1>8. SearchInv' /\ CacheInv'
    BY <1>1 DEF SearchInv, CacheInv
  <1>. QED
    BY <1>5, <1>7, <1>8 DEF SingleInv

\* Killed: the answer is "false", with kill set.
LEMMA KilledInv == SingleInv /\ Killed => SingleInv'
  <1> SUFFICES ASSUME SingleInv, Killed PROVE SingleInv'
    OBVIOUS
  <1>1. /\ kill /\ result' = "false"
        /\ ops' = ops /\ events' = events /\ history' = history /\ kill' = kill
        /\ next' = next /\ prev' = prev /\ entry' = entry /\ state' = state
        /\ linearized' = linearized /\ cache' = cache /\ calls' = calls /\ longest' = longest
    BY DEF Killed, input, list, display
  <1>5. ResultInv'
    BY <1>1 DEF ResultInv
  <1>6. Left' = Left /\ Linearized' = Linearized
    BY <1>1 DEF Left, Linearized
  <1>7. InputInv' /\ TypeInv' /\ ListInv' /\ StackInv' /\ BitInv' /\ ReplayInv'
    BY <1>1, <1>6
    DEF SingleInv, InputInv, TypeInv, ListInv, StackInv, BitInv, ReplayInv
  <1>8. SearchInv' /\ CacheInv'
    BY <1>1 DEF SearchInv, CacheInv
  <1>. QED
    BY <1>5, <1>7, <1>8 DEF SingleInv

\* Nothing is left in the list: the whole stack is recorded for all operations.
LEMMA SucceedInv == SingleInv /\ Succeed => SingleInv'
  <1> SUFFICES ASSUME SingleInv, Succeed PROVE SingleInv'
    OBVIOUS
  <1>1. /\ next[0] = Nil /\ result' = "true" /\ longest' = [x \in DOMAIN longest |-> Prefix]
        /\ ops' = ops /\ events' = events /\ history' = history /\ kill' = kill
        /\ next' = next /\ prev' = prev /\ entry' = entry /\ state' = state
        /\ linearized' = linearized /\ cache' = cache /\ calls' = calls
    BY DEF Succeed, input, list, display
  <1>2. Len(Prefix) \in Nat
    BY PrefixType
  <1>3. TypeInv'
    BY <1>1, <1>2 DEF SingleInv, TypeInv
  <1>5. ResultInv'
    BY <1>1 DEF ResultInv
  <1>6. Left' = Left /\ Linearized' = Linearized
    BY <1>1 DEF Left, Linearized
  <1>7. InputInv' /\ ListInv' /\ StackInv' /\ BitInv' /\ ReplayInv'
    BY <1>1, <1>6 DEF SingleInv, InputInv, ListInv, StackInv, BitInv, ReplayInv
  <1>8. SearchInv' /\ CacheInv'
    BY <1>1 DEF SearchInv, CacheInv
  <1>. QED
    BY <1>3, <1>5, <1>7, <1>8 DEF SingleInv

\* kill and what is displayed do not take part in the search.
LEMMA ElseInv ==
    ASSUME SingleInv,
           \/ Kill
           \/ Visualize
           \/ UNCHANGED vars
    PROVE  SingleInv'
  <1>1. /\ (kill' = kill \/ result = "none") /\ result' = result
        /\ ops' = ops /\ events' = events /\ history' = history
        /\ next' = next /\ prev' = prev /\ entry' = entry /\ state' = state
        /\ linearized' = linearized /\ cache' = cache /\ calls' = calls /\ longest' = longest
    BY DEF Kill, Visualize, vars, input, list, display
  <1>5. ResultInv'
    BY <1>1 DEF SingleInv, ResultInv
  <1>6. Left' = Left /\ Linearized' = Linearized
    BY <1>1 DEF Left, Linearized
  <1>7. InputInv' /\ TypeInv' /\ ListInv' /\ StackInv' /\ BitInv' /\ ReplayInv'
    BY <1>1, <1>6
    DEF SingleInv, InputInv, TypeInv, ListInv, StackInv, BitInv, ReplayInv
  <1>8. SearchInv' /\ CacheInv'
    BY <1>1 DEF SingleInv, SearchInv, CacheInv
  <1>. QED
    BY <1>5, <1>7, <1>8 DEF SingleInv

\* The inductive invariant of checkSingle holds throughout the search.
THEOREM SingleInvariance == Spec => []SingleInv
  <1>1. SingleInv /\ [Next]_vars => SingleInv'
    <2> SUFFICES ASSUME SingleInv, [Next]_vars PROVE SingleInv'
      OBVIOUS
    <2>1. CASE Linearize
      BY <2>1, LinearizeInv
    <2>2. CASE Skip
      BY <2>2, SkipInv
    <2>3. CASE Backtrack
      BY <2>3, BacktrackInv
    <2>4. CASE GiveUp
      BY <2>4, GiveUpInv
    <2>5. CASE Killed
      BY <2>5, KilledInv
    <2>6. CASE Succeed
      BY <2>6, SucceedInv
    <2>7. CASE Kill \/ Visualize \/ UNCHANGED vars
      BY <2>7, ElseInv
    <2>8. CASE Done
      BY <2>8, ElseInv DEF Done
    <2>. QED
      BY <2>1, <2>2, <2>3, <2>4, <2>5, <2>6, <2>7, <2>8 DEF Next, Iterate
  <1>. QED
    BY <1>1, InitInv, PTL DEF Spec

-----------------------------------------------------------------------------
(***************************************************************************)
(* What the invariant gives                                                *)
(***************************************************************************)

\* The bitset says which events are left.
LEMMA RemainingIsLeft ==
    ASSUME SingleInv
    PROVE  Remaining = Left
  <1>1. WellFormed(ops, events) /\ InputInv /\ Members(linearized) = Numbers(events, Linearized)
    BY DEF SingleInv, InputInv, BitInv
  <1>2. ASSUME NEW n \in 1..Len(events)
        PROVE  /\ Nodes = 1..Len(events)
               /\ history[n].id \in Members(linearized) <=> events[n].id \in Linearized
    <2>1. Nodes = 1..Len(events) /\ history[n].id = renumber(events)[n]
      BY <1>1, EntryFacts
    <2>2. renumber(events)[n] \in Numbers(events, Linearized) <=> events[n].id \in Linearized
      BY <1>1, NumberIn
    <2>. QED
      BY <1>1, <2>1, <2>2
  <1>3. Nodes = 1..Len(events)
    <2>1. Len(history) = Len(events)
      <3>1. DOMAIN events = 1..Len(events) /\ Len(events) \in Nat
        BY <1>1 DEF WellFormed
      <3>2. history \in Seq({history[p] : p \in 1..Len(events)}) /\ DOMAIN history = 1..Len(events)
        BY <1>1, <3>1 DEF InputInv, convertEntries
      <3>3. DOMAIN history = 1..Len(history) /\ Len(history) \in Nat
        BY <3>2, LenProperties
      <3>. QED
        BY <3>1, <3>2, <3>3
    <2>. QED
      BY <2>1 DEF Nodes
  <1>. QED
    BY <1>2, <1>3 DEF Remaining, Left, Rest

\* lift and unlift keep the list intact, and the search stays on it.
THEOREM ListIntactCorrect == Spec => []ListIntact
  <1>1. SingleInv => ListIntact
    <2> SUFFICES ASSUME SingleInv PROVE ListIntact
      OBVIOUS
    <2>1. Remaining = Left
      BY RemainingIsLeft
    <2>. QED
      BY <2>1 DEF SingleInv, ListInv, Linked, ListIntact
  <1>. QED
    BY <1>1, SingleInvariance, PTL

\* The ids of the operations on the stack, and the states they lead through.
StackIds == [n \in 1..Len(calls) |-> events[calls[n].entry].id]
StackStates == [n \in 0..Len(calls) |-> StateAt(calls, state, n)]

\* The stack is the beginning of a linearization.
LEMMA StackContinues ==
    ASSUME SingleInv
    PROVE  /\ Continues(ops, events, {}, KvInit, Len(calls), StackIds, StackStates)
           /\ StackStates[Len(calls)] = state
  <1> DEFINE k == Len(calls)
  <1>1. /\ WellFormed(ops, events) /\ k \in Nat
        /\ \A j \in 1..k : /\ calls[j].entry \in 1..Len(events)
                           /\ events[calls[j].entry].kind = "call"
                           /\ events[calls[j].entry].id \in DOMAIN ops
    BY PrefixType
  <1>2. \A j \in 1..k : /\ calls[j].entry \in Rest(events, Ids(events, calls, j - 1))
                        /\ \A n \in Rest(events, Ids(events, calls, j - 1)) :
                               n < calls[j].entry => events[n].kind = "call"
    BY DEF SingleInv, StackInv, Level
  <1>3. StackIds \in [1..k -> (DOMAIN ops) \ {}] /\ \A j \in 1..k : StackIds[j] = events[calls[j].entry].id
    BY <1>1 DEF StackIds
  <1>4. ASSUME NEW a \in 1..k, NEW b \in 1..k, a < b PROVE StackIds[a] # StackIds[b]
    <2>1. a \in 1..(b - 1)
      BY <1>1, <1>4
    <2>2. StackIds[a] \in Ids(events, calls, b - 1)
      BY <1>3, <2>1 DEF Ids
    <2>. QED
      BY <1>2, <1>3, <2>2 DEF Rest
  <1>5. \A a, b \in 1..k : a # b => StackIds[a] # StackIds[b]
    BY <1>1, <1>4
  <1>6. ASSUME NEW n \in 1..k, NEW i \in DOMAIN ops, RetOf(events, i) < CallOf(events, StackIds[n])
        PROVE  \E x \in 1..(n - 1) : StackIds[x] = i
    <2>1. calls[n].entry = CallOf(events, StackIds[n])
      BY <1>1, <1>3, EventOf
    <2>2. /\ RetOf(events, i) \in 1..Len(events) /\ events[RetOf(events, i)].kind = "return"
          /\ events[RetOf(events, i)].id = i
      BY <1>1, CallRet
    <2>3. RetOf(events, i) \notin Rest(events, Ids(events, calls, n - 1))
      BY <1>2, <1>6, <2>1, <2>2
    <2>4. i \in Ids(events, calls, n - 1)
      BY <2>2, <2>3 DEF Rest
    <2>5. \A x \in 1..(n - 1) : x \in 1..k
      BY <1>1
    <2>. QED
      BY <1>3, <2>4, <2>5 DEF Ids
  <1>7. Executes(ops, KvInit, k, StackIds, StackStates)
    <2>1. 0 \in 0..k /\ StackStates[0] = KvInit
      BY <1>1 DEF SingleInv, ReplayInv, StackStates
    <2>2. ASSUME NEW n \in 1..k
          PROVE  /\ KvOk(StackStates[n - 1], ops[StackIds[n]])
                 /\ StackStates[n] = KvState(StackStates[n - 1], ops[StackIds[n]])
      <3>1. n \in 0..k /\ n - 1 \in 0..k
        BY <1>1
      <3>2. StackStates[n] = StateAt(calls, state, n) /\ StackStates[n - 1] = StateAt(calls, state, n - 1)
        BY <3>1 DEF StackStates
      <3>. QED
        BY <1>3, <3>2 DEF SingleInv, ReplayInv
    <2>. QED
      BY <2>1, <2>2 DEF Executes, StackStates
  <1>8. StackStates[k] = state
    BY <1>1 DEF StackStates, StateAt
  <1>. QED
    BY <1>1, <1>3, <1>5, <1>6, <1>7, <1>8 DEF Continues

\* In the ids of the events, the prefix is the stack.
LEMMA PrefixInEventIds ==
    ASSUME SingleInv
    PROVE  InEventIds(Prefix) = StackIds
  <1> DEFINE k == Len(calls)
             P(n, p) == history[p].id = Prefix[n]
  <1>1. /\ WellFormed(ops, events) /\ k \in Nat /\ DOMAIN Prefix = 1..k
        /\ \A j \in 1..k : /\ calls[j].entry \in 1..Len(events)
                           /\ Prefix[j] = renumber(events)[calls[j].entry]
    BY PrefixType
  <1>2. ASSUME NEW n \in 1..k
        PROVE  events[CHOOSE p \in Nodes : P(n, p)].id = events[calls[n].entry].id
    <2>1. ASSUME NEW p \in 1..Len(events)
          PROVE  Nodes = 1..Len(events) /\ history[p].id = renumber(events)[p]
      BY EntryFacts DEF SingleInv
    <2>2. Nodes = 1..Len(events) /\ calls[n].entry \in Nodes /\ P(n, calls[n].entry)
      BY <1>1, <2>1
    <2> DEFINE p == CHOOSE p \in Nodes : P(n, p)
    <2>3. p \in Nodes /\ P(n, p)
      BY <2>2
    <2> HIDE DEF p
    <2>4. p \in 1..Len(events) /\ renumber(events)[p] = renumber(events)[calls[n].entry]
      BY <1>1, <2>1, <2>2, <2>3
    <2>5. events[p].id = events[calls[n].entry].id
      BY <1>1, <2>4, EntryIds
    <2>. QED
      BY <2>5 DEF p
  <1>. QED
    BY <1>1, <1>2 DEF InEventIds, StackIds

\* The stack of calls, the bitset and the state agree at every moment, and are
\* the beginning of a linearization.
THEOREM CallsLegalCorrect == Spec => []CallsLegal
  <1>1. SingleInv => CallsLegal
    <2> SUFFICES ASSUME SingleInv PROVE CallsLegal
      OBVIOUS
    <2>1. InEventIds(Prefix) = StackIds
      BY PrefixInEventIds
    <2>2. /\ WellFormed(ops, events)
          /\ Continues(ops, events, {}, KvInit, Len(calls), StackIds, StackStates)
          /\ StackStates[Len(calls)] = state
      BY StackContinues, PrefixType
    <2>3. /\ StackIds \in PartialLinearizations(ops, Before(events))
          /\ \A k \in Keys(ops) : StateAfter(ops, StackIds)[Len(StackIds)][k] = state
      BY <2>2, ContinuesPartial
    <2>4. {Prefix[n] : n \in DOMAIN Prefix} = Numbers(events, Linearized)
      <3>1. /\ DOMAIN Prefix = 1..Len(calls)
            /\ \A j \in 1..Len(calls) : /\ calls[j].entry \in 1..Len(events)
                                        /\ Prefix[j] = renumber(events)[calls[j].entry]
        BY PrefixType
      <3>2. ASSUME NEW j \in 1..Len(calls) PROVE Prefix[j] \in Numbers(events, Linearized)
        BY <3>1 DEF Numbers, Linearized, Ids
      <3>3. ASSUME NEW x \in Numbers(events, Linearized)
            PROVE  \E j \in 1..Len(calls) : x = Prefix[j]
        <4>1. PICK p \in 1..Len(events) : events[p].id \in Linearized /\ x = renumber(events)[p]
          BY DEF Numbers
        <4>2. PICK j \in 1..Len(calls) : events[calls[j].entry].id = events[p].id
          BY <4>1 DEF Linearized, Ids
        <4>3. renumber(events)[p] = renumber(events)[calls[j].entry]
          BY <2>2, <3>1, <4>2, EntryIds
        <4>. QED
          BY <3>1, <4>1, <4>3
      <3>. QED
        BY <3>1, <3>2, <3>3
    <2>. QED
      BY <2>1, <2>3, <2>4 DEF SingleInv, BitInv, CallsLegal
  <1>. QED
    BY <1>1, SingleInvariance, PTL

\* checkSingle answers "true" only for a linearizable partition and, unless it
\* was killed, "false" only for one that is not: neither the cache nor the
\* backtracking loses a linearization.
THEOREM AnswerProved == Spec => []AnswerCorrect
  <1>1. SingleInv => AnswerCorrect
    <2> SUFFICES ASSUME SingleInv PROVE AnswerCorrect
      OBVIOUS
    <2>1. ASSUME result = "true" PROVE Linearizable(ops, Before(events))
      <3>1. next[0] = Nil
        BY <2>1 DEF SingleInv, ResultInv
      <3>2. Left \in SUBSET (1..Len(events)) /\ IsNext(Left, 0, Nil)
        BY <3>1 DEF SingleInv, ListInv, Linked, Links
      <3>3. Left = {}
        BY <3>2 DEF IsNext
      <3>4. /\ WellFormed(ops, events)
            /\ Continues(ops, events, {}, KvInit, Len(calls), StackIds, StackStates)
        BY StackContinues, PrefixType
      <3>5. ASSUME NEW i \in DOMAIN ops PROVE \E n \in 1..Len(calls) : StackIds[n] = i
        <4>1. CallOf(events, i) \in 1..Len(events) /\ events[CallOf(events, i)].id = i
          BY <3>4, CallRet
        <4>2. i \in Linearized
          BY <3>3, <4>1 DEF Left, Rest
        <4>. QED
          BY <4>2 DEF Linearized, Ids, StackIds
      <3>6. ~Missing(ops, {}, Len(calls), StackIds)
        BY <3>5 DEF Missing
      <3>. QED
        BY <3>4, <3>6, ContinuesPartial
    <2>2. ASSUME result = "false", ~kill PROVE ~Linearizable(ops, Before(events))
      <3>1. WellFormed(ops, events) /\ Explored(ops, events, longest, {}, KvInit)
        BY <2>2 DEF SingleInv, ResultInv, InputInv
      <3>. QED
        BY <3>1, NotLinearizable
    <2>. QED
      BY <2>1, <2>2 DEF AnswerCorrect
  <1>. QED
    BY <1>1, SingleInvariance, PTL

-----------------------------------------------------------------------------
(***************************************************************************)
(* What is displayed                                                       *)
(***************************************************************************)

\* Every number below length(entry) / 2 is the number of an operation.
LEMMA AllNumbers ==
    ASSUME NEW o, NEW e, WellFormed(o, e), NEW x \in 0..(Half(e) - 1)
    PROVE  \E p \in 1..Len(e) : renumber(e)[p] = x
  <1> DEFINE D == DOMAIN o
             T == 0..(Half(e) - 1)
             g == [i \in D |-> renumber(e)[CallOf(e, i)]]
  <1>1. IsFiniteSet(D) /\ Half(e) \in Nat /\ Cardinality(D) = Half(e)
    BY HalfBound
  <1>2. ASSUME NEW i \in D
        PROVE  /\ CallOf(e, i) \in 1..Len(e) /\ e[CallOf(e, i)].id = i
               /\ g[i] \in T
    <2>1. CallOf(e, i) \in 1..Len(e) /\ e[CallOf(e, i)].id = i
      BY CallRet
    <2>2. renumber(e)[CallOf(e, i)] \in Nat /\ renumber(e)[CallOf(e, i)] < Half(e)
      BY <2>1, EntryIds
    <2>. QED
      BY <1>1, <2>1, <2>2
  <1>3. ASSUME NEW i \in D, NEW j \in D, g[i] = g[j] PROVE i = j
    BY <1>2, <1>3, EntryIds
  <1>4. g \in Injection(D, T)
    BY <1>2, <1>3 DEF Injection, IsInjective
  <1>5. IsFiniteSet(T) /\ Cardinality(T) = Half(e)
    <2>1. 0 \in Int /\ Half(e) - 1 \in Int
      BY <1>1
    <2>2. IsFiniteSet(T) /\ Cardinality(T) = IF 0 > Half(e) - 1 THEN 0 ELSE (Half(e) - 1) - 0 + 1
      BY <2>1, FS_Interval
    <2>. QED
      BY <1>1, <2>2
  <1>6. g \in Surjection(D, T)
    BY <1>1, <1>4, <1>5, FS_Injection
  <1>7. PICK i \in D : g[i] = x
    BY <1>6 DEF Surjection
  <1>. QED
    BY <1>2, <1>7

\* The id, in the events, of the operation with a number.
Named(x) == events[CHOOSE p \in Nodes : history[p].id = x].id

\* Numbers and ids name the same operations, and Shown finds the operation.
LEMMA NamedNumber ==
    ASSUME SingleInv, NEW x \in 0..(Half(events) - 1)
    PROVE  /\ Named(x) \in DOMAIN ops
           /\ \A p \in 1..Len(events) : renumber(events)[p] = x <=> events[p].id = Named(x)
           /\ \A y \in 0..(Half(events) - 1) : Named(y) = Named(x) => y = x
           /\ Shown(x) = ops[Named(x)]
  <1>1. WellFormed(ops, events) /\ InputInv
    BY DEF SingleInv, InputInv
  <1>2. ASSUME NEW y \in 0..(Half(events) - 1)
        PROVE  /\ Nodes = 1..Len(events) /\ Named(y) \in DOMAIN ops
               /\ \A p \in 1..Len(events) : renumber(events)[p] = y <=> events[p].id = Named(y)
    <2>1. PICK q \in 1..Len(events) : renumber(events)[q] = y
      BY <1>1, AllNumbers
    <2>2. \A p \in 1..Len(events) : Nodes = 1..Len(events) /\ history[p].id = renumber(events)[p]
      BY <1>1, EntryFacts
    <2> DEFINE c == CHOOSE p \in Nodes : history[p].id = y
    <2>3. c \in Nodes /\ history[c].id = y
      BY <2>1, <2>2
    <2>4. Named(y) = events[c].id
      BY DEF Named
    <2> HIDE DEF c
    <2>5. c \in 1..Len(events) /\ renumber(events)[c] = y /\ Nodes = 1..Len(events)
      BY <2>1, <2>2, <2>3
    <2>6. events[c].id \in DOMAIN ops
      BY <1>1, <2>5, EventOf
    <2>7. \A p \in 1..Len(events) : renumber(events)[p] = y <=> events[p].id = events[c].id
      BY <1>1, <2>5, EntryIds
    <2>. QED
      BY <2>4, <2>5, <2>6, <2>7
  <1> DEFINE i == Named(x)
             c == CallOf(events, i)
             P(n) == history[n] = [kind |-> "call", id |-> x]
  <1>3. /\ c \in 1..Len(events) /\ events[c].id = i /\ events[c].kind = "call"
    BY <1>1, <1>2, CallRet
  <1> HIDE DEF i
  <1>4. /\ i \in DOMAIN ops
        /\ \A p \in 1..Len(events) : renumber(events)[p] = x <=> events[p].id = i
    BY <1>2 DEF i
  <1>5. ASSUME NEW p \in 1..Len(events)
        PROVE  P(p) <=> p = c
    <2>1. history[p] = [kind |-> events[p].kind, id |-> renumber(events)[p]]
      BY <1>1 DEF InputInv, convertEntries, WellFormed
    <2>2. P(p) <=> events[p].kind = "call" /\ renumber(events)[p] = x
      BY <2>1
    <2>3. events[p].kind = "call" => p = CallOf(events, events[p].id)
      BY <1>1, EventOf
    <2>. QED
      BY <1>3, <1>4, <2>2, <2>3
  <1>6. (CHOOSE n \in Nodes : P(n)) = c
    BY <1>2, <1>3, <1>5
  <1>7. Shown(x) = Op(c)
    BY <1>6 DEF Shown
  <1>8. Op(c) = ops[i]
    BY <1>1, <1>3, EntryFacts
  <1>9. ASSUME NEW y \in 0..(Half(events) - 1), Named(y) = i PROVE y = x
    BY <1>2, <1>3, <1>4, <1>9
  <1>. QED
    BY <1>4, <1>7, <1>8, <1>9 DEF i

\* The length of a function on an initial segment.
LEMMA LenOf ==
    ASSUME NEW S, NEW m \in Nat, NEW seq \in [1..m -> S]
    PROVE  Len(seq) = m /\ DOMAIN seq = 1..m
  <1>1. seq \in Seq(S) /\ DOMAIN seq = 1..m
    OBVIOUS
  <1>2. DOMAIN seq = 1..Len(seq) /\ Len(seq) \in Nat
    BY <1>1, LenProperties
  <1>. QED
    BY <1>1, <1>2

\* A sequence of numbers is the beginning of a linearization.
IsPrefix(pr) ==
    \E m \in Nat : \E f : /\ pr \in [1..m -> 0..(Half(events) - 1)]
                          /\ Continues(ops, events, {}, KvInit, m, InEventIds(pr), f)

\* The prefixes on record are beginnings of linearizations with the operation
\* for which they are recorded.
PrefixInv ==
    \A x \in DOMAIN longest : longest[x] # Nil =>
        IsPrefix(longest[x]) /\ \E n \in DOMAIN longest[x] : longest[x][n] = x

\* After success, the whole stack is on record for all.
WholeInv ==
    /\ result \in {"none", "true", "false"}
    /\ result = "true" =>
           \A x \in DOMAIN longest : longest[x] # Nil /\ Len(longest[x]) = Len(calls)

\* What is displayed was computed from the final record.
DisplayInv ==
    /\ shown \in {"no", "shown"}
    /\ shown = "shown" =>
           /\ result # "none" /\ partials \in ByLength(Collected)
           /\ largest = [id \in {i \in DOMAIN longest : With(partials, i) # {}} |->
                            Largest(partials, id)]

RecordInv == PrefixInv /\ WholeInv /\ DisplayInv

\* The stack is a prefix.
LEMMA StackIsPrefix ==
    ASSUME SingleInv
    PROVE  IsPrefix(Prefix)
  <1> DEFINE k == Len(calls)
  <1>1. /\ WellFormed(ops, events) /\ k \in Nat /\ DOMAIN Prefix = 1..k
        /\ \A j \in 1..k : /\ calls[j].entry \in 1..Len(events)
                           /\ Prefix[j] = renumber(events)[calls[j].entry]
    BY PrefixType
  <1>2. Half(events) \in Nat
    BY <1>1, HalfBound
  <1>3. ASSUME NEW j \in 1..k PROVE Prefix[j] \in 0..(Half(events) - 1)
    <2>1. renumber(events)[calls[j].entry] \in Nat /\ renumber(events)[calls[j].entry] < Half(events)
      BY <1>1, EntryIds
    <2>. QED
      BY <1>1, <1>2, <2>1
  <1>4. Prefix \in [1..k -> 0..(Half(events) - 1)]
    BY <1>1, <1>3 DEF Prefix
  <1>5. Continues(ops, events, {}, KvInit, k, InEventIds(Prefix), StackStates)
    BY StackContinues, PrefixInEventIds
  <1>. QED
    BY <1>1, <1>4, <1>5 DEF IsPrefix

\* A prefix replays: computeVisualizationData does not panic at it.
LEMMA PrefixReplays ==
    ASSUME SingleInv, NEW pr, IsPrefix(pr)
    PROVE  Replays(pr)
  <1>0. PICK m \in Nat :
            \E f : /\ pr \in [1..m -> 0..(Half(events) - 1)]
                   /\ Continues(ops, events, {}, KvInit, m, InEventIds(pr), f)
    BY DEF IsPrefix
  <1>1. PICK f : /\ pr \in [1..m -> 0..(Half(events) - 1)]
                 /\ Continues(ops, events, {}, KvInit, m, InEventIds(pr), f)
    BY <1>0
  <1>2. Len(pr) = m /\ DOMAIN pr = 1..m
    <2>1. pr \in [1..m -> 0..(Half(events) - 1)]
      BY <1>1
    <2>. QED
      BY <2>1, LenOf
  <1>3. ASSUME NEW n \in 1..m PROVE Shown(pr[n]) = ops[InEventIds(pr)[n]]
    <2>1. InEventIds(pr)[n] = Named(pr[n])
      BY <1>2 DEF InEventIds, Named
    <2>2. pr[n] \in 0..(Half(events) - 1)
      BY <1>1
    <2>. QED
      BY <2>1, <2>2, NamedNumber
  <1>4. /\ f[0] = KvInit
        /\ \A n \in 1..m : KvOk(f[n - 1], Shown(pr[n])) /\ f[n] = KvState(f[n - 1], Shown(pr[n]))
    BY <1>1, <1>3 DEF Continues, Executes
  <1> DEFINE Step(h) == [n \in 0..m |-> IF n = 0 THEN KvInit ELSE KvState(h[n - 1], Shown(pr[n]))]
             st == CHOOSE h : h = Step(h)
             g == [n \in 0..m |-> f[n]]
  <1>5. Replays(pr) <=> \A n \in 1..m : KvOk(st[n - 1], Shown(pr[n]))
    BY <1>2 DEF Replays
  <1>6. g = Step(g)
    <2>1. ASSUME NEW n \in 0..m PROVE f[n] = IF n = 0 THEN KvInit ELSE KvState(g[n - 1], Shown(pr[n]))
      <3>1. CASE n = 0
        BY <1>4, <3>1
      <3>2. CASE n # 0
        <4>1. n \in 1..m /\ n - 1 \in 0..m
          BY <3>2
        <4>2. g[n - 1] = f[n - 1]
          BY <4>1
        <4>. QED
          BY <1>4, <3>2, <4>1, <4>2
      <3>. QED
        BY <3>1, <3>2
    <2>. QED
      BY <2>1
  <1>7. st = Step(st)
    BY <1>6
  <1> HIDE DEF st, g
  <1>8. \A n \in 0..m : st[n] = IF n = 0 THEN KvInit ELSE KvState(st[n - 1], Shown(pr[n]))
    BY <1>7
  <1> DEFINE Bad == {n \in 0..m : st[n] # f[n]}
  <1>9. Bad = {}
    <2> SUFFICES ASSUME Bad # {} PROVE FALSE
      OBVIOUS
    <2>1. Bad \in SUBSET Nat
      OBVIOUS
    <2> HIDE DEF Bad
    <2>2. PICK n \in Bad : \A x \in Bad : n <= x
      BY <2>1, Least
    <2>3. n \in 0..m /\ st[n] # f[n]
      BY DEF Bad
    <2>4. n # 0
      BY <1>4, <1>8, <2>3
    <2>5. n - 1 \in 0..m /\ n - 1 \notin Bad /\ n \in 1..m
      BY <2>2, <2>3, <2>4
    <2>6. st[n - 1] = f[n - 1]
      BY <2>5 DEF Bad
    <2>. QED
      BY <1>4, <1>8, <2>3, <2>4, <2>5, <2>6
  <1>10. \A n \in 1..m : st[n - 1] = f[n - 1]
    <2>1. \A n \in 1..m : n - 1 \in 0..m
      OBVIOUS
    <2>. QED
      BY <1>9, <2>1
  <1>. QED
    BY <1>4, <1>5, <1>10


\* Initially nothing is on record.
LEMMA InitRecord == Init => RecordInv
  <1> SUFFICES ASSUME Init PROVE RecordInv
    OBVIOUS
  <1>1. \A x \in DOMAIN longest : longest[x] = Nil
    BY DEF Init
  <1>2. PrefixInv
    BY <1>1 DEF PrefixInv
  <1>3. WholeInv /\ DisplayInv
    BY DEF Init, WholeInv, DisplayInv
  <1>. QED
    BY <1>2, <1>3 DEF RecordInv

\* A step that replaces prefixes on record, if any, by the stack's, while nothing
\* is displayed.
LEMMA RecordStep ==
    ASSUME SingleInv, RecordInv, result = "none",
           ops' = ops, events' = events, history' = history, shown' = shown,
           DOMAIN longest' = DOMAIN longest,
           \A x \in DOMAIN longest :
               longest'[x] = longest[x] \/ (longest'[x] = Prefix /\ Stacked(x))
    PROVE  PrefixInv' /\ DisplayInv'
  <1>1. \A pr : IsPrefix(pr)' <=> IsPrefix(pr)
    BY DEF IsPrefix, InEventIds, Nodes
  <1>2. IsPrefix(Prefix)
    BY StackIsPrefix
  <1>3. ASSUME NEW x \in DOMAIN longest, longest'[x] # Nil
        PROVE  /\ IsPrefix(longest'[x])
               /\ \E n \in DOMAIN longest'[x] : longest'[x][n] = x
    <2>1. CASE longest'[x] = longest[x]
      BY <1>3, <2>1 DEF RecordInv, PrefixInv
    <2>2. CASE longest'[x] = Prefix /\ Stacked(x)
      <3>1. PICK n \in DOMAIN calls : history[calls[n].entry].id = x
        BY <2>2 DEF Stacked
      <3>2. n \in DOMAIN Prefix /\ Prefix[n] = x
        BY <3>1 DEF Prefix
      <3>. QED
        BY <1>2, <2>2, <3>2
    <2>. QED
      BY <2>1, <2>2
  <1>4. PrefixInv'
    BY <1>1, <1>3 DEF PrefixInv
  <1>5. DisplayInv'
    BY DEF RecordInv, DisplayInv
  <1>. QED
    BY <1>4, <1>5

\* When nothing is left, every operation is on the stack.
LEMMA AllStacked ==
    ASSUME SingleInv, next[0] = Nil
    PROVE  /\ Linearized = DOMAIN ops /\ Half(events) <= Len(calls)
           /\ \A x \in 0..(Half(events) - 1) : Stacked(x)
  <1>1. /\ WellFormed(ops, events) /\ Len(calls) \in Nat /\ DOMAIN calls = 1..Len(calls)
        /\ \A j \in 1..Len(calls) :
               /\ calls[j].entry \in 1..Len(events)
               /\ events[calls[j].entry].id \in DOMAIN ops
               /\ history[calls[j].entry].id = renumber(events)[calls[j].entry]
    BY PrefixType
  <1>2. Left \in SUBSET (1..Len(events)) /\ IsNext(Left, 0, Nil)
    BY DEF SingleInv, ListInv, Linked, Links
  <1>3. Left = {}
    BY <1>2 DEF IsNext
  <1>4. ASSUME NEW i \in DOMAIN ops PROVE i \in Linearized
    <2>1. CallOf(events, i) \in 1..Len(events) /\ events[CallOf(events, i)].id = i
      BY <1>1, CallRet
    <2>. QED
      BY <1>3, <2>1 DEF Left, Rest
  <1>5. Linearized = DOMAIN ops
    BY <1>1, <1>4 DEF Linearized, Ids
  <1>6. Half(events) <= Len(calls)
    <2>1. Cardinality(Linearized) = Half(events)
      BY <1>1, <1>5, HalfBound
    <2>. QED
      BY <1>1, <2>1, IdsBound DEF Linearized
  <1>7. ASSUME NEW x \in 0..(Half(events) - 1) PROVE Stacked(x)
    <2>1. PICK p \in 1..Len(events) : renumber(events)[p] = x
      BY <1>1, AllNumbers
    <2>2. events[p].id \in Linearized
      BY <1>1, <1>5, EventOf
    <2>3. PICK j \in 1..Len(calls) : events[calls[j].entry].id = events[p].id
      BY <2>2 DEF Linearized, Ids
    <2>4. renumber(events)[calls[j].entry] = x
      BY <1>1, <2>1, <2>3, EntryIds
    <2>. QED
      BY <1>1, <2>4 DEF Stacked
  <1>. QED
    BY <1>5, <1>6, <1>7

\* The prefixes collected for display are arranged, each once.
LEMMA CollectedPrefixes ==
    ASSUME SingleInv, PrefixInv, NEW ps \in ByLength(Collected)
    PROVE  /\ Len(ps) \in Nat /\ DOMAIN ps = 1..Len(ps)
           /\ \A m \in DOMAIN ps : ps[m] \in Collected /\ IsPrefix(ps[m])
           /\ \A pr \in Collected : \E m \in DOMAIN ps : ps[m] = pr
  <1> DEFINE R == {longest[x] : x \in DOMAIN longest}
             S == Collected
             c == Cardinality(S)
  <1>1. WellFormed(ops, events) /\ DOMAIN longest = 0..(Half(events) - 1) /\ Half(events) \in Nat
    BY HalfBound DEF SingleInv, InputInv, TypeInv
  <1>2. IsFiniteSet(DOMAIN longest)
    <2>1. 0 \in Int /\ Half(events) - 1 \in Int
      BY <1>1
    <2>2. IsFiniteSet(0..(Half(events) - 1))
      BY <2>1, FS_Interval
    <2>. QED
      BY <1>1, <2>2
  <1>3. IsFiniteSet(R)
    <2> DEFINE h == [x \in DOMAIN longest |-> longest[x]]
    <2>1. h \in Surjection(DOMAIN longest, R)
      BY DEF Surjection
    <2> HIDE DEF h, R
    <2>. QED
      BY <1>2, <2>1, FS_Surjection
  <1>4. IsFiniteSet(S)
    <2>1. S \in SUBSET R
      BY DEF Collected
    <2> HIDE DEF R, S
    <2>. QED
      BY <1>3, <2>1, FS_Subset
  <1>5. c \in Nat
    BY <1>4, FS_CardinalityType
  <1>6. /\ ps \in UNION {[1..n -> S] : n \in 0..c} /\ Distinct(ps) /\ Len(ps) = c
    BY DEF ByLength, Arrangements
  <1> HIDE DEF S, c
  <1>7. PICK n \in 0..c : ps \in [1..n -> S]
    BY <1>6
  <1>8. Len(ps) = n /\ DOMAIN ps = 1..n
    BY <1>5, <1>7, LenOf
  <1>9. n = c /\ n \in Nat
    BY <1>5, <1>6, <1>8
  <1>10. ps \in Injection(1..n, S)
    BY <1>6, <1>7, <1>8 DEF Distinct, Injection, IsInjective
  <1>11. IsFiniteSet(1..n) /\ Cardinality(1..n) = n
    BY <1>9, SegmentSize
  <1>12. ps \in Surjection(1..n, S)
    BY <1>4, <1>9, <1>10, <1>11, FS_Injection DEF c
  <1>13. \A pr \in S : IsPrefix(pr)
    BY DEF S, Collected, PrefixInv
  <1>14. \A m \in 1..n : ps[m] \in S
    BY <1>7
  <1>15. \A pr \in S : \E m \in 1..n : ps[m] = pr
    BY <1>12 DEF Surjection
  <1>. QED
    BY <1>8, <1>9, <1>13, <1>14, <1>15 DEF S

\* Every step keeps the record right.
LEMMA NextRecord == SingleInv /\ RecordInv /\ [Next]_vars => RecordInv'
  <1> SUFFICES ASSUME SingleInv, RecordInv, [Next]_vars PROVE RecordInv'
    OBVIOUS
  <1>1. ASSUME \/ Linearize
               \/ Skip
               \/ Kill
               \/ UNCHANGED vars
        PROVE  RecordInv'
    <2>1. /\ ops' = ops /\ events' = events /\ history' = history /\ longest' = longest
          /\ result' = result /\ shown' = shown /\ partials' = partials /\ largest' = largest
          /\ (calls' = calls \/ result = "none")
      BY <1>1 DEF Linearize, Skip, Kill, Searching, vars, input, list, display
    <2>2. \A pr : IsPrefix(pr)' <=> IsPrefix(pr)
      BY <2>1 DEF IsPrefix, InEventIds, Nodes
    <2>3. PrefixInv'
      BY <2>1, <2>2 DEF RecordInv, PrefixInv
    <2>4. WholeInv'
      BY <2>1 DEF RecordInv, WholeInv
    <2>5. DisplayInv'
      BY <2>1 DEF RecordInv, DisplayInv, Collected
    <2>. QED
      BY <2>3, <2>4, <2>5 DEF RecordInv
  <1>2. CASE Backtrack
    <2>1. /\ ops' = ops /\ events' = events /\ history' = history /\ shown' = shown
          /\ result = "none" /\ result' = result /\ longest' = UpdatedLongest
      BY <1>2 DEF Backtrack, Searching, input, display
    <2>2. /\ DOMAIN longest' = DOMAIN longest
          /\ \A x \in DOMAIN longest :
                 longest'[x] = longest[x] \/ (longest'[x] = Prefix /\ Stacked(x))
      BY <2>1 DEF UpdatedLongest
    <2>3. PrefixInv' /\ DisplayInv'
      BY <2>1, <2>2, RecordStep
    <2>4. WholeInv'
      BY <2>1 DEF WholeInv
    <2>. QED
      BY <2>3, <2>4 DEF RecordInv
  <1>3. CASE GiveUp \/ Killed
    <2>1. /\ ops' = ops /\ events' = events /\ history' = history /\ shown' = shown
          /\ result = "none" /\ result' = "false" /\ longest' = longest
      BY <1>3 DEF GiveUp, Killed, Searching, input, display
    <2>2. PrefixInv' /\ DisplayInv'
      BY <2>1, RecordStep
    <2>3. WholeInv'
      BY <2>1 DEF WholeInv
    <2>. QED
      BY <2>2, <2>3 DEF RecordInv
  <1>4. CASE Succeed
    <2>1. /\ ops' = ops /\ events' = events /\ history' = history /\ shown' = shown
          /\ calls' = calls /\ result = "none" /\ result' = "true" /\ next[0] = Nil
          /\ longest' = [x \in DOMAIN longest |-> Prefix]
      BY <1>4 DEF Succeed, input, display
    <2>2. DOMAIN longest = 0..(Half(events) - 1)
      BY DEF SingleInv, TypeInv
    <2>3. /\ DOMAIN longest' = DOMAIN longest
          /\ \A x \in DOMAIN longest : longest'[x] = Prefix /\ Stacked(x)
      BY <2>1, <2>2, AllStacked
    <2>4. PrefixInv' /\ DisplayInv'
      BY <2>1, <2>3, RecordStep
    <2>5. Prefix # Nil /\ Len(Prefix) = Len(calls)
      BY PrefixType
    <2>6. WholeInv'
      BY <2>1, <2>3, <2>5 DEF WholeInv
    <2>. QED
      BY <2>4, <2>6 DEF RecordInv
  <1>5. CASE Visualize
    <2>1. /\ ops' = ops /\ events' = events /\ history' = history /\ longest' = longest
          /\ result' = result /\ calls' = calls /\ result # "none"
      BY <1>5 DEF Visualize, input
    <2>2. \A pr : IsPrefix(pr)' <=> IsPrefix(pr)
      BY <2>1 DEF IsPrefix, InEventIds, Nodes
    <2>3. PrefixInv' /\ PrefixInv
      BY <2>1, <2>2 DEF RecordInv, PrefixInv
    <2>4. WholeInv'
      BY <2>1 DEF RecordInv, WholeInv
    <2>5. PICK ps \in ByLength(Collected) :
             IF \A m \in DOMAIN ps : Replays(ps[m])
             THEN /\ shown' = "shown" /\ partials' = ps
                  /\ largest' = [id \in {i \in DOMAIN longest : With(ps, i) # {}} |->
                                    Largest(ps, id)]
             ELSE shown' = "panic" /\ UNCHANGED <<partials, largest>>
      BY <1>5 DEF Visualize
    <2>6. \A m \in DOMAIN ps : IsPrefix(ps[m])
      BY <2>3, CollectedPrefixes
    <2>7. \A m \in DOMAIN ps : Replays(ps[m])
      BY <2>6, PrefixReplays
    <2>8. Collected' = Collected
      BY <2>1 DEF Collected
    <2>9. DisplayInv'
      BY <2>1, <2>5, <2>7, <2>8 DEF DisplayInv
    <2>. QED
      BY <2>3, <2>4, <2>9 DEF RecordInv
  <1>. QED
    BY <1>1, <1>2, <1>3, <1>4, <1>5 DEF Next, Iterate, Done


\* What is on record when the search has ended by itself is as long as any
\* beginning of a linearization.
LEMMA BestRecorded ==
    ASSUME SingleInv, RecordInv, result # "none", ~kill, NEW id \in 0..(Half(events) - 1),
           NEW seq \in PartialLinearizations(ops, Before(events)),
           NEW n \in DOMAIN seq, seq[n] = Named(id)
    PROVE  Len(seq) \in Nat /\ AtLeast(longest, id, Len(seq))
  <1> DEFINE D == DOMAIN ops
             c == Cardinality(D)
  <1>1. WellFormed(ops, events) /\ c \in Nat /\ c = Half(events)
    BY HalfBound DEF SingleInv, InputInv
  <1>2. /\ seq \in UNION {[1..m -> D] : m \in 0..c} /\ Distinct(seq)
        /\ InOrder(Before(events), seq) /\ Legal(ops, seq)
    BY DEF PartialLinearizations, Arrangements
  <1> HIDE DEF D, c
  <1>3. PICK m \in 0..c : seq \in [1..m -> D]
    BY <1>2
  <1>4. m \in Nat /\ m <= c
    BY <1>1
  <1>5. Len(seq) = m /\ DOMAIN seq = 1..m
    BY <1>3, <1>4, LenOf
  <1>6. CASE result = "true"
    <2>1. next[0] = Nil
      BY <1>6 DEF SingleInv, ResultInv
    <2>2. Half(events) <= Len(calls) /\ Len(calls) \in Nat
      BY <2>1, AllStacked, PrefixType
    <2>3. id \in DOMAIN longest
      BY DEF SingleInv, TypeInv
    <2>4. longest[id] # Nil /\ Len(longest[id]) = Len(calls)
      BY <1>6, <2>3 DEF RecordInv, WholeInv
    <2>. QED
      BY <1>1, <1>4, <1>5, <2>2, <2>4 DEF AtLeast
  <1>7. CASE result = "false"
    <2>1. Explored(ops, events, longest, {}, KvInit)
      BY <1>7 DEF SingleInv, ResultInv
    <2>2. PICK f : Continues(ops, events, {}, KvInit, m, seq, f)
      BY <1>1, <1>2, <1>3, <1>4, PartialContinues DEF D
    <2>3. Recorded(events, longest, {}, m, seq)
      BY <2>1, <2>2 DEF Explored
    <2>4. PICK p \in 1..Len(events) : renumber(events)[p] = id
      BY <1>1, AllNumbers
    <2>5. events[p].id = Named(id)
      BY <2>4, NamedNumber
    <2>6. AtLeast(longest, id, Cardinality({}) + m)
      BY <1>5, <2>3, <2>4, <2>5 DEF Recorded
    <2>7. Cardinality({}) + m = m
      BY <1>4, FS_EmptySet
    <2>. QED
      BY <1>4, <1>5, <2>6, <2>7
  <1>. QED
    BY <1>6, <1>7 DEF RecordInv, WholeInv

\* A prefix, in the ids of the events.
LEMMA PrefixPartial ==
    ASSUME SingleInv, NEW pr, IsPrefix(pr)
    PROVE  /\ InEventIds(pr) \in PartialLinearizations(ops, Before(events))
           /\ Len(pr) \in Nat /\ Len(InEventIds(pr)) = Len(pr) /\ Len(pr) <= Half(events)
           /\ DOMAIN InEventIds(pr) = DOMAIN pr
           /\ \A n \in DOMAIN pr : InEventIds(pr)[n] = Named(pr[n])
  <1>0. PICK m \in Nat :
            \E f : /\ pr \in [1..m -> 0..(Half(events) - 1)]
                   /\ Continues(ops, events, {}, KvInit, m, InEventIds(pr), f)
    BY DEF IsPrefix
  <1>1. PICK f : /\ pr \in [1..m -> 0..(Half(events) - 1)]
                 /\ Continues(ops, events, {}, KvInit, m, InEventIds(pr), f)
    BY <1>0
  <1>2. WellFormed(ops, events)
    BY DEF SingleInv, InputInv
  <1>3. /\ Len(InEventIds(pr)) = m /\ m <= Cardinality(DOMAIN ops)
        /\ InEventIds(pr) \in PartialLinearizations(ops, Before(events))
    BY <1>1, <1>2, ContinuesPartial
  <1>4. Len(pr) = m
    <2>1. pr \in [1..m -> 0..(Half(events) - 1)]
      BY <1>1
    <2>. QED
      BY <2>1, LenOf
  <1>5. Cardinality(DOMAIN ops) = Half(events)
    BY <1>2, HalfBound
  <1>6. /\ DOMAIN InEventIds(pr) = DOMAIN pr
        /\ \A n \in DOMAIN pr : InEventIds(pr)[n] = Named(pr[n])
    BY DEF InEventIds, Named
  <1>. QED
    BY <1>3, <1>4, <1>5, <1>6

\* Largest finds a longest of the prefixes with an operation.
LEMMA LargestOf ==
    ASSUME SingleInv, RecordInv, NEW ps \in ByLength(Collected), NEW id, With(ps, id) # {}
    PROVE  /\ Largest(ps, id) \in With(ps, id)
           /\ \A l \in With(ps, id) : Len(ps[l]) <= Len(ps[Largest(ps, id)])
  <1> DEFINE M == With(ps, id)
             H == Half(events)
             P(m) == \A l \in M : Len(ps[l]) < Len(ps[m]) \/ (Len(ps[l]) = Len(ps[m]) /\ m <= l)
             A == {H - Len(ps[m]) : m \in M}
  <1>1. M \in SUBSET DOMAIN ps
    BY DEF With
  <1>2. Len(ps) \in Nat /\ DOMAIN ps = 1..Len(ps) /\ \A m \in DOMAIN ps : IsPrefix(ps[m])
    BY CollectedPrefixes DEF RecordInv
  <1>3. \A m \in M : m \in Nat /\ Len(ps[m]) \in Nat /\ Len(ps[m]) <= H
    BY <1>1, <1>2, PrefixPartial
  <1>4. H \in Nat
    BY HalfBound DEF SingleInv, InputInv
  <1> HIDE DEF M, H
  <1>5. A \in SUBSET Nat /\ A # {}
    BY <1>3, <1>4 DEF M
  <1> HIDE DEF A
  <1>6. PICK a \in A : \A b \in A : a <= b
    BY <1>5, Least
  <1> DEFINE B == {m \in M : H - Len(ps[m]) = a}
  <1>7. B \in SUBSET Nat /\ B # {}
    BY <1>3, <1>6 DEF A
  <1> HIDE DEF B
  <1>8. PICK m \in B : \A l \in B : m <= l
    BY <1>7, Least
  <1>9. m \in M /\ H - Len(ps[m]) = a
    BY DEF B
  <1>10. ASSUME NEW l \in M
         PROVE  Len(ps[l]) < Len(ps[m]) \/ (Len(ps[l]) = Len(ps[m]) /\ m <= l)
    <2>1. H - Len(ps[l]) \in A /\ a <= H - Len(ps[l])
      BY <1>6 DEF A
    <2>2. Len(ps[l]) <= Len(ps[m])
      BY <1>3, <1>4, <1>9, <2>1
    <2>3. Len(ps[l]) = Len(ps[m]) => m <= l
      BY <1>8, <1>9 DEF B
    <2>. QED
      BY <1>3, <1>9, <2>2, <2>3
  <1>11. P(m)
    BY <1>10
  <1>12. Largest(ps, id) = CHOOSE x \in M : P(x)
    BY DEF Largest, M
  <1>13. Largest(ps, id) \in M /\ P(Largest(ps, id))
    BY <1>9, <1>11, <1>12
  <1>14. \A l \in M : Len(ps[l]) <= Len(ps[Largest(ps, id)])
    BY <1>3, <1>13
  <1>. QED
    BY <1>13, <1>14 DEF M

\* InEventIds gives every operation of a sequence the id of its event.
LEMMA FirstInEventIds ==
    ASSUME NEW sq, 1 \in DOMAIN sq
    PROVE  InEventIds(sq)[1] = Named(sq[1])
  BY DEF InEventIds, Named

\* What is displayed for an operation is a longest beginning of a linearization
\* with it, and what is recorded never makes computeVisualizationData panic.
THEOREM LargestCorrect == Spec => []LargestIsLongest
  <1> DEFINE all == PartialLinearizations(ops, Before(events))
             with(id) == {seq \in all : \E n \in DOMAIN seq : seq[n] = InEventIds(<<id>>)[1]}
             T(id) == IF id \notin DOMAIN largest THEN kill \/ with(id) = {}
                      ELSE LET seq == InEventIds(partials[largest[id]])
                           IN  /\ seq \in with(id)
                               /\ kill \/ /\ Len(longest[id]) = Len(seq)
                                          /\ \A other \in with(id) : Len(other) <= Len(seq)
  <1>1. SingleInv /\ RecordInv => LargestIsLongest
    <2> SUFFICES ASSUME SingleInv, RecordInv PROVE LargestIsLongest
      OBVIOUS
    <2>1. shown # "panic"
      BY DEF RecordInv, DisplayInv
    <2>2. ASSUME shown = "shown", NEW id \in DOMAIN longest PROVE T(id)
      <3> DEFINE ps == partials
      <3>1. /\ result # "none" /\ ps \in ByLength(Collected)
            /\ largest = [x \in {i \in DOMAIN longest : With(ps, i) # {}} |-> Largest(ps, x)]
        BY <2>2 DEF RecordInv, DisplayInv
      <3>2. /\ DOMAIN longest = 0..(Half(events) - 1)
            /\ \A x \in DOMAIN longest : longest[x] # Nil => Len(longest[x]) \in Nat
        BY DEF SingleInv, TypeInv
      <3>3. /\ \A m \in DOMAIN ps : IsPrefix(ps[m])
            /\ \A pr \in Collected : \E m \in DOMAIN ps : ps[m] = pr
        BY <3>1, CollectedPrefixes DEF RecordInv
      <3>4. InEventIds(<<id>>)[1] = Named(id)
        <4>1. 1 \in DOMAIN <<id>> /\ <<id>>[1] = id
          OBVIOUS
        <4>. QED
          BY <4>1, FirstInEventIds
      <3>5. ASSUME longest[id] # Nil
            PROVE  \E l \in With(ps, id) : ps[l] = longest[id]
        <4>1. longest[id] \in Collected
          BY <3>5 DEF Collected
        <4>2. PICK l \in DOMAIN ps : ps[l] = longest[id]
          BY <3>3, <4>1
        <4>3. \E n \in DOMAIN longest[id] : longest[id][n] = id
          BY <3>5 DEF RecordInv, PrefixInv
        <4>. QED
          BY <4>2, <4>3 DEF With
      <3>6. ASSUME ~kill, NEW other \in with(id)
            PROVE  Len(other) \in Nat /\ AtLeast(longest, id, Len(other))
        <4>1. other \in all
          OBVIOUS
        <4>2. PICK n \in DOMAIN other : other[n] = Named(id)
          BY <3>4
        <4>. QED
          BY <3>1, <3>2, <3>6, <4>1, <4>2, BestRecorded
      <3> HIDE DEF with, ps
      <3>7. CASE id \notin DOMAIN largest
        <4>1. With(ps, id) = {}
          BY <3>1, <3>7
        <4>2. longest[id] = Nil
          BY <3>5, <4>1
        <4>. QED
          BY <3>6, <3>7, <4>2 DEF AtLeast
      <3>8. CASE id \in DOMAIN largest
        <4> DEFINE m == largest[id]
                   seq == InEventIds(ps[m])
        <4>1. With(ps, id) # {} /\ m = Largest(ps, id)
          BY <3>1, <3>8
        <4>2. m \in With(ps, id) /\ \A l \in With(ps, id) : Len(ps[l]) <= Len(ps[m])
          BY <3>1, <4>1, LargestOf
        <4> HIDE DEF m
        <4>3. m \in DOMAIN ps /\ \E n \in DOMAIN ps[m] : ps[m][n] = id
          BY <4>2 DEF With
        <4>4. /\ seq \in all /\ Len(ps[m]) \in Nat /\ Len(seq) = Len(ps[m])
              /\ DOMAIN seq = DOMAIN ps[m] /\ \A n \in DOMAIN ps[m] : seq[n] = Named(ps[m][n])
          BY <3>3, <4>3, PrefixPartial
        <4> HIDE DEF seq, all
        <4>5. seq \in with(id)
          BY <3>4, <4>3, <4>4 DEF with
        <4>6. ASSUME ~kill
              PROVE  /\ Len(longest[id]) = Len(seq)
                     /\ \A other \in with(id) : Len(other) <= Len(seq)
          <5>1. longest[id] # Nil /\ Len(longest[id]) >= Len(seq) /\ Len(longest[id]) \in Nat
            BY <3>2, <3>6, <4>5, <4>6 DEF AtLeast
          <5>2. PICK l \in With(ps, id) : ps[l] = longest[id]
            BY <3>5, <5>1
          <5>3. Len(longest[id]) <= Len(ps[m])
            BY <4>2, <5>2
          <5>4. Len(longest[id]) = Len(seq)
            BY <4>4, <5>1, <5>3
          <5>5. ASSUME NEW other \in with(id) PROVE Len(other) <= Len(seq)
            BY <3>6, <4>6, <5>4 DEF AtLeast
          <5>. QED
            BY <5>4, <5>5
        <4>. QED
          BY <3>8, <4>5, <4>6 DEF seq, m, ps
      <3>. QED
        BY <3>7, <3>8
    <2>. QED
      BY <2>1, <2>2 DEF LargestIsLongest
  <1>2. Spec => []RecordInv
    BY InitRecord, NextRecord, SingleInvariance, PTL DEF Spec
  <1>. QED
    BY <1>1, <1>2, SingleInvariance, PTL

-----------------------------------------------------------------------------
(***************************************************************************)
(* Termination: every iteration descends, and there is a bottom.           *)
(***************************************************************************)

\* There are finitely many functions between finite sets.
LEMMA FunctionsFinite ==
    ASSUME NEW A, NEW B, IsFiniteSet(A), IsFiniteSet(B)
    PROVE  IsFiniteSet([A -> B])
  <1> DEFINE Graph(f) == {<<a, f[a]>> : a \in A}
             F == {Graph(f) : f \in [A -> B]}
             h == [g \in F |-> [a \in A |-> CHOOSE b \in B : <<a, b>> \in g]]
  <1>1. IsFiniteSet(SUBSET (A \X B))
    BY FS_Product, FS_SUBSET
  <1>2. F \in SUBSET SUBSET (A \X B)
    OBVIOUS
  <1>3. IsFiniteSet(F)
    <2> HIDE DEF F
    <2>. QED
      BY <1>1, <1>2, FS_Subset
  <1>4. ASSUME NEW f \in [A -> B] PROVE Graph(f) \in F /\ h[Graph(f)] = f
    <2>1. Graph(f) \in F
      OBVIOUS
    <2>2. ASSUME NEW a \in A PROVE (CHOOSE b \in B : <<a, b>> \in Graph(f)) = f[a]
      <3>1. \A b \in B : <<a, b>> \in Graph(f) <=> b = f[a]
        OBVIOUS
      <3> HIDE DEF Graph
      <3>. QED
        BY <3>1
    <2> HIDE DEF Graph, F
    <2>3. h[Graph(f)] = [a \in A |-> CHOOSE b \in B : <<a, b>> \in Graph(f)]
      BY <2>1
    <2>4. h[Graph(f)] = [a \in A |-> f[a]]
      BY <2>2, <2>3
    <2>. QED
      BY <2>1, <2>4
  <1>5. ASSUME NEW g \in F PROVE h[g] \in [A -> B]
    <2>1. PICK f \in [A -> B] : g = Graph(f)
      OBVIOUS
    <2> HIDE DEF Graph, F, h
    <2>. QED
      BY <1>4, <2>1
  <1>6. h \in Surjection(F, [A -> B])
    <2>1. DOMAIN h = F /\ h = [g \in F |-> h[g]]
      OBVIOUS
    <2> HIDE DEF Graph, F, h
    <2>2. h \in [F -> [A -> B]]
      BY <1>5, <2>1
    <2>. QED
      BY <1>4, <2>2 DEF Surjection
  <1> HIDE DEF F, h
  <1>. QED
    BY <1>3, <1>6, FS_Surjection

\* There are finitely many arrangements of a finite set.
LEMMA ArrangementsFinite ==
    ASSUME NEW S, IsFiniteSet(S)
    PROVE  IsFiniteSet(Arrangements(S))
  <1> DEFINE c == Cardinality(S)
             T == {[1..n -> S] : n \in 0..c}
             h == [n \in 0..c |-> [1..n -> S]]
  <1>1. c \in Nat
    BY FS_CardinalityType
  <1>2. IsFiniteSet(0..c)
    <2>1. 0 \in Int /\ c \in Int
      BY <1>1
    <2>. QED
      BY <2>1, FS_Interval
  <1>3. \A x \in T : IsFiniteSet(x)
    <2> SUFFICES ASSUME NEW n \in 0..c PROVE IsFiniteSet([1..n -> S])
      OBVIOUS
    <2>1. IsFiniteSet(1..n)
      BY <1>1, SegmentSize
    <2>. QED
      BY <2>1, FunctionsFinite
  <1>4. h \in Surjection(0..c, T)
    BY DEF Surjection
  <1>5. Arrangements(S) \in SUBSET UNION T
    BY DEF Arrangements
  <1> HIDE DEF T, h, c
  <1>6. IsFiniteSet(T)
    BY <1>2, <1>4, FS_Surjection
  <1>7. IsFiniteSet(UNION T)
    BY <1>3, <1>6, FS_UNION
  <1>. QED
    BY <1>5, <1>7, FS_Subset

\* The states that sequences of operations can lead to, and all that can ever be in the
\* cache.
States(o) ==
    {StateAfter(o, sk[1])[Len(sk[1])][sk[2]] : sk \in Arrangements(DOMAIN o) \X Keys(o)}
Configurations ==
    {[linearized |-> bs[1], state |-> bs[2]] : bs \in Bitsets(Half(events)) \X States(ops)}

\* They are finitely many.
LEMMA ConfigurationsFinite ==
    ASSUME InputInv
    PROVE  IsFiniteSet(Configurations)
  <1> DEFINE D == DOMAIN ops
             P == Arrangements(D) \X Keys(ops)
             B == Bitsets(Half(events))
             Q == B \X States(ops)
             g == [sk \in P |-> StateAfter(ops, sk[1])[Len(sk[1])][sk[2]]]
             h == [bs \in Q |-> [linearized |-> bs[1], state |-> bs[2]]]
             key == [i \in D |-> ops[i].key]
  <1>1. IsFiniteSet(D) /\ Half(events) \in Nat
    BY HalfBound DEF InputInv
  <1>2. IsFiniteSet(Keys(ops))
    <2>1. key \in Surjection(D, Keys(ops))
      BY DEF Surjection, Keys
    <2> HIDE DEF key, D
    <2>. QED
      BY <1>1, <2>1, FS_Surjection
  <1>3. IsFiniteSet(P)
    <2>1. IsFiniteSet(Arrangements(D))
      BY <1>1, ArrangementsFinite
    <2>. QED
      BY <1>2, <2>1, FS_Product
  <1>4. IsFiniteSet(States(ops))
    <2>1. g \in Surjection(P, States(ops))
      BY DEF Surjection, States
    <2> HIDE DEF g, P
    <2>. QED
      BY <1>3, <2>1, FS_Surjection
  <1>5. IsFiniteSet(B)
    <2>1. Chunks(Half(events)) - 1 \in Int /\ W - 1 \in Int /\ 0 \in Int
      BY <1>1, BitsetAssumption DEF Chunks
    <2>2. IsFiniteSet(0..(Chunks(Half(events)) - 1)) /\ IsFiniteSet(0..(W - 1))
      BY <2>1, FS_Interval
    <2>3. IsFiniteSet(SUBSET (0..(W - 1)))
      BY <2>2, FS_SUBSET
    <2>. QED
      BY <2>2, <2>3, FunctionsFinite DEF Bitsets
  <1>6. h \in Surjection(Q, Configurations)
    BY DEF Surjection, Configurations
  <1>7. IsFiniteSet(Q)
    <2> HIDE DEF B
    <2>. QED
      BY <1>4, <1>5, FS_Product
  <1> HIDE DEF Q, h
  <1>. QED
    BY <1>6, <1>7, FS_Surjection

\* state is one of them for every key.
ReachedInv == \A k \in Keys(ops) : state \in States(ops)

\* The stack leads to it.
LEMMA Reached == CallsLegal => ReachedInv
  <1> SUFFICES ASSUME CallsLegal, NEW k \in Keys(ops) PROVE state \in States(ops)
    BY DEF ReachedInv
  <1> DEFINE seq == InEventIds(Prefix)
             sk == <<seq, k>>
  <1>1. seq \in Arrangements(DOMAIN ops) /\ StateAfter(ops, seq)[Len(seq)][k] = state
    BY DEF CallsLegal, PartialLinearizations
  <1> HIDE DEF seq
  <1>2. sk \in Arrangements(DOMAIN ops) \X Keys(ops) /\ sk[1] = seq /\ sk[2] = k
    BY <1>1
  <1> HIDE DEF sk
  <1>. QED
    BY <1>1, <1>2 DEF States

\* The cache stays inside the finite set of configurations, so that it can grow only so
\* often, in histories of any length (checker.go:174-178, 195-197).
THEOREM CacheBounded == Spec => [](IsFiniteSet(Configurations) /\ cache \subseteq Configurations)
  <1> DEFINE CInv == cache \subseteq Configurations
  <1>1. Init => CInv
    BY DEF Init
  <1>2. SingleInv /\ SingleInv' /\ ReachedInv' /\ CInv /\ [Next]_vars => CInv'
    <2> SUFFICES ASSUME SingleInv, SingleInv', ReachedInv', CInv, [Next]_vars PROVE CInv'
      OBVIOUS
    <2>1. ops' = ops /\ events' = events
      BY DEF Next, Iterate, Linearize, Skip, Backtrack, GiveUp, Killed, Succeed, Kill,
         Visualize, Done, vars, input
    <2>2. Configurations' = Configurations
      BY <2>1 DEF Configurations
    <2>3. CASE Linearize
      <3>1. /\ cache' = cache \cup {newCacheEntry}
            /\ newCacheEntry = [linearized |-> linearized', state |-> state']
        BY <2>3 DEF Linearize, newCacheEntry
      <3>2. linearized' \in Bitsets(Half(events))
        BY <2>1 DEF SingleInv, TypeInv
      <3>3. state' \in States(ops)
        <4>1. WellFormed(ops, events) /\ entry \in 1..Len(events)
          BY <2>3, Looking DEF Linearize, Searching
        <4>2. events[entry].id \in DOMAIN ops
          BY <4>1, EventOf
        <4>3. ops[events[entry].id].key \in Keys(ops)
          BY <4>2 DEF Keys
        <4>. QED
          BY <2>1, <4>3 DEF ReachedInv
      <3> DEFINE bs == <<linearized', state'>>
      <3>4. bs \in Bitsets(Half(events)) \X States(ops) /\ bs[1] = linearized' /\ bs[2] = state'
        BY <3>2, <3>3
      <3> HIDE DEF bs
      <3>5. newCacheEntry \in Configurations
        BY <3>1, <3>4 DEF Configurations
      <3>. QED
        BY <2>2, <3>1, <3>5
    <2>4. CASE ~Linearize
      <3>1. cache' = cache
        BY <2>4 DEF Next, Iterate, Skip, Backtrack, GiveUp, Killed, Succeed, Kill, Visualize,
           Done, vars
      <3>. QED
        BY <2>2, <3>1
    <2>. QED
      BY <2>3, <2>4
  <1>3. SingleInv => IsFiniteSet(Configurations)
    BY ConfigurationsFinite DEF SingleInv
  <1> HIDE DEF CInv
  <1>4. Spec => []CInv
    BY <1>1, <1>2, SingleInvariance, CallsLegalCorrect, Reached, PTL DEF Spec
  <1>5. SingleInv /\ CInv => IsFiniteSet(Configurations) /\ cache \subseteq Configurations
    BY <1>3 DEF CInv
  <1>. QED
    BY <1>4, <1>5, SingleInvariance, PTL

\* The search answers, or it has a configuration more in its cache, or a call less on
\* its stack, or it has moved on in the list.
Descends ==
    /\ result = "none"
    /\ \/ result' # "none"
       \/ cache \subseteq cache' /\ cache' # cache
       \/ cache' = cache /\ Len(calls') < Len(calls)
       \/ cache' = cache /\ calls' = calls /\ entry < entry'

\* Every iteration of checkSingle descends in this order, which CacheBounded, the length
\* of the stack and that of the history bound: the search cannot go on for ever, however
\* lift, unlift and the cache interact (checker.go:185-238).
THEOREM SearchDescends == Spec => [][Iterate => Descends]_vars
  <1>1. SingleInv /\ [Next]_vars => [Iterate => Descends]_vars
    <2> SUFFICES ASSUME SingleInv, Iterate PROVE Descends
      OBVIOUS
    <2>1. CASE Linearize
      <3>1. /\ result = "none" /\ cache' = cache \cup {newCacheEntry}
            /\ ~cacheContains(newCacheEntry)
        BY <2>1 DEF Linearize, Searching, CanLinearize
      <3>2. newCacheEntry \notin cache
        BY <3>1 DEF cacheContains, equals
      <3>. QED
        BY <3>1, <3>2 DEF Descends
    <2>2. CASE Skip
      <3>1. /\ Searching /\ match(entry) # Nil /\ ~CanLinearize /\ entry' = next[entry]
            /\ cache' = cache /\ calls' = calls
        BY <2>2 DEF Skip
      <3>2. WellFormed(ops, events) /\ entry \in Left /\ entry \in 1..Len(events)
        BY <3>1, Looking DEF Searching
      <3>3. events[entry].kind = "call"
        BY <3>1, PassedIsTried
      <3>4. /\ Links(Len(events), Left, next, prev) /\ Linked(Left, next, prev)
            /\ \A n \in Left : n < entry => events[n].kind = "call"
        BY <3>1 DEF SingleInv, ListInv, Searching
      <3>5. next[entry] \in Left
        BY <3>2, <3>3, <3>4, PassCall DEF Left
      <3>6. IsNext(Left, entry, next[entry]) /\ next[entry] \in Nat
        <4>1. Left \in SUBSET Nat
          BY <3>2 DEF Left, Rest, WellFormed
        <4>. QED
          BY <3>2, <3>4, <3>5, <4>1 DEF Linked
      <3>7. entry < next[entry]
        BY <3>6, SingleAssumption DEF IsNext
      <3>. QED
        BY <3>1, <3>7 DEF Descends, Searching
    <2>3. CASE Backtrack
      <3>1. /\ Searching /\ calls # <<>> /\ calls' = Popped(calls) /\ cache' = cache
        BY <2>3 DEF Backtrack, Popped
      <3>2. IsStack(calls) /\ Len(calls) \in Nat
        BY StackType DEF SingleInv, TypeInv
      <3>3. Len(calls') = Len(calls) - 1
        BY <3>1, <3>2, Pop
      <3>. QED
        BY <3>1, <3>2, <3>3 DEF Descends, Searching
    <2>4. CASE GiveUp \/ Killed \/ Succeed
      BY <2>4 DEF GiveUp, Killed, Succeed, Descends, Searching
    <2>. QED
      BY <2>1, <2>2, <2>3, <2>4 DEF Iterate
  <1>. QED
    BY <1>1, SingleInvariance, PTL DEF Spec
=============================================================================
