------------------------------- MODULE Bitset -------------------------------
(***************************************************************************)
(* porcupine's bitsets (src/porcupine/bitset.go): an array of words, each  *)
(* the set of its bits.  They are values here, which clone() makes them.   *)
(***************************************************************************)
EXTENDS Naturals, FiniteSets

CONSTANT W   \* bits in a word; 64 in the code

ASSUME BitsetAssumption == W \in Nat \ {0}

Chunks(n) == n \div W + (IF n % W # 0 THEN 1 ELSE 0)

newBitset(n) == [major \in 0..(Chunks(n) - 1) |-> {}]

\* bitsetIndex
Major(pos) == pos \div W
Minor(pos) == pos % W

set(b, pos) == [b EXCEPT ![Major(pos)] = @ \cup {Minor(pos)}]
clear(b, pos) == [b EXCEPT ![Major(pos)] = @ \ {Minor(pos)}]

popcnt(b) ==
    Cardinality({p \in (DOMAIN b) \X (0..(W - 1)) : p[2] \in b[p[1]]})

\* The exclusive or of the population count and all words, W bits wide.
hash(b) ==
    {k \in 0..(W - 1) :
        (popcnt(b) \div 2^k + Cardinality({major \in DOMAIN b : k \in b[major]})) % 2 = 1}

\* Equal lengths, and equal words.
equals(b, b2) == DOMAIN b = DOMAIN b2 /\ \A major \in DOMAIN b : b[major] = b2[major]

\* Reference: the members of the set a bitset stands for.
Members(b) == {p[1] * W + p[2] : p \in
                  {p \in (DOMAIN b) \X (0..(W - 1)) : p[2] \in b[p[1]]}}
=============================================================================
