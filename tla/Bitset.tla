------------------------------- MODULE Bitset -------------------------------
(***************************************************************************)
(* The bitset of src/src/porcupine/bitset.go: the operations that a search  *)
(* has ordered, as words of W bits (64 in the code).                        *)
(***************************************************************************)
EXTENDS Integers, Sequences, SequencesExt, FiniteSets

CONSTANT W  \* bits of a word

ASSUME WordAssumption == W \in Nat \ {0}

-----------------------------------------------------------------------------
chunks(bits) == bits \div W + (IF bits % W # 0 THEN 1 ELSE 0)

\* A word is the set of its bits that are 1.
newBitset(bits) == [i \in 1 .. chunks(bits) |-> {}]

\* bitsetIndex, with words numbered from 1.
major(pos) == pos \div W + 1
minor(pos) == pos % W

bitSet(b, pos) == [b EXCEPT ![major(pos)] = @ \cup {minor(pos)}]
bitClear(b, pos) == [b EXCEPT ![major(pos)] = @ \ {minor(pos)}]
get(b, pos) == minor(pos) \in b[major(pos)]

popcnt(b) == FoldLeft(LAMBDA total, word : total + Cardinality(word), 0, b)

\* The exclusive or of the words, and the count that it is started with.
hash(b) ==
    <<popcnt(b), {k \in 0 .. W - 1 : Cardinality({i \in DOMAIN b : k \in b[i]}) % 2 = 1}>>

equals(b, b2) == Len(b) = Len(b2) /\ \A i \in DOMAIN b : b[i] = b2[i]
=============================================================================
