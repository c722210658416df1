--------------------------- MODULE PorcupineProofs --------------------------
(***************************************************************************)
(* Proofs about porcupine: the linked list of a search, the orders it       *)
(* returns, and that the verdict of checkParallel is the definition of      *)
(* linearizability, for any history of any number of keys and operations.   *)
(***************************************************************************)
EXTENDS Visualization, FiniteSetTheorems, NaturalsInduction, WellFoundedInduction, TLAPS

-----------------------------------------------------------------------------
(* Numbers, ranks and sequences.                                           *)

\* Induction, on a set of numbers.
LEMMA NatSetInduction ==
    ASSUME NEW T, 0 \in T, \A n \in Nat : n \in T => n + 1 \in T
    PROVE  \A n \in Nat : n \in T
<1>1. IsWellFoundedOn(OpToRel(<, Nat), Nat)
  BY NatLessThanWellFounded
<1>2. \A x, y \in Nat : <<x, y>> \in OpToRel(<, Nat) <=> x < y
  BY DEF OpToRel
<1>3. PICK R : IsWellFoundedOn(R, Nat) /\ \A x, y \in Nat : <<x, y>> \in R <=> x < y
  BY <1>1, <1>2, Zenon
<1>4. SUFFICES ASSUME Nat \ T # {} PROVE FALSE
  OBVIOUS
<1>5. PICK n \in Nat \ T : \A m \in Nat \ T : ~ (<<m, n>> \in R)
  <2>1. Nat \ T \subseteq Nat /\ IsWellFoundedOn(R, Nat)
    BY <1>3
  <2>2. QED
    BY <1>4, <2>1, WFMin, Zenon
<1>6. n # 0
  OBVIOUS
<1>7. n - 1 \in Nat /\ n - 1 < n
  BY <1>6
<1>8. n - 1 \in T
  BY <1>3, <1>5, <1>7
<1>9. n - 1 + 1 = n
  BY <1>7
<1>10. QED
  BY <1>7, <1>8, <1>9

\* A set of numbers that is not empty has a least element.
LEMMA LeastOf ==
    ASSUME NEW T \in SUBSET Nat, T # {}
    PROVE  \E n \in T : \A m \in T : n <= m
<1>1. SUFFICES ASSUME \A n \in T : \E m \in T : m < n PROVE FALSE
  OBVIOUS
<1> DEFINE U == {n \in Nat : \A m \in Nat : m <= n => m \notin T}
<1>2. 0 \in U
  BY <1>1
<1>3. ASSUME NEW n \in Nat, n \in U PROVE n + 1 \in U
  BY <1>1, <1>3
<1>4. \A n \in Nat : n \in U
  <2> HIDE DEF U
  <2>1. QED
    BY <1>2, <1>3, NatSetInduction
<1>5. \A n \in Nat : n <= n
  OBVIOUS
<1>6. \A n \in Nat : n \notin T
  BY <1>4, <1>5
<1>7. QED
  BY <1>6

\* The ranks of a finite set of numbers.
LEMMA RankFacts ==
    ASSUME NEW S \in SUBSET Nat, IsFiniteSet(S)
    PROVE  /\ Cardinality(S) \in Nat
           /\ \A x \in S : Rank(S, x) \in 0 .. Cardinality(S) - 1
           /\ \A x, y \in S : x < y <=> Rank(S, x) < Rank(S, y)
           /\ \A x, y \in S : Rank(S, x) = Rank(S, y) => x = y
           /\ \A n \in 0 .. Cardinality(S) - 1 : \E x \in S : Rank(S, x) = n
<1>1. Cardinality(S) \in Nat
  BY FS_CardinalityType
<1>2. ASSUME NEW x \in S
      PROVE  Rank(S, x) \in 0 .. Cardinality(S) - 1
  <2> DEFINE B == {y \in S : y < x}
  <2>1. B \subseteq S /\ x \notin B
    OBVIOUS
  <2>2. IsFiniteSet(B) /\ Cardinality(B) \in Nat
    BY <2>1, FS_Subset, FS_CardinalityType
  <2>3. Cardinality(B) <= Cardinality(S) /\ Cardinality(B) # Cardinality(S)
    BY <2>1, FS_Subset
  <2>4. Rank(S, x) = Cardinality(B)
    BY DEF Rank
  <2> HIDE DEF B
  <2>5. QED
    BY <1>1, <2>2, <2>3, <2>4
<1>3. ASSUME NEW x \in S, NEW y \in S, x < y
      PROVE  Rank(S, x) < Rank(S, y)
  <2> DEFINE B == {z \in S : z < x}
             C == {z \in S : z < y}
  <2>0. S \subseteq Nat /\ x \in Nat /\ y \in Nat
    OBVIOUS
  <2>1. B \subseteq C /\ x \in C /\ x \notin B /\ C \subseteq S
    <3>1. \A z \in S : z < x => z < y
      BY <1>3, <2>0
    <3>2. ~ (x < x)
      BY <2>0
    <3>3. QED
      BY <1>3, <3>1, <3>2
  <2>2. IsFiniteSet(C) /\ IsFiniteSet(B) /\ Cardinality(B) \in Nat /\ Cardinality(C) \in Nat
    BY <2>1, FS_Subset, FS_CardinalityType
  <2>3. Cardinality(B) <= Cardinality(C) /\ Cardinality(B) # Cardinality(C)
    BY <2>1, <2>2, FS_Subset
  <2>4. Rank(S, x) = Cardinality(B) /\ Rank(S, y) = Cardinality(C)
    BY DEF Rank
  <2> HIDE DEF B, C
  <2>5. QED
    BY <2>2, <2>3, <2>4
<1>4. \A x \in S : Rank(S, x) \in Int
  BY <1>1, <1>2
<1>5. \A x, y \in S : x < y <=> Rank(S, x) < Rank(S, y)
  BY <1>3, <1>4
<1>6. \A x, y \in S : Rank(S, x) = Rank(S, y) => x = y
  BY <1>4, <1>5
<1>7. ASSUME NEW n \in 0 .. Cardinality(S) - 1 PROVE \E x \in S : Rank(S, x) = n
  <2> DEFINE T == 0 .. Cardinality(S) - 1
             f == [x \in S |-> Rank(S, x)]
  <2>1. IsFiniteSet(T) /\ Cardinality(T) = Cardinality(S)
    BY <1>1, FS_Interval
  <2>2. f \in [S -> T] /\ \A x, y \in S : f[x] = f[y] => x = y
    BY <1>2, <1>6
  <2>3. f \in Injection(S, T)
    BY <2>2 DEF Injection, IsInjective
  <2>4. f \in Surjection(S, T)
    BY <2>1, <2>3, FS_Injection
  <2>5. QED
    BY <2>4 DEF Surjection
<1>8. QED
  BY <1>1, <1>2, <1>5, <1>6, <1>7

\* q is a sequence.
IsSeq(q) == \E S : q \in Seq(S)

\* What Append, Front and a function make.
LEMMA SeqFacts ==
    ASSUME NEW q, IsSeq(q)
    PROVE  Len(q) \in Nat /\ DOMAIN q = 1 .. Len(q) /\ (q = <<>> <=> Len(q) = 0)
BY DEF IsSeq

LEMMA AppendFacts ==
    ASSUME NEW q, IsSeq(q), NEW x
    PROVE  /\ IsSeq(Append(q, x))
           /\ Len(Append(q, x)) = Len(q) + 1
           /\ \A i \in 1 .. Len(q) : Append(q, x)[i] = q[i]
           /\ Append(q, x)[Len(q) + 1] = x
<1>1. PICK S : q \in Seq(S)
  BY DEF IsSeq
<1>2. PICK T : T = S \cup {x}
  OBVIOUS
<1>3. q \in Seq(T) /\ x \in T
  BY <1>1, <1>2
<1>4. Append(q, x) \in Seq(T)
  BY <1>3
<1>5. QED
  BY <1>3, <1>4 DEF IsSeq

LEMMA FrontFacts ==
    ASSUME NEW q, IsSeq(q), q # <<>>
    PROVE  /\ IsSeq(Front(q))
           /\ Len(Front(q)) = Len(q) - 1
           /\ \A i \in 1 .. Len(q) - 1 : Front(q)[i] = q[i]
<1>1. PICK S : q \in Seq(S)
  BY DEF IsSeq
<1>2. Len(q) \in Nat /\ Len(q) >= 1
  BY <1>1
<1>3. PICK n : n = Len(q) - 1
  OBVIOUS
<1>4. n \in Nat /\ n <= Len(q)
  BY <1>2, <1>3
<1>5. Front(q) = SubSeq(q, 1, n)
  BY <1>3 DEF Front
<1>6. /\ SubSeq(q, 1, n) \in Seq(S) /\ Len(SubSeq(q, 1, n)) = n
      /\ \A i \in 1 .. n : SubSeq(q, 1, n)[i] = q[i]
  BY <1>1, <1>2, <1>4
<1>7. QED
  BY <1>3, <1>5, <1>6, Zenon DEF IsSeq

LEMMA FunctionSeq ==
    ASSUME NEW q, NEW n \in Nat, DOMAIN q = 1 .. n, q = [i \in 1 .. n |-> q[i]]
    PROVE  IsSeq(q) /\ Len(q) = n
<1>1. PICK S : S = {q[i] : i \in 1 .. n}
  OBVIOUS
<1>2. q \in [1 .. n -> S]
  BY <1>1
<1>3. q \in Seq(S)
  BY <1>2
<1>4. QED
  BY <1>2, <1>3 DEF IsSeq

-----------------------------------------------------------------------------
(* The bitset.                                                             *)

\* A bitset for n operations.
IsBitset(b, n) == b \in [1 .. chunks(n) -> SUBSET (0 .. W - 1)]

\* Words and bits tell operations apart.
LEMMA BitPlace ==
    ASSUME NEW n \in Nat, NEW p \in 0 .. n - 1
    PROVE  /\ major(p) \in 1 .. chunks(n) /\ minor(p) \in 0 .. W - 1
           /\ \A q \in 0 .. n - 1 : major(p) = major(q) /\ minor(p) = minor(q) => p = q
<1>1. W \in Nat \ {0} /\ p \in Nat /\ p < n
  BY WordAssumption
<1>2. major(p) \in 1 .. chunks(n)
  BY <1>1 DEF major, chunks
<1>3. minor(p) \in 0 .. W - 1
  BY <1>1 DEF minor
<1>4. ASSUME NEW q \in 0 .. n - 1, major(p) = major(q), minor(p) = minor(q) PROVE p = q
  BY <1>1, <1>4 DEF major, minor
<1>5. QED
  BY <1>2, <1>3, <1>4

\* set and clear change one operation.
LEMMA BitFacts ==
    ASSUME NEW n \in Nat, NEW b, IsBitset(b, n), NEW p \in 0 .. n - 1
    PROVE  /\ IsBitset(bitSet(b, p), n) /\ IsBitset(bitClear(b, p), n)
           /\ \A q \in 0 .. n - 1 : /\ get(bitSet(b, p), q) <=> q = p \/ get(b, q)
                                    /\ get(bitClear(b, p), q) <=> q # p /\ get(b, q)
<1>1. major(p) \in 1 .. chunks(n) /\ minor(p) \in 0 .. W - 1
  BY BitPlace
<1>2. IsBitset(bitSet(b, p), n) /\ IsBitset(bitClear(b, p), n)
  BY <1>1 DEF IsBitset, bitSet, bitClear
<1>3. ASSUME NEW q \in 0 .. n - 1
      PROVE  /\ get(bitSet(b, p), q) <=> q = p \/ get(b, q)
             /\ get(bitClear(b, p), q) <=> q # p /\ get(b, q)
  <2>1. major(q) \in 1 .. chunks(n) /\ (major(p) = major(q) /\ minor(p) = minor(q) => p = q)
    BY BitPlace
  <2>2. QED
    BY <1>1, <2>1 DEF IsBitset, bitSet, bitClear, get
<1>4. QED
  BY <1>2, <1>3

\* A new bitset is empty.
LEMMA NewBits ==
    ASSUME NEW n \in Nat
    PROVE  IsBitset(newBitset(n), n) /\ \A p \in 0 .. n - 1 : ~ get(newBitset(n), p)
<1>1. IsBitset(newBitset(n), n)
  BY DEF IsBitset, newBitset
<1>2. ASSUME NEW p \in 0 .. n - 1 PROVE ~ get(newBitset(n), p)
  BY BitPlace DEF newBitset, get
<1>3. QED
  BY <1>1, <1>2

-----------------------------------------------------------------------------
(* The linked list.                                                        *)

\* next and prev of a node k of P, or of one that was taken out of P.
NextOf(list, k, P) ==
    \/ list.next[k] = Nil /\ \A p \in P : p <= k
    \/ list.next[k] \in P /\ list.next[k] > k /\ \A p \in P : p > k => list.next[k] <= p

PrevOf(list, k, P) ==
    list.prev[k] \in P /\ list.prev[k] < k /\ \A p \in P : p < k => p <= list.prev[k]

\* The nodes of P are linked both ways, in their order, after the head.
Linked(list, P) ==
    \A k \in P : NextOf(list, k, P) /\ (k # 0 => PrevOf(list, k, P))

\* k was taken out of P and would fit in again.
Fits(list, k, P) == NextOf(list, k, P) /\ PrevOf(list, k, P)

IsList(list, n) ==
    /\ DOMAIN list.next = 0 .. n /\ list.next = [k \in 0 .. n |-> list.next[k]]
    /\ DOMAIN list.prev = 0 .. n /\ list.prev = [k \in 0 .. n |-> list.prev[k]]

\* Half a lift, and half an unlift.
TakeOut(list, k) ==
    [next |-> [list.next EXCEPT ![list.prev[k]] = list.next[k]],
     prev |-> IF list.next[k] = Nil THEN list.prev
              ELSE [list.prev EXCEPT ![list.next[k]] = list.prev[k]]]

PutIn(list, k) ==
    [next |-> [list.next EXCEPT ![list.prev[k]] = k],
     prev |-> IF list.next[k] = Nil THEN list.prev
              ELSE [list.prev EXCEPT ![list.next[k]] = k]]

\* l2 is list without node k, which would fit in again.
IsTakenOut(l2, list, n, P, k) ==
    /\ IsList(l2, n) /\ Linked(l2, P \ {k}) /\ Fits(l2, k, P \ {k})
    /\ \A q \in (0 .. n) \ (P \ {k}) : l2.next[q] = list.next[q] /\ l2.prev[q] = list.prev[q]

\* Taking a node out leaves the others linked and touches no node outside.
LEMMA TakeOutFacts ==
    ASSUME NEW n \in Nat, NEW list, IsList(list, n), NEW P \in SUBSET (0 .. n), 0 \in P,
           Linked(list, P), NEW k \in P \ {0}
    PROVE  IsTakenOut(TakeOut(list, k), list, n, P, k)
<1>1. PICK l2 : l2 = TakeOut(list, k)
  OBVIOUS
<1>2. NextOf(list, k, P) /\ PrevOf(list, k, P)
  BY DEF Linked
<1>3. PICK a : a = list.prev[k]
  OBVIOUS
<1>4. PICK b : b = list.next[k]
  OBVIOUS
<1>5. P \subseteq Int /\ k \in Int /\ P \subseteq 0 .. n
  OBVIOUS
<1>6. a \in P /\ a < k /\ \A p \in P : p < k => p <= a
  BY <1>2, <1>3 DEF PrevOf
<1>7. \/ b = Nil /\ \A p \in P : p <= k
      \/ b \in P /\ b > k /\ \A p \in P : p > k => b <= p
  BY <1>2, <1>4 DEF NextOf
<1>8. /\ b # Nil => b \in P /\ b > k
      /\ a \in Int /\ b \in Int /\ Nil = -1
  <2>1. \A p \in P : p \in Int
    BY <1>5
  <2>2. Nil = -1 /\ Nil \in Int
    BY DEF Nil
  <2>3. b = Nil \/ (b \in P /\ b > k)
    BY <1>7
  <2>4. QED
    BY <1>6, <2>1, <2>2, <2>3
<1>9. /\ IsList(l2, n)
      /\ \A q \in 0 .. n : l2.next[q] = IF q = a THEN b ELSE list.next[q]
      /\ \A q \in 0 .. n : l2.prev[q] = IF q = b /\ b # Nil THEN a ELSE list.prev[q]
  BY <1>1, <1>3, <1>4, <1>5, <1>6, <1>8 DEF IsList, TakeOut
<1>10. ASSUME NEW q \in P \ {k}
       PROVE  NextOf(l2, q, P \ {k}) /\ (q # 0 => PrevOf(l2, q, P \ {k}))
  <2>1. NextOf(list, q, P) /\ (q # 0 => PrevOf(list, q, P)) /\ q \in Int /\ q \in 0 .. n
    BY <1>5 DEF Linked
  <2>2. NextOf(l2, q, P \ {k})
    <3>1. CASE q = a
      <4>1. l2.next[q] = b
        BY <1>9, <2>1, <3>1
      <4>2. \A p \in P \ {k} : p > a => p > k
        BY <1>5, <1>6, <1>8
      <4>3. CASE b = Nil
        BY <1>5, <1>7, <1>8, <3>1, <4>1, <4>2, <4>3 DEF NextOf
      <4>4. CASE b # Nil
        <5>1. b \in P \ {k} /\ b > a /\ \A p \in P \ {k} : p > a => b <= p
          BY <1>5, <1>6, <1>7, <1>8, <4>2, <4>4
        <5>2. QED
          BY <3>1, <4>1, <5>1 DEF NextOf
      <4>5. QED
        BY <4>3, <4>4
    <3>2. CASE q # a
      <4>1. l2.next[q] = list.next[q]
        BY <1>9, <2>1, <3>2
      <4>2. list.next[q] # k
        BY <1>5, <1>6, <2>1, <3>2 DEF NextOf, Nil
      <4>3. QED
        BY <2>1, <4>1, <4>2 DEF NextOf
    <3>3. QED
      BY <3>1, <3>2
  <2>3. ASSUME q # 0 PROVE PrevOf(l2, q, P \ {k})
    <3>1. CASE q = b
      <4>1. b # Nil
        BY <2>1, <3>1 DEF Nil
      <4>2. l2.prev[q] = a
        BY <1>9, <2>1, <3>1, <4>1
      <4>3. b > k
        BY <1>8, <4>1
      <4>4. \A p \in P \ {k} : p < b => p <= a
        BY <1>5, <1>6, <1>7, <1>8, <4>1
      <4>5. QED
        BY <1>5, <1>6, <1>8, <3>1, <4>2, <4>3, <4>4 DEF PrevOf
    <3>2. CASE q # b
      <4>1. l2.prev[q] = list.prev[q]
        BY <1>9, <2>1, <3>2
      <4>2. list.prev[q] # k
        <5>1. SUFFICES ASSUME list.prev[q] = k PROVE FALSE
          OBVIOUS
        <5>2. k < q /\ \A p \in P : p < q => p <= k
          BY <2>1, <2>3, <5>1 DEF PrevOf
        <5>3. b # Nil /\ b \in P /\ b > k /\ b <= q
          BY <1>5, <1>7, <1>8, <2>1, <5>2
        <5>4. b < q
          BY <1>8, <2>1, <3>2, <5>3
        <5>5. QED
          BY <1>5, <1>8, <5>2, <5>3, <5>4
      <4>3. QED
        BY <2>1, <2>3, <4>1, <4>2 DEF PrevOf
    <3>3. QED
      BY <3>1, <3>2
  <2>4. QED
    BY <2>2, <2>3
<1>11. /\ \A q \in (0 .. n) \ (P \ {k}) : l2.next[q] = list.next[q] /\ l2.prev[q] = list.prev[q]
  BY <1>5, <1>6, <1>8, <1>9
<1>12. l2.next[k] = b /\ l2.prev[k] = a
  BY <1>3, <1>4, <1>5, <1>11
<1>13. Fits(l2, k, P \ {k})
  <2>1. NextOf(l2, k, P \ {k})
    <3>1. CASE b = Nil /\ \A p \in P : p <= k
      BY <1>12, <3>1, Zenon DEF NextOf
    <3>2. CASE b \in P /\ b > k /\ \A p \in P : p > k => b <= p
      <4>1. b \in P \ {k}
        BY <1>5, <1>8, <3>2
      <4>2. QED
        BY <1>12, <3>2, <4>1, Zenon DEF NextOf
    <3>3. QED
      BY <1>7, <3>1, <3>2, Zenon
  <2>2. PrevOf(l2, k, P \ {k})
    BY <1>5, <1>6, <1>12 DEF PrevOf
  <2>3. QED
    BY <2>1, <2>2, Zenon DEF Fits
<1>14. Linked(l2, P \ {k})
  BY <1>10, Zenon DEF Linked
<1>15. QED
  BY <1>1, <1>9, <1>11, <1>13, <1>14, Zenon DEF IsTakenOut

\* Putting a node in where it fits.
LEMMA PutInFacts ==
    ASSUME NEW n \in Nat, NEW list, IsList(list, n), NEW P \in SUBSET (0 .. n), 0 \in P,
           NEW k \in P \ {0}, Linked(list, P \ {k}), Fits(list, k, P \ {k})
    PROVE  /\ IsList(PutIn(list, k), n)
           /\ Linked(PutIn(list, k), P)
           /\ \A q \in (0 .. n) \ (P \ {k}) : /\ PutIn(list, k).next[q] = list.next[q]
                                              /\ PutIn(list, k).prev[q] = list.prev[q]
<1>1. PICK l2 : l2 = PutIn(list, k)
  OBVIOUS
<1>2. NextOf(list, k, P \ {k}) /\ PrevOf(list, k, P \ {k})
  BY DEF Fits
<1>3. PICK a : a = list.prev[k]
  OBVIOUS
<1>4. PICK b : b = list.next[k]
  OBVIOUS
<1>5. P \subseteq Int /\ k \in Int /\ P \subseteq 0 .. n
  OBVIOUS
<1>6. a \in P /\ a # k /\ a < k /\ \A p \in P : p < k => p <= a
  BY <1>2, <1>3, <1>5 DEF PrevOf
<1>7. \/ b = Nil /\ \A p \in P : p <= k
      \/ b \in P /\ b # k /\ b > k /\ \A p \in P : p > k => b <= p
  BY <1>2, <1>4, <1>5 DEF NextOf
<1>8. /\ b # Nil => b \in P /\ b > k
      /\ a \in Int /\ b \in Int /\ Nil = -1
  <2>1. \A p \in P : p \in Int
    BY <1>5
  <2>2. Nil = -1 /\ Nil \in Int
    BY DEF Nil
  <2>3. b = Nil \/ (b \in P /\ b > k)
    BY <1>7
  <2>4. QED
    BY <1>6, <2>1, <2>2, <2>3
<1>9. /\ IsList(l2, n)
      /\ \A q \in 0 .. n : l2.next[q] = IF q = a THEN k ELSE list.next[q]
      /\ \A q \in 0 .. n : l2.prev[q] = IF q = b /\ b # Nil THEN k ELSE list.prev[q]
  BY <1>1, <1>3, <1>4, <1>5, <1>6, <1>8 DEF IsList, PutIn
<1>10. /\ \A q \in (0 .. n) \ (P \ {k}) : l2.next[q] = list.next[q] /\ l2.prev[q] = list.prev[q]
  BY <1>5, <1>6, <1>7, <1>9
<1>11. ASSUME NEW q \in P PROVE NextOf(l2, q, P)
  <2>1. CASE q = k
    <3>1. l2.next[k] = b
      BY <1>4, <1>5, <1>10
    <3>2. QED
      BY <1>5, <1>7, <2>1, <3>1 DEF NextOf
  <2>2. CASE q = a
    <3>1. l2.next[q] = k
      BY <1>5, <1>9, <2>2
    <3>2. QED
      BY <1>5, <1>6, <2>2, <3>1 DEF NextOf
  <2>3. CASE q # k /\ q # a
    <3>1. NextOf(list, q, P \ {k}) /\ q \in Int /\ q \in 0 .. n /\ q \in P \ {k}
      BY <1>5, <2>3 DEF Linked
    <3>2. l2.next[q] = list.next[q]
      BY <1>9, <2>3, <3>1
    <3>3. a \in P \ {k}
      BY <1>6
    <3>4. q < k => q < a
      BY <1>5, <1>6, <2>3, <3>1
    <3>5. k > q => list.next[q] <= k /\ list.next[q] # Nil
      <4>1. SUFFICES ASSUME q < k PROVE list.next[q] <= k /\ list.next[q] # Nil
        BY <1>5, <3>1
      <4>2. q < a /\ ~ (a <= q)
        BY <1>8, <3>1, <3>4, <4>1
      <4>3. list.next[q] \in P \ {k} /\ list.next[q] <= a
        BY <1>8, <3>1, <3>3, <4>2 DEF NextOf
      <4>4. PICK x : x = list.next[q]
        OBVIOUS
      <4>5. x \in 0 .. n /\ x <= a
        BY <1>5, <4>3, <4>4
      <4>6. x <= k /\ x # -1
        BY <1>5, <1>6, <1>8, <4>5
      <4>7. QED
        BY <1>8, <4>4, <4>6, Zenon
    <3>6. QED
      BY <1>5, <2>3, <3>1, <3>2, <3>5 DEF NextOf
  <2>4. QED
    BY <2>1, <2>2, <2>3
<1>12. ASSUME NEW q \in P, q # 0 PROVE PrevOf(l2, q, P)
  <2>1. CASE q = k
    <3>1. l2.prev[k] = a
      BY <1>3, <1>5, <1>10
    <3>2. QED
      BY <1>5, <1>6, <2>1, <3>1 DEF PrevOf
  <2>2. CASE q = b /\ q # k
    <3>1. b # Nil
      BY <1>5, <2>2 DEF Nil
    <3>2. l2.prev[q] = k
      BY <1>5, <1>9, <2>2, <3>1
    <3>3. b > k /\ \A p \in P : p > k => b <= p
      BY <1>7, <3>1
    <3>4. ASSUME NEW p \in P, p < q PROVE p <= k
      <4>1. p \in Int /\ k \in Int /\ b \in Int
        BY <1>5, <1>8
      <4>2. p > k => b <= p
        BY <3>3, Zenon
      <4>3. p < b
        BY <2>2, <3>4, Zenon
      <4>4. QED
        BY <4>1, <4>2, <4>3
    <3>5. k < q /\ k \in P
      BY <1>5, <1>8, <2>2, <3>3
    <3>6. QED
      BY <3>2, <3>4, <3>5, Zenon DEF PrevOf
  <2>3. CASE q # k /\ q # b
    <3>1. PrevOf(list, q, P \ {k}) /\ q \in Int /\ q \in 0 .. n /\ q \in P \ {k}
      BY <1>5, <1>12, <2>3 DEF Linked
    <3>2. l2.prev[q] = list.prev[q]
      BY <1>9, <2>3, <3>1
    <3>3. k < q => b # Nil /\ b \in P \ {k} /\ b < q
      BY <1>5, <1>7, <1>8, <2>3, <3>1
    <3>4. k < q => k <= list.prev[q]
      <4>1. SUFFICES ASSUME k < q PROVE k <= list.prev[q]
        OBVIOUS
      <4>2. b \in P \ {k} /\ b < q /\ b > k
        BY <1>8, <3>3, <4>1
      <4>3. b <= list.prev[q] /\ list.prev[q] \in P
        BY <3>1, <4>2 DEF PrevOf
      <4>4. list.prev[q] \in Int /\ b \in Int /\ k \in Int
        BY <1>5, <1>8, <4>3
      <4>5. QED
        BY <4>2, <4>3, <4>4
    <3>5. QED
      BY <1>5, <2>3, <3>1, <3>2, <3>4 DEF PrevOf
  <2>4. QED
    BY <2>1, <2>2, <2>3
<1>13. QED
  BY <1>1, <1>9, <1>10, <1>11, <1>12 DEF Linked

\* The links of a node decide where it fits.
LEMMA FitsSame ==
    ASSUME NEW list, NEW l2, NEW k, NEW P, l2.next[k] = list.next[k], l2.prev[k] = list.prev[k],
           Fits(list, k, P)
    PROVE  Fits(l2, k, P)
BY DEF Fits, NextOf, PrevOf

\* l2 is list without call k and return m, which would fit in again.
IsLifted(l2, list, n, P, k, m) ==
    /\ IsList(l2, n) /\ Linked(l2, (P \ {k}) \ {m})
    /\ Fits(l2, k, P \ {k}) /\ Fits(l2, m, (P \ {k}) \ {m})
    /\ \A q \in (0 .. n) \ P : l2.next[q] = list.next[q] /\ l2.prev[q] = list.prev[q]

\* lift takes out a call and its return, and leaves both so that they fit.
LEMMA LiftFacts ==
    ASSUME NEW n \in Nat, NEW list, IsList(list, n), NEW P \in SUBSET (0 .. n), 0 \in P,
           Linked(list, P), NEW k \in P \ {0}, NEW m \in P \ {0}, k < m
    PROVE  IsLifted(lift(list, k, m), list, n, P, k, m)
<1>1. PICK l1 : l1 = TakeOut(list, k)
  OBVIOUS
<1>2. /\ IsList(l1, n) /\ Linked(l1, P \ {k}) /\ Fits(l1, k, P \ {k})
      /\ \A q \in (0 .. n) \ (P \ {k}) : l1.next[q] = list.next[q] /\ l1.prev[q] = list.prev[q]
  <2>1. IsTakenOut(TakeOut(list, k), list, n, P, k)
    BY TakeOutFacts
  <2>2. QED
    BY <1>1, <2>1, Zenon DEF IsTakenOut
<1>3. PICK Q : Q = P \ {k}
  OBVIOUS
<1>4. Q \in SUBSET (0 .. n) /\ 0 \in Q /\ m \in Q \ {0}
  BY <1>3
<1>5. PICK l2 : l2 = TakeOut(l1, m)
  OBVIOUS
<1>6. /\ IsList(l2, n) /\ Linked(l2, Q \ {m}) /\ Fits(l2, m, Q \ {m})
      /\ \A q \in (0 .. n) \ (Q \ {m}) : l2.next[q] = l1.next[q] /\ l2.prev[q] = l1.prev[q]
  <2>1. Linked(l1, Q)
    BY <1>2, <1>3, Zenon
  <2>2. IsTakenOut(TakeOut(l1, m), l1, n, Q, m)
    BY <1>2, <1>4, <2>1, TakeOutFacts
  <2>3. QED
    BY <1>5, <2>2, Zenon DEF IsTakenOut
<1>7. list.next[k] # Nil
  <2>1. NextOf(list, k, P)
    BY DEF Linked
  <2>2. k \in Int /\ m \in Int
    OBVIOUS
  <2>3. ~ (m <= k) /\ m \in P
    BY <2>2
  <2>4. -1 \notin P
    OBVIOUS
  <2>5. QED
    BY <2>1, <2>3, <2>4 DEF NextOf, Nil
<1>8. l2 = lift(list, k, m)
  <2>1. /\ l1.next = [list.next EXCEPT ![list.prev[k]] = list.next[k]]
        /\ l1.prev = [list.prev EXCEPT ![list.next[k]] = list.prev[k]]
    BY <1>1, <1>7 DEF TakeOut
  <2>2. lift(list, k, m) = [next |-> [l1.next EXCEPT ![l1.prev[m]] = l1.next[m]],
                            prev |-> IF l1.next[m] = Nil THEN l1.prev
                                     ELSE [l1.prev EXCEPT ![l1.next[m]] = l1.prev[m]]]
    BY <2>1 DEF lift
  <2>3. QED
    BY <1>5, <2>2, Zenon DEF TakeOut
<1>9. k \in (0 .. n) \ (Q \ {m})
  BY <1>3
<1>10. Fits(l2, k, P \ {k})
  BY <1>2, <1>6, <1>9, FitsSame
<1>11. \A q \in (0 .. n) \ P : l2.next[q] = list.next[q] /\ l2.prev[q] = list.prev[q]
  BY <1>2, <1>3, <1>6
<1>12. QED
  BY <1>3, <1>6, <1>8, <1>10, <1>11, Zenon DEF IsLifted

\* unlift is the inverse of lift.
LEMMA UnliftFacts ==
    ASSUME NEW n \in Nat, NEW list, IsList(list, n), NEW P \in SUBSET (0 .. n), 0 \in P,
           NEW k \in P \ {0}, NEW m \in P \ {0}, k < m,
           Linked(list, (P \ {k}) \ {m}),
           Fits(list, k, P \ {k}), Fits(list, m, (P \ {k}) \ {m})
    PROVE  /\ IsList(unlift(list, k, m), n)
           /\ Linked(unlift(list, k, m), P)
           /\ \A q \in (0 .. n) \ P : /\ unlift(list, k, m).next[q] = list.next[q]
                                      /\ unlift(list, k, m).prev[q] = list.prev[q]
<1>1. PICK Q : Q = P \ {k}
  OBVIOUS
<1>2. Q \in SUBSET (0 .. n) /\ 0 \in Q /\ m \in Q \ {0}
  BY <1>1
<1>3. PICK l1 : l1 = PutIn(list, m)
  OBVIOUS
<1>4. /\ IsList(l1, n) /\ Linked(l1, Q)
      /\ \A q \in (0 .. n) \ (Q \ {m}) : l1.next[q] = list.next[q] /\ l1.prev[q] = list.prev[q]
  BY <1>1, <1>2, <1>3, PutInFacts
<1>5. k \in (0 .. n) \ (Q \ {m})
  BY <1>1
<1>6. Fits(l1, k, P \ {k})
  BY <1>4, <1>5, FitsSame
<1>7. PICK l2 : l2 = PutIn(l1, k)
  OBVIOUS
<1>8. /\ IsList(l2, n) /\ Linked(l2, P)
      /\ \A q \in (0 .. n) \ (P \ {k}) : l2.next[q] = l1.next[q] /\ l2.prev[q] = l1.prev[q]
  BY <1>1, <1>4, <1>6, <1>7, PutInFacts
<1>9. l1.next[k] # Nil
  <2>1. NextOf(l1, k, Q)
    BY <1>1, <1>6 DEF Fits
  <2>2. k \in Int /\ m \in Int /\ m \in Q
    BY <1>2
  <2>3. ~ (m <= k) /\ -1 \notin Q
    BY <1>2, <2>2
  <2>4. QED
    BY <2>1, <2>2, <2>3 DEF NextOf, Nil
<1>10. l2 = unlift(list, k, m)
  <2>1. /\ l1.next = [list.next EXCEPT ![list.prev[m]] = m]
        /\ l1.prev = IF list.next[m] = Nil THEN list.prev
                     ELSE [list.prev EXCEPT ![list.next[m]] = m]
    BY <1>3 DEF PutIn
  <2>2. unlift(list, k, m) = [next |-> [l1.next EXCEPT ![l1.prev[k]] = k],
                              prev |-> [l1.prev EXCEPT ![l1.next[k]] = k]]
    BY <2>1, Zenon DEF unlift
  <2>3. PutIn(l1, k) = [next |-> [l1.next EXCEPT ![l1.prev[k]] = k],
                         prev |-> [l1.prev EXCEPT ![l1.next[k]] = k]]
    BY <1>9, Zenon DEF PutIn
  <2>4. QED
    BY <1>7, <2>2, <2>3, Zenon
<1>11. \A q \in (0 .. n) \ P : l2.next[q] = list.next[q] /\ l2.prev[q] = list.prev[q]
  BY <1>1, <1>4, <1>8
<1>12. QED
  BY <1>8, <1>10, <1>11

-----------------------------------------------------------------------------
(* What a search knows.  s is the search of one key, i one of its depths:   *)
(* the first i choices on its stack.                                        *)

\* Every operation of h calls, and returns later.
IsHistory(h) ==
    /\ IsSeq(h)
    /\ \A k \in DOMAIN h : h[k].kind \in {"call", "return"}
    /\ \A id \in Ids(h) : \E c, r \in DOMAIN h :
          /\ c < r
          /\ h[c].id = id /\ h[c].kind = "call"
          /\ h[r].id = id /\ h[r].kind = "return"
          /\ \A k \in DOMAIN h : h[k].id = id => k = c \/ k = r

\* The history of one key, with its operations counted from 0.
IsPart(h) ==
    /\ IsHistory(h)
    /\ h # <<>>
    /\ IsFiniteSet(Ids(h))
    /\ Ids(h) = 0 .. Cardinality(Ids(h)) - 1
    /\ \E key \in Key : \A k \in DOMAIN h : h[k].key = key

\* The operations that are ordered, the state they lead to, and the entry
\* under consideration there.
Done(s, i) == {s.history[s.calls[j].entry].id : j \in 1 .. i}
StateAt(s, i) == IF i < Len(s.calls) THEN s.calls[i + 1].state ELSE s.state
FrontierAt(s, i) == IF i < Len(s.calls) THEN s.calls[i + 1].entry ELSE s.entry
Config(s, i) == <<Done(s, i), StateAt(s, i)>>

\* The entries of the operations that are not in D, with the head.
Pending(h, D) == {0} \cup {k \in DOMAIN h : h[k].id \notin D}

\* The operations in a bitset.
Content(h, b) == {id \in Ids(h) : get(b, id)}

\* The configurations that the search has been in.
Known(s) == {<<{}, Empty>>} \cup {<<Content(s.history, c[1]), c[2]>> : c \in s.cache}

\* Operation id may come next in configuration c of h, and what it leads to.
Follows(h, c, id) ==
    /\ id \notin c[1]
    /\ \A i \in Ids(h) : ReturnOf(h, i) < CallOf(h, id) => i \in c[1]
    /\ StepOk(c[2], h[CallOf(h, id)].op)

Successor(h, c, id) == <<c[1] \cup {id}, StepState(c[2], h[CallOf(h, id)].op)>>

\* The search is through with c: all that may follow is known, and with v,
\* which is computeInfo, its operations have orders as long as c.
Closed(s, c, v) ==
    /\ c[1] # Ids(s.history)
    /\ \A id \in Ids(s.history) :
          Follows(s.history, c, id) => Successor(s.history, c, id) \in Known(s)
    /\ v => \A id \in c[1] : Len(s.longest[id]) >= Cardinality(c[1])

AllClosed(s, v) == \A c \in Known(s) : Closed(s, c, v)

OrderOf(s) == [i \in DOMAIN s.calls |-> s.history[s.calls[i].entry].id]

IsSearch(s) ==
    s = [st |-> s.st, history |-> s.history, list |-> s.list, entry |-> s.entry,
         state |-> s.state, linearized |-> s.linearized, cache |-> s.cache,
         calls |-> s.calls, longest |-> s.longest]

\* The stack holds calls of different operations.
StackOK(s) ==
    /\ IsSeq(s.calls)
    /\ \A i \in DOMAIN s.calls :
          /\ s.calls[i].entry \in DOMAIN s.history
          /\ s.history[s.calls[i].entry].kind = "call"
          /\ s.history[s.calls[i].entry].id \notin Done(s, i - 1)

\* The bits are those of the operations on the stack.
BitsOK(s) ==
    LET n == Cardinality(Ids(s.history))
    IN  /\ IsBitset(s.linearized, n)
        /\ \A c \in s.cache : IsBitset(c[1], n)
        /\ Content(s.history, s.linearized) = Done(s, Len(s.calls))

\* The list holds what is pending, and what was taken out for a choice fits
\* in again once the later choices are undone.
ListOK(s) ==
    /\ IsList(s.list, Len(s.history))
    /\ Linked(s.list, Pending(s.history, Done(s, Len(s.calls))))
    /\ \A i \in DOMAIN s.calls :
          LET k == s.calls[i].entry
              m == ReturnOf(s.history, s.history[k].id)
              P == Pending(s.history, Done(s, i - 1))
          IN  Fits(s.list, k, P \ {k}) /\ Fits(s.list, m, (P \ {k}) \ {m})

\* The entry under consideration is pending.
EntryOK(s) ==
    s.st = "run" =>
       LET P == Pending(s.history, Done(s, Len(s.calls)))
       IN  \/ s.entry \in P \ {0}
           \/ s.entry = Nil /\ P = {0}

\* The choices on the stack are legal.
LegalOK(s) ==
    /\ StateAt(s, 0) = Empty
    /\ \A i \in DOMAIN s.calls :
          LET e == s.history[s.calls[i].entry]
          IN  /\ StepOk(StateAt(s, i - 1), e.op)
              /\ StateAt(s, i) = StepState(StateAt(s, i - 1), e.op)
              /\ \A id \in Ids(s.history) :
                    ReturnOf(s.history, id) < s.calls[i].entry => id \in Done(s, i - 1)

\* At every depth what comes before the entry under consideration are calls
\* that were tried.
TriedOK(s) ==
    \A i \in 0 .. Len(s.calls) :
       /\ Config(s, i) \in Known(s)
       /\ \A k \in Pending(s.history, Done(s, i)) \ {0} :
             k < FrontierAt(s, i) =>
                /\ s.history[k].kind = "call"
                /\ StepOk(StateAt(s, i), s.history[k].op) =>
                      Successor(s.history, Config(s, i), s.history[k].id) \in Known(s)

\* The search is through with all that it knows and that is not on its stack.
ClosedOK(s, v, killing) ==
    /\ s.st = "run" => \A c \in Known(s) : Closed(s, c, v) \/ \E i \in 0 .. Len(s.calls) : c = Config(s, i)
    /\ s.st = "false" => killing \/ AllClosed(s, v)

\* The longest orders so far are legal.
LongestOK(s) ==
    /\ DOMAIN s.longest = Ids(s.history)
    /\ \A id \in Ids(s.history) :
          /\ IsSeq(s.longest[id])
          /\ s.longest[id] # <<>> => /\ LegalPrefix(s.history, s.longest[id])
                                     /\ \A i \in DOMAIN s.longest[id] : s.longest[id][i] \in Ids(s.history)
                                     /\ \E i \in DOMAIN s.longest[id] : s.longest[id][i] = id

\* A search that returned true has ordered everything.
TrueOK(s) ==
    s.st = "true" => /\ Done(s, Len(s.calls)) = Ids(s.history)
                     /\ \A id \in Ids(s.history) : s.longest[id] = OrderOf(s)

SearchInv(s, v, killing) ==
    /\ IsSearch(s) /\ IsPart(s.history) /\ s.st \in {"run", "true", "false"}
    /\ StackOK(s) /\ BitsOK(s) /\ ListOK(s) /\ EntryOK(s) /\ LegalOK(s) /\ TriedOK(s)
    /\ ClosedOK(s, v, killing) /\ LongestOK(s) /\ TrueOK(s)

-----------------------------------------------------------------------------
(* Histories.                                                              *)

\* CallOf and ReturnOf find the two entries of an operation.
LEMMA Matched ==
    ASSUME NEW h, IsHistory(h)
    PROVE  /\ Len(h) \in Nat /\ DOMAIN h = 1 .. Len(h)
           /\ \A id \in Ids(h) :
                 /\ CallOf(h, id) \in DOMAIN h /\ ReturnOf(h, id) \in DOMAIN h
                 /\ CallOf(h, id) < ReturnOf(h, id)
                 /\ h[CallOf(h, id)].id = id /\ h[CallOf(h, id)].kind = "call"
                 /\ h[ReturnOf(h, id)].id = id /\ h[ReturnOf(h, id)].kind = "return"
                 /\ \A k \in DOMAIN h : h[k].id = id => k = CallOf(h, id) \/ k = ReturnOf(h, id)
           /\ \A k \in DOMAIN h :
                 /\ h[k].id \in Ids(h)
                 /\ h[k].kind = "call" => k = CallOf(h, h[k].id)
                 /\ h[k].kind = "return" => k = ReturnOf(h, h[k].id)
                 /\ h[k].kind = "call" \/ h[k].kind = "return"
<1>1. Len(h) \in Nat /\ DOMAIN h = 1 .. Len(h)
  BY SeqFacts DEF IsHistory
<1>2. ASSUME NEW id \in Ids(h)
      PROVE  /\ CallOf(h, id) \in DOMAIN h /\ ReturnOf(h, id) \in DOMAIN h
             /\ CallOf(h, id) < ReturnOf(h, id)
             /\ h[CallOf(h, id)].id = id /\ h[CallOf(h, id)].kind = "call"
             /\ h[ReturnOf(h, id)].id = id /\ h[ReturnOf(h, id)].kind = "return"
             /\ \A k \in DOMAIN h : h[k].id = id => k = CallOf(h, id) \/ k = ReturnOf(h, id)
  <2>1. PICK c \in DOMAIN h, r \in DOMAIN h :
          /\ c < r
          /\ h[c].id = id /\ h[c].kind = "call"
          /\ h[r].id = id /\ h[r].kind = "return"
          /\ \A k \in DOMAIN h : h[k].id = id => k = c \/ k = r
    BY DEF IsHistory
  <2>2. "call" # "return"
    OBVIOUS
  <2>3. \A k \in DOMAIN h : h[k].id = id /\ h[k].kind = "call" <=> k = c
    BY <2>1, <2>2, Zenon
  <2>4. \A k \in DOMAIN h : h[k].id = id /\ h[k].kind = "return" <=> k = r
    BY <2>1, <2>2, Zenon
  <2>5. CallOf(h, id) = c
    BY <2>3, Zenon DEF CallOf
  <2>6. ReturnOf(h, id) = r
    BY <2>4, Zenon DEF ReturnOf
  <2>7. QED
    BY <2>1, <2>5, <2>6, Zenon
<1>3. ASSUME NEW k \in DOMAIN h
      PROVE  /\ h[k].id \in Ids(h)
             /\ h[k].kind = "call" => k = CallOf(h, h[k].id)
             /\ h[k].kind = "return" => k = ReturnOf(h, h[k].id)
             /\ h[k].kind = "call" \/ h[k].kind = "return"
  <2>1. h[k].id \in Ids(h)
    BY DEF Ids
  <2>2. h[k].kind = "call" \/ h[k].kind = "return"
    BY DEF IsHistory
  <2>3. k = CallOf(h, h[k].id) \/ k = ReturnOf(h, h[k].id)
    BY <1>2, <2>1, Zenon
  <2>4. /\ h[CallOf(h, h[k].id)].kind = "call"
        /\ h[ReturnOf(h, h[k].id)].kind = "return"
    BY <1>2, <2>1, Zenon
  <2>5. "call" # "return"
    OBVIOUS
  <2>6. QED
    BY <2>1, <2>2, <2>3, <2>4, <2>5, Zenon
<1>4. QED
  BY <1>1, <1>2, <1>3, Zenon

\* The same for one operation.
LEMMA CallIs ==
    ASSUME NEW h, IsHistory(h), NEW id \in Ids(h)
    PROVE  /\ CallOf(h, id) \in DOMAIN h /\ ReturnOf(h, id) \in DOMAIN h
           /\ CallOf(h, id) \in Nat /\ ReturnOf(h, id) \in Nat /\ CallOf(h, id) < ReturnOf(h, id)
           /\ h[CallOf(h, id)].id = id /\ h[CallOf(h, id)].kind = "call"
           /\ h[ReturnOf(h, id)].id = id /\ h[ReturnOf(h, id)].kind = "return"
<1>1. Len(h) \in Nat /\ DOMAIN h = 1 .. Len(h)
  BY Matched
<1>2. /\ CallOf(h, id) \in DOMAIN h /\ ReturnOf(h, id) \in DOMAIN h
      /\ CallOf(h, id) < ReturnOf(h, id)
      /\ h[CallOf(h, id)].id = id /\ h[CallOf(h, id)].kind = "call"
      /\ h[ReturnOf(h, id)].id = id /\ h[ReturnOf(h, id)].kind = "return"
  BY Matched
<1>3. QED
  BY <1>1, <1>2

\* Ordering an operation takes its two entries from those pending.
LEMMA PendingFacts ==
    ASSUME NEW h, IsHistory(h), NEW D
    PROVE  /\ Pending(h, D) \in SUBSET (0 .. Len(h)) /\ 0 \in Pending(h, D)
           /\ \A id \in Ids(h) : id \notin D =>
                 /\ CallOf(h, id) \in Pending(h, D) \ {0}
                 /\ ReturnOf(h, id) \in Pending(h, D) \ {0}
           /\ \A id \in Ids(h) :
                 Pending(h, D \cup {id}) =
                    (Pending(h, D) \ {CallOf(h, id)}) \ {ReturnOf(h, id)}
           /\ \A id \in D \cap Ids(h) : /\ CallOf(h, id) \in (0 .. Len(h)) \ Pending(h, D)
                                        /\ ReturnOf(h, id) \in (0 .. Len(h)) \ Pending(h, D)
<1>1. /\ Len(h) \in Nat /\ DOMAIN h = 1 .. Len(h)
      /\ \A k \in DOMAIN h : k \in Nat /\ k # 0
  BY Matched
<1>2. Pending(h, D) \in SUBSET (0 .. Len(h)) /\ 0 \in Pending(h, D)
  BY <1>1 DEF Pending
<1>3. ASSUME NEW id \in Ids(h)
      PROVE  /\ CallOf(h, id) \in DOMAIN h /\ ReturnOf(h, id) \in DOMAIN h
             /\ CallOf(h, id) # 0 /\ ReturnOf(h, id) # 0
             /\ h[CallOf(h, id)].id = id /\ h[ReturnOf(h, id)].id = id
             /\ \A k \in DOMAIN h : h[k].id = id <=> k = CallOf(h, id) \/ k = ReturnOf(h, id)
  <2>1. /\ CallOf(h, id) \in DOMAIN h /\ ReturnOf(h, id) \in DOMAIN h
        /\ h[CallOf(h, id)].id = id /\ h[ReturnOf(h, id)].id = id
        /\ \A k \in DOMAIN h : h[k].id = id => k = CallOf(h, id) \/ k = ReturnOf(h, id)
    BY Matched, ZenonT(60)
  <2>2. QED
    BY <1>1, <2>1, Zenon
<1>4. ASSUME NEW id \in Ids(h), id \notin D
      PROVE  CallOf(h, id) \in Pending(h, D) \ {0} /\ ReturnOf(h, id) \in Pending(h, D) \ {0}
  BY <1>3, <1>4, Zenon DEF Pending
<1>5. ASSUME NEW id \in Ids(h)
      PROVE  Pending(h, D \cup {id}) =
                (Pending(h, D) \ {CallOf(h, id)}) \ {ReturnOf(h, id)}
  <2>1. PICK c : c = CallOf(h, id)
    OBVIOUS
  <2>2. PICK r : r = ReturnOf(h, id)
    OBVIOUS
  <2>3. c # 0 /\ r # 0 /\ \A k \in DOMAIN h : h[k].id = id <=> k = c \/ k = r
    BY <1>3, <2>1, <2>2, Zenon
  <2>4. Pending(h, D \cup {id}) = (Pending(h, D) \ {c}) \ {r}
    BY <2>3 DEF Pending
  <2>5. QED
    BY <2>1, <2>2, <2>4, Zenon
<1>6. ASSUME NEW id \in D \cap Ids(h)
      PROVE  /\ CallOf(h, id) \in (0 .. Len(h)) \ Pending(h, D)
             /\ ReturnOf(h, id) \in (0 .. Len(h)) \ Pending(h, D)
  <2>1. DOMAIN h \subseteq 0 .. Len(h)
    BY <1>1
  <2>2. QED
    BY <1>3, <2>1 DEF Pending
<1>7. QED
  BY <1>2, <1>4, <1>5, <1>6, Zenon

-----------------------------------------------------------------------------
(* The stack.                                                              *)

\* Each choice adds its operation.
LEMMA DoneFacts ==
    ASSUME NEW s
    PROVE  /\ Done(s, 0) = {}
           /\ \A i \in Nat : Done(s, i + 1) = Done(s, i) \cup {s.history[s.calls[i + 1].entry].id}
           /\ \A i, j \in Nat : i <= j => Done(s, i) \subseteq Done(s, j)
<1>1. Done(s, 0) = {}
  BY DEF Done
<1>2. ASSUME NEW i \in Nat
      PROVE  Done(s, i + 1) = Done(s, i) \cup {s.history[s.calls[i + 1].entry].id}
  <2>1. 1 .. i + 1 = (1 .. i) \cup {i + 1}
    OBVIOUS
  <2>2. QED
    BY <2>1 DEF Done
<1>3. ASSUME NEW i \in Nat, NEW j \in Nat, i <= j PROVE Done(s, i) \subseteq Done(s, j)
  <2>1. 1 .. i \subseteq 1 .. j
    BY <1>3
  <2>2. QED
    BY <2>1 DEF Done
<1>4. QED
  BY <1>1, <1>2, <1>3, Zenon

\* The operations on the stack are operations of the history.
LEMMA DoneIds ==
    ASSUME NEW s, StackOK(s)
    PROVE  \A i \in 0 .. Len(s.calls) : Done(s, i) \subseteq Ids(s.history)
<1>1. Len(s.calls) \in Nat /\ DOMAIN s.calls = 1 .. Len(s.calls)
  BY SeqFacts DEF StackOK
<1>2. ASSUME NEW i \in 0 .. Len(s.calls), NEW j \in 1 .. i
      PROVE  s.history[s.calls[j].entry].id \in Ids(s.history)
  <2>1. j \in DOMAIN s.calls
    BY <1>1
  <2>2. s.calls[j].entry \in DOMAIN s.history
    BY <2>1 DEF StackOK
  <2>3. QED
    BY <2>2 DEF Ids
<1>3. QED
  BY <1>2 DEF Done

\* linearize pushes a choice.
LEMMA PushFacts ==
    ASSUME NEW s, NEW s2, IsSeq(s.calls), s2.history = s.history,
           s2.calls = Append(s.calls, [entry |-> s.entry, state |-> s.state])
    PROVE  /\ IsSeq(s2.calls) /\ Len(s2.calls) = Len(s.calls) + 1
           /\ \A i \in 1 .. Len(s.calls) : s2.calls[i] = s.calls[i]
           /\ s2.calls[Len(s.calls) + 1].entry = s.entry
           /\ \A i \in 0 .. Len(s.calls) : /\ Done(s2, i) = Done(s, i)
                                           /\ StateAt(s2, i) = StateAt(s, i)
                                           /\ FrontierAt(s2, i) = FrontierAt(s, i)
           /\ Done(s2, Len(s.calls) + 1) = Done(s, Len(s.calls)) \cup {s.history[s.entry].id}
           /\ StateAt(s2, Len(s.calls) + 1) = s2.state
           /\ FrontierAt(s2, Len(s.calls) + 1) = s2.entry
<1>1. PICK n : n = Len(s.calls)
  OBVIOUS
<1>2. n \in Nat
  BY <1>1, SeqFacts
<1>3. /\ IsSeq(s2.calls) /\ Len(s2.calls) = n + 1
      /\ \A i \in 1 .. n : s2.calls[i] = s.calls[i]
      /\ s2.calls[n + 1] = [entry |-> s.entry, state |-> s.state]
  BY <1>1, AppendFacts
<1>4. s2.calls[n + 1].entry = s.entry /\ s2.calls[n + 1].state = s.state
  BY <1>3
<1>5. ASSUME NEW i \in 0 .. n PROVE Done(s2, i) = Done(s, i)
  <2>1. \A j \in 1 .. i : j \in 1 .. n
    BY <1>2
  <2>2. \A j \in 1 .. i : s2.calls[j] = s.calls[j]
    BY <1>3, <2>1
  <2>3. QED
    BY <2>2 DEF Done
<1>6. ASSUME NEW i \in 0 .. n
      PROVE  StateAt(s2, i) = StateAt(s, i) /\ FrontierAt(s2, i) = FrontierAt(s, i)
  <2>1. CASE i < n
    <3>1. i + 1 \in 1 .. n /\ i < n + 1
      BY <1>2, <2>1
    <3>2. s2.calls[i + 1] = s.calls[i + 1]
      BY <1>3, <3>1
    <3>3. QED
      BY <1>1, <1>3, <2>1, <3>1, <3>2, Zenon DEF StateAt, FrontierAt
  <2>2. CASE i = n
    <3>1. ~ (n < n) /\ n < n + 1
      BY <1>2
    <3>2. QED
      BY <1>1, <1>3, <1>4, <2>2, <3>1, Zenon DEF StateAt, FrontierAt
  <2>3. QED
    BY <1>2, <2>1, <2>2
<1>7. Done(s2, n + 1) = Done(s, n) \cup {s.history[s.entry].id}
  <2>1. Done(s2, n) = Done(s, n)
    BY <1>2, <1>5
  <2>2. Done(s2, n + 1) = Done(s2, n) \cup {s2.history[s2.calls[n + 1].entry].id}
    BY <1>2, DoneFacts
  <2>3. QED
    BY <1>4, <2>1, <2>2, Zenon
<1>8. ~ (n + 1 < n + 1)
  BY <1>2
<1>9. StateAt(s2, n + 1) = s2.state /\ FrontierAt(s2, n + 1) = s2.entry
  BY <1>3, <1>8, Zenon DEF StateAt, FrontierAt
<1>10. QED
  BY <1>1, <1>3, <1>4, <1>5, <1>6, <1>7, <1>9, Zenon

\* backtrack takes the last choice away.
LEMMA PopFacts ==
    ASSUME NEW s, NEW s2, IsSeq(s.calls), s.calls # <<>>, s2.history = s.history,
           s2.calls = Front(s.calls), s2.state = s.calls[Len(s.calls)].state
    PROVE  /\ IsSeq(s2.calls) /\ Len(s.calls) \in Nat \ {0} /\ Len(s2.calls) = Len(s.calls) - 1
           /\ \A i \in 1 .. Len(s.calls) - 1 : s2.calls[i] = s.calls[i]
           /\ \A i \in 0 .. Len(s.calls) - 1 : /\ Done(s2, i) = Done(s, i)
                                               /\ StateAt(s2, i) = StateAt(s, i)
           /\ \A i \in 0 .. Len(s.calls) - 2 : FrontierAt(s2, i) = FrontierAt(s, i)
           /\ FrontierAt(s2, Len(s.calls) - 1) = s2.entry
           /\ FrontierAt(s, Len(s.calls) - 1) = s.calls[Len(s.calls)].entry
           /\ Done(s, Len(s.calls)) =
                 Done(s, Len(s.calls) - 1) \cup {s.history[s.calls[Len(s.calls)].entry].id}
           /\ StateAt(s, Len(s.calls)) = s.state
           /\ FrontierAt(s, Len(s.calls)) = s.entry
<1>0. PICK n : n = Len(s.calls)
  OBVIOUS
<1>1. PICK m : m = n - 1
  OBVIOUS
<1>2. n \in Nat /\ n # 0 /\ m \in Nat /\ n = m + 1 /\ m < n /\ ~ (n < n)
  BY <1>0, <1>1, SeqFacts
<1>3. /\ IsSeq(s2.calls) /\ Len(s2.calls) = m
      /\ \A i \in 1 .. m : s2.calls[i] = s.calls[i]
  BY <1>0, <1>1, FrontFacts
<1>5. ASSUME NEW i \in 0 .. m PROVE Done(s2, i) = Done(s, i)
  <2>1. \A j \in 1 .. i : j \in 1 .. m
    BY <1>2
  <2>2. \A j \in 1 .. i : s2.calls[j] = s.calls[j]
    BY <1>3, <2>1
  <2>3. QED
    BY <2>2 DEF Done
<1>6. ASSUME NEW i \in 0 .. m, i < m
      PROVE  StateAt(s2, i) = StateAt(s, i) /\ FrontierAt(s2, i) = FrontierAt(s, i)
  <2>1. i + 1 \in 1 .. m /\ i < n
    BY <1>2, <1>6
  <2>2. s2.calls[i + 1] = s.calls[i + 1]
    BY <1>3, <2>1
  <2>3. QED
    BY <1>0, <1>3, <1>6, <2>1, <2>2, Zenon DEF StateAt, FrontierAt
<1>7. /\ StateAt(s2, m) = s2.state /\ StateAt(s, m) = s.calls[m + 1].state
      /\ FrontierAt(s2, m) = s2.entry /\ FrontierAt(s, m) = s.calls[m + 1].entry
  <2>1. ~ (m < m)
    BY <1>2
  <2>2. QED
    BY <1>0, <1>2, <1>3, <2>1, Zenon DEF StateAt, FrontierAt
<1>8. StateAt(s, n) = s.state /\ FrontierAt(s, n) = s.entry
  BY <1>0, <1>2, Zenon DEF StateAt, FrontierAt
<1>9. Done(s, m + 1) = Done(s, m) \cup {s.history[s.calls[m + 1].entry].id}
  BY <1>2, DoneFacts
<1>10. ASSUME NEW i \in 0 .. m PROVE StateAt(s2, i) = StateAt(s, i)
  <2>1. CASE i < m
    BY <1>6, <2>1
  <2>2. CASE i = m
    <3>1. StateAt(s, m) = s.calls[n].state
      BY <1>2, <1>7, Zenon
    <3>2. QED
      BY <1>0, <1>7, <2>2, <3>1, Zenon
  <2>3. QED
    BY <1>2, <2>1, <2>2
<1>11. \A i \in 0 .. Len(s.calls) - 2 : i \in 0 .. m /\ i < m
  BY <1>0, <1>1, <1>2
<1>12. \A i \in 0 .. Len(s.calls) - 2 : FrontierAt(s2, i) = FrontierAt(s, i)
  BY <1>6, <1>11
<1>13. Len(s.calls) \in Nat \ {0}
  BY <1>0, <1>2
<1>14. QED
  BY <1>0, <1>1, <1>2, <1>3, <1>5, <1>7, <1>8, <1>9, <1>10, <1>12, <1>13, Zenon

-----------------------------------------------------------------------------
(* The steps of a search keep SearchInv.                                   *)

\* While the list is not empty the entry under consideration is an entry.
LEMMA EntryPending ==
    ASSUME NEW s, IsPart(s.history), ListOK(s), EntryOK(s), s.st = "run", s.list.next[0] # Nil
    PROVE  /\ s.entry \in Pending(s.history, Done(s, Len(s.calls))) \ {0}
           /\ s.entry \in DOMAIN s.history
           /\ s.history[s.entry].id \notin Done(s, Len(s.calls))
           /\ s.history[s.entry].id \in Ids(s.history)
<1>1. PICK P : P = Pending(s.history, Done(s, Len(s.calls)))
  OBVIOUS
<1>2. 0 \in P /\ NextOf(s.list, 0, P)
  BY <1>1 DEF ListOK, Linked, Pending
<1>3. s.list.next[0] \in P /\ s.list.next[0] > 0
  BY <1>2 DEF NextOf
<1>4. P # {0}
  <2>1. ~ (0 > 0)
    OBVIOUS
  <2>2. QED
    BY <1>3, <2>1, Zenon
<1>5. s.entry \in P \ {0}
  BY <1>1, <1>4, Zenon DEF EntryOK
<1>6. s.entry \in DOMAIN s.history /\ s.history[s.entry].id \notin Done(s, Len(s.calls))
  BY <1>1, <1>5, Zenon DEF Pending
<1>7. QED
  BY <1>1, <1>5, <1>6 DEF Ids

\* The configurations known are sets of operations of the history.
LEMMA KnownIds ==
    ASSUME NEW s, NEW c \in Known(s)
    PROVE  c[1] \subseteq Ids(s.history)
<1>1. CASE c = <<{}, Empty>>
  BY <1>1
<1>2. ASSUME NEW d \in s.cache, c = <<Content(s.history, d[1]), d[2]>>
      PROVE  c[1] \subseteq Ids(s.history)
  <2>1. c[1] = Content(s.history, d[1])
    BY <1>2
  <2>2. QED
    BY <2>1 DEF Content
<1>3. QED
  BY <1>1, <1>2, Zenon DEF Known

\* What is closed stays closed.
LEMMA ClosedGrows ==
    ASSUME NEW s, NEW s2, NEW v, NEW c, s2.history = s.history, IsFiniteSet(Ids(s.history)),
           c[1] \subseteq Ids(s.history), Known(s) \subseteq Known(s2),
           \A id \in Ids(s.history) : /\ Len(s.longest[id]) \in Nat
                                      /\ Len(s2.longest[id]) \in Nat
                                      /\ Len(s.longest[id]) <= Len(s2.longest[id]),
           Closed(s, c, v)
    PROVE  Closed(s2, c, v)
<1>1. c[1] # Ids(s2.history)
  BY Zenon DEF Closed
<1>2. \A id \in Ids(s2.history) :
         Follows(s2.history, c, id) => Successor(s2.history, c, id) \in Known(s2)
  BY Zenon DEF Closed
<1>3. ASSUME v, NEW id \in c[1] PROVE Len(s2.longest[id]) >= Cardinality(c[1])
  <2>1. Len(s.longest[id]) >= Cardinality(c[1])
    BY <1>3, Zenon DEF Closed
  <2>2. Cardinality(c[1]) \in Nat
    BY FS_Subset, FS_CardinalityType
  <2>3. QED
    BY <2>1, <2>2
<1>4. QED
  BY <1>1, <1>2, <1>3, Zenon DEF Closed

\* The search after linearize.
LinearizeTo(s) ==
    LET e == s.history[s.entry]
        new == StepState(s.state, e.op)
        lin == bitSet(s.linearized, e.id)
        list == lift(s.list, s.entry, ReturnOf(s.history, e.id))
    IN  [s EXCEPT !.cache = @ \cup {<<lin, new>>},
                  !.calls = Append(@, [entry |-> s.entry, state |-> s.state]),
                  !.state = new, !.linearized = lin, !.list = list,
                  !.entry = list.next[0]]

\* The entry that a list starts with, and what comes before it.
LEMMA HeadFacts ==
    ASSUME NEW list, NEW P, NEW n \in Nat, P \in SUBSET (0 .. n), 0 \in P, Linked(list, P)
    PROVE  /\ list.next[0] \in P \ {0} \/ (list.next[0] = Nil /\ P = {0})
           /\ \A k \in P \ {0} : ~ (k < list.next[0])
<1>1. NextOf(list, 0, P)
  BY DEF Linked
<1>2. \A p \in P : p \in Nat
  OBVIOUS
<1>3. CASE list.next[0] = Nil /\ \A p \in P : p <= 0
  <2>1. \A p \in P : p = 0
    BY <1>2, <1>3
  <2>2. P = {0} /\ P \ {0} = {}
    BY <2>1
  <2>3. QED
    BY <1>3, <2>2, Zenon
<1>4. CASE list.next[0] \in P /\ list.next[0] > 0 /\ \A p \in P : p > 0 => list.next[0] <= p
  <2>1. list.next[0] # 0
    BY <1>4
  <2>2. \A k \in P \ {0} : k > 0 /\ list.next[0] <= k
    BY <1>2, <1>4
  <2>3. \A k \in P \ {0} : ~ (k < list.next[0])
    <3>1. PICK x : x = list.next[0]
      OBVIOUS
    <3>2. x \in Nat /\ \A k \in P \ {0} : k \in Nat /\ x <= k
      BY <1>2, <1>4, <2>2, <3>1
    <3>3. \A k \in P \ {0} : ~ (k < x)
      BY <3>2
    <3>4. QED
      BY <3>1, <3>3, Zenon
  <2>4. QED
    BY <1>4, <2>1, <2>3
<1>5. QED
  BY <1>1, <1>3, <1>4 DEF NextOf

\* The search goes on, with an entry of this kind under consideration.
Considers(s, kind) ==
    s.st = "run" /\ s.list.next[0] # Nil /\ s.history[s.entry].kind = kind

\* linearize keeps the invariant of its search.
LEMMA LinearizeKeeps ==
    ASSUME NEW s, NEW v, NEW kl, SearchInv(s, v, kl), Considers(s, "call"),
           StepOk(s.state, s.history[s.entry].op)
    PROVE  SearchInv(LinearizeTo(s), v, kl)
<1>0. s.st = "run" /\ s.list.next[0] # Nil /\ s.history[s.entry].kind = "call"
  BY DEF Considers
<1>1. PICK h : h = s.history
  OBVIOUS
<1>2. PICK n : n = Len(s.calls)
  OBVIOUS
<1>3. PICK k : k = s.entry
  OBVIOUS
<1>4. PICK id : id = h[k].id
  OBVIOUS
<1>5. PICK m : m = ReturnOf(h, id)
  OBVIOUS
<1>6. PICK P : P = Pending(h, Done(s, n))
  OBVIOUS
<1>7. PICK new : new = StepState(s.state, h[k].op)
  OBVIOUS
<1>8. PICK lin : lin = bitSet(s.linearized, id)
  OBVIOUS
<1>9. PICK lst : lst = lift(s.list, k, m)
  OBVIOUS
<1>10. PICK s2 : s2 = LinearizeTo(s)
  OBVIOUS
<1>11. PICK call : call = [entry |-> s.entry, state |-> s.state]
  OBVIOUS
<1>12. s2 = [s EXCEPT !.cache = @ \cup {<<lin, new>>}, !.calls = Append(@, call), !.state = new,
                      !.linearized = lin, !.list = lst, !.entry = lst.next[0]]
  BY <1>1, <1>3, <1>4, <1>5, <1>7, <1>8, <1>9, <1>10, <1>11, Zenon DEF LinearizeTo
<1>13. /\ s2.st = s.st /\ s2.history = s.history /\ s2.list = lst /\ s2.entry = lst.next[0]
       /\ s2.state = new /\ s2.linearized = lin /\ s2.cache = s.cache \cup {<<lin, new>>}
       /\ s2.calls = Append(s.calls, call) /\ s2.longest = s.longest
       /\ IsSearch(s2)
  BY <1>12 DEF SearchInv, IsSearch
<1>14. /\ IsPart(h) /\ IsHistory(h) /\ StackOK(s) /\ BitsOK(s) /\ ListOK(s) /\ EntryOK(s)
       /\ LegalOK(s) /\ TriedOK(s) /\ ClosedOK(s, v, kl) /\ LongestOK(s) /\ TrueOK(s)
  BY <1>1, Zenon DEF SearchInv, IsPart
<1>15. k \in P \ {0} /\ k \in DOMAIN h /\ id \notin Done(s, n) /\ id \in Ids(h)
  BY <1>0, <1>1, <1>2, <1>3, <1>4, <1>6, <1>14, EntryPending, Zenon
<1>16. k = CallOf(h, id) /\ k < m /\ m \in P \ {0} /\ h[k].kind = "call"
  <2>1. h[k].kind = "call"
    BY <1>0, <1>1, <1>3, Zenon
  <2>2. k = CallOf(h, id)
    BY <1>4, <1>14, <1>15, <2>1, Matched, Zenon
  <2>3. CallOf(h, id) < ReturnOf(h, id)
    BY <1>14, <1>15, Matched, Zenon
  <2>4. ReturnOf(h, id) \in P \ {0}
    BY <1>6, <1>14, <1>15, PendingFacts, Zenon
  <2>5. QED
    BY <1>5, <2>1, <2>2, <2>3, <2>4, Zenon
<1>17. IsSeq(s.calls) /\ n \in Nat /\ DOMAIN s.calls = 1 .. n
  BY <1>2, <1>14, SeqFacts DEF StackOK
<1>18. /\ IsSeq(s2.calls) /\ Len(s2.calls) = n + 1
       /\ \A i \in 1 .. n : s2.calls[i] = s.calls[i]
       /\ s2.calls[n + 1].entry = k
       /\ \A i \in 0 .. n : /\ Done(s2, i) = Done(s, i)
                            /\ StateAt(s2, i) = StateAt(s, i)
                            /\ FrontierAt(s2, i) = FrontierAt(s, i)
       /\ Done(s2, n + 1) = Done(s, n) \cup {id}
       /\ StateAt(s2, n + 1) = new /\ FrontierAt(s2, n + 1) = lst.next[0]
  <2>1. s2.calls = Append(s.calls, [entry |-> s.entry, state |-> s.state])
    BY <1>11, <1>13
  <2>2. /\ IsSeq(s2.calls) /\ Len(s2.calls) = Len(s.calls) + 1
        /\ \A i \in 1 .. Len(s.calls) : s2.calls[i] = s.calls[i]
        /\ s2.calls[Len(s.calls) + 1].entry = s.entry
        /\ \A i \in 0 .. Len(s.calls) : /\ Done(s2, i) = Done(s, i)
                                        /\ StateAt(s2, i) = StateAt(s, i)
                                        /\ FrontierAt(s2, i) = FrontierAt(s, i)
        /\ Done(s2, Len(s.calls) + 1) = Done(s, Len(s.calls)) \cup {s.history[s.entry].id}
        /\ StateAt(s2, Len(s.calls) + 1) = s2.state
        /\ FrontierAt(s2, Len(s.calls) + 1) = s2.entry
    BY <1>13, <1>17, <2>1, PushFacts, ZenonT(60)
  <2>3. QED
    BY <1>1, <1>2, <1>3, <1>4, <1>13, <2>2, Zenon
<1>19. /\ DOMAIN s2.calls = 1 .. n + 1 /\ n + 1 - 1 = n
       /\ \A i \in 1 .. n + 1 : i \in 1 .. n \/ i = n + 1
       /\ \A i \in 0 .. n + 1 : i \in 0 .. n \/ i = n + 1
       /\ \A i \in 1 .. n : i - 1 \in 0 .. n /\ i \in 0 .. n
       /\ n \in 0 .. n
  BY <1>17, <1>18, SeqFacts
<1>20. StateAt(s, n) = s.state /\ FrontierAt(s, n) = k
  <2>1. ~ (n < n)
    BY <1>17
  <2>2. QED
    BY <1>2, <1>3, <2>1, Zenon DEF StateAt, FrontierAt
<1>21. StackOK(s2)
  <2>1. ASSUME NEW i \in DOMAIN s2.calls
        PROVE  /\ s2.calls[i].entry \in DOMAIN s2.history
               /\ s2.history[s2.calls[i].entry].kind = "call"
               /\ s2.history[s2.calls[i].entry].id \notin Done(s2, i - 1)
    <3>1. CASE i \in 1 .. n
      <4>1. s2.calls[i] = s.calls[i] /\ Done(s2, i - 1) = Done(s, i - 1)
        BY <1>18, <1>19, <3>1, Zenon
      <4>2. QED
        BY <1>13, <1>14, <1>17, <3>1, <4>1, Zenon DEF StackOK
    <3>2. CASE i = n + 1
      <4>0. i - 1 = n
        BY <1>17, <3>2
      <4>1. Done(s2, i - 1) = Done(s, n) /\ s2.calls[i].entry = k
        BY <1>18, <1>19, <3>2, <4>0, Zenon
      <4>2. QED
        BY <1>1, <1>4, <1>13, <1>15, <1>16, <4>1, Zenon
    <3>3. QED
      BY <1>19, <3>1, <3>2, Zenon
  <2>2. QED
    BY <1>18, <2>1, Zenon DEF StackOK
<1>22. PICK N : N = Cardinality(Ids(h))
  OBVIOUS
<1>23. N \in Nat /\ Ids(h) = 0 .. N - 1
  BY <1>14, <1>22, FS_CardinalityType DEF IsPart
<1>24. /\ IsBitset(s.linearized, N) /\ \A c \in s.cache : IsBitset(c[1], N)
       /\ Content(h, s.linearized) = Done(s, n)
  BY <1>1, <1>2, <1>14, <1>22, Zenon DEF BitsOK
<1>25. IsBitset(lin, N) /\ \A q \in Ids(h) : get(lin, q) <=> q = id \/ get(s.linearized, q)
  BY <1>8, <1>15, <1>23, <1>24, BitFacts
<1>26. Content(h, lin) = Done(s, n) \cup {id}
  BY <1>15, <1>24, <1>25 DEF Content
<1>27. BitsOK(s2)
  <2>1. ASSUME NEW c \in s2.cache PROVE IsBitset(c[1], N)
    <3>1. CASE c = <<lin, new>>
      BY <1>25, <3>1
    <3>2. QED
      BY <1>13, <1>24, <3>1
  <2>2. QED
    BY <1>1, <1>13, <1>18, <1>22, <1>25, <1>26, <2>1, Zenon DEF BitsOK
<1>28. /\ P \in SUBSET (0 .. Len(h)) /\ 0 \in P /\ Len(h) \in Nat
       /\ Pending(h, Done(s, n) \cup {id}) = (P \ {k}) \ {m}
       /\ \A q \in Done(s, n) \cap Ids(h) : /\ CallOf(h, q) \in (0 .. Len(h)) \ P
                                            /\ ReturnOf(h, q) \in (0 .. Len(h)) \ P
  BY <1>5, <1>6, <1>14, <1>15, <1>16, PendingFacts, Matched, Zenon
<1>29. IsList(s.list, Len(h)) /\ Linked(s.list, P)
  BY <1>1, <1>2, <1>6, <1>14, Zenon DEF ListOK
<1>30. /\ IsList(lst, Len(h)) /\ Linked(lst, (P \ {k}) \ {m})
       /\ Fits(lst, k, P \ {k}) /\ Fits(lst, m, (P \ {k}) \ {m})
       /\ \A q \in (0 .. Len(h)) \ P : lst.next[q] = s.list.next[q] /\ lst.prev[q] = s.list.prev[q]
  <2>1. IsLifted(lift(s.list, k, m), s.list, Len(h), P, k, m)
    BY <1>15, <1>16, <1>28, <1>29, LiftFacts
  <2>2. QED
    BY <1>9, <2>1, Zenon DEF IsLifted
<1>31. ListOK(s2)
  <2>1. ASSUME NEW i \in DOMAIN s2.calls
        PROVE  LET k2 == s2.calls[i].entry
                   m2 == ReturnOf(s2.history, s2.history[k2].id)
                   P2 == Pending(s2.history, Done(s2, i - 1))
               IN  Fits(s2.list, k2, P2 \ {k2}) /\ Fits(s2.list, m2, (P2 \ {k2}) \ {m2})
    <3>1. CASE i \in 1 .. n
      <4>1. PICK k2 : k2 = s.calls[i].entry
        OBVIOUS
      <4>2. PICK q : q = h[k2].id
        OBVIOUS
      <4>3. PICK m2 : m2 = ReturnOf(h, q)
        OBVIOUS
      <4>4. PICK P2 : P2 = Pending(h, Done(s, i - 1))
        OBVIOUS
      <4>5. Fits(s.list, k2, P2 \ {k2}) /\ Fits(s.list, m2, (P2 \ {k2}) \ {m2})
        BY <1>1, <1>14, <1>17, <3>1, <4>1, <4>2, <4>3, <4>4, Zenon DEF ListOK
      <4>6. k2 \in DOMAIN h /\ h[k2].kind = "call"
        BY <1>1, <1>14, <1>17, <3>1, <4>1, Zenon DEF StackOK
      <4>7. q \in Done(s, n) \cap Ids(h)
        BY <1>1, <1>17, <3>1, <4>1, <4>2, <4>6 DEF Done, Ids
      <4>8. k2 = CallOf(h, q)
        BY <1>14, <4>2, <4>6, Matched, Zenon
      <4>9. k2 \in (0 .. Len(h)) \ P /\ m2 \in (0 .. Len(h)) \ P
        BY <1>28, <4>3, <4>7, <4>8, Zenon
      <4>10. /\ lst.next[k2] = s.list.next[k2] /\ lst.prev[k2] = s.list.prev[k2]
             /\ lst.next[m2] = s.list.next[m2] /\ lst.prev[m2] = s.list.prev[m2]
        BY <1>30, <4>9, Zenon
      <4>11. Fits(lst, k2, P2 \ {k2}) /\ Fits(lst, m2, (P2 \ {k2}) \ {m2})
        BY <4>5, <4>10, FitsSame, Zenon
      <4>12. s2.calls[i] = s.calls[i] /\ Done(s2, i - 1) = Done(s, i - 1)
        BY <1>18, <1>19, <3>1, Zenon
      <4>13. QED
        BY <1>1, <1>13, <4>1, <4>2, <4>3, <4>4, <4>11, <4>12, Zenon
    <3>2. CASE i = n + 1
      <4>0. i - 1 = n
        BY <1>17, <3>2
      <4>1. Done(s2, i - 1) = Done(s, n) /\ s2.calls[i].entry = k
        BY <1>18, <1>19, <3>2, <4>0, Zenon
      <4>2. QED
        BY <1>1, <1>4, <1>5, <1>6, <1>13, <1>30, <4>1, Zenon
    <3>3. QED
      BY <1>19, <3>1, <3>2, Zenon
  <2>2. Linked(lst, Pending(h, Done(s2, n + 1)))
    BY <1>18, <1>28, <1>30, Zenon
  <2>3. QED
    BY <1>1, <1>13, <1>18, <1>30, <2>1, <2>2, Zenon DEF ListOK
<1>32. PICK P2 : P2 = (P \ {k}) \ {m}
  OBVIOUS
<1>33. P2 \in SUBSET (0 .. Len(h)) /\ 0 \in P2 /\ Linked(lst, P2) /\ Pending(h, Done(s2, n + 1)) = P2
  BY <1>15, <1>16, <1>18, <1>28, <1>30, <1>32
<1>34. /\ lst.next[0] \in P2 \ {0} \/ (lst.next[0] = Nil /\ P2 = {0})
       /\ \A q \in P2 \ {0} : ~ (q < lst.next[0])
  BY <1>28, <1>33, HeadFacts
<1>35. EntryOK(s2)
  BY <1>1, <1>13, <1>18, <1>33, <1>34, Zenon DEF EntryOK
<1>36. \A q \in Pending(h, Done(s, n)) \ {0} : q < k => h[q].kind = "call"
  BY <1>1, <1>2, <1>14, <1>19, <1>20, Zenon DEF TriedOK
<1>37. LegalOK(s2)
  <2>1. StateAt(s2, 0) = Empty
    BY <1>14, <1>17, <1>18 DEF LegalOK
  <2>2. ASSUME NEW i \in DOMAIN s2.calls
        PROVE  LET e == s2.history[s2.calls[i].entry]
               IN  /\ StepOk(StateAt(s2, i - 1), e.op)
                   /\ StateAt(s2, i) = StepState(StateAt(s2, i - 1), e.op)
                   /\ \A q \in Ids(s2.history) :
                         ReturnOf(s2.history, q) < s2.calls[i].entry => q \in Done(s2, i - 1)
    <3>1. CASE i \in 1 .. n
      <4>1. /\ s2.calls[i] = s.calls[i] /\ Done(s2, i - 1) = Done(s, i - 1)
            /\ StateAt(s2, i - 1) = StateAt(s, i - 1) /\ StateAt(s2, i) = StateAt(s, i)
        BY <1>18, <1>19, <3>1, Zenon
      <4>2. QED
        BY <1>13, <1>14, <1>17, <3>1, <4>1, Zenon DEF LegalOK
    <3>2. CASE i = n + 1
      <4>0. i - 1 = n
        BY <1>17, <3>2
      <4>1. /\ Done(s2, i - 1) = Done(s, n) /\ s2.calls[i].entry = k
            /\ StateAt(s2, i - 1) = s.state /\ StateAt(s2, i) = new
        BY <1>18, <1>19, <1>20, <3>2, <4>0, Zenon
      <4>2. ASSUME NEW q \in Ids(h), ReturnOf(h, q) < k PROVE q \in Done(s, n)
        <5>1. SUFFICES ASSUME q \notin Done(s, n) PROVE FALSE
          OBVIOUS
        <5>2. ReturnOf(h, q) \in Pending(h, Done(s, n)) \ {0}
          BY <1>14, <5>1, PendingFacts, Zenon
        <5>3. h[ReturnOf(h, q)].kind = "call"
          BY <1>36, <4>2, <5>2, Zenon
        <5>4. h[ReturnOf(h, q)].kind = "return"
          BY <1>14, Matched
        <5>5. "call" # "return"
          OBVIOUS
        <5>6. QED
          BY <5>3, <5>4, <5>5, Zenon
      <4>3. QED
        BY <1>1, <1>3, <1>7, <1>13, <4>1, <4>2, Zenon
    <3>3. QED
      BY <1>19, <3>1, <3>2, Zenon
  <2>3. QED
    BY <2>1, <2>2, Zenon DEF LegalOK
<1>38. /\ Known(s) \subseteq Known(s2)
       /\ \A c \in Known(s2) : c \in Known(s) \/ c = <<Content(h, lin), new>>
       /\ <<Content(h, lin), new>> \in Known(s2)
  <2>1. PICK d : d = <<lin, new>>
    OBVIOUS
  <2>2. d[1] = lin /\ d[2] = new /\ s2.cache = s.cache \cup {d}
    BY <1>13, <2>1
  <2>3. QED
    BY <1>1, <1>13, <2>2, Zenon DEF Known
<1>39. \A i \in 0 .. n : Config(s2, i) = Config(s, i)
  BY <1>18, Zenon DEF Config
<1>40. Config(s2, n + 1) = <<Content(h, lin), new>>
  BY <1>18, <1>26, Zenon DEF Config
<1>41. TriedOK(s2)
  <2>1. ASSUME NEW i \in 0 .. n + 1
        PROVE  /\ Config(s2, i) \in Known(s2)
               /\ \A q \in Pending(s2.history, Done(s2, i)) \ {0} :
                     q < FrontierAt(s2, i) =>
                        /\ s2.history[q].kind = "call"
                        /\ StepOk(StateAt(s2, i), s2.history[q].op) =>
                              Successor(s2.history, Config(s2, i), s2.history[q].id) \in Known(s2)
    <3>1. CASE i \in 0 .. n
      <4>1. /\ Config(s2, i) = Config(s, i) /\ Done(s2, i) = Done(s, i)
            /\ StateAt(s2, i) = StateAt(s, i) /\ FrontierAt(s2, i) = FrontierAt(s, i)
        BY <1>18, <1>39, <3>1, Zenon
      <4>2. QED
        BY <1>2, <1>13, <1>14, <1>38, <3>1, <4>1, Zenon DEF TriedOK
    <3>2. CASE i = n + 1
      <4>1. Config(s2, i) \in Known(s2)
        BY <1>38, <1>40, <3>2, Zenon
      <4>2. \A q \in Pending(s2.history, Done(s2, i)) \ {0} : ~ (q < FrontierAt(s2, i))
        BY <1>1, <1>13, <1>18, <1>33, <1>34, <3>2, Zenon
      <4>3. QED
        BY <4>1, <4>2, Zenon
    <3>3. QED
      BY <1>19, <3>1, <3>2, Zenon
  <2>2. QED
    BY <1>18, <2>1, Zenon DEF TriedOK
<1>42. ClosedOK(s2, v, kl)
  <2>1. ASSUME NEW c \in Known(s2)
        PROVE  Closed(s2, c, v) \/ \E i \in 0 .. n + 1 : c = Config(s2, i)
    <3>1. CASE c = <<Content(h, lin), new>>
      <4>1. n + 1 \in 0 .. n + 1
        BY <1>17
      <4>2. QED
        BY <1>40, <3>1, <4>1, Zenon
    <3>2. CASE c \in Known(s) /\ Closed(s, c, v)
      <4>1. \A q \in Ids(s.history) : Len(s.longest[q]) \in Nat
        BY <1>14, SeqFacts DEF LongestOK
      <4>2. \A x \in Nat : x <= x
        OBVIOUS
      <4>3. /\ s2.history = s.history /\ IsFiniteSet(Ids(s.history)) /\ c[1] \subseteq Ids(s.history)
            /\ Known(s) \subseteq Known(s2)
            /\ \A q \in Ids(s.history) : /\ Len(s.longest[q]) \in Nat
                                         /\ Len(s2.longest[q]) \in Nat
                                         /\ Len(s.longest[q]) <= Len(s2.longest[q])
        BY <1>1, <1>13, <1>14, <1>38, <3>2, <4>1, <4>2, KnownIds, Zenon DEF IsPart
      <4>4. QED
        BY <3>2, <4>3, ClosedGrows, Zenon
    <3>3. CASE c \in Known(s) /\ \E i \in 0 .. n : c = Config(s, i)
      <4>1. \A i \in 0 .. n : i \in 0 .. n + 1
        BY <1>17
      <4>2. QED
        BY <1>39, <3>3, <4>1, Zenon
    <3>4. c \in Known(s) => Closed(s, c, v) \/ \E i \in 0 .. n : c = Config(s, i)
      BY <1>0, <1>2, <1>14, Zenon DEF ClosedOK
    <3>5. QED
      BY <1>38, <3>1, <3>2, <3>3, <3>4, Zenon
  <2>2. "run" # "false"
    OBVIOUS
  <2>3. QED
    BY <1>0, <1>13, <1>18, <2>1, <2>2, Zenon DEF ClosedOK
<1>43. LongestOK(s2)
  BY <1>13, <1>14 DEF LongestOK
<1>44. TrueOK(s2)
  <2>1. "run" # "true"
    OBVIOUS
  <2>2. QED
    BY <1>0, <1>13, <2>1, Zenon DEF TrueOK
<1>45. QED
  BY <1>1, <1>10, <1>13, <1>14, <1>21, <1>27, <1>31, <1>35, <1>37, <1>41, <1>42, <1>43, <1>44, Zenon
     DEF SearchInv

\* What the cache contains is known.
LEMMA CacheKnown ==
    ASSUME NEW s, IsPart(s.history), BitsOK(s), NEW id \in Ids(s.history), NEW state,
           cacheContains(s, bitSet(s.linearized, id), state)
    PROVE  <<Done(s, Len(s.calls)) \cup {id}, state>> \in Known(s)
<1>1. PICK h : h = s.history
  OBVIOUS
<1>2. PICK N : N = Cardinality(Ids(h))
  OBVIOUS
<1>3. N \in Nat /\ Ids(h) = 0 .. N - 1 /\ id \in 0 .. N - 1
  BY <1>1, <1>2, FS_CardinalityType DEF IsPart
<1>4. PICK b : b = s.linearized
  OBVIOUS
<1>5. PICK lin : lin = bitSet(b, id)
  OBVIOUS
<1>6. IsBitset(b, N) /\ Content(h, b) = Done(s, Len(s.calls))
  BY <1>1, <1>2, <1>4, Zenon DEF BitsOK
<1>7. IsBitset(lin, N) /\ \A q \in 0 .. N - 1 : get(lin, q) <=> q = id \/ get(b, q)
  BY <1>3, <1>5, <1>6, BitFacts
<1>8. PICK e \in s.cache : equals(e[1], lin) /\ e[2] = state
  BY <1>4, <1>5, Zenon DEF cacheContains
<1>9. PICK d : d = e[1]
  OBVIOUS
<1>10. IsBitset(d, N)
  BY <1>1, <1>2, <1>9, Zenon DEF BitsOK
<1>11. \A q \in 0 .. N - 1 : get(d, q) <=> get(lin, q)
  <2>1. \A i \in DOMAIN d : d[i] = lin[i]
    BY <1>8, <1>9, Zenon DEF equals
  <2>2. DOMAIN d = 1 .. chunks(N)
    BY <1>10 DEF IsBitset
  <2>3. \A q \in 0 .. N - 1 : major(q) \in 1 .. chunks(N)
    BY <1>3, BitPlace
  <2>4. QED
    BY <2>1, <2>2, <2>3, Zenon DEF get
<1>12. Content(h, d) = Content(h, b) \cup {id}
  BY <1>3, <1>7, <1>11 DEF Content
<1>13. <<Content(h, d), state>> \in Known(s)
  BY <1>1, <1>8, <1>9, Zenon DEF Known
<1>14. QED
  BY <1>6, <1>12, <1>13, Zenon

\* The knowledge of a search is in its history, cache and longest.
LEMMA SameKnowledge ==
    ASSUME NEW s, NEW s2, s2.history = s.history, s2.cache = s.cache
    PROVE  /\ Known(s2) = Known(s)
           /\ s2.longest = s.longest => \A c, v : Closed(s, c, v) <=> Closed(s2, c, v)
           /\ s2.calls = s.calls => \A i : Done(s2, i) = Done(s, i)
           /\ s2.calls = s.calls /\ s2.state = s.state =>
                 \A i : StateAt(s2, i) = StateAt(s, i) /\ Config(s2, i) = Config(s, i)
<1>1. Known(s2) = Known(s)
  BY Zenon DEF Known
<1>2. ASSUME s2.longest = s.longest, NEW c, NEW v PROVE Closed(s, c, v) <=> Closed(s2, c, v)
  BY <1>1, <1>2, Zenon DEF Closed
<1>3. ASSUME s2.calls = s.calls, NEW i PROVE Done(s2, i) = Done(s, i)
  BY <1>3, Zenon DEF Done
<1>4. ASSUME s2.calls = s.calls, s2.state = s.state, NEW i
      PROVE  StateAt(s2, i) = StateAt(s, i) /\ Config(s2, i) = Config(s, i)
  BY <1>3, <1>4, Zenon DEF StateAt, Config
<1>5. QED
  BY <1>1, <1>2, <1>3, <1>4, Zenon

\* The search after skip.
SkipTo(s) == [s EXCEPT !.entry = s.list.next[s.entry]]

\* skip keeps the invariant of its search.
LEMMA SkipKeeps ==
    ASSUME NEW s, NEW v, NEW kl, SearchInv(s, v, kl), Considers(s, "call"),
           StepOk(s.state, s.history[s.entry].op) =>
              cacheContains(s, bitSet(s.linearized, s.history[s.entry].id),
                            StepState(s.state, s.history[s.entry].op))
    PROVE  SearchInv(SkipTo(s), v, kl)
<1>0. s.st = "run" /\ s.list.next[0] # Nil /\ s.history[s.entry].kind = "call"
  BY DEF Considers
<1>1. PICK h : h = s.history
  OBVIOUS
<1>2. PICK n : n = Len(s.calls)
  OBVIOUS
<1>3. PICK k : k = s.entry
  OBVIOUS
<1>4. PICK id : id = h[k].id
  OBVIOUS
<1>5. PICK P : P = Pending(h, Done(s, n))
  OBVIOUS
<1>6. PICK x : x = s.list.next[k]
  OBVIOUS
<1>7. PICK s2 : s2 = SkipTo(s)
  OBVIOUS
<1>8. /\ s2.st = s.st /\ s2.history = s.history /\ s2.list = s.list /\ s2.entry = x
      /\ s2.state = s.state /\ s2.linearized = s.linearized /\ s2.cache = s.cache
      /\ s2.calls = s.calls /\ s2.longest = s.longest
      /\ IsSearch(s2)
  BY <1>3, <1>6, <1>7 DEF SearchInv, IsSearch, SkipTo
<1>9. /\ IsPart(h) /\ IsHistory(h) /\ StackOK(s) /\ BitsOK(s) /\ ListOK(s) /\ EntryOK(s)
      /\ LegalOK(s) /\ TriedOK(s) /\ ClosedOK(s, v, kl) /\ LongestOK(s) /\ TrueOK(s)
  BY <1>1, Zenon DEF SearchInv, IsPart
<1>10. k \in P \ {0} /\ k \in DOMAIN h /\ id \notin Done(s, n) /\ id \in Ids(h)
  BY <1>0, <1>1, <1>2, <1>3, <1>4, <1>5, <1>9, EntryPending, Zenon
<1>11. h[k].kind = "call" /\ k = CallOf(h, id)
  <2>1. h[k].kind = "call"
    BY <1>0, <1>1, <1>3, Zenon
  <2>2. QED
    BY <1>4, <1>9, <1>10, <2>1, Matched, Zenon
<1>12. P \in SUBSET (0 .. Len(h)) /\ Len(h) \in Nat /\ ReturnOf(h, id) \in P \ {0} /\ k < ReturnOf(h, id)
  <2>1. CallOf(h, id) < ReturnOf(h, id) /\ Len(h) \in Nat
    BY <1>9, <1>10, Matched, Zenon
  <2>2. QED
    BY <1>5, <1>9, <1>10, <1>11, <2>1, PendingFacts, Zenon
<1>13. x \in P \ {0} /\ \A q \in P : q < x => q <= k
  <2>1. \A q \in P : q \in Nat
    BY <1>12
  <2>2. NextOf(s.list, k, P)
    BY <1>1, <1>2, <1>5, <1>9, <1>10, Zenon DEF ListOK, Linked
  <2>3. PICK m \in P : m \in Nat /\ k < m
    BY <1>12, <2>1
  <2>4. k \in Nat /\ ~ (m <= k)
    <3>1. k \in Nat
      BY <1>10, <2>1, Zenon
    <3>2. m \in Nat /\ k < m
      BY <2>3
    <3>3. QED
      BY <3>1, <3>2
  <2>5. x \in P /\ x > k /\ \A p \in P : p > k => x <= p
    BY <1>6, <2>2, <2>4, Zenon DEF NextOf
  <2>6. x \in Nat
    BY <2>1, <2>5
  <2>7. QED
    BY <2>1, <2>4, <2>5, <2>6
<1>14. n \in Nat /\ n \in 0 .. n
  BY <1>2, <1>9, SeqFacts DEF StackOK
<1>15. /\ Known(s2) = Known(s)
       /\ \A c : Closed(s, c, v) <=> Closed(s2, c, v)
       /\ \A i : /\ Done(s2, i) = Done(s, i) /\ StateAt(s2, i) = StateAt(s, i)
                 /\ Config(s2, i) = Config(s, i)
  BY <1>8, SameKnowledge, Zenon
<1>16. FrontierAt(s2, n) = x /\ FrontierAt(s, n) = k /\ StateAt(s, n) = s.state
  <2>1. ~ (n < n)
    BY <1>14
  <2>2. QED
    BY <1>2, <1>3, <1>8, <2>1, Zenon DEF FrontierAt, StateAt
<1>17. \A i \in 0 .. n : i # n => FrontierAt(s2, i) = FrontierAt(s, i)
  <2>1. \A i \in 0 .. n : i # n => i < n
    BY <1>14
  <2>2. QED
    BY <1>2, <1>8, <2>1, Zenon DEF FrontierAt
<1>18. StackOK(s2)
  BY <1>8, <1>9, <1>15, Zenon DEF StackOK
<1>19. BitsOK(s2)
  BY <1>8, <1>9, <1>15, Zenon DEF BitsOK
<1>20. ListOK(s2)
  BY <1>8, <1>9, <1>15, Zenon DEF ListOK
<1>21. EntryOK(s2)
  BY <1>1, <1>2, <1>5, <1>8, <1>13, <1>15, Zenon DEF EntryOK
<1>22. LegalOK(s2)
  BY <1>8, <1>9, <1>15, Zenon DEF LegalOK
<1>23. StepOk(s.state, h[k].op) => Successor(h, Config(s, n), id) \in Known(s)
  <2>1. SUFFICES ASSUME StepOk(s.state, h[k].op)
                 PROVE  Successor(h, Config(s, n), id) \in Known(s)
    OBVIOUS
  <2>2. cacheContains(s, bitSet(s.linearized, id), StepState(s.state, h[k].op))
    BY <1>1, <1>3, <1>4, <2>1, Zenon
  <2>3. <<Done(s, n) \cup {id}, StepState(s.state, h[k].op)>> \in Known(s)
    BY <1>1, <1>2, <1>9, <1>10, <2>2, CacheKnown, Zenon
  <2>4. Config(s, n)[1] = Done(s, n) /\ Config(s, n)[2] = s.state
    BY <1>16 DEF Config
  <2>5. QED
    BY <1>11, <2>3, <2>4, Zenon DEF Successor
<1>24. TriedOK(s2)
  <2>1. ASSUME NEW i \in 0 .. n
        PROVE  /\ Config(s2, i) \in Known(s2)
               /\ \A q \in Pending(s2.history, Done(s2, i)) \ {0} :
                     q < FrontierAt(s2, i) =>
                        /\ s2.history[q].kind = "call"
                        /\ StepOk(StateAt(s2, i), s2.history[q].op) =>
                              Successor(s2.history, Config(s2, i), s2.history[q].id) \in Known(s2)
    <3>1. CASE i # n
      <4>1. FrontierAt(s2, i) = FrontierAt(s, i)
        BY <1>17, <3>1, Zenon
      <4>2. QED
        BY <1>2, <1>8, <1>9, <1>15, <4>1, Zenon DEF TriedOK
    <3>2. CASE i = n
      <4>1. Config(s2, n) \in Known(s2)
        BY <1>2, <1>9, <1>14, <1>15, Zenon DEF TriedOK
      <4>2. ASSUME NEW q \in P \ {0}, q < x
            PROVE  /\ h[q].kind = "call"
                   /\ StepOk(s.state, h[q].op) => Successor(h, Config(s, n), h[q].id) \in Known(s)
        <5>1. CASE q = k
          BY <1>4, <1>11, <1>23, <5>1, Zenon
        <5>2. CASE q # k
          <6>1. q <= k
            BY <1>13, <4>2, Zenon
          <6>2. q \in Nat /\ k \in Nat
            BY <1>10, <1>12
          <6>3. q < k
            BY <5>2, <6>1, <6>2
          <6>4. QED
            BY <1>1, <1>2, <1>5, <1>9, <1>14, <1>16, <6>3, Zenon DEF TriedOK
        <5>3. QED
          BY <5>1, <5>2
      <4>3. QED
        BY <1>1, <1>5, <1>8, <1>15, <1>16, <3>2, <4>1, <4>2, ZenonT(60)
    <3>3. QED
      BY <3>1, <3>2
  <2>2. QED
    BY <1>2, <1>8, <2>1, Zenon DEF TriedOK
<1>25. ClosedOK(s2, v, kl)
  <2>1. s.st # "false"
    BY <1>0
  <2>2. \A c \in Known(s) : Closed(s, c, v) \/ \E i \in 0 .. n : c = Config(s, i)
    BY <1>0, <1>2, <1>9, Zenon DEF ClosedOK
  <2>3. \A c \in Known(s2) : Closed(s2, c, v) \/ \E i \in 0 .. n : c = Config(s2, i)
    BY <1>15, <2>2, Zenon
  <2>4. QED
    BY <1>2, <1>8, <2>1, <2>3, Zenon DEF ClosedOK
<1>26. LongestOK(s2)
  BY <1>8, <1>9 DEF LongestOK
<1>27. TrueOK(s2)
  <2>1. s2.st # "true"
    BY <1>0, <1>8
  <2>2. QED
    BY <2>1, Zenon DEF TrueOK
<1>28. QED
  BY <1>0, <1>1, <1>7, <1>8, <1>9, <1>18, <1>19, <1>20, <1>21, <1>22, <1>24, <1>25, <1>26, <1>27, Zenon
     DEF SearchInv

-----------------------------------------------------------------------------
(* Legal orders.                                                           *)

\* The states of all keys after one more operation.
Advance(h, state, id) ==
    LET e == h[CallOf(h, id)]
    IN  [state EXCEPT ![e.key] = StepState(@, e.op)]

\* The equation of the recursive function of StateAfter.
IsAfter(h, o, a) ==
    a = [i \in 0 .. Len(o) |->
           IF i = 0 THEN [key \in Key |-> Empty] ELSE Advance(h, a[i - 1], o[i])]

\* The recursive function of StateAfter exists.
LEMMA AfterExists ==
    ASSUME NEW h, NEW o, IsSeq(o)
    PROVE  \E a : IsAfter(h, o, a)
<1> DEFINE Z == [key \in Key |-> Empty]
           T == {n \in Nat : \E a : a = [i \in 0 .. n |->
                                           IF i = 0 THEN Z ELSE Advance(h, a[i - 1], o[i])]}
<1>1. 0 \in T
  <2>1. PICK a : a = [i \in 0 .. 0 |-> Z]
    OBVIOUS
  <2>2. \A i \in 0 .. 0 : i = 0
    OBVIOUS
  <2>3. a = [i \in 0 .. 0 |-> IF i = 0 THEN Z ELSE Advance(h, a[i - 1], o[i])]
    BY <2>1, <2>2
  <2>4. QED
    BY <2>3
<1>2. ASSUME NEW n \in Nat, n \in T PROVE n + 1 \in T
  <2>1. PICK a : a = [i \in 0 .. n |-> IF i = 0 THEN Z ELSE Advance(h, a[i - 1], o[i])]
    BY <1>2
  <2>2. PICK b : b = [i \in 0 .. n + 1 |-> IF i = n + 1 THEN Advance(h, a[n], o[n + 1]) ELSE a[i]]
    OBVIOUS
  <2> HIDE DEF Z
  <2>3. ASSUME NEW i \in 0 .. n + 1
        PROVE  b[i] = IF i = 0 THEN Z ELSE Advance(h, b[i - 1], o[i])
    <3>1. CASE i = n + 1
      <4>1. i - 1 = n /\ n \in 0 .. n + 1 /\ n # n + 1 /\ i # 0
        BY <3>1
      <4>2. b[i - 1] = a[n]
        BY <2>2, <4>1, Zenon
      <4>3. b[i] = Advance(h, a[n], o[i])
        BY <2>2, <3>1, Zenon
      <4>4. QED
        BY <4>1, <4>2, <4>3, Zenon
    <3>2. CASE i # n + 1
      <4>1. i \in 0 .. n
        BY <3>2
      <4>2. b[i] = a[i]
        BY <2>2, <3>2, Zenon
      <4>3. a[i] = IF i = 0 THEN Z ELSE Advance(h, a[i - 1], o[i])
        BY <2>1, <4>1, Zenon
      <4>4. CASE i = 0
        BY <4>2, <4>3, <4>4, Zenon
      <4>5. CASE i # 0
        <5>1. i - 1 \in 0 .. n + 1 /\ i - 1 # n + 1
          BY <3>2, <4>5
        <5>2. b[i - 1] = a[i - 1]
          BY <2>2, <5>1, Zenon
        <5>3. QED
          BY <4>2, <4>3, <4>5, <5>2, Zenon
      <4>6. QED
        BY <4>4, <4>5
    <3>3. QED
      BY <3>1, <3>2
  <2>4. b = [i \in 0 .. n + 1 |-> IF i = 0 THEN Z ELSE Advance(h, b[i - 1], o[i])]
    <3>1. DOMAIN b = 0 .. n + 1 /\ b = [i \in 0 .. n + 1 |-> b[i]]
      BY <2>2
    <3>2. QED
      BY <2>3, <3>1
  <2>5. QED
    BY <2>4
<1>3. \A n \in Nat : n \in T
  <2> HIDE DEF T
  <2>1. QED
    BY <1>1, <1>2, NatSetInduction
<1>4. Len(o) \in T
  BY <1>3, SeqFacts
<1>5. QED
  BY <1>4, Zenon DEF IsAfter

\* The states after an order, step by step and key by key.
LEMMA StateAfterFacts ==
    ASSUME NEW h, NEW o, IsSeq(o)
    PROVE  /\ StateAfter(h, o)[0] = [key \in Key |-> Empty]
           /\ \A i \in 1 .. Len(o) :
                 StateAfter(h, o)[i] = Advance(h, StateAfter(h, o)[i - 1], o[i])
           /\ \A i \in 0 .. Len(o) : DOMAIN StateAfter(h, o)[i] = Key
           /\ \A i \in 1 .. Len(o), key \in Key :
                 StateAfter(h, o)[i][key] =
                    IF key = h[CallOf(h, o[i])].key
                    THEN StepState(StateAfter(h, o)[i - 1][key], h[CallOf(h, o[i])].op)
                    ELSE StateAfter(h, o)[i - 1][key]
<1>1. PICK a : a = StateAfter(h, o)
  OBVIOUS
<1>2. a = [i \in 0 .. Len(o) |->
             IF i = 0 THEN [key \in Key |-> Empty] ELSE Advance(h, a[i - 1], o[i])]
  <2>1. PICK b : IsAfter(h, o, b)
    BY AfterExists
  <2>2. IsAfter(h, o, StateAfter(h, o))
    BY <2>1, Zenon DEF StateAfter, IsAfter, Advance
  <2>3. QED
    BY <1>1, <2>2, Zenon DEF IsAfter
<1>3. Len(o) \in Nat
  BY SeqFacts
<1>4. a[0] = [key \in Key |-> Empty]
  BY <1>2, <1>3
<1>5. \A i \in 1 .. Len(o) : a[i] = Advance(h, a[i - 1], o[i])
  <2>1. \A i \in 1 .. Len(o) : i \in 0 .. Len(o) /\ i # 0
    BY <1>3
  <2>2. QED
    BY <1>2, <2>1, Zenon
<1>6. \A i \in 0 .. Len(o) : DOMAIN a[i] = Key
  <2> DEFINE T == {n \in Nat : n <= Len(o) => DOMAIN a[n] = Key}
  <2>1. 0 \in T
    BY <1>4
  <2>2. ASSUME NEW n \in Nat, n \in T PROVE n + 1 \in T
    <3>1. SUFFICES ASSUME n + 1 <= Len(o) PROVE DOMAIN a[n + 1] = Key
      OBVIOUS
    <3>2. n + 1 \in 1 .. Len(o) /\ n + 1 - 1 = n /\ n <= Len(o)
      BY <1>3, <3>1
    <3>3. a[n + 1] = Advance(h, a[n], o[n + 1])
      BY <1>5, <3>2
    <3>4. QED
      BY <2>2, <3>2, <3>3 DEF Advance
  <2>3. \A n \in Nat : n \in T
    <3> HIDE DEF T
    <3>1. QED
      BY <2>1, <2>2, NatSetInduction
  <2>4. QED
    BY <1>3, <2>3
<1>7. ASSUME NEW i \in 1 .. Len(o), NEW key \in Key
      PROVE  a[i][key] = IF key = h[CallOf(h, o[i])].key
                         THEN StepState(a[i - 1][key], h[CallOf(h, o[i])].op) ELSE a[i - 1][key]
  <2>1. i - 1 \in 0 .. Len(o)
    BY <1>3
  <2>2. PICK f : f = a[i - 1]
    OBVIOUS
  <2>3. DOMAIN f = Key
    BY <1>6, <2>1, <2>2, Zenon
  <2>4. PICK e : e = h[CallOf(h, o[i])]
    OBVIOUS
  <2>5. a[i] = [f EXCEPT ![e.key] = StepState(f[e.key], e.op)]
    BY <1>5, <2>2, <2>4, Zenon DEF Advance
  <2>6. a[i][key] = IF key = e.key THEN StepState(f[e.key], e.op) ELSE f[key]
    BY <2>3, <2>5
  <2>7. QED
    BY <2>2, <2>4, <2>6, Zenon
<1>8. QED
  BY <1>1, <1>4, <1>5, <1>6, <1>7, Zenon

\* Orders that begin alike go through the same states.
LEMMA AfterPrefix ==
    ASSUME NEW h, NEW o, NEW p, IsSeq(o), IsSeq(p), NEW m \in Nat, m <= Len(o), m <= Len(p),
           \A i \in 1 .. m : o[i] = p[i]
    PROVE  \A i \in 0 .. m : StateAfter(h, o)[i] = StateAfter(h, p)[i]
<1>1. PICK a : a = StateAfter(h, o)
  OBVIOUS
<1>2. PICK b : b = StateAfter(h, p)
  OBVIOUS
<1> DEFINE T == {n \in Nat : n <= m => a[n] = b[n]}
<1>3. 0 \in T
  BY <1>1, <1>2, StateAfterFacts
<1>4. ASSUME NEW n \in Nat, n \in T PROVE n + 1 \in T
  <2>1. SUFFICES ASSUME n + 1 <= m PROVE a[n + 1] = b[n + 1]
    OBVIOUS
  <2>2. Len(o) \in Nat /\ Len(p) \in Nat
    BY SeqFacts
  <2>3. /\ n + 1 \in 1 .. Len(o) /\ n + 1 \in 1 .. Len(p) /\ n + 1 \in 1 .. m
        /\ n + 1 - 1 = n /\ n <= m
    BY <2>1, <2>2
  <2>4. a[n + 1] = Advance(h, a[n], o[n + 1])
    BY <1>1, <2>3, StateAfterFacts
  <2>5. b[n + 1] = Advance(h, b[n], p[n + 1])
    BY <1>2, <2>3, StateAfterFacts
  <2>6. a[n] = b[n] /\ o[n + 1] = p[n + 1]
    BY <1>4, <2>3
  <2>7. QED
    BY <2>4, <2>5, <2>6, Zenon
<1>5. \A n \in Nat : n \in T
  <2> HIDE DEF T
  <2>1. QED
    BY <1>3, <1>4, NatSetInduction
<1>6. QED
  BY <1>1, <1>2, <1>5

\* Operation i of an order may come where it does.
NextOk(h, o, i) ==
    LET e == h[CallOf(h, o[i])]
    IN  /\ StepOk(StateAfter(h, o)[i - 1][e.key], e.op)
        /\ \A j \in 1 .. i - 1 : o[j] # o[i]
        /\ \A id \in Ids(h) : ReturnOf(h, id) < CallOf(h, o[i]) => \E j \in 1 .. i - 1 : o[j] = id

\* An order is legal if every operation may come where it does.
LEMMA LegalNext ==
    ASSUME NEW h, NEW o, IsSeq(o)
    PROVE  LegalPrefix(h, o) <=> \A i \in 1 .. Len(o) : NextOk(h, o, i)
<1>1. Len(o) \in Nat /\ DOMAIN o = 1 .. Len(o)
  BY SeqFacts
<1>2. ASSUME LegalPrefix(h, o), NEW i \in 1 .. Len(o) PROVE NextOk(h, o, i)
  <2>1. ASSUME NEW j \in 1 .. i - 1 PROVE o[j] # o[i]
    <3>1. j \in DOMAIN o /\ i \in j + 1 .. Len(o)
      BY <1>1
    <3>2. QED
      BY <1>2, <3>1, Zenon DEF LegalPrefix
  <2>2. QED
    BY <1>1, <1>2, <2>1, Zenon DEF LegalPrefix, NextOk
<1>3. ASSUME \A i \in 1 .. Len(o) : NextOk(h, o, i), NEW i \in 1 .. Len(o)
      PROVE  LET e == h[CallOf(h, o[i])]
             IN  /\ StepOk(StateAfter(h, o)[i - 1][e.key], e.op)
                 /\ \A j \in i + 1 .. Len(o) : o[i] # o[j]
                 /\ \A id \in Ids(h) :
                       ReturnOf(h, id) < CallOf(h, o[i]) => \E j \in 1 .. i - 1 : o[j] = id
  <2>1. ASSUME NEW j \in i + 1 .. Len(o) PROVE o[i] # o[j]
    <3>1. j \in 1 .. Len(o) /\ i \in 1 .. j - 1
      BY <1>1
    <3>2. QED
      BY <1>3, <3>1, Zenon DEF NextOk
  <2>2. QED
    BY <1>3, <2>1, Zenon DEF NextOk
<1>4. QED
  BY <1>1, <1>2, <1>3, Zenon DEF LegalPrefix

\* Whether an operation may come next depends on those before it.
LEMMA NextOkSame ==
    ASSUME NEW h, NEW o, NEW p, IsSeq(o), IsSeq(p), NEW i \in Nat \ {0}, i <= Len(o), i <= Len(p),
           \A j \in 1 .. i : o[j] = p[j], NextOk(h, o, i)
    PROVE  NextOk(h, p, i)
<1>1. \A j \in 0 .. i : StateAfter(h, o)[j] = StateAfter(h, p)[j]
  BY AfterPrefix
<1>2. i - 1 \in 0 .. i /\ i \in 1 .. i /\ \A j \in 1 .. i - 1 : j \in 1 .. i
  OBVIOUS
<1>3. /\ StateAfter(h, o)[i - 1] = StateAfter(h, p)[i - 1] /\ o[i] = p[i]
      /\ \A j \in 1 .. i - 1 : o[j] = p[j]
  BY <1>1, <1>2, Zenon
<1>4. QED
  BY <1>3, Zenon DEF NextOk

\* A legal order with one more operation that may come next.
LEMMA LegalAppend ==
    ASSUME NEW h, NEW o, IsSeq(o), NEW id,
           LegalPrefix(h, o), NextOk(h, Append(o, id), Len(o) + 1)
    PROVE  LegalPrefix(h, Append(o, id))
<1>1. PICK p : p = Append(o, id)
  OBVIOUS
<1>2. PICK n : n = Len(o)
  OBVIOUS
<1>3. IsSeq(p) /\ Len(p) = n + 1 /\ n \in Nat /\ \A i \in 1 .. n : p[i] = o[i]
  BY <1>1, <1>2, AppendFacts, SeqFacts
<1>4. ASSUME NEW i \in 1 .. n + 1 PROVE NextOk(h, p, i)
  <2>1. CASE i = n + 1
    BY <1>1, <1>2, <2>1, Zenon
  <2>2. CASE i # n + 1
    <3>1. /\ i \in Nat \ {0} /\ i <= n /\ i <= Len(p) /\ i \in 1 .. n
          /\ \A j \in 1 .. i : j \in 1 .. n
      BY <1>3, <2>2
    <3>2. \A j \in 1 .. i : o[j] = p[j]
      BY <1>3, <3>1, Zenon
    <3>3. NextOk(h, o, i)
      BY <1>2, <3>1, LegalNext, Zenon
    <3>4. QED
      BY <1>2, <1>3, <3>1, <3>2, <3>3, NextOkSame
  <2>3. QED
    BY <2>1, <2>2
<1>5. QED
  BY <1>1, <1>3, <1>4, LegalNext, Zenon

\* The stack of a search is a legal order.
LEMMA OrderLegal ==
    ASSUME NEW s, IsPart(s.history), StackOK(s), LegalOK(s)
    PROVE  /\ IsSeq(OrderOf(s)) /\ Len(OrderOf(s)) = Len(s.calls)
           /\ \A i \in 0 .. Len(s.calls) : Done(s, i) = {OrderOf(s)[j] : j \in 1 .. i}
           /\ LegalPrefix(s.history, OrderOf(s))
<1>1. PICK h : h = s.history
  OBVIOUS
<1>2. PICK n : n = Len(s.calls)
  OBVIOUS
<1>3. PICK o : o = OrderOf(s)
  OBVIOUS
<1>4. n \in Nat /\ DOMAIN s.calls = 1 .. n
  BY <1>2, SeqFacts DEF StackOK
<1>5. o = [i \in 1 .. n |-> h[s.calls[i].entry].id]
  BY <1>1, <1>3, <1>4, Zenon DEF OrderOf
<1>6. IsSeq(o) /\ Len(o) = n
  <2>1. DOMAIN o = 1 .. n /\ o = [i \in 1 .. n |-> o[i]]
    BY <1>5
  <2>2. QED
    BY <1>4, <2>1, FunctionSeq
<1>7. ASSUME NEW i \in 0 .. n PROVE Done(s, i) = {o[j] : j \in 1 .. i}
  <2>1. \A j \in 1 .. i : j \in 1 .. n
    BY <1>4
  <2>2. \A j \in 1 .. i : o[j] = s.history[s.calls[j].entry].id
    BY <1>1, <1>5, <2>1, Zenon
  <2>3. QED
    BY <2>2 DEF Done
<1>8. PICK key \in Key : \A k \in DOMAIN h : h[k].key = key
  BY <1>1 DEF IsPart
<1>9. ASSUME NEW i \in 1 .. n
      PROVE  /\ o[i] \in Ids(h) /\ CallOf(h, o[i]) = s.calls[i].entry
             /\ h[CallOf(h, o[i])].key = key /\ o[i] \notin Done(s, i - 1)
  <2>1. /\ s.calls[i].entry \in DOMAIN h /\ h[s.calls[i].entry].kind = "call"
        /\ h[s.calls[i].entry].id \notin Done(s, i - 1)
    BY <1>1, <1>4, Zenon DEF StackOK
  <2>2. o[i] = h[s.calls[i].entry].id
    BY <1>5, Zenon
  <2>3. IsHistory(h)
    BY <1>1 DEF IsPart
  <2>4. o[i] \in Ids(h) /\ CallOf(h, o[i]) = s.calls[i].entry
    <3>1. PICK c : c = s.calls[i].entry
      OBVIOUS
    <3>2. c \in DOMAIN h /\ h[c].kind = "call"
      BY <2>1, <3>1, Zenon
    <3>3. h[c].id \in Ids(h) /\ c = CallOf(h, h[c].id)
      BY <2>3, <3>2, Matched, Zenon
    <3>4. QED
      BY <2>2, <3>1, <3>3, Zenon
  <2>5. QED
    BY <1>8, <2>1, <2>2, <2>4, Zenon
<1>10. PICK a : a = StateAfter(h, o)
  OBVIOUS
<1>11. \A i \in 0 .. n : a[i][key] = StateAt(s, i)
  <2> DEFINE T == {m \in Nat : m <= n => a[m][key] = StateAt(s, m)}
  <2>1. 0 \in T
    <3>1. a[0] = [q \in Key |-> Empty]
      BY <1>6, <1>10, StateAfterFacts
    <3>2. a[0][key] = Empty
      BY <3>1
    <3>3. QED
      BY <3>2 DEF LegalOK
  <2>2. ASSUME NEW m \in Nat, m \in T PROVE m + 1 \in T
    <3>1. SUFFICES ASSUME m + 1 <= n PROVE a[m + 1][key] = StateAt(s, m + 1)
      OBVIOUS
    <3>2. PICK j : j = m + 1
      OBVIOUS
    <3>3. j \in 1 .. n /\ j - 1 = m /\ m <= n
      BY <1>4, <3>1, <3>2
    <3>4. a[m][key] = StateAt(s, m)
      BY <2>2, <3>3
    <3>5. h[CallOf(h, o[j])].key = key /\ CallOf(h, o[j]) = s.calls[j].entry
      BY <1>9, <3>3, Zenon
    <3>6. a[j][key] = StepState(a[m][key], h[CallOf(h, o[j])].op)
      <4>1. a[j][key] = IF key = h[CallOf(h, o[j])].key
                        THEN StepState(a[j - 1][key], h[CallOf(h, o[j])].op) ELSE a[j - 1][key]
        <5>1. j \in 1 .. Len(o)
          BY <1>6, <3>3, Zenon
        <5>2. StateAfter(h, o)[j][key] =
                IF key = h[CallOf(h, o[j])].key
                THEN StepState(StateAfter(h, o)[j - 1][key], h[CallOf(h, o[j])].op)
                ELSE StateAfter(h, o)[j - 1][key]
          BY <1>6, <5>1, StateAfterFacts
        <5>3. QED
          BY <1>10, <5>2, Zenon
      <4>2. QED
        BY <3>3, <3>5, <4>1, Zenon
    <3>7. StateAt(s, j) = StepState(StateAt(s, j - 1), h[s.calls[j].entry].op)
      BY <1>1, <1>4, <3>3, Zenon DEF LegalOK
    <3>8. QED
      BY <3>2, <3>3, <3>4, <3>5, <3>6, <3>7, Zenon
  <2>3. \A m \in Nat : m \in T
    <3> HIDE DEF T
    <3>1. QED
      BY <2>1, <2>2, NatSetInduction
  <2>4. QED
    BY <1>4, <2>3
<1>12. ASSUME NEW i \in 1 .. n PROVE NextOk(h, o, i)
  <2>1. i - 1 \in 0 .. n
    BY <1>4
  <2>2. PICK D : D = {o[j] : j \in 1 .. i - 1}
    OBVIOUS
  <2>3. Done(s, i - 1) = D
    BY <1>7, <2>1, <2>2, Zenon
  <2>4. \A id : id \in D => \E j \in 1 .. i - 1 : o[j] = id
    BY <2>2
  <2>5. \A j \in 1 .. i - 1 : o[j] \in D
    BY <2>2
  <2>6. \A j \in 1 .. i - 1 : o[j] # o[i]
    BY <1>9, <2>3, <2>5, Zenon
  <2>7. StepOk(StateAt(s, i - 1), h[s.calls[i].entry].op)
    BY <1>1, <1>4, Zenon DEF LegalOK
  <2>8. StepOk(a[i - 1][h[CallOf(h, o[i])].key], h[CallOf(h, o[i])].op)
    BY <1>9, <1>11, <2>1, <2>7, Zenon
  <2>9. \A id \in Ids(h) : ReturnOf(h, id) < CallOf(h, o[i]) => \E j \in 1 .. i - 1 : o[j] = id
    BY <1>1, <1>4, <1>9, <2>3, <2>4, Zenon DEF LegalOK
  <2>10. QED
    BY <1>10, <2>6, <2>8, <2>9, Zenon DEF NextOk
<1>13. LegalPrefix(h, o)
  BY <1>6, <1>12, LegalNext, Zenon
<1>14. \A i \in 0 .. Len(s.calls) : Done(s, i) = {OrderOf(s)[j] : j \in 1 .. i}
  BY <1>2, <1>3, <1>7
<1>15. QED
  BY <1>1, <1>2, <1>3, <1>6, <1>13, <1>14, Zenon

-----------------------------------------------------------------------------
(* backtrack and the end of a search.                                      *)

\* How many different operations the first n of an order are.
LEMMA ImageFacts ==
    ASSUME NEW n \in Nat, NEW q, NEW R, R = {q[j] : j \in 1 .. n}
    PROVE  /\ IsFiniteSet(R) /\ Cardinality(R) \in Nat /\ Cardinality(R) <= n
           /\ (\A i, j \in 1 .. n : i < j => q[i] # q[j]) => Cardinality(R) = n
<1>1. PICK D : D = 1 .. n
  OBVIOUS
<1>2. IsFiniteSet(D) /\ Cardinality(D) = n
  BY <1>1, FS_Interval
<1>3. PICK f : f = [j \in D |-> q[j]]
  OBVIOUS
<1>4. f \in Surjection(D, R)
  BY <1>1, <1>3 DEF Surjection
<1>5. /\ IsFiniteSet(R) /\ Cardinality(R) <= n
      /\ f \in Injection(D, R) => Cardinality(R) = n
  BY <1>2, <1>4, FS_Surjection
<1>6. Cardinality(R) \in Nat
  BY <1>5, FS_CardinalityType
<1>7. ASSUME \A i, j \in 1 .. n : i < j => q[i] # q[j] PROVE f \in Injection(D, R)
  <2>1. \A i, j \in D : i # j => i < j \/ j < i
    BY <1>1
  <2>2. \A i, j \in D : q[i] = q[j] => i = j
    BY <1>1, <1>7, <2>1, Zenon
  <2>3. \A i, j \in D : f[i] = f[j] => i = j
    BY <1>3, <2>2
  <2>4. f \in [D -> R]
    BY <1>1, <1>3
  <2>5. QED
    BY <2>3, <2>4 DEF Injection, IsInjective
<1>8. QED
  BY <1>5, <1>6, <1>7

\* The entry after one that is not the last.
LEMMA AfterEntry ==
    ASSUME NEW list, NEW P, NEW n \in Nat, P \in SUBSET (0 .. n), Linked(list, P),
           NEW k \in P, NEW m \in P, k < m
    PROVE  list.next[k] \in P \ {0} /\ \A q \in P : q < list.next[k] => q <= k
<1>1. \A q \in P : q \in Nat
  OBVIOUS
<1>2. NextOf(list, k, P)
  BY DEF Linked
<1>3. k \in Nat /\ m \in Nat
  BY <1>1
<1>4. ~ (m <= k)
  BY <1>3
<1>5. PICK x : x = list.next[k]
  OBVIOUS
<1>6. x \in P /\ x > k /\ \A p \in P : p > k => x <= p
  BY <1>2, <1>4, <1>5, Zenon DEF NextOf
<1>7. x \in Nat
  BY <1>1, <1>6
<1>8. x # 0 /\ \A q \in P : q < x => q <= k
  BY <1>1, <1>3, <1>6, <1>7
<1>9. QED
  BY <1>5, <1>6, <1>8, Zenon

\* A search with a return under consideration is through with where it is.
LEMMA ReturnCloses ==
    ASSUME NEW s, IsPart(s.history), StackOK(s), ListOK(s), EntryOK(s), TriedOK(s),
           Considers(s, "return")
    PROVE  /\ Done(s, Len(s.calls)) # Ids(s.history)
           /\ \A id \in Ids(s.history) :
                 Follows(s.history, Config(s, Len(s.calls)), id) =>
                    Successor(s.history, Config(s, Len(s.calls)), id) \in Known(s)
<1>0. s.st = "run" /\ s.list.next[0] # Nil /\ s.history[s.entry].kind = "return"
  BY DEF Considers
<1>1. PICK h : h = s.history
  OBVIOUS
<1>2. PICK n : n = Len(s.calls)
  OBVIOUS
<1>3. PICK k : k = s.entry
  OBVIOUS
<1>4. PICK r : r = h[k].id
  OBVIOUS
<1>5. IsHistory(h)
  BY <1>1 DEF IsPart
<1>6. /\ k \in Pending(h, Done(s, n)) \ {0} /\ k \in DOMAIN h
      /\ r \notin Done(s, n) /\ r \in Ids(h)
  BY <1>0, <1>1, <1>2, <1>3, <1>4, EntryPending, Zenon
<1>7. h[k].kind = "return" /\ k = ReturnOf(h, r)
  <2>1. h[k].kind = "return"
    BY <1>0, <1>1, <1>3, Zenon
  <2>2. QED
    BY <1>4, <1>5, <1>6, <2>1, Matched, Zenon
<1>8. n \in 0 .. n /\ n \in Nat /\ ~ (n < n)
  BY <1>2, SeqFacts DEF StackOK
<1>9. /\ Config(s, n)[1] = Done(s, n) /\ Config(s, n)[2] = StateAt(s, n)
      /\ FrontierAt(s, n) = k
  <2>1. Config(s, n)[1] = Done(s, n) /\ Config(s, n)[2] = StateAt(s, n)
    BY DEF Config
  <2>2. FrontierAt(s, n) = k
    BY <1>2, <1>3, <1>8, Zenon DEF FrontierAt
  <2>3. QED
    BY <2>1, <2>2
<1>10. ASSUME NEW id \in Ids(h), Follows(h, Config(s, n), id)
       PROVE  Successor(h, Config(s, n), id) \in Known(s)
  <2>1. /\ id \notin Done(s, n) /\ StepOk(StateAt(s, n), h[CallOf(h, id)].op)
        /\ \A i \in Ids(h) : ReturnOf(h, i) < CallOf(h, id) => i \in Done(s, n)
    BY <1>9, <1>10, Zenon DEF Follows
  <2>2. PICK c : c = CallOf(h, id)
    OBVIOUS
  <2>3. c \in DOMAIN h /\ h[c].id = id /\ h[c].kind = "call"
    BY <1>5, <2>2, CallIs, Zenon
  <2>4. c \in Pending(h, Done(s, n)) \ {0}
    BY <1>5, <2>1, <2>2, PendingFacts, Zenon
  <2>5. c # k
    <3>1. "call" # "return"
      OBVIOUS
    <3>2. QED
      BY <1>7, <2>3, <3>1, Zenon
  <2>6. ~ (k < c)
    BY <1>6, <1>7, <2>1, <2>2, Zenon
  <2>7. c < k
    <3>1. c \in Nat /\ k \in Nat
      <4>1. DOMAIN h = 1 .. Len(h) /\ Len(h) \in Nat
        BY <1>5, Matched, Zenon
      <4>2. QED
        BY <1>6, <2>3, <4>1
    <3>2. QED
      BY <2>5, <2>6, <3>1
  <2>8. StepOk(StateAt(s, n), h[c].op) => Successor(h, Config(s, n), h[c].id) \in Known(s)
    BY <1>1, <1>2, <1>8, <1>9, <2>4, <2>7, Zenon DEF TriedOK
  <2>9. QED
    BY <2>1, <2>2, <2>3, <2>8, Zenon
<1>11. QED
  BY <1>1, <1>2, <1>6, <1>10, Zenon

\* The search after backtrack.
BacktrackTo(s, v) ==
    LET top == s.calls[Len(s.calls)]
        id == s.history[top.entry].id
        list == unlift(s.list, top.entry, ReturnOf(s.history, id))
    IN  [s EXCEPT !.longest =
                     [i \in DOMAIN @ |->
                        IF v /\ i \in Range(OrderOf(s)) /\ Len(s.calls) > Len(@[i])
                        THEN OrderOf(s) ELSE @[i]],
                  !.state = top.state, !.linearized = bitClear(@, id),
                  !.calls = Front(@), !.list = list, !.entry = list.next[top.entry]]

\* backtrack keeps the invariant of its search.
LEMMA BacktrackKeeps ==
    ASSUME NEW s, NEW v, NEW kl, SearchInv(s, v, kl), Considers(s, "return"), s.calls # <<>>
    PROVE  SearchInv(BacktrackTo(s, v), v, kl)
<1>0. s.st = "run" /\ s.list.next[0] # Nil /\ s.history[s.entry].kind = "return"
  BY DEF Considers
<1>1. PICK h : h = s.history
  OBVIOUS
<1>2. PICK n : n = Len(s.calls)
  OBVIOUS
<1>3. PICK k : k = s.calls[n].entry
  OBVIOUS
<1>4. PICK id : id = h[k].id
  OBVIOUS
<1>5. PICK m : m = ReturnOf(h, id)
  OBVIOUS
<1>6. PICK j : j = n - 1
  OBVIOUS
<1>7. PICK Q : Q = Pending(h, Done(s, j))
  OBVIOUS
<1>8. PICK o : o = OrderOf(s)
  OBVIOUS
<1>9. PICK lst : lst = unlift(s.list, k, m)
  OBVIOUS
<1>10. PICK lon : lon = [i \in DOMAIN s.longest |->
                           IF v /\ i \in Range(o) /\ n > Len(s.longest[i]) THEN o ELSE s.longest[i]]
  OBVIOUS
<1>11. PICK s2 : s2 = BacktrackTo(s, v)
  OBVIOUS
<1>12. s2 = [s EXCEPT !.longest = lon, !.state = s.calls[n].state,
                      !.linearized = bitClear(@, id), !.calls = Front(@),
                      !.list = lst, !.entry = lst.next[k]]
  BY <1>1, <1>2, <1>3, <1>4, <1>5, <1>8, <1>9, <1>10, <1>11, ZenonT(60) DEF BacktrackTo
<1>13. /\ s2.st = s.st /\ s2.history = s.history /\ s2.list = lst /\ s2.entry = lst.next[k]
       /\ s2.state = s.calls[n].state /\ s2.linearized = bitClear(s.linearized, id)
       /\ s2.cache = s.cache /\ s2.calls = Front(s.calls) /\ s2.longest = lon
       /\ IsSearch(s2)
  BY <1>12 DEF SearchInv, IsSearch
<1>14. /\ IsPart(h) /\ IsHistory(h) /\ StackOK(s) /\ BitsOK(s) /\ ListOK(s) /\ EntryOK(s)
       /\ LegalOK(s) /\ TriedOK(s) /\ ClosedOK(s, v, kl) /\ LongestOK(s) /\ TrueOK(s)
  BY <1>1, Zenon DEF SearchInv, IsPart
<1>15. IsSeq(s.calls) /\ DOMAIN s.calls = 1 .. n
  BY <1>2, <1>14, SeqFacts DEF StackOK
<1>16. /\ IsSeq(s2.calls) /\ n \in Nat \ {0} /\ Len(s2.calls) = j
       /\ \A i \in 1 .. j : s2.calls[i] = s.calls[i]
       /\ \A i \in 0 .. j : Done(s2, i) = Done(s, i) /\ StateAt(s2, i) = StateAt(s, i)
       /\ \A i \in 0 .. n - 2 : FrontierAt(s2, i) = FrontierAt(s, i)
       /\ FrontierAt(s2, j) = lst.next[k] /\ FrontierAt(s, j) = k
       /\ Done(s, n) = Done(s, j) \cup {id}
       /\ StateAt(s, n) = s.state /\ FrontierAt(s, n) = s.entry
  <2>1. s2.state = s.calls[Len(s.calls)].state
    BY <1>2, <1>13, Zenon
  <2>2. /\ IsSeq(s2.calls) /\ Len(s.calls) \in Nat \ {0} /\ Len(s2.calls) = Len(s.calls) - 1
        /\ \A i \in 1 .. Len(s.calls) - 1 : s2.calls[i] = s.calls[i]
        /\ \A i \in 0 .. Len(s.calls) - 1 : /\ Done(s2, i) = Done(s, i)
                                            /\ StateAt(s2, i) = StateAt(s, i)
        /\ \A i \in 0 .. Len(s.calls) - 2 : FrontierAt(s2, i) = FrontierAt(s, i)
        /\ FrontierAt(s2, Len(s.calls) - 1) = s2.entry
        /\ FrontierAt(s, Len(s.calls) - 1) = s.calls[Len(s.calls)].entry
        /\ Done(s, Len(s.calls)) =
              Done(s, Len(s.calls) - 1) \cup {s.history[s.calls[Len(s.calls)].entry].id}
        /\ StateAt(s, Len(s.calls)) = s.state
        /\ FrontierAt(s, Len(s.calls)) = s.entry
    BY <1>13, <1>15, <2>1, PopFacts
  <2>3. QED
    BY <1>1, <1>2, <1>3, <1>4, <1>6, <1>13, <2>2, Zenon
<1>17. /\ j \in Nat /\ n \in Nat /\ n = j + 1 /\ j \in 0 .. j /\ n \in 1 .. n /\ n \in 0 .. n /\ j \in 0 .. n
       /\ \A i \in 1 .. j : i \in 1 .. n /\ i - 1 \in 0 .. j /\ i \in 0 .. j
       /\ \A i \in 0 .. j : i \in 0 .. n /\ (i = j \/ i \in 0 .. n - 2)
       /\ \A i \in 0 .. n : i = n \/ i \in 0 .. j
  BY <1>6, <1>16
<1>18. DOMAIN s2.calls = 1 .. j
  BY <1>16, SeqFacts
<1>19. /\ k \in DOMAIN h /\ h[k].kind = "call" /\ id \notin Done(s, j) /\ id \in Ids(h)
       /\ k = CallOf(h, id) /\ k < m
  <2>1. k \in DOMAIN h /\ h[k].kind = "call" /\ id \notin Done(s, n - 1)
    BY <1>1, <1>3, <1>4, <1>14, <1>15, <1>17, Zenon DEF StackOK
  <2>2. id \in Ids(h) /\ k = CallOf(h, id)
    BY <1>4, <1>14, <2>1, Matched, Zenon
  <2>3. CallOf(h, id) < ReturnOf(h, id)
    BY <1>14, <2>2, CallIs, Zenon
  <2>4. QED
    BY <1>5, <1>6, <2>1, <2>2, <2>3, Zenon
<1>20. StackOK(s2)
  <2>1. ASSUME NEW i \in DOMAIN s2.calls
        PROVE  /\ s2.calls[i].entry \in DOMAIN s2.history
               /\ s2.history[s2.calls[i].entry].kind = "call"
               /\ s2.history[s2.calls[i].entry].id \notin Done(s2, i - 1)
    <3>1. i \in 1 .. j /\ i \in DOMAIN s.calls
      BY <1>15, <1>17, <1>18, Zenon
    <3>2. s2.calls[i] = s.calls[i] /\ Done(s2, i - 1) = Done(s, i - 1)
      BY <1>16, <1>17, <3>1, Zenon
    <3>3. QED
      BY <1>13, <1>14, <3>1, <3>2, Zenon DEF StackOK
  <2>2. QED
    BY <1>16, <2>1, Zenon DEF StackOK
<1>21. BitsOK(s2)
  <2>1. PICK N : N = Cardinality(Ids(h))
    OBVIOUS
  <2>2. N \in Nat /\ Ids(h) = 0 .. N - 1
    BY <1>14, <2>1, FS_CardinalityType DEF IsPart
  <2>3. PICK b : b = s.linearized
    OBVIOUS
  <2>4. IsBitset(b, N) /\ Content(h, b) = Done(s, n) /\ \A c \in s.cache : IsBitset(c[1], N)
    BY <1>1, <1>2, <1>14, <2>1, <2>3, Zenon DEF BitsOK
  <2>5. PICK b2 : b2 = bitClear(b, id)
    OBVIOUS
  <2>6. IsBitset(b2, N) /\ \A q \in Ids(h) : get(b2, q) <=> q # id /\ get(b, q)
    BY <1>19, <2>2, <2>4, <2>5, BitFacts
  <2>7. Content(h, b2) = Content(h, b) \ {id}
    BY <2>6 DEF Content
  <2>8. Content(h, b2) = Done(s, j)
    BY <1>16, <1>19, <2>4, <2>7
  <2>9. QED
    BY <1>1, <1>13, <1>16, <1>17, <2>1, <2>3, <2>4, <2>5, <2>6, <2>8, Zenon DEF BitsOK
<1>22. /\ Q \in SUBSET (0 .. Len(h)) /\ 0 \in Q /\ Len(h) \in Nat
       /\ k \in Q \ {0} /\ m \in Q \ {0}
       /\ Pending(h, Done(s, n)) = (Q \ {k}) \ {m}
       /\ \A q \in Done(s, j) \cap Ids(h) : /\ CallOf(h, q) \in (0 .. Len(h)) \ Q
                                            /\ ReturnOf(h, q) \in (0 .. Len(h)) \ Q
  <2>1. Len(h) \in Nat
    BY <1>14, Matched, Zenon
  <2>2. /\ Q \in SUBSET (0 .. Len(h)) /\ 0 \in Q
        /\ k \in Q \ {0} /\ m \in Q \ {0}
        /\ Pending(h, Done(s, j) \cup {id}) = (Q \ {k}) \ {m}
    BY <1>5, <1>7, <1>14, <1>19, PendingFacts, ZenonT(60)
  <2>3. \A q \in Done(s, j) \cap Ids(h) : /\ CallOf(h, q) \in (0 .. Len(h)) \ Q
                                          /\ ReturnOf(h, q) \in (0 .. Len(h)) \ Q
    BY <1>7, <1>14, PendingFacts, Zenon
  <2>4. QED
    BY <1>16, <2>1, <2>2, <2>3, Zenon
<1>23. /\ IsList(s.list, Len(h)) /\ Linked(s.list, (Q \ {k}) \ {m})
       /\ Fits(s.list, k, Q \ {k}) /\ Fits(s.list, m, (Q \ {k}) \ {m})
  <2>1. IsList(s.list, Len(h)) /\ Linked(s.list, Pending(h, Done(s, n)))
    BY <1>1, <1>2, <1>14, Zenon DEF ListOK
  <2>2. Fits(s.list, k, Q \ {k}) /\ Fits(s.list, m, (Q \ {k}) \ {m})
    BY <1>1, <1>3, <1>4, <1>5, <1>6, <1>7, <1>14, <1>15, <1>17, Zenon DEF ListOK
  <2>3. QED
    BY <1>22, <2>1, <2>2, Zenon
<1>24. /\ IsList(lst, Len(h)) /\ Linked(lst, Q)
       /\ \A q \in (0 .. Len(h)) \ Q : lst.next[q] = s.list.next[q] /\ lst.prev[q] = s.list.prev[q]
  <2>1. PICK list : list = s.list
    OBVIOUS
  <2>2. PICK L : L = Len(h)
    OBVIOUS
  <2>3. /\ L \in Nat /\ IsList(list, L) /\ Q \in SUBSET (0 .. L) /\ 0 \in Q
        /\ k \in Q \ {0} /\ m \in Q \ {0} /\ k < m
        /\ Linked(list, (Q \ {k}) \ {m})
        /\ Fits(list, k, Q \ {k}) /\ Fits(list, m, (Q \ {k}) \ {m})
    BY <1>19, <1>22, <1>23, <2>1, <2>2, Zenon
  <2>4. /\ IsList(unlift(list, k, m), L) /\ Linked(unlift(list, k, m), Q)
        /\ \A q \in (0 .. L) \ Q : /\ unlift(list, k, m).next[q] = list.next[q]
                                  /\ unlift(list, k, m).prev[q] = list.prev[q]
    BY <2>3, UnliftFacts
  <2>5. QED
    BY <1>9, <2>1, <2>2, <2>4, Zenon
<1>25. ListOK(s2)
  <2>1. ASSUME NEW i \in DOMAIN s2.calls
        PROVE  LET k2 == s2.calls[i].entry
                   m2 == ReturnOf(s2.history, s2.history[k2].id)
                   P2 == Pending(s2.history, Done(s2, i - 1))
               IN  Fits(s2.list, k2, P2 \ {k2}) /\ Fits(s2.list, m2, (P2 \ {k2}) \ {m2})
    <3>1. i \in 1 .. j /\ i \in DOMAIN s.calls
      BY <1>15, <1>17, <1>18, Zenon
    <3>2. PICK k2 : k2 = s.calls[i].entry
      OBVIOUS
    <3>3. PICK q : q = h[k2].id
      OBVIOUS
    <3>4. PICK m2 : m2 = ReturnOf(h, q)
      OBVIOUS
    <3>5. PICK P2 : P2 = Pending(h, Done(s, i - 1))
      OBVIOUS
    <3>6. Fits(s.list, k2, P2 \ {k2}) /\ Fits(s.list, m2, (P2 \ {k2}) \ {m2})
      BY <1>1, <1>14, <3>1, <3>2, <3>3, <3>4, <3>5, Zenon DEF ListOK
    <3>7. k2 \in DOMAIN h /\ h[k2].kind = "call"
      BY <1>1, <1>14, <3>1, <3>2, Zenon DEF StackOK
    <3>8. q \in Done(s, j) \cap Ids(h)
      BY <1>1, <3>1, <3>2, <3>3, <3>7 DEF Done, Ids
    <3>9. k2 = CallOf(h, q)
      BY <1>14, <3>3, <3>7, Matched, Zenon
    <3>10. k2 \in (0 .. Len(h)) \ Q /\ m2 \in (0 .. Len(h)) \ Q
      BY <1>22, <3>4, <3>8, <3>9, Zenon
    <3>11. /\ lst.next[k2] = s.list.next[k2] /\ lst.prev[k2] = s.list.prev[k2]
           /\ lst.next[m2] = s.list.next[m2] /\ lst.prev[m2] = s.list.prev[m2]
      BY <1>24, <3>10, Zenon
    <3>12. Fits(lst, k2, P2 \ {k2}) /\ Fits(lst, m2, (P2 \ {k2}) \ {m2})
      BY <3>6, <3>11, FitsSame, Zenon
    <3>13. s2.calls[i] = s.calls[i] /\ Done(s2, i - 1) = Done(s, i - 1)
      BY <1>16, <1>17, <3>1, Zenon
    <3>14. QED
      BY <1>1, <1>13, <3>2, <3>3, <3>4, <3>5, <3>12, <3>13, Zenon
  <2>2. Linked(lst, Pending(h, Done(s2, j)))
    BY <1>7, <1>16, <1>17, <1>24, Zenon
  <2>3. QED
    BY <1>1, <1>13, <1>16, <1>24, <2>1, <2>2, Zenon DEF ListOK
<1>26. lst.next[k] \in Q \ {0} /\ \A q \in Q : q < lst.next[k] => q <= k
  <2>1. k \in Q /\ m \in Q
    BY <1>22
  <2>2. QED
    BY <1>19, <1>22, <1>24, <2>1, AfterEntry
<1>27. EntryOK(s2)
  BY <1>1, <1>7, <1>13, <1>16, <1>17, <1>26, Zenon DEF EntryOK
<1>28. LegalOK(s2)
  <2>1. StateAt(s2, 0) = Empty
    BY <1>14, <1>16, <1>17 DEF LegalOK
  <2>2. ASSUME NEW i \in DOMAIN s2.calls
        PROVE  LET e == s2.history[s2.calls[i].entry]
               IN  /\ StepOk(StateAt(s2, i - 1), e.op)
                   /\ StateAt(s2, i) = StepState(StateAt(s2, i - 1), e.op)
                   /\ \A q \in Ids(s2.history) :
                         ReturnOf(s2.history, q) < s2.calls[i].entry => q \in Done(s2, i - 1)
    <3>1. i \in 1 .. j /\ i \in DOMAIN s.calls
      BY <1>15, <1>17, <1>18, Zenon
    <3>2. /\ s2.calls[i] = s.calls[i] /\ Done(s2, i - 1) = Done(s, i - 1)
          /\ StateAt(s2, i - 1) = StateAt(s, i - 1) /\ StateAt(s2, i) = StateAt(s, i)
      BY <1>16, <1>17, <3>1, Zenon
    <3>3. QED
      BY <1>13, <1>14, <3>1, <3>2, Zenon DEF LegalOK
  <2>3. QED
    BY <2>1, <2>2, Zenon DEF LegalOK
<1>29. Known(s2) = Known(s)
  BY <1>13, SameKnowledge, Zenon
<1>30. \A i \in 0 .. j : Config(s2, i) = Config(s, i)
  BY <1>16, Zenon DEF Config
<1>31. Config(s, n) = Successor(h, Config(s, j), id) /\ Config(s, n) \in Known(s)
  <2>1. StateAt(s, n) = StepState(StateAt(s, j), h[k].op)
    BY <1>1, <1>3, <1>6, <1>14, <1>15, <1>17, Zenon DEF LegalOK
  <2>2. Config(s, j)[1] = Done(s, j) /\ Config(s, j)[2] = StateAt(s, j)
    BY DEF Config
  <2>3. Config(s, n) = <<Done(s, j) \cup {id}, StepState(StateAt(s, j), h[k].op)>>
    BY <1>16, <2>1, Zenon DEF Config
  <2>4. Config(s, n) \in Known(s)
    BY <1>2, <1>14, <1>17, Zenon DEF TriedOK
  <2>5. QED
    BY <1>19, <2>2, <2>3, <2>4, Zenon DEF Successor
<1>32. TriedOK(s2)
  <2>1. ASSUME NEW i \in 0 .. j
        PROVE  /\ Config(s2, i) \in Known(s2)
               /\ \A q \in Pending(s2.history, Done(s2, i)) \ {0} :
                     q < FrontierAt(s2, i) =>
                        /\ s2.history[q].kind = "call"
                        /\ StepOk(StateAt(s2, i), s2.history[q].op) =>
                              Successor(s2.history, Config(s2, i), s2.history[q].id) \in Known(s2)
    <3>0. /\ Config(s2, i) = Config(s, i) /\ Done(s2, i) = Done(s, i)
          /\ StateAt(s2, i) = StateAt(s, i) /\ i \in 0 .. n
      BY <1>16, <1>17, <1>30, Zenon
    <3>1. CASE i \in 0 .. n - 2
      <4>1. FrontierAt(s2, i) = FrontierAt(s, i)
        BY <1>16, <3>1, Zenon
      <4>2. QED
        BY <1>2, <1>13, <1>14, <1>29, <3>0, <4>1, Zenon DEF TriedOK
    <3>2. CASE i = j
      <4>1. Config(s, j) \in Known(s)
        BY <1>2, <1>14, <1>17, Zenon DEF TriedOK
      <4>2. ASSUME NEW q \in Q \ {0}, q < lst.next[k]
            PROVE  /\ h[q].kind = "call"
                   /\ StepOk(StateAt(s, j), h[q].op) => Successor(h, Config(s, j), h[q].id) \in Known(s)
        <5>1. CASE q = k
          BY <1>4, <1>19, <1>31, <5>1, Zenon
        <5>2. CASE q # k
          <6>1. q <= k
            BY <1>26, <4>2, Zenon
          <6>2. q \in Nat /\ k \in Nat
            BY <1>22
          <6>3. q < k
            BY <5>2, <6>1, <6>2
          <6>4. QED
            BY <1>1, <1>2, <1>7, <1>14, <1>16, <1>17, <6>3, Zenon DEF TriedOK
        <5>3. QED
          BY <5>1, <5>2
      <4>3. QED
        BY <1>1, <1>7, <1>13, <1>16, <1>29, <3>0, <3>2, <4>1, <4>2, ZenonT(60)
    <3>3. QED
      BY <1>17, <3>1, <3>2, Zenon
  <2>2. QED
    BY <1>16, <2>1, Zenon DEF TriedOK
<1>33. /\ IsSeq(o) /\ Len(o) = n /\ LegalPrefix(h, o)
       /\ \A q : q \in Done(s, n) <=> q \in Range(o)
  <2>1. /\ IsSeq(o) /\ Len(o) = n /\ LegalPrefix(h, o)
        /\ Done(s, n) = {o[i] : i \in 1 .. n}
    <3>1. /\ IsSeq(OrderOf(s)) /\ Len(OrderOf(s)) = Len(s.calls)
          /\ \A i \in 0 .. Len(s.calls) : Done(s, i) = {OrderOf(s)[x] : x \in 1 .. i}
          /\ LegalPrefix(s.history, OrderOf(s))
      BY <1>1, <1>14, OrderLegal
    <3>2. IsSeq(o) /\ Len(o) = n /\ LegalPrefix(h, o)
      BY <1>1, <1>2, <1>8, <3>1, Zenon
    <3>3. Done(s, n) = {OrderOf(s)[x] : x \in 1 .. n}
      BY <1>2, <1>17, <3>1, Zenon
    <3>4. QED
      BY <1>8, <3>2, <3>3
  <2>2. DOMAIN o = 1 .. n
    BY <2>1, SeqFacts
  <2>3. QED
    BY <2>1, <2>2 DEF Range
<1>34. DOMAIN lon = Ids(h) /\ \A q \in Ids(h) :
          lon[q] = IF v /\ q \in Range(o) /\ n > Len(s.longest[q]) THEN o ELSE s.longest[q]
  <2>1. DOMAIN s.longest = Ids(h)
    BY <1>1, <1>14 DEF LongestOK
  <2>2. QED
    BY <1>10, <2>1, Zenon
<1>35. \A q \in Ids(h) : /\ IsSeq(s.longest[q])
                         /\ s.longest[q] # <<>> => /\ LegalPrefix(h, s.longest[q])
                                                   /\ \A i \in DOMAIN s.longest[q] : s.longest[q][i] \in Ids(h)
                                                   /\ \E i \in DOMAIN s.longest[q] : s.longest[q][i] = q
  BY <1>1, <1>14 DEF LongestOK
<1>36. LongestOK(s2)
  <2>1. ASSUME NEW q \in Ids(h)
        PROVE  /\ IsSeq(lon[q])
               /\ lon[q] # <<>> => /\ LegalPrefix(h, lon[q])
                                   /\ \A i \in DOMAIN lon[q] : lon[q][i] \in Ids(h)
                                   /\ \E i \in DOMAIN lon[q] : lon[q][i] = q
    <3>1. CASE lon[q] = o /\ q \in Range(o)
      <4>1. \E i \in DOMAIN o : o[i] = q
        BY <3>1 DEF Range
      <4>2. \A i \in DOMAIN o : o[i] \in Ids(h)
        <5>1. Done(s, n) \subseteq Ids(h)
          BY <1>1, <1>2, <1>14, <1>17, DoneIds
        <5>2. QED
          BY <1>33, <5>1 DEF Range
      <4>3. QED
        BY <1>33, <3>1, <4>1, <4>2, Zenon
    <3>2. CASE lon[q] = s.longest[q]
      BY <1>35, <3>2, Zenon
    <3>3. QED
      BY <1>34, <3>1, <3>2, Zenon
  <2>2. QED
    BY <1>1, <1>13, <1>34, <2>1, Zenon DEF LongestOK
<1>37. ASSUME NEW q \in Ids(h)
       PROVE  /\ Len(s.longest[q]) \in Nat /\ Len(lon[q]) \in Nat
              /\ Len(s.longest[q]) <= Len(lon[q])
              /\ v /\ q \in Done(s, n) => Len(lon[q]) >= n
  <2>1. PICK x : x = Len(s.longest[q])
    OBVIOUS
  <2>2. x \in Nat
    BY <1>35, <2>1, SeqFacts
  <2>3. CASE v /\ q \in Done(s, n) /\ n > x
    <3>1. Len(lon[q]) = n
      BY <1>33, <1>34, <2>1, <2>3, Zenon
    <3>2. QED
      BY <1>17, <2>1, <2>2, <2>3, <3>1
  <2>4. CASE ~ (v /\ q \in Done(s, n) /\ n > x)
    <3>1. Len(lon[q]) = x
      BY <1>33, <1>34, <2>1, <2>4, Zenon
    <3>2. v /\ q \in Done(s, n) => ~ (n > x)
      BY <2>4, Zenon
    <3>3. x <= x /\ (~ (n > x) => x >= n)
      BY <1>17, <2>2
    <3>4. QED
      BY <2>1, <2>2, <3>1, <3>2, <3>3, Zenon
  <2>5. QED
    BY <2>3, <2>4
<1>38. Closed(s2, Config(s, n), v)
  <2>1. Config(s, n)[1] = Done(s, n)
    BY DEF Config
  <2>2. /\ Done(s, n) # Ids(h)
        /\ \A q \in Ids(h) : Follows(h, Config(s, n), q) => Successor(h, Config(s, n), q) \in Known(s2)
    BY <1>1, <1>2, <1>14, <1>29, ReturnCloses, Zenon
  <2>3. ASSUME v, NEW q \in Done(s, n) PROVE Len(lon[q]) >= Cardinality(Done(s, n))
    <3>1. q \in Ids(h)
      BY <1>1, <1>2, <1>14, <1>17, DoneIds
    <3>2. Len(lon[q]) >= n /\ Len(lon[q]) \in Nat
      BY <1>37, <2>3, <3>1, Zenon
    <3>3. Cardinality(Done(s, n)) <= n /\ Cardinality(Done(s, n)) \in Nat
      <4>1. Done(s, n) = {o[i] : i \in 1 .. n}
        <5>1. DOMAIN o = 1 .. n
          BY <1>33, SeqFacts
        <5>2. QED
          BY <1>33, <5>1 DEF Range
      <4>2. PICK R : R = Done(s, n)
        OBVIOUS
      <4>3. R = {o[i] : i \in 1 .. n} /\ n \in Nat
        BY <1>17, <4>1, <4>2
      <4>4. Cardinality(R) \in Nat /\ Cardinality(R) <= n
        BY <4>3, ImageFacts
      <4>5. QED
        BY <4>2, <4>4, Zenon
    <3>4. QED
      BY <1>17, <3>2, <3>3
  <2>4. QED
    BY <1>1, <1>13, <2>1, <2>2, <2>3, Zenon DEF Closed
<1>39. ClosedOK(s2, v, kl)
  <2>1. ASSUME NEW c \in Known(s2)
        PROVE  Closed(s2, c, v) \/ \E i \in 0 .. j : c = Config(s2, i)
    <3>1. Closed(s, c, v) \/ \E i \in 0 .. n : c = Config(s, i)
      BY <1>0, <1>2, <1>14, <1>29, Zenon DEF ClosedOK
    <3>2. CASE Closed(s, c, v)
      <4>1. c[1] \subseteq Ids(s.history)
        BY <1>29, KnownIds, Zenon
      <4>2. /\ s2.history = s.history /\ IsFiniteSet(Ids(s.history))
            /\ Known(s) \subseteq Known(s2)
            /\ \A q \in Ids(s.history) : /\ Len(s.longest[q]) \in Nat
                                         /\ Len(s2.longest[q]) \in Nat
                                         /\ Len(s.longest[q]) <= Len(s2.longest[q])
        BY <1>1, <1>13, <1>14, <1>29, <1>37, Zenon DEF IsPart
      <4>3. QED
        BY <3>2, <4>1, <4>2, ClosedGrows, Zenon
    <3>3. CASE c = Config(s, n)
      BY <1>38, <3>3, Zenon
    <3>4. CASE \E i \in 0 .. j : c = Config(s, i)
      BY <1>30, <3>4, Zenon
    <3>5. QED
      BY <1>17, <3>1, <3>2, <3>3, <3>4, Zenon
  <2>2. s2.st # "false"
    BY <1>0, <1>13
  <2>3. QED
    BY <1>16, <2>1, <2>2, Zenon DEF ClosedOK
<1>40. TrueOK(s2)
  <2>1. s2.st # "true"
    BY <1>0, <1>13
  <2>2. QED
    BY <2>1, Zenon DEF TrueOK
<1>41. QED
  BY <1>0, <1>1, <1>11, <1>13, <1>14, <1>20, <1>21, <1>25, <1>27, <1>28, <1>32, <1>36, <1>39, <1>40, Zenon
     DEF SearchInv

\* The search after checkSingleReturn.
ReturnTo(s, ok) ==
    [s EXCEPT !.st = IF ok THEN "true" ELSE "false",
              !.longest = IF ok THEN [i \in DOMAIN @ |-> OrderOf(s)] ELSE @]

\* A search that returns true has ordered everything, legally.
LEMMA OrderedKeeps ==
    ASSUME NEW s, NEW v, NEW kl, SearchInv(s, v, kl), s.st = "run", s.list.next[0] = Nil
    PROVE  SearchInv(ReturnTo(s, TRUE), v, kl)
<1>1. PICK h : h = s.history
  OBVIOUS
<1>2. PICK n : n = Len(s.calls)
  OBVIOUS
<1>3. PICK o : o = OrderOf(s)
  OBVIOUS
<1>4. PICK s2 : s2 = ReturnTo(s, TRUE)
  OBVIOUS
<1>5. /\ s2.st = "true" /\ s2.history = s.history /\ s2.list = s.list /\ s2.entry = s.entry
      /\ s2.state = s.state /\ s2.linearized = s.linearized /\ s2.cache = s.cache
      /\ s2.calls = s.calls /\ IsSearch(s2)
  BY <1>3, <1>4 DEF SearchInv, IsSearch, ReturnTo
<1>50. s2.longest = [i \in DOMAIN s.longest |-> o]
  BY <1>3, <1>4 DEF SearchInv, IsSearch, ReturnTo
<1>6. /\ IsPart(h) /\ IsHistory(h) /\ StackOK(s) /\ BitsOK(s) /\ ListOK(s) /\ EntryOK(s)
      /\ LegalOK(s) /\ TriedOK(s) /\ ClosedOK(s, v, kl) /\ LongestOK(s) /\ TrueOK(s)
  BY <1>1, Zenon DEF SearchInv, IsPart
<1>7. /\ Known(s2) = Known(s) /\ OrderOf(s2) = o
      /\ \A i : /\ Done(s2, i) = Done(s, i) /\ StateAt(s2, i) = StateAt(s, i)
                /\ Config(s2, i) = Config(s, i) /\ FrontierAt(s2, i) = FrontierAt(s, i)
  <2>1. OrderOf(s2) = o /\ \A i : FrontierAt(s2, i) = FrontierAt(s, i)
    BY <1>3, <1>5, Zenon DEF OrderOf, FrontierAt
  <2>2. QED
    BY <1>5, <2>1, SameKnowledge, Zenon
<1>8. StackOK(s2) /\ BitsOK(s2) /\ ListOK(s2) /\ LegalOK(s2) /\ TriedOK(s2)
  <2>1. StackOK(s2)
    BY <1>5, <1>6, <1>7, Zenon DEF StackOK
  <2>2. BitsOK(s2)
    BY <1>5, <1>6, <1>7, Zenon DEF BitsOK
  <2>3. ListOK(s2)
    BY <1>5, <1>6, <1>7, Zenon DEF ListOK
  <2>4. LegalOK(s2)
    BY <1>5, <1>6, <1>7, Zenon DEF LegalOK
  <2>5. TriedOK(s2)
    BY <1>5, <1>6, <1>7, Zenon DEF TriedOK
  <2>6. QED
    BY <2>1, <2>2, <2>3, <2>4, <2>5
<1>9. EntryOK(s2) /\ ClosedOK(s2, v, kl)
  <2>1. s2.st # "run" /\ s2.st # "false"
    BY <1>5
  <2>2. QED
    BY <2>1, Zenon DEF EntryOK, ClosedOK
<1>10. n \in Nat /\ n \in 0 .. n
  BY <1>2, <1>6, SeqFacts DEF StackOK
<1>11. /\ IsSeq(o) /\ Len(o) = n /\ LegalPrefix(h, o)
       /\ Done(s, n) = {o[x] : x \in 1 .. n}
  <2>1. /\ IsSeq(OrderOf(s)) /\ Len(OrderOf(s)) = Len(s.calls)
        /\ \A i \in 0 .. Len(s.calls) : Done(s, i) = {OrderOf(s)[x] : x \in 1 .. i}
        /\ LegalPrefix(s.history, OrderOf(s))
    BY <1>1, <1>6, OrderLegal
  <2>2. IsSeq(o) /\ Len(o) = n /\ LegalPrefix(h, o)
    BY <1>1, <1>2, <1>3, <2>1, Zenon
  <2>3. Done(s, n) = {OrderOf(s)[x] : x \in 1 .. n}
    BY <1>2, <1>10, <2>1, Zenon
  <2>4. QED
    BY <1>3, <2>2, <2>3
<1>12. Done(s, n) = Ids(h)
  <2>1. PICK P : P = Pending(h, Done(s, n))
    OBVIOUS
  <2>2. P \in SUBSET (0 .. Len(h)) /\ 0 \in P
    BY <1>6, <2>1, PendingFacts, Zenon
  <2>3. Len(h) \in Nat
    BY <1>6, Matched, Zenon
  <2>4. Linked(s.list, P)
    BY <1>1, <1>2, <1>6, <2>1, Zenon DEF ListOK
  <2>5. s.list.next[0] \in P \ {0} \/ P = {0}
    <3>1. PICK list : list = s.list
      OBVIOUS
    <3>2. PICK L : L = Len(h)
      OBVIOUS
    <3>3. P \in SUBSET (0 .. L) /\ 0 \in P /\ L \in Nat /\ Linked(list, P)
      BY <2>2, <2>3, <2>4, <3>1, <3>2, Zenon
    <3>4. list.next[0] \in P \ {0} \/ (list.next[0] = Nil /\ P = {0})
      BY <3>3, HeadFacts
    <3>5. QED
      BY <3>1, <3>4, Zenon
  <2>6. P = {0}
    <3>1. -1 \notin P
      BY <2>2, <2>3
    <3>2. QED
      BY <2>5, <3>1 DEF Nil
  <2>7. ASSUME NEW id \in Ids(h) PROVE id \in Done(s, n)
    BY <1>6, <2>1, <2>6, PendingFacts, Zenon
  <2>8. Done(s, n) \subseteq Ids(h)
    BY <1>1, <1>2, <1>6, <1>10, DoneIds
  <2>9. QED
    BY <2>7, <2>8
<1>13. DOMAIN s2.longest = Ids(h) /\ \A id \in Ids(h) : s2.longest[id] = o
  <2>1. DOMAIN s.longest = Ids(h)
    BY <1>1, <1>6 DEF LongestOK
  <2>2. QED
    BY <1>50, <2>1
<1>14. \A id \in Ids(h) : \E i \in DOMAIN o : o[i] = id
  <2>1. DOMAIN o = 1 .. n
    BY <1>11, SeqFacts
  <2>2. QED
    BY <1>11, <1>12, <2>1
<1>15. LongestOK(s2)
  <2>1. ASSUME NEW id \in Ids(h)
        PROVE  /\ IsSeq(s2.longest[id])
               /\ s2.longest[id] # <<>> => /\ LegalPrefix(h, s2.longest[id])
                                           /\ \A i \in DOMAIN s2.longest[id] : s2.longest[id][i] \in Ids(h)
                                           /\ \E i \in DOMAIN s2.longest[id] : s2.longest[id][i] = id
    <3>1. s2.longest[id] = o
      BY <1>13, Zenon
    <3>2. \A i \in DOMAIN o : o[i] \in Ids(h)
      <4>1. DOMAIN o = 1 .. n
        BY <1>11, SeqFacts
      <4>2. QED
        BY <1>11, <1>12, <4>1
    <3>3. QED
      BY <1>11, <1>14, <3>1, <3>2, Zenon
  <2>2. QED
    BY <1>1, <1>5, <1>13, <2>1, Zenon DEF LongestOK
<1>16. TrueOK(s2)
  BY <1>1, <1>2, <1>5, <1>7, <1>12, <1>13, Zenon DEF TrueOK
<1>17. s2.st \in {"run", "true", "false"}
  BY <1>5
<1>18. QED
  BY <1>1, <1>4, <1>5, <1>6, <1>8, <1>9, <1>15, <1>16, <1>17, Zenon DEF SearchInv

\* A search that returns false is through with all it knows, or was killed.
LEMMA FalseKeeps ==
    ASSUME NEW s, NEW v, NEW kl, SearchInv(s, v, kl), s.st = "run",
           kl \/ (Considers(s, "return") /\ s.calls = <<>>)
    PROVE  SearchInv(ReturnTo(s, FALSE), v, kl)
<1>1. PICK h : h = s.history
  OBVIOUS
<1>2. PICK s2 : s2 = ReturnTo(s, FALSE)
  OBVIOUS
<1>3. /\ s2.st = "false" /\ s2.history = s.history /\ s2.list = s.list /\ s2.entry = s.entry
      /\ s2.state = s.state /\ s2.linearized = s.linearized /\ s2.cache = s.cache
      /\ s2.calls = s.calls /\ s2.longest = s.longest
      /\ IsSearch(s2)
  BY <1>2 DEF SearchInv, IsSearch, ReturnTo
<1>4. /\ IsPart(h) /\ IsHistory(h) /\ StackOK(s) /\ BitsOK(s) /\ ListOK(s) /\ EntryOK(s)
      /\ LegalOK(s) /\ TriedOK(s) /\ ClosedOK(s, v, kl) /\ LongestOK(s) /\ TrueOK(s)
  BY <1>1, Zenon DEF SearchInv, IsPart
<1>5. /\ Known(s2) = Known(s) /\ \A c : Closed(s, c, v) <=> Closed(s2, c, v)
      /\ \A i : /\ Done(s2, i) = Done(s, i) /\ StateAt(s2, i) = StateAt(s, i)
                /\ Config(s2, i) = Config(s, i) /\ FrontierAt(s2, i) = FrontierAt(s, i)
  <2>1. \A i : FrontierAt(s2, i) = FrontierAt(s, i)
    BY <1>3, Zenon DEF FrontierAt
  <2>2. QED
    BY <1>3, <2>1, SameKnowledge, Zenon
<1>6. StackOK(s2) /\ BitsOK(s2) /\ ListOK(s2) /\ LegalOK(s2) /\ TriedOK(s2) /\ LongestOK(s2)
  <2>1. StackOK(s2)
    BY <1>3, <1>4, <1>5, Zenon DEF StackOK
  <2>2. BitsOK(s2)
    BY <1>3, <1>4, <1>5, Zenon DEF BitsOK
  <2>3. ListOK(s2)
    BY <1>3, <1>4, <1>5, Zenon DEF ListOK
  <2>4. LegalOK(s2)
    BY <1>3, <1>4, <1>5, Zenon DEF LegalOK
  <2>5. TriedOK(s2)
    BY <1>3, <1>4, <1>5, ZenonT(60) DEF TriedOK
  <2>6. LongestOK(s2)
    BY <1>3, <1>4 DEF LongestOK
  <2>7. QED
    BY <2>1, <2>2, <2>3, <2>4, <2>5, <2>6
<1>7. EntryOK(s2) /\ TrueOK(s2)
  <2>1. s2.st # "run" /\ s2.st # "true"
    BY <1>3
  <2>2. QED
    BY <2>1, Zenon DEF EntryOK, TrueOK
<1>8. ASSUME Considers(s, "return"), s.calls = <<>> PROVE AllClosed(s2, v)
  <2>1. Len(s.calls) = 0
    BY <1>8
  <2>2. \A i \in 0 .. 0 : i = 0
    OBVIOUS
  <2>3. \A c \in Known(s) : Closed(s, c, v) \/ c = Config(s, 0)
    BY <1>4, <2>1, <2>2, Zenon DEF ClosedOK
  <2>4. /\ Done(s, 0) # Ids(h)
        /\ \A id \in Ids(h) : Follows(h, Config(s, 0), id) => Successor(h, Config(s, 0), id) \in Known(s)
    BY <1>1, <1>4, <1>8, <2>1, ReturnCloses, Zenon
  <2>5. Config(s, 0)[1] = Done(s, 0)
    BY DEF Config
  <2>6. Done(s, 0) = {}
    BY DoneFacts
  <2>7. \A id \in Config(s, 0)[1] : Len(s.longest[id]) >= Cardinality(Config(s, 0)[1])
    BY <2>5, <2>6
  <2>8. Closed(s, Config(s, 0), v)
    BY <1>1, <2>4, <2>5, <2>7, Zenon DEF Closed
  <2>9. QED
    BY <1>5, <2>3, <2>8, Zenon DEF AllClosed
<1>9. ClosedOK(s2, v, kl)
  <2>1. s2.st # "run"
    BY <1>3
  <2>2. QED
    BY <1>8, <2>1, Zenon DEF ClosedOK
<1>10. s2.st \in {"run", "true", "false"}
  BY <1>3
<1>11. QED
  BY <1>1, <1>2, <1>3, <1>4, <1>6, <1>7, <1>9, <1>10, Zenon DEF SearchInv

\* Killing takes nothing from a search.
LEMMA KillKeeps ==
    ASSUME NEW s, NEW v, NEW kl, NEW kl2, SearchInv(s, v, kl), kl => kl2
    PROVE  SearchInv(s, v, kl2)
BY Zenon DEF SearchInv, ClosedOK

\* A new list links all the entries.
LEMMA NewList ==
    ASSUME NEW h, Len(h) \in Nat
    PROVE  IsList(makeLinkedEntries(h), Len(h)) /\ Linked(makeLinkedEntries(h), 0 .. Len(h))
<1>1. PICK n : n = Len(h)
  OBVIOUS
<1>2. PICK list : list = makeLinkedEntries(h)
  OBVIOUS
<1>3. /\ list.next = [k \in 0 .. n |-> IF k < n THEN k + 1 ELSE Nil]
      /\ list.prev = [k \in 0 .. n |-> IF k > 0 THEN k - 1 ELSE Nil]
  BY <1>1, <1>2 DEF makeLinkedEntries
<1>4. IsList(list, n)
  BY <1>3 DEF IsList
<1>5. ASSUME NEW k \in 0 .. n
      PROVE  NextOf(list, k, 0 .. n) /\ (k # 0 => PrevOf(list, k, 0 .. n))
  <2>1. n \in Nat
    BY <1>1
  <2>2. list.next[k] = IF k < n THEN k + 1 ELSE Nil
    BY <1>3
  <2>3. list.prev[k] = IF k > 0 THEN k - 1 ELSE Nil
    BY <1>3
  <2>4. NextOf(list, k, 0 .. n)
    BY <2>1, <2>2 DEF NextOf
  <2>5. ASSUME k # 0 PROVE PrevOf(list, k, 0 .. n)
    <3>1. list.prev[k] = k - 1
      BY <2>1, <2>3, <2>5
    <3>2. QED
      BY <2>1, <2>5, <3>1 DEF PrevOf
  <2>6. QED
    BY <2>4, <2>5
<1>6. QED
  BY <1>1, <1>2, <1>4, <1>5 DEF Linked

\* A search begins with nothing ordered and everything pending.
LEMMA SearchBegins ==
    ASSUME NEW h, IsPart(h), NEW v, NEW kl
    PROVE  SearchInv(SearchInit(h), v, kl)
<1>1. PICK s : s = SearchInit(h)
  OBVIOUS
<1>2. /\ s.st = "run" /\ s.history = h /\ s.list = makeLinkedEntries(h) /\ s.entry = 1
      /\ s.state = Empty /\ s.linearized = newBitset(Cardinality(Ids(h))) /\ s.cache = {}
      /\ s.calls = <<>> /\ s.longest = [id \in Ids(h) |-> <<>>]
      /\ IsSearch(s)
  BY <1>1 DEF SearchInit, IsSearch
<1>3. IsHistory(h) /\ Len(h) \in Nat /\ Len(h) # 0 /\ DOMAIN h = 1 .. Len(h)
  BY SeqFacts DEF IsPart, IsHistory
<1>4. IsSeq(s.calls) /\ Len(s.calls) = 0 /\ DOMAIN s.calls = {}
  <2>1. <<>> \in Seq({})
    OBVIOUS
  <2>2. QED
    BY <1>2, <2>1 DEF IsSeq
<1>5. /\ Done(s, 0) = {} /\ StateAt(s, 0) = Empty /\ FrontierAt(s, 0) = 1
      /\ Config(s, 0) = <<{}, Empty>>
  <2>1. Done(s, 0) = {}
    BY DoneFacts
  <2>2. StateAt(s, 0) = Empty /\ FrontierAt(s, 0) = 1
    BY <1>2, <1>4 DEF StateAt, FrontierAt
  <2>3. QED
    BY <2>1, <2>2, Zenon DEF Config
<1>6. PICK P : P = Pending(h, {})
  OBVIOUS
<1>7. P = 0 .. Len(h)
  <2>1. P = {0} \cup DOMAIN h
    BY <1>6 DEF Pending
  <2>2. QED
    BY <1>3, <2>1
<1>8. StackOK(s)
  BY <1>4, Zenon DEF StackOK
<1>9. BitsOK(s)
  <2>1. PICK N : N = Cardinality(Ids(h))
    OBVIOUS
  <2>2. N \in Nat /\ Ids(h) = 0 .. N - 1
    BY <2>1, FS_CardinalityType DEF IsPart
  <2>3. IsBitset(newBitset(N), N) /\ \A q \in Ids(h) : ~ get(newBitset(N), q)
    BY <2>2, NewBits
  <2>4. Content(h, newBitset(N)) = {}
    BY <2>3 DEF Content
  <2>5. QED
    BY <1>2, <1>4, <1>5, <2>1, <2>3, <2>4, Zenon DEF BitsOK
<1>10. ListOK(s)
  <2>1. IsList(s.list, Len(h)) /\ Linked(s.list, Pending(h, Done(s, 0)))
    <3>1. IsList(makeLinkedEntries(h), Len(h)) /\ Linked(makeLinkedEntries(h), 0 .. Len(h))
      BY <1>3, NewList
    <3>2. QED
      BY <1>2, <1>5, <1>6, <1>7, <3>1, Zenon
  <2>2. QED
    BY <1>2, <1>4, <2>1, Zenon DEF ListOK
<1>11. EntryOK(s)
  <2>1. 1 \in P \ {0}
    BY <1>3, <1>7
  <2>2. QED
    BY <1>2, <1>4, <1>5, <1>6, <2>1, Zenon DEF EntryOK
<1>12. LegalOK(s)
  BY <1>4, <1>5, Zenon DEF LegalOK
<1>13. Known(s) = {<<{}, Empty>>}
  <2>1. {<<Content(s.history, c[1]), c[2]>> : c \in {}} = {}
    OBVIOUS
  <2>2. QED
    BY <1>2, <2>1 DEF Known
<1>14. \A i \in 0 .. 0 : i = 0
  OBVIOUS
<1>15. TriedOK(s)
  <2>1. \A k \in P \ {0} : ~ (k < 1)
    BY <1>3, <1>7
  <2>2. Config(s, 0) \in Known(s)
    BY <1>5, <1>13
  <2>3. ASSUME NEW i \in 0 .. 0, NEW k \in Pending(s.history, Done(s, i)) \ {0}
        PROVE  ~ (k < FrontierAt(s, i))
    <3>1. i = 0
      BY <1>14, Zenon
    <3>2. k \in P \ {0}
      BY <1>2, <1>5, <1>6, <3>1, Zenon
    <3>3. QED
      BY <1>5, <2>1, <3>1, <3>2, Zenon
  <2>4. QED
    BY <1>4, <1>14, <2>2, <2>3, Zenon DEF TriedOK
<1>16. ClosedOK(s, v, kl)
  <2>1. s.st # "false"
    BY <1>2
  <2>2. \A c \in Known(s) : c = Config(s, 0)
    BY <1>5, <1>13
  <2>3. 0 \in 0 .. 0
    OBVIOUS
  <2>4. QED
    BY <1>4, <2>1, <2>2, <2>3, Zenon DEF ClosedOK
<1>17. LongestOK(s)
  <2>1. \A id \in Ids(h) : s.longest[id] = <<>>
    BY <1>2
  <2>2. IsSeq(<<>>)
    BY <1>2, <1>4, Zenon
  <2>3. DOMAIN s.longest = Ids(h)
    BY <1>2
  <2>4. QED
    BY <1>2, <2>1, <2>2, <2>3, Zenon DEF LongestOK
<1>18. TrueOK(s)
  <2>1. s.st # "true"
    BY <1>2
  <2>2. QED
    BY <2>1, Zenon DEF TrueOK
<1>19. s.st \in {"run", "true", "false"}
  BY <1>2
<1>20. QED
  BY <1>1, <1>2, <1>8, <1>9, <1>10, <1>11, <1>12, <1>15, <1>16, <1>17, <1>18, <1>19, Zenon
     DEF SearchInv

-----------------------------------------------------------------------------
(* Partition.                                                              *)

\* A history to check: the entries of an operation agree on what it is.
Whole(H) ==
    /\ IsHistory(H)
    /\ IsFiniteSet(Ids(H)) /\ Ids(H) \subseteq Nat
    /\ \A k \in DOMAIN H : H[k].key \in Key
    /\ \A k, m \in DOMAIN H : H[k].id = H[m].id => H[k].key = H[m].key /\ H[k].op = H[m].op

\* The operations of a key, and the numbers that makeEntries gives them.
OfKey(H, key) == {id \in Ids(H) : H[CallOf(H, id)].key = key}
Renamed(H, key) == [id \in OfKey(H, key) |-> Rank(OfKey(H, key), id)]

\* h has the operations of a key of H, under the names of name, and keeps what
\* they do and which of them are over before others begin.
Embeds(h, H, key, name) ==
    /\ DOMAIN name = OfKey(H, key)
    /\ \A id \in OfKey(H, key) : name[id] \in Ids(h)
    /\ \A id, j \in OfKey(H, key) : name[id] = name[j] => id = j
    /\ \A x \in Ids(h) : \E id \in OfKey(H, key) : name[id] = x
    /\ \A id \in OfKey(H, key) : h[CallOf(h, name[id])].op = H[CallOf(H, id)].op
    /\ \A id, j \in OfKey(H, key) :
          ReturnOf(h, name[id]) < CallOf(h, name[j]) <=> ReturnOf(H, id) < CallOf(H, j)

\* The entries of a key in a history.
Own(H, key) == {k \in DOMAIN H : H[k].key = key}

\* The entries of a key are those of its operations.
LEMMA OwnFacts ==
    ASSUME NEW H, Whole(H), NEW key
    PROVE  /\ Own(H, key) \subseteq Nat /\ IsFiniteSet(Own(H, key))
           /\ OfKey(H, key) = {H[k].id : k \in Own(H, key)}
           /\ OfKey(H, key) \subseteq Nat /\ IsFiniteSet(OfKey(H, key))
           /\ \A id \in OfKey(H, key) : /\ CallOf(H, id) \in Own(H, key)
                                        /\ ReturnOf(H, id) \in Own(H, key)
           /\ \A k \in Own(H, key) : H[k].id \in OfKey(H, key)
<1>1. IsHistory(H) /\ Len(H) \in Nat /\ DOMAIN H = 1 .. Len(H)
  BY Matched DEF Whole
<1>2. Own(H, key) \subseteq DOMAIN H /\ OfKey(H, key) \subseteq Ids(H)
  BY DEF Own, OfKey
<1>3. Own(H, key) \subseteq Nat /\ IsFiniteSet(Own(H, key))
  <2>1. IsFiniteSet(1 .. Len(H))
    BY <1>1, FS_Interval
  <2>2. QED
    BY <1>1, <1>2, <2>1, FS_Subset
<1>4. OfKey(H, key) \subseteq Nat /\ IsFiniteSet(OfKey(H, key))
  BY <1>2, FS_Subset DEF Whole
<1>5. ASSUME NEW id \in OfKey(H, key)
      PROVE  /\ CallOf(H, id) \in Own(H, key) /\ ReturnOf(H, id) \in Own(H, key)
             /\ H[CallOf(H, id)].id = id
  <2>1. id \in Ids(H) /\ H[CallOf(H, id)].key = key
    BY DEF OfKey
  <2>2. PICK c : c = CallOf(H, id)
    OBVIOUS
  <2>3. PICK r : r = ReturnOf(H, id)
    OBVIOUS
  <2>4. c \in DOMAIN H /\ r \in DOMAIN H /\ H[c].id = id /\ H[r].id = id
    BY <1>1, <2>1, <2>2, <2>3, CallIs, Zenon
  <2>5. H[r].key = H[c].key
    BY <2>4, Zenon DEF Whole
  <2>6. QED
    BY <2>1, <2>2, <2>3, <2>4, <2>5, Zenon DEF Own
<1>6. ASSUME NEW k \in Own(H, key) PROVE H[k].id \in OfKey(H, key)
  <2>1. k \in DOMAIN H /\ H[k].key = key
    BY DEF Own
  <2>2. PICK id : id = H[k].id
    OBVIOUS
  <2>3. id \in Ids(H)
    BY <2>1, <2>2 DEF Ids
  <2>4. PICK c : c = CallOf(H, id)
    OBVIOUS
  <2>5. c \in DOMAIN H /\ H[c].id = id
    BY <1>1, <2>3, <2>4, CallIs, Zenon
  <2>6. H[c].key = H[k].key
    BY <2>1, <2>2, <2>5, Zenon DEF Whole
  <2>7. QED
    BY <2>1, <2>2, <2>3, <2>4, <2>6, Zenon DEF OfKey
<1>7. OfKey(H, key) = {H[k].id : k \in Own(H, key)}
  <2>1. \A id \in OfKey(H, key) : \E k \in Own(H, key) : H[k].id = id
    BY <1>5, Zenon
  <2>2. QED
    BY <1>6, <2>1
<1>8. QED
  BY <1>3, <1>4, <1>5, <1>6, <1>7, Zenon

\* Counting from 0 instead of 1 keeps an order.
LEMMA Minus == \A m, n \in Int : (m < n <=> m - 1 < n - 1) /\ (m - 1 = n - 1 => m = n)
  OBVIOUS

\* Partition keeps the entries of a key in their order.
LEMMA PartitionFacts ==
    ASSUME NEW H, Whole(H), NEW key \in {H[k].key : k \in DOMAIN H}
    PROVE  /\ IsPart(Partition(H, key))
           /\ Embeds(Partition(H, key), H, key, Renamed(H, key))
<1>1. PICK own : own = Own(H, key)
  OBVIOUS
<1>2. PICK ids : ids = OfKey(H, key)
  OBVIOUS
<1>3. /\ own \in SUBSET Nat /\ IsFiniteSet(own) /\ ids \in SUBSET Nat /\ IsFiniteSet(ids)
      /\ ids = {H[k].id : k \in own}
      /\ \A id \in ids : CallOf(H, id) \in own /\ ReturnOf(H, id) \in own
      /\ \A k \in own : H[k].id \in ids
  <2>1. /\ Own(H, key) \subseteq Nat /\ IsFiniteSet(Own(H, key))
        /\ OfKey(H, key) = {H[k].id : k \in Own(H, key)}
        /\ OfKey(H, key) \subseteq Nat /\ IsFiniteSet(OfKey(H, key))
        /\ \A id \in OfKey(H, key) : /\ CallOf(H, id) \in Own(H, key)
                                     /\ ReturnOf(H, id) \in Own(H, key)
        /\ \A k \in Own(H, key) : H[k].id \in OfKey(H, key)
    BY OwnFacts
  <2>2. QED
    BY <1>1, <1>2, <2>1
<1>4. PICK c : c = Cardinality(own)
  OBVIOUS
<1>5. PICK z : z = Cardinality(ids)
  OBVIOUS
<1>6. /\ c \in Nat
      /\ \A x \in own : Rank(own, x) \in 0 .. c - 1
      /\ \A x, y \in own : x < y <=> Rank(own, x) < Rank(own, y)
      /\ \A x, y \in own : Rank(own, x) = Rank(own, y) => x = y
      /\ \A n \in 0 .. c - 1 : \E x \in own : Rank(own, x) = n
  BY <1>3, <1>4, RankFacts
<1>7. /\ z \in Nat
      /\ \A x \in ids : Rank(ids, x) \in 0 .. z - 1
      /\ \A x, y \in ids : Rank(ids, x) = Rank(ids, y) => x = y
      /\ \A n \in 0 .. z - 1 : \E x \in ids : Rank(ids, x) = n
  BY <1>3, <1>5, RankFacts
<1>8. PICK at : at = [n \in 1 .. c |-> CHOOSE k \in own : Rank(own, k) = n - 1]
  OBVIOUS
<1>9. ASSUME NEW n \in 1 .. c PROVE at[n] \in own /\ Rank(own, at[n]) = n - 1
  <2>1. n - 1 \in 0 .. c - 1
    BY <1>6
  <2>2. \E k \in own : Rank(own, k) = n - 1
    BY <1>6, <2>1, Zenon
  <2>3. at[n] = CHOOSE k \in own : Rank(own, k) = n - 1
    BY <1>8, Zenon
  <2>4. QED
    BY <2>2, <2>3, Zenon
<1>10. ASSUME NEW k \in own PROVE \E n \in 1 .. c : at[n] = k /\ Rank(own, k) = n - 1
  <2>1. PICK n : n = Rank(own, k) + 1
    OBVIOUS
  <2>2. Rank(own, k) \in 0 .. c - 1
    BY <1>6, Zenon
  <2>3. n \in 1 .. c /\ n - 1 = Rank(own, k)
    BY <1>6, <2>1, <2>2
  <2>4. at[n] = k
    BY <1>6, <1>9, <2>3, Zenon
  <2>5. QED
    BY <2>3, <2>4, Zenon
<1>11. \A m, n \in 1 .. c : (m < n <=> at[m] < at[n]) /\ (at[m] = at[n] => m = n)
  <2>1. ASSUME NEW m \in 1 .. c, NEW n \in 1 .. c
        PROVE  (m < n <=> at[m] < at[n]) /\ (at[m] = at[n] => m = n)
    <3>1. at[m] \in own /\ Rank(own, at[m]) = m - 1 /\ at[n] \in own /\ Rank(own, at[n]) = n - 1
      BY <1>9, Zenon
    <3>2. at[m] < at[n] <=> m - 1 < n - 1
      <4>1. at[m] < at[n] <=> Rank(own, at[m]) < Rank(own, at[n])
        BY <1>6, <3>1, Zenon
      <4>2. QED
        BY <3>1, <4>1, Zenon
    <3>3. (m < n <=> m - 1 < n - 1) /\ (m - 1 = n - 1 => m = n)
      <4>1. m \in Int /\ n \in Int
        BY <1>6
      <4>2. QED
        BY <4>1, Minus
    <3>4. QED
      BY <3>1, <3>2, <3>3, Zenon
  <2>2. QED
    BY <2>1, Zenon
<1>12. PICK h : h = Partition(H, key)
  OBVIOUS
<1>13. h = [n \in 1 .. c |-> [kind |-> H[at[n]].kind, id |-> Rank(ids, H[at[n]].id), key |-> key,
                              op |-> H[at[n]].op]]
  <2>1. own = {k \in DOMAIN H : H[k].key = key}
    BY <1>1 DEF Own
  <2>2. Partition(H, key) =
          [n \in 1 .. Cardinality(own) |->
             [kind |-> H[CHOOSE k \in own : Rank(own, k) = n - 1].kind,
              id |-> Rank(ids, H[CHOOSE k \in own : Rank(own, k) = n - 1].id), key |-> key,
              op |-> H[CHOOSE k \in own : Rank(own, k) = n - 1].op]]
    BY <1>3, <2>1, Zenon DEF Partition
  <2>3. QED
    BY <1>4, <1>8, <1>12, <2>2
<1>14. /\ DOMAIN h = 1 .. c
       /\ \A n \in 1 .. c : /\ h[n].kind = H[at[n]].kind /\ h[n].id = Rank(ids, H[at[n]].id)
                            /\ h[n].key = key /\ h[n].op = H[at[n]].op
  BY <1>13
<1>15. IsSeq(h) /\ Len(h) = c
  <2>1. h = [n \in 1 .. c |-> h[n]]
    BY <1>13, <1>14
  <2>2. QED
    BY <1>6, <1>14, <2>1, FunctionSeq
<1>16. IsHistory(H) /\ \A k \in own : k \in DOMAIN H
  BY <1>1 DEF Whole, Own
<1>17. ASSUME NEW id \in ids
       PROVE  \E x, y \in 1 .. c :
                 /\ x < y /\ at[x] = CallOf(H, id) /\ at[y] = ReturnOf(H, id)
                 /\ h[x].id = Rank(ids, id) /\ h[x].kind = "call"
                 /\ h[y].id = Rank(ids, id) /\ h[y].kind = "return"
                 /\ \A k \in 1 .. c : h[k].id = Rank(ids, id) => k = x \/ k = y
  <2>1. id \in Ids(H)
    BY <1>2 DEF OfKey
  <2>2. /\ CallOf(H, id) < ReturnOf(H, id)
        /\ H[CallOf(H, id)].id = id /\ H[CallOf(H, id)].kind = "call"
        /\ H[ReturnOf(H, id)].id = id /\ H[ReturnOf(H, id)].kind = "return"
    BY <1>16, <2>1, CallIs, ZenonT(60)
  <2>3. PICK x \in 1 .. c : at[x] = CallOf(H, id)
    BY <1>3, <1>10, Zenon
  <2>4. PICK y \in 1 .. c : at[y] = ReturnOf(H, id)
    BY <1>3, <1>10, Zenon
  <2>5. x < y
    BY <1>11, <2>2, <2>3, <2>4, Zenon
  <2>6. /\ h[x].id = Rank(ids, id) /\ h[x].kind = "call"
        /\ h[y].id = Rank(ids, id) /\ h[y].kind = "return"
    BY <1>14, <2>2, <2>3, <2>4, Zenon
  <2>7. ASSUME NEW k \in 1 .. c, h[k].id = Rank(ids, id) PROVE k = x \/ k = y
    <3>1. PICK q : q = H[at[k]].id
      OBVIOUS
    <3>2. at[k] \in own /\ at[k] \in DOMAIN H /\ q \in ids
      BY <1>3, <1>9, <1>16, <3>1, Zenon
    <3>3. Rank(ids, q) = Rank(ids, id)
      BY <1>14, <2>7, <3>1, Zenon
    <3>4. q = id
      BY <1>7, <3>2, <3>3, Zenon
    <3>5. \A m \in DOMAIN H : H[m].id = id => m = CallOf(H, id) \/ m = ReturnOf(H, id)
      BY <1>16, <2>1, Matched
    <3>6. at[k] = at[x] \/ at[k] = at[y]
      BY <2>3, <2>4, <3>1, <3>2, <3>4, <3>5, Zenon
    <3>7. QED
      BY <1>11, <3>6, Zenon
  <2>8. QED
    BY <2>3, <2>4, <2>5, <2>6, <2>7, Zenon
<1>18. Ids(h) = 0 .. z - 1
  <2>1. ASSUME NEW i \in Ids(h) PROVE i \in 0 .. z - 1
    <3>1. PICK n \in 1 .. c : i = h[n].id
      BY <1>14 DEF Ids
    <3>2. H[at[n]].id \in ids
      BY <1>3, <1>9, Zenon
    <3>3. i = Rank(ids, H[at[n]].id)
      BY <1>14, <3>1, Zenon
    <3>4. \A x \in ids : Rank(ids, x) \in 0 .. z - 1
      BY <1>7, Zenon
    <3>5. QED
      BY <3>2, <3>3, <3>4, Zenon
  <2>2. ASSUME NEW i \in 0 .. z - 1 PROVE i \in Ids(h)
    <3>1. PICK id \in ids : Rank(ids, id) = i
      BY <1>7, Zenon
    <3>2. PICK x \in 1 .. c : h[x].id = Rank(ids, id)
      BY <1>17, Zenon
    <3>3. QED
      BY <1>14, <3>1, <3>2 DEF Ids
  <2>3. QED
    BY <2>1, <2>2
<1>19. IsHistory(h)
  <2>1. ASSUME NEW k \in DOMAIN h PROVE h[k].kind \in {"call", "return"}
    <3>1. k \in 1 .. c
      BY <1>14, Zenon
    <3>2. at[k] \in DOMAIN H /\ h[k].kind = H[at[k]].kind
      BY <1>9, <1>14, <1>16, <3>1, Zenon
    <3>3. H[at[k]].kind \in {"call", "return"}
      BY <1>16, <3>2, Zenon DEF IsHistory
    <3>4. QED
      BY <3>2, <3>3, Zenon
  <2>2. ASSUME NEW i \in Ids(h)
        PROVE  \E x, y \in DOMAIN h :
                  /\ x < y
                  /\ h[x].id = i /\ h[x].kind = "call"
                  /\ h[y].id = i /\ h[y].kind = "return"
                  /\ \A k \in DOMAIN h : h[k].id = i => k = x \/ k = y
    <3>1. PICK id \in ids : Rank(ids, id) = i
      BY <1>7, <1>18, Zenon
    <3>2. PICK x \in 1 .. c, y \in 1 .. c :
             /\ x < y
             /\ h[x].id = i /\ h[x].kind = "call"
             /\ h[y].id = i /\ h[y].kind = "return"
             /\ \A k \in 1 .. c : h[k].id = i => k = x \/ k = y
      BY <1>17, <3>1, ZenonT(60)
    <3>3. QED
      BY <1>14, <3>2, ZenonT(60)
  <2>3. QED
    BY <1>15, <2>1, <2>2, Zenon DEF IsHistory
<1>20. ASSUME NEW id \in ids
       PROVE  /\ Rank(ids, id) \in Ids(h)
              /\ CallOf(h, Rank(ids, id)) \in 1 .. c /\ at[CallOf(h, Rank(ids, id))] = CallOf(H, id)
              /\ ReturnOf(h, Rank(ids, id)) \in 1 .. c /\ at[ReturnOf(h, Rank(ids, id))] = ReturnOf(H, id)
  <2>1. PICK i : i = Rank(ids, id)
    OBVIOUS
  <2>2. PICK x \in 1 .. c, y \in 1 .. c :
           /\ at[x] = CallOf(H, id) /\ at[y] = ReturnOf(H, id)
           /\ h[x].id = i /\ h[x].kind = "call"
           /\ h[y].id = i /\ h[y].kind = "return"
    BY <1>17, <2>1, Zenon
  <2>3. x \in DOMAIN h /\ y \in DOMAIN h
    BY <1>14, Zenon
  <2>4. x = CallOf(h, h[x].id) /\ y = ReturnOf(h, h[y].id) /\ h[x].id \in Ids(h)
    BY <1>19, <2>2, <2>3, Matched
  <2>5. QED
    BY <2>1, <2>2, <2>4, Zenon
<1>21. IsPart(h)
  <2>1. h # <<>>
    <3>1. own # {}
      BY <1>1 DEF Own
    <3>2. c # 0
      BY <1>3, <1>4, <3>1, FS_EmptySet
    <3>3. 1 \in DOMAIN h
      BY <1>6, <1>14, <3>2
    <3>4. QED
      BY <3>3
  <2>2. IsFiniteSet(Ids(h)) /\ Cardinality(Ids(h)) = z
    BY <1>7, <1>18, FS_Interval
  <2>3. key \in Key
    BY DEF Whole
  <2>4. \A k \in DOMAIN h : h[k].key = key
    BY <1>14, Zenon
  <2>5. QED
    BY <1>18, <1>19, <2>1, <2>2, <2>3, <2>4, Zenon DEF IsPart
<1>22. PICK name : name = Renamed(H, key)
  OBVIOUS
<1>23. DOMAIN name = ids /\ \A id \in ids : name[id] = Rank(ids, id)
  BY <1>2, <1>22 DEF Renamed
<1>24. Embeds(h, H, key, name)
  <2>1. ASSUME NEW id \in ids PROVE h[CallOf(h, name[id])].op = H[CallOf(H, id)].op
    <3>1. name[id] = Rank(ids, id)
      BY <1>23, Zenon
    <3>2. PICK x : x = CallOf(h, Rank(ids, id))
      OBVIOUS
    <3>3. x \in 1 .. c /\ at[x] = CallOf(H, id)
      BY <1>20, <3>2, Zenon
    <3>4. h[x].op = H[at[x]].op
      BY <1>14, <3>3, Zenon
    <3>5. QED
      BY <3>1, <3>2, <3>3, <3>4, Zenon
  <2>2. ASSUME NEW id \in ids, NEW j \in ids
        PROVE  ReturnOf(h, name[id]) < CallOf(h, name[j]) <=> ReturnOf(H, id) < CallOf(H, j)
    <3>1. name[id] = Rank(ids, id) /\ name[j] = Rank(ids, j)
      BY <1>23, Zenon
    <3>2. PICK x : x = ReturnOf(h, Rank(ids, id))
      OBVIOUS
    <3>3. PICK y : y = CallOf(h, Rank(ids, j))
      OBVIOUS
    <3>4. x \in 1 .. c /\ at[x] = ReturnOf(H, id) /\ y \in 1 .. c /\ at[y] = CallOf(H, j)
      BY <1>20, <3>2, <3>3, Zenon
    <3>5. x < y <=> at[x] < at[y]
      BY <1>11, <3>4, Zenon
    <3>6. QED
      BY <3>1, <3>2, <3>3, <3>4, <3>5, Zenon
  <2>3. ASSUME NEW id \in ids, NEW j \in ids, name[id] = name[j] PROVE id = j
    <3>1. name[id] = Rank(ids, id) /\ name[j] = Rank(ids, j)
      BY <1>23, Zenon
    <3>2. Rank(ids, id) = Rank(ids, j)
      BY <2>3, <3>1, Zenon
    <3>3. QED
      BY <1>7, <3>2, Zenon
  <2>4. ASSUME NEW x \in Ids(h) PROVE \E id \in ids : name[id] = x
    <3>1. PICK id \in ids : Rank(ids, id) = x
      BY <1>7, <1>18, Zenon
    <3>2. QED
      BY <1>23, <3>1, Zenon
  <2>5. \A id \in ids : name[id] \in Ids(h)
    BY <1>20, <1>23, Zenon
  <2>6. QED
    BY <1>2, <1>23, <2>1, <2>2, <2>3, <2>4, <2>5, Zenon DEF Embeds
<1>25. QED
  BY <1>12, <1>21, <1>22, <1>24, Zenon

-----------------------------------------------------------------------------
(* A search that is closed has met every legal order.                       *)

\* An order of some of the operations of H that is legal.
IsLegal(H, o) == IsSeq(o) /\ (\A i \in 1 .. Len(o) : o[i] \in Ids(H)) /\ LegalPrefix(H, o)

\* The operations of a key among the first j of an order, by their numbers.
Seen(H, key, name, o, j) == {name[o[i]] : i \in {m \in 1 .. j : o[m] \in OfKey(H, key)}}

\* One more operation is one more that is seen, or none when it is of another key.
LEMMA SeenNext ==
    ASSUME NEW H, NEW key, NEW name, NEW o, NEW j \in Nat, NEW k, k = j + 1, NEW x, x = o[k]
    PROVE  /\ x \in OfKey(H, key) =>
                 Seen(H, key, name, o, k) = Seen(H, key, name, o, j) \cup {name[x]}
           /\ x \notin OfKey(H, key) => Seen(H, key, name, o, k) = Seen(H, key, name, o, j)
<1>1. \A m : m \in 1 .. k <=> m \in 1 .. j \/ m = k
  OBVIOUS
<1>2. PICK K : K = OfKey(H, key)
  OBVIOUS
<1>3. ASSUME x \in K
      PROVE  Seen(H, key, name, o, k) = Seen(H, key, name, o, j) \cup {name[x]}
  BY <1>1, <1>2, <1>3 DEF Seen
<1>4. ASSUME x \notin K
      PROVE  Seen(H, key, name, o, k) = Seen(H, key, name, o, j)
  BY <1>1, <1>2, <1>4 DEF Seen
<1>5. QED
  BY <1>2, <1>3, <1>4, Zenon

\* What the beginnings of a legal order leave of a key is known to its search.
LEMMA Covered ==
    ASSUME NEW s, NEW v, AllClosed(s, v), NEW H, NEW key \in Key, NEW name,
           Embeds(s.history, H, key, name), NEW o, IsLegal(H, o)
    PROVE  \A j \in 0 .. Len(o) :
              <<Seen(H, key, name, o, j), StateAfter(H, o)[j][key]>> \in Known(s)
<1>1. IsSeq(o) /\ (\A i \in 1 .. Len(o) : o[i] \in Ids(H)) /\ LegalPrefix(H, o)
  BY Zenon DEF IsLegal
<1>2. PICK n : n = Len(o)
  OBVIOUS
<1>3. n \in Nat
  BY <1>1, <1>2, SeqFacts
<1>4. PICK after : after = StateAfter(H, o)
  OBVIOUS
<1>5. PICK h : h = s.history
  OBVIOUS
<1>6. /\ after[0] = [k \in Key |-> Empty]
      /\ \A i \in 1 .. n : after[i][key] = IF key = H[CallOf(H, o[i])].key
                                           THEN StepState(after[i - 1][key], H[CallOf(H, o[i])].op)
                                           ELSE after[i - 1][key]
  BY <1>1, <1>2, <1>4, StateAfterFacts
<1>7. \A i \in 1 .. n : NextOk(H, o, i)
  BY <1>1, <1>2, LegalNext
<1> DEFINE C(j) == <<Seen(H, key, name, o, j), after[j][key]>>
           T == {j \in Nat : j <= n => C(j) \in Known(s)}
<1>8. 0 \in T
  <2>1. Seen(H, key, name, o, 0) = {}
    BY DEF Seen
  <2>2. after[0][key] = Empty
    BY <1>6, Zenon
  <2>3. <<{}, Empty>> \in Known(s)
    BY DEF Known
  <2>4. C(0) \in Known(s)
    BY <2>1, <2>2, <2>3, Zenon
  <2>5. QED
    BY <2>4
<1>9. ASSUME NEW j \in Nat, j \in T PROVE j + 1 \in T
  <2>1. SUFFICES ASSUME j + 1 <= n PROVE C(j + 1) \in Known(s)
    OBVIOUS
  <2>2. j <= n /\ j + 1 \in 1 .. n /\ (j + 1) - 1 = j
    BY <1>3, <2>1
  <2>3. C(j) \in Known(s)
    BY <1>9, <2>2
  <2>4. PICK x : x = o[j + 1]
    OBVIOUS
  <2>5. x \in Ids(H)
    BY <1>1, <1>2, <2>2, <2>4, Zenon
  <2>6. PICK e : e = H[CallOf(H, x)]
    OBVIOUS
  <2>7. after[j + 1][key] = IF key = e.key THEN StepState(after[j][key], e.op) ELSE after[j][key]
    BY <1>6, <2>2, <2>4, <2>6, Zenon
  <2>8a. /\ x \in OfKey(H, key) =>
               Seen(H, key, name, o, j + 1) = Seen(H, key, name, o, j) \cup {name[x]}
         /\ x \notin OfKey(H, key) => Seen(H, key, name, o, j + 1) = Seen(H, key, name, o, j)
    BY <2>4, SeenNext
  <2>8. CASE x \notin OfKey(H, key)
    <3>1. e.key # key
      BY <2>5, <2>6, <2>8, Zenon DEF OfKey
    <3>2. Seen(H, key, name, o, j + 1) = Seen(H, key, name, o, j)
      BY <2>8, <2>8a, Zenon
    <3>3. after[j + 1][key] = after[j][key]
      BY <2>7, <3>1, Zenon
    <3>4. QED
      BY <2>3, <3>2, <3>3, Zenon
  <2>9. CASE x \in OfKey(H, key)
    <3>1. e.key = key
      BY <2>6, <2>9, Zenon DEF OfKey
    <3>2. PICK D : D = Seen(H, key, name, o, j)
      OBVIOUS
    <3>3. Seen(H, key, name, o, j + 1) = D \cup {name[x]}
      BY <2>8a, <2>9, <3>2
    <3>4. PICK y : y = name[x]
      OBVIOUS
    <3>5. PICK st : st = after[j][key]
      OBVIOUS
    <3>6. y \in Ids(h) /\ h[CallOf(h, y)].op = e.op
      <4>1. name[x] \in Ids(s.history) /\ s.history[CallOf(s.history, name[x])].op = H[CallOf(H, x)].op
        BY <2>9, Zenon DEF Embeds
      <4>2. QED
        BY <1>5, <2>6, <3>4, <4>1, Zenon
    <3>7. NextOk(H, o, j + 1)
      BY <1>7, <2>2, Zenon
    <3>8. /\ StepOk(after[j][e.key], e.op)
          /\ \A i \in 1 .. j : o[i] # x
          /\ \A id \in Ids(H) : ReturnOf(H, id) < CallOf(H, x) => \E i \in 1 .. j : o[i] = id
      <4>1. PICK i : i = j + 1
        OBVIOUS
      <4>2. /\ StepOk(StateAfter(H, o)[i - 1][H[CallOf(H, o[i])].key], H[CallOf(H, o[i])].op)
            /\ \A m \in 1 .. i - 1 : o[m] # o[i]
            /\ \A id \in Ids(H) :
                  ReturnOf(H, id) < CallOf(H, o[i]) => \E m \in 1 .. i - 1 : o[m] = id
        BY <3>7, <4>1, Zenon DEF NextOk
      <4>3. i - 1 = j
        BY <4>1
      <4>4. QED
        BY <1>4, <2>4, <2>6, <4>1, <4>2, <4>3, Zenon
    <3>9. y \notin D
      <4>1. ASSUME NEW i \in {m \in 1 .. j : o[m] \in OfKey(H, key)}, name[o[i]] = y PROVE FALSE
        <5>1. i \in 1 .. j /\ o[i] \in OfKey(H, key)
          OBVIOUS
        <5>2. o[i] = x
          BY <1>5, <2>9, <3>4, <4>1, <5>1, ZenonT(60) DEF Embeds
        <5>3. QED
          BY <3>8, <5>1, <5>2, Zenon
      <4>2. QED
        BY <3>2, <4>1 DEF Seen
    <3>10. ASSUME NEW i \in Ids(h), ReturnOf(h, i) < CallOf(h, y) PROVE i \in D
      <4>1. PICK id \in OfKey(H, key) : name[id] = i
        BY <1>5, Zenon DEF Embeds
      <4>2. ReturnOf(h, name[id]) < CallOf(h, name[x])
        BY <3>4, <3>10, <4>1, Zenon
      <4>3. ReturnOf(H, id) < CallOf(H, x)
        BY <1>5, <2>9, <4>2, Zenon DEF Embeds
      <4>4. id \in Ids(H)
        BY DEF OfKey
      <4>5. PICK m \in 1 .. j : o[m] = id
        BY <3>8, <4>3, <4>4, Zenon
      <4>6. QED
        BY <3>2, <4>1, <4>5 DEF Seen
    <3>11. PICK c : c = <<D, st>>
      OBVIOUS
    <3>12. c[1] = D /\ c[2] = st /\ c \in Known(s)
      BY <2>3, <3>2, <3>5, <3>11
    <3>13. StepOk(st, h[CallOf(h, y)].op)
      BY <3>1, <3>5, <3>6, <3>8, Zenon
    <3>14. Follows(h, c, y)
      BY <3>9, <3>10, <3>12, <3>13, Zenon DEF Follows
    <3>15. Successor(h, c, y) \in Known(s)
      BY <1>5, <3>6, <3>12, <3>14, Zenon DEF AllClosed, Closed
    <3>16. Successor(h, c, y) = <<D \cup {y}, StepState(st, e.op)>>
      BY <3>6, <3>12, Zenon DEF Successor
    <3>17. after[j + 1][key] = StepState(st, e.op)
      BY <2>7, <3>1, <3>5, Zenon
    <3>18. QED
      BY <3>3, <3>4, <3>15, <3>16, <3>17, Zenon
  <2>10. QED
    BY <2>8, <2>9
<1>10. \A j \in Nat : j \in T
  <2> HIDE DEF T
  <2>1. QED
    BY <1>8, <1>9, NatSetInduction
<1>11. ASSUME NEW j \in 0 .. n PROVE C(j) \in Known(s)
  <2>1. j \in Nat /\ j <= n
    BY <1>3
  <2>2. QED
    BY <1>10, <2>1
<1>12. QED
  BY <1>2, <1>4, <1>11, Zenon

\* The equation of the recursive function of LegalOrders.
AreOrders(h, n, f) == f = [k \in 0 .. n |-> IF k = 0 THEN {<<>>} ELSE Longer(h, f[k - 1])]

\* The recursive function of LegalOrders exists.
LEMMA OrdersExist ==
    ASSUME NEW h
    PROVE  \A n \in Nat : \E f : AreOrders(h, n, f)
<1> DEFINE Z == {<<>>}
           T == {n \in Nat : \E f : AreOrders(h, n, f)}
<1>1. 0 \in T
  <2>1. PICK f : f = [k \in 0 .. 0 |-> Z]
    OBVIOUS
  <2>2. \A k \in 0 .. 0 : k = 0
    OBVIOUS
  <2>3. AreOrders(h, 0, f)
    BY <2>1, <2>2 DEF AreOrders
  <2>4. QED
    BY <2>3
<1>2. ASSUME NEW n \in Nat, n \in T PROVE n + 1 \in T
  <2>1. PICK f : AreOrders(h, n, f)
    BY <1>2
  <2>2. PICK g : g = [k \in 0 .. n + 1 |-> IF k = n + 1 THEN Longer(h, f[n]) ELSE f[k]]
    OBVIOUS
  <2>3. PICK E : E = {<<>>}
    OBVIOUS
  <2>4. f = [k \in 0 .. n |-> IF k = 0 THEN E ELSE Longer(h, f[k - 1])]
    BY <2>1, <2>3, Zenon DEF AreOrders
  <2>5. ASSUME NEW k \in 0 .. n + 1
        PROVE  g[k] = IF k = 0 THEN E ELSE Longer(h, g[k - 1])
    <3>1. CASE k = n + 1
      <4>1. k - 1 = n /\ n \in 0 .. n + 1 /\ n # n + 1 /\ k # 0
        BY <3>1
      <4>2. g[k - 1] = f[n]
        BY <2>2, <4>1, Zenon
      <4>3. g[k] = Longer(h, f[n])
        BY <2>2, <3>1, Zenon
      <4>4. QED
        BY <4>1, <4>2, <4>3, Zenon
    <3>2. CASE k # n + 1
      <4>1. k \in 0 .. n
        BY <3>2
      <4>2. g[k] = f[k]
        BY <2>2, <3>2, Zenon
      <4>3. f[k] = IF k = 0 THEN E ELSE Longer(h, f[k - 1])
        BY <2>4, <4>1, Zenon
      <4>4. CASE k = 0
        BY <4>2, <4>3, <4>4, Zenon
      <4>5. CASE k # 0
        <5>1. k - 1 \in 0 .. n + 1 /\ k - 1 # n + 1
          BY <3>2, <4>5
        <5>2. g[k - 1] = f[k - 1]
          BY <2>2, <5>1, Zenon
        <5>3. QED
          BY <4>2, <4>3, <4>5, <5>2, Zenon
      <4>6. QED
        BY <4>4, <4>5
    <3>3. QED
      BY <3>1, <3>2
  <2>6. g = [k \in 0 .. n + 1 |-> IF k = 0 THEN E ELSE Longer(h, g[k - 1])]
    <3>1. DOMAIN g = 0 .. n + 1 /\ g = [k \in 0 .. n + 1 |-> g[k]]
      BY <2>2
    <3>2. QED
      BY <2>5, <3>1
  <2>7. AreOrders(h, n + 1, g)
    BY <2>3, <2>6, Zenon DEF AreOrders
  <2>8. QED
    BY <2>7
<1>3. \A n \in Nat : n \in T
  <2> HIDE DEF T
  <2>1. QED
    BY <1>1, <1>2, NatSetInduction
<1>4. QED
  BY <1>3

\* A sequence is its front and its last element.
LEMMA FrontLast ==
    ASSUME NEW q, IsSeq(q), q # <<>>
    PROVE  q = Append(Front(q), q[Len(q)])
<1>1. PICK S : q \in Seq(S)
  BY DEF IsSeq
<1>2. Len(q) \in Nat /\ Len(q) >= 1
  BY <1>1
<1>3. PICK n : n = Len(q) - 1
  OBVIOUS
<1>4. PICK p : p = Front(q)
  OBVIOUS
<1>5. IsSeq(p) /\ Len(p) = n /\ \A i \in 1 .. n : p[i] = q[i]
  BY <1>3, <1>4, FrontFacts
<1>6. PICK r : r = Append(p, q[Len(q)])
  OBVIOUS
<1>7. /\ IsSeq(r) /\ Len(r) = n + 1 /\ r[n + 1] = q[Len(q)]
      /\ \A i \in 1 .. n : r[i] = p[i]
  BY <1>5, <1>6, AppendFacts
<1>8. Len(r) = Len(q) /\ \A i \in 1 .. Len(q) : r[i] = q[i]
  BY <1>2, <1>3, <1>5, <1>7
<1>9. PICK R : r \in Seq(R)
  BY <1>7 DEF IsSeq
<1>10. r = q
  BY <1>1, <1>8, <1>9
<1>11. QED
  BY <1>4, <1>6, <1>10, Zenon

\* The beginning of a legal order is legal.
LEMMA FrontLegal ==
    ASSUME NEW h, NEW o, IsLegal(h, o), o # <<>>
    PROVE  IsLegal(h, Front(o))
<1>1. IsSeq(o) /\ (\A i \in 1 .. Len(o) : o[i] \in Ids(h)) /\ LegalPrefix(h, o)
  BY Zenon DEF IsLegal
<1>2. PICK p : p = Front(o)
  OBVIOUS
<1>3. PICK n : n = Len(o) - 1
  OBVIOUS
<1>4. n \in Nat /\ Len(o) = n + 1
  BY <1>1, <1>3, SeqFacts
<1>5. IsSeq(p) /\ Len(p) = n /\ \A i \in 1 .. n : p[i] = o[i]
  BY <1>1, <1>2, <1>3, FrontFacts
<1>6. \A i \in 1 .. n : p[i] \in Ids(h)
  BY <1>1, <1>4, <1>5
<1>7. ASSUME NEW i \in 1 .. n PROVE NextOk(h, p, i)
  <2>1. i \in Nat \ {0} /\ i <= Len(o) /\ i <= Len(p) /\ i \in 1 .. Len(o)
    BY <1>4, <1>5
  <2>2. \A j \in 1 .. i : o[j] = p[j]
    BY <1>4, <1>5
  <2>3. NextOk(h, o, i)
    BY <1>1, <2>1, LegalNext
  <2>4. QED
    BY <1>1, <1>5, <2>1, <2>2, <2>3, NextOkSame
<1>8. LegalPrefix(h, p)
  BY <1>5, <1>7, LegalNext
<1>9. QED
  BY <1>2, <1>5, <1>6, <1>8, Zenon DEF IsLegal

\* LegalOrders has exactly the legal orders, by their lengths.
LEMMA OrdersAre ==
    ASSUME NEW h, IsFiniteSet(Ids(h))
    PROVE  \A k \in 0 .. Cardinality(Ids(h)) : \A o :
              o \in LegalOrders(h)[k] <=> IsLegal(h, o) /\ Len(o) = k
<1>1. PICK n : n = Cardinality(Ids(h))
  OBVIOUS
<1>2. n \in Nat
  BY <1>1, FS_CardinalityType
<1>3. \E g : AreOrders(h, Cardinality(Ids(h)), g)
  BY <1>1, <1>2, OrdersExist
<1>4. PICK f : f = LegalOrders(h)
  OBVIOUS
<1>5. AreOrders(h, n, f)
  <2>1. AreOrders(h, Cardinality(Ids(h)), LegalOrders(h))
    BY <1>3, Zenon DEF AreOrders, LegalOrders
  <2>2. QED
    BY <1>1, <1>4, <2>1, Zenon
<1>6. f[0] = {<<>>} /\ \A k \in 1 .. n : f[k] = Longer(h, f[k - 1])
  <2>1. f = [k \in 0 .. n |-> IF k = 0 THEN {<<>>} ELSE Longer(h, f[k - 1])]
    BY <1>5, Zenon DEF AreOrders
  <2>2. 0 \in 0 .. n /\ \A k \in 1 .. n : k \in 0 .. n /\ k # 0
    BY <1>2
  <2>3. QED
    BY <2>1, <2>2, Zenon
<1> DEFINE Same(k) == \A o : o \in f[k] <=> IsLegal(h, o) /\ Len(o) = k
           T == {k \in Nat : k <= n => Same(k)}
<1>7. 0 \in T
  <2>1. ASSUME NEW o, IsLegal(h, o), Len(o) = 0 PROVE o = <<>>
    <3>1. IsSeq(o)
      BY <2>1, Zenon DEF IsLegal
    <3>2. QED
      BY <2>1, <3>1, SeqFacts
  <2>2. PICK o : o = <<>>
    OBVIOUS
  <2>3. IsSeq(o) /\ Len(o) = 0
    <3>1. o \in Seq({})
      BY <2>2
    <3>2. QED
      BY <2>2, <3>1 DEF IsSeq
  <2>4. LegalPrefix(h, o)
    <3>1. \A i \in 1 .. Len(o) : NextOk(h, o, i)
      BY <2>3
    <3>2. QED
      BY <2>3, <3>1, LegalNext
  <2>5. IsLegal(h, o)
    <3>1. \A i \in 1 .. Len(o) : o[i] \in Ids(h)
      BY <2>3
    <3>2. QED
      BY <2>3, <2>4, <3>1, Zenon DEF IsLegal
  <2>6. Same(0)
    BY <1>6, <2>1, <2>2, <2>3, <2>5, Zenon
  <2>7. QED
    BY <2>6
<1>8. ASSUME NEW k \in Nat, k \in T PROVE k + 1 \in T
  <2>1. SUFFICES ASSUME k + 1 <= n PROVE Same(k + 1)
    OBVIOUS
  <2>2. k <= n /\ k + 1 \in 1 .. n /\ (k + 1) - 1 = k
    BY <1>2, <2>1
  <2>3. Same(k)
    BY <1>8, <2>2
  <2>4. f[k + 1] = Longer(h, f[k])
    BY <1>6, <2>2, Zenon
  <2>5. ASSUME NEW o, o \in f[k + 1] PROVE IsLegal(h, o) /\ Len(o) = k + 1
    <3>1. PICK p \in f[k], id \in Ids(h) : o = Append(p, id)
      BY <2>4, <2>5 DEF Longer
    <3>2. LegalPrefix(h, o)
      BY <2>4, <2>5 DEF Longer
    <3>3. IsLegal(h, p) /\ Len(p) = k
      BY <2>3, <3>1, Zenon
    <3>4. IsSeq(p) /\ \A i \in 1 .. k : p[i] \in Ids(h)
      BY <3>3, Zenon DEF IsLegal
    <3>5. IsSeq(o) /\ Len(o) = k + 1 /\ o[k + 1] = id /\ \A i \in 1 .. k : o[i] = p[i]
      BY <3>1, <3>3, <3>4, AppendFacts
    <3>6. \A i \in 1 .. k + 1 : o[i] \in Ids(h)
      BY <3>4, <3>5
    <3>7. QED
      BY <3>2, <3>5, <3>6, Zenon DEF IsLegal
  <2>6. ASSUME NEW o, IsLegal(h, o), Len(o) = k + 1 PROVE o \in f[k + 1]
    <3>1. IsSeq(o) /\ (\A i \in 1 .. Len(o) : o[i] \in Ids(h)) /\ LegalPrefix(h, o)
      BY <2>6, Zenon DEF IsLegal
    <3>2. o # <<>> /\ Len(o) \in 1 .. Len(o) /\ Len(o) - 1 = k
      BY <2>6, <3>1, SeqFacts
    <3>3. PICK p : p = Front(o)
      OBVIOUS
    <3>4. PICK id : id = o[Len(o)]
      OBVIOUS
    <3>5. o = Append(p, id) /\ id \in Ids(h)
      BY <3>1, <3>2, <3>3, <3>4, FrontLast
    <3>6. IsLegal(h, p)
      BY <2>6, <3>2, <3>3, FrontLegal
    <3>7. Len(p) = k
      BY <3>1, <3>2, <3>3, FrontFacts
    <3>8. p \in f[k]
      BY <2>3, <3>6, <3>7, Zenon
    <3>9. QED
      BY <2>4, <3>1, <3>5, <3>8 DEF Longer
  <2>7. QED
    BY <2>5, <2>6, Zenon
<1>9. \A k \in Nat : k \in T
  <2> HIDE DEF T
  <2>1. QED
    BY <1>7, <1>8, NatSetInduction
<1>10. ASSUME NEW k \in 0 .. n PROVE Same(k)
  <2>1. k \in Nat /\ k <= n
    BY <1>2
  <2>2. QED
    BY <1>9, <2>1
<1>11. QED
  BY <1>1, <1>4, <1>10, Zenon

\* The histories that Linearizable means have a legal order of all operations.
LEMMA LinearizableIs ==
    ASSUME NEW h, IsFiniteSet(Ids(h))
    PROVE  /\ Linearizable(h) <=> \E o : IsLegal(h, o) /\ Len(o) = Cardinality(Ids(h))
           /\ \A o \in LegalPrefixes(h) : IsLegal(h, o)
<1>1. PICK n : n = Cardinality(Ids(h))
  OBVIOUS
<1>2. n \in Nat
  BY <1>1, FS_CardinalityType
<1>3. \A k \in 0 .. n : \A o : o \in LegalOrders(h)[k] <=> IsLegal(h, o) /\ Len(o) = k
  BY <1>1, OrdersAre
<1>4. \A o : o \in LegalPrefixes(h) <=> \E k \in 0 .. n : o \in LegalOrders(h)[k]
  BY <1>1 DEF LegalPrefixes
<1>5. \A o \in LegalPrefixes(h) : IsLegal(h, o)
  BY <1>3, <1>4, Zenon
<1>6. n \in 0 .. n
  BY <1>2
<1>7. \A o : IsLegal(h, o) /\ Len(o) = n => o \in LegalPrefixes(h)
  BY <1>3, <1>4, <1>6, Zenon
<1>8. QED
  BY <1>1, <1>5, <1>7, Zenon DEF Linearizable

\* A legal order of as many operations as there are has all of them.
LEMMA FullOrder ==
    ASSUME NEW h, IsFiniteSet(Ids(h)), NEW o, IsLegal(h, o)
    PROVE  /\ Len(o) <= Cardinality(Ids(h))
           /\ Len(o) = Cardinality(Ids(h)) => \A id \in Ids(h) : \E i \in 1 .. Len(o) : o[i] = id
           /\ (\A id \in Ids(h) : \E i \in 1 .. Len(o) : o[i] = id) => Len(o) = Cardinality(Ids(h))
<1>1. IsSeq(o) /\ (\A i \in 1 .. Len(o) : o[i] \in Ids(h)) /\ LegalPrefix(h, o)
  BY Zenon DEF IsLegal
<1>2. PICK n : n = Len(o)
  OBVIOUS
<1>3. n \in Nat
  BY <1>1, <1>2, SeqFacts
<1>4. PICK R : R = {o[j] : j \in 1 .. n}
  OBVIOUS
<1>5. \A i \in 1 .. n : NextOk(h, o, i)
  BY <1>1, <1>2, LegalNext
<1>6. ASSUME NEW i \in 1 .. n, NEW j \in 1 .. n, i < j PROVE o[i] # o[j]
  <2>1. i \in 1 .. j - 1
    BY <1>3, <1>6
  <2>2. \A m \in 1 .. j - 1 : o[m] # o[j]
    BY <1>5, Zenon DEF NextOk
  <2>3. QED
    BY <2>1, <2>2, Zenon
<1>7. IsFiniteSet(R) /\ Cardinality(R) = n
  BY <1>3, <1>4, <1>6, ImageFacts
<1>8. R \in SUBSET Ids(h)
  BY <1>1, <1>2, <1>4
<1>9. Cardinality(R) <= Cardinality(Ids(h)) /\ (Cardinality(Ids(h)) = Cardinality(R) => Ids(h) = R)
  BY <1>8, FS_Subset
<1>10. ASSUME Len(o) = Cardinality(Ids(h)) PROVE \A id \in Ids(h) : \E i \in 1 .. Len(o) : o[i] = id
  <2>1. Ids(h) = R
    BY <1>2, <1>7, <1>9, <1>10, Zenon
  <2>2. QED
    BY <1>2, <1>4, <2>1
<1>11. ASSUME \A id \in Ids(h) : \E i \in 1 .. Len(o) : o[i] = id PROVE Len(o) = Cardinality(Ids(h))
  <2>1. Ids(h) = R
    BY <1>2, <1>4, <1>8, <1>11
  <2>2. QED
    BY <1>2, <1>7, <2>1, Zenon
<1>12. Len(o) <= Cardinality(Ids(h))
  BY <1>2, <1>7, <1>9, Zenon
<1>13. QED
  BY <1>10, <1>11, <1>12, Zenon

\* The set of operations that an order leaves of a key.
LEMMA SeenAll ==
    ASSUME NEW h, NEW H, NEW key, NEW name, Embeds(h, H, key, name), NEW o,
           \A id \in Ids(H) : \E i \in 1 .. Len(o) : o[i] = id
    PROVE  Seen(H, key, name, o, Len(o)) = Ids(h)
<1>1. PICK n : n = Len(o)
  OBVIOUS
<1>2. ASSUME NEW x \in Ids(h) PROVE x \in Seen(H, key, name, o, n)
  <2>1. PICK id \in OfKey(H, key) : name[id] = x
    BY Zenon DEF Embeds
  <2>2. id \in Ids(H)
    BY DEF OfKey
  <2>3. PICK i \in 1 .. n : o[i] = id
    BY <1>1, <2>2, Zenon
  <2>4. QED
    BY <2>1, <2>3 DEF Seen
<1>3. ASSUME NEW x \in Seen(H, key, name, o, n) PROVE x \in Ids(h)
  <2>1. PICK i \in 1 .. n : o[i] \in OfKey(H, key) /\ x = name[o[i]]
    BY DEF Seen
  <2>2. QED
    BY <2>1, Zenon DEF Embeds
<1>4. QED
  BY <1>1, <1>2, <1>3

\* A search that found nothing and was not killed settles the whole history.
LEMMA Refuted ==
    ASSUME NEW s, NEW v, AllClosed(s, v), NEW H, Whole(H), NEW key \in Key, NEW name,
           Embeds(s.history, H, key, name)
    PROVE  ~ Linearizable(H)
<1>1. SUFFICES ASSUME Linearizable(H) PROVE FALSE
  OBVIOUS
<1>2. IsFiniteSet(Ids(H))
  BY DEF Whole
<1>3. PICK o : IsLegal(H, o) /\ Len(o) = Cardinality(Ids(H))
  BY <1>1, <1>2, LinearizableIs, Zenon
<1>4. \A id \in Ids(H) : \E i \in 1 .. Len(o) : o[i] = id
  BY <1>2, <1>3, FullOrder
<1>5. PICK n : n = Len(o)
  OBVIOUS
<1>6. n \in 0 .. n
  BY <1>3, <1>5, SeqFacts DEF IsLegal
<1>7. \A j \in 0 .. Len(o) : <<Seen(H, key, name, o, j), StateAfter(H, o)[j][key]>> \in Known(s)
  BY <1>3, Covered, Zenon
<1>8. <<Seen(H, key, name, o, n), StateAfter(H, o)[n][key]>> \in Known(s)
  BY <1>5, <1>6, <1>7, Zenon
<1>9. Seen(H, key, name, o, n) = Ids(s.history)
  <2>1. Seen(H, key, name, o, Len(o)) = Ids(s.history)
    BY <1>4, SeenAll
  <2>2. QED
    BY <1>5, <2>1, Zenon
<1>10. PICK c : c = <<Seen(H, key, name, o, n), StateAfter(H, o)[n][key]>>
  OBVIOUS
<1>11. c[1] = Ids(s.history) /\ c \in Known(s)
  BY <1>8, <1>9, <1>10
<1>12. QED
  BY <1>11, Zenon DEF AllClosed, Closed

-----------------------------------------------------------------------------
(* The orders of the partitions merge into one.                             *)

KeysOf(H) == {H[k].key : k \in DOMAIN H}

\* p orders all operations of a key legally, and takes it through the states st.
Solves(H, key, p, st) ==
    /\ Len(p) \in Nat
    /\ \A i \in 1 .. Len(p) : p[i] \in OfKey(H, key)
    /\ \A x \in OfKey(H, key) : \E i \in 1 .. Len(p) : p[i] = x
    /\ \A i, j \in 1 .. Len(p) : i < j => p[i] # p[j]
    /\ \A i \in 1 .. Len(p) : \A x \in OfKey(H, key) :
          ReturnOf(H, x) < CallOf(H, p[i]) => \E j \in 1 .. i - 1 : p[j] = x
    /\ st[0] = Empty
    /\ \A i \in 1 .. Len(p) : /\ StepOk(st[i - 1], H[CallOf(H, p[i])].op)
                              /\ st[i] = StepState(st[i - 1], H[CallOf(H, p[i])].op)

\* x is among the first n of an order.
Among(o, n, x) == \E i \in 1 .. n : o[i] = x

\* The first n of o are, of a key, the first c of its own order.
Agrees(H, key, p, st, o, n, c) ==
    /\ \A x \in OfKey(H, key) : Among(o, n, x) <=> Among(p, c, x)
    /\ StateAfter(H, o)[n][key] = st[c]

\* o is legal, and made of beginnings of the orders p of the keys.
Merges(H, p, st, o, n) ==
    /\ IsLegal(H, o) /\ Len(o) = n
    /\ \A key \in KeysOf(H) :
          \E c \in 0 .. Len(p[key]) : Agrees(H, key, p[key], st[key], o, n, c)

\* What an order has one step later.
LEMMA AmongNext ==
    ASSUME NEW o, NEW n \in Nat, NEW x
    PROVE  /\ ~ Among(o, 0, x)
           /\ Among(o, n + 1, x) <=> Among(o, n, x) \/ o[n + 1] = x
<1>1. \A i : i \in 1 .. n + 1 <=> i \in 1 .. n \/ i = n + 1
  OBVIOUS
<1>2. ~ Among(o, 0, x)
  BY DEF Among
<1>3. QED
  BY <1>1, <1>2, Zenon DEF Among

\* There is an operation left whose key can go on: that of the operation that
\* returns first.
LEMMA MergeNext ==
    ASSUME NEW H, Whole(H), NEW p, NEW st, \A key \in KeysOf(H) : Solves(H, key, p[key], st[key]),
           NEW o, NEW n \in Nat, Merges(H, p, st, o, n), n < Cardinality(Ids(H))
    PROVE  \E y \in Ids(H), key \in KeysOf(H) : \E c \in 0 .. Len(p[key]) - 1 :
              /\ y \in OfKey(H, key) /\ y = p[key][c + 1]
              /\ Agrees(H, key, p[key], st[key], o, n, c)
              /\ ~ Among(o, n, y)
              /\ \A id \in Ids(H) : ReturnOf(H, id) < CallOf(H, y) => Among(o, n, id)
<1>1. IsHistory(H) /\ IsFiniteSet(Ids(H))
  BY DEF Whole
<1>2. IsLegal(H, o) /\ Len(o) = n
  BY Zenon DEF Merges
<1>3. PICK left : left = {x \in Ids(H) : ~ Among(o, n, x)}
  OBVIOUS
<1>4. left # {}
  <2>1. SUFFICES ASSUME left = {} PROVE FALSE
    OBVIOUS
  <2>2. \A id \in Ids(H) : \E i \in 1 .. Len(o) : o[i] = id
    BY <1>2, <1>3, <2>1, Zenon DEF Among
  <2>3. Len(o) = Cardinality(Ids(H))
    BY <1>1, <1>2, <2>2, FullOrder
  <2>4. QED
    BY <1>2, <2>3
<1>5. PICK T : T = {ReturnOf(H, x) : x \in left}
  OBVIOUS
<1>6. \A x \in Ids(H) : ReturnOf(H, x) \in Nat /\ CallOf(H, x) \in Nat /\ CallOf(H, x) < ReturnOf(H, x)
  BY <1>1, CallIs, Zenon
<1>7. T \in SUBSET Nat /\ T # {}
  BY <1>3, <1>4, <1>5, <1>6
<1>8. PICK r \in T : \A m \in T : r <= m
  BY <1>7, LeastOf
<1>9. PICK x \in left : ReturnOf(H, x) = r
  BY <1>5, <1>8
<1>10. x \in Ids(H) /\ ~ Among(o, n, x) /\ \A id \in left : ReturnOf(H, x) <= ReturnOf(H, id)
  BY <1>3, <1>5, <1>8, <1>9
<1>11. PICK key : key = H[CallOf(H, x)].key
  OBVIOUS
<1>12. x \in OfKey(H, key) /\ key \in KeysOf(H)
  <2>1. CallOf(H, x) \in DOMAIN H
    BY <1>1, <1>10, CallIs, Zenon
  <2>2. QED
    BY <1>10, <1>11, <2>1 DEF OfKey, KeysOf
<1>13. PICK q : q = p[key]
  OBVIOUS
<1>14. Solves(H, key, q, st[key])
  BY <1>12, <1>13, Zenon
<1>15. PICK c \in 0 .. Len(q) : Agrees(H, key, q, st[key], o, n, c)
  BY <1>12, <1>13, Zenon DEF Merges
<1>16. ~ Among(q, c, x)
  BY <1>10, <1>12, <1>15, Zenon DEF Agrees
<1>17. Len(q) \in Nat
  BY <1>14, Zenon DEF Solves
<1>18. PICK i \in 1 .. Len(q) : q[i] = x
  BY <1>12, <1>14, Zenon DEF Solves
<1>19. c < i
  <2>1. ~ (i \in 1 .. c)
    BY <1>16, <1>18, Zenon DEF Among
  <2>2. QED
    BY <1>15, <1>17, <2>1
<1>20. c \in 0 .. Len(q) - 1 /\ c + 1 \in 1 .. Len(q) /\ (c + 1) - 1 = c
  BY <1>15, <1>17, <1>19
<1>21. PICK y : y = q[c + 1]
  OBVIOUS
<1>22. y \in OfKey(H, key)
  BY <1>14, <1>20, <1>21, Zenon DEF Solves
<1>23. y \in Ids(H)
  BY <1>22 DEF OfKey
<1>24. ~ Among(q, c, y)
  <2>1. SUFFICES ASSUME NEW j \in 1 .. c, q[j] = y PROVE FALSE
    BY Zenon DEF Among
  <2>2. j < c + 1 /\ j \in 1 .. Len(q)
    BY <1>15, <1>17, <1>20
  <2>3. q[j] # q[c + 1]
    BY <1>14, <1>20, <2>2, Zenon DEF Solves
  <2>4. QED
    BY <1>21, <2>1, <2>3, Zenon
<1>25. ~ Among(o, n, y)
  BY <1>15, <1>22, <1>24, Zenon DEF Agrees
<1>26. ASSUME NEW id \in Ids(H), ReturnOf(H, id) < CallOf(H, y) PROVE Among(o, n, id)
  <2>1. SUFFICES ASSUME ~ Among(o, n, id) PROVE FALSE
    OBVIOUS
  <2>2. id \in left
    BY <1>3, <2>1
  <2>3. ReturnOf(H, x) <= ReturnOf(H, id)
    BY <1>10, <2>2, Zenon
  <2>4. ReturnOf(H, x) < CallOf(H, y)
    <3>1. ReturnOf(H, x) \in Nat /\ ReturnOf(H, id) \in Nat /\ CallOf(H, y) \in Nat
      BY <1>6, <1>10, <1>23, Zenon
    <3>2. QED
      BY <1>26, <2>3, <3>1
  <2>5. PICK k : k = c + 1
    OBVIOUS
  <2>6. k \in 1 .. Len(q) /\ ReturnOf(H, x) < CallOf(H, q[k])
    BY <1>20, <1>21, <2>4, <2>5, Zenon
  <2>7. \E j \in 1 .. k - 1 : q[j] = x
    BY <1>12, <1>14, <2>6, Zenon DEF Solves
  <2>8. k - 1 = c
    BY <1>20, <2>5
  <2>9. QED
    BY <1>16, <2>7, <2>8, Zenon DEF Among
<1>27. QED
  BY <1>12, <1>13, <1>15, <1>20, <1>21, <1>22, <1>23, <1>25, <1>26, Zenon

\* The orders merge one operation further.
LEMMA MergeStep ==
    ASSUME NEW H, Whole(H), NEW p, NEW st, \A key \in KeysOf(H) : Solves(H, key, p[key], st[key]),
           NEW o, NEW n \in Nat, Merges(H, p, st, o, n), n < Cardinality(Ids(H))
    PROVE  \E o2 : Merges(H, p, st, o2, n + 1)
<1>1. PICK y \in Ids(H), key \in KeysOf(H) : \E c \in 0 .. Len(p[key]) - 1 :
         /\ y \in OfKey(H, key) /\ y = p[key][c + 1]
         /\ Agrees(H, key, p[key], st[key], o, n, c)
         /\ ~ Among(o, n, y)
         /\ \A id \in Ids(H) : ReturnOf(H, id) < CallOf(H, y) => Among(o, n, id)
  BY MergeNext
<1>2. PICK q : q = p[key]
  OBVIOUS
<1>3. PICK s : s = st[key]
  OBVIOUS
<1>4. PICK c \in 0 .. Len(q) - 1 :
         /\ y \in OfKey(H, key) /\ y = q[c + 1]
         /\ Agrees(H, key, q, s, o, n, c)
         /\ ~ Among(o, n, y)
         /\ \A id \in Ids(H) : ReturnOf(H, id) < CallOf(H, y) => Among(o, n, id)
  BY <1>1, <1>2, <1>3, Zenon
<1>5. Solves(H, key, q, s)
  BY <1>2, <1>3, Zenon
<1>6. Len(q) \in Nat
  BY <1>5, Zenon DEF Solves
<1>7. c \in Nat /\ c + 1 \in 1 .. Len(q) /\ c + 1 \in 0 .. Len(q) /\ (c + 1) - 1 = c
  BY <1>6
<1>8. IsLegal(H, o) /\ Len(o) = n
  BY Zenon DEF Merges
<1>9. IsSeq(o) /\ (\A i \in 1 .. n : o[i] \in Ids(H)) /\ LegalPrefix(H, o)
  BY <1>8, Zenon DEF IsLegal
<1>10. PICK o2 : o2 = Append(o, y)
  OBVIOUS
<1>11. /\ IsSeq(o2) /\ Len(o2) = n + 1 /\ o2[n + 1] = y
       /\ \A i \in 1 .. n : o2[i] = o[i]
  BY <1>8, <1>9, <1>10, AppendFacts
<1>12. PICK after : after = StateAfter(H, o2)
  OBVIOUS
<1>13. after[n] = StateAfter(H, o)[n]
  <2>1. n <= Len(o) /\ n <= Len(o2) /\ n \in 0 .. n /\ \A i \in 1 .. n : o[i] = o2[i]
    BY <1>8, <1>11
  <2>2. \A i \in 0 .. n : StateAfter(H, o)[i] = StateAfter(H, o2)[i]
    BY <1>9, <1>11, <2>1, AfterPrefix
  <2>3. QED
    BY <1>12, <2>1, <2>2, Zenon
<1>14. H[CallOf(H, y)].key = key
  BY <1>4 DEF OfKey
<1>15. PICK op : op = H[CallOf(H, y)].op
  OBVIOUS
<1>16. after[n][key] = s[c]
  BY <1>4, <1>13, Zenon DEF Agrees
<1>17. StepOk(s[c], op) /\ s[c + 1] = StepState(s[c], op)
  <2>1. PICK k : k = c + 1
    OBVIOUS
  <2>2. k \in 1 .. Len(q) /\ k - 1 = c /\ q[k] = y
    BY <1>4, <1>7, <2>1, Zenon
  <2>3. StepOk(s[k - 1], H[CallOf(H, q[k])].op) /\ s[k] = StepState(s[k - 1], H[CallOf(H, q[k])].op)
    BY <1>5, <2>2, Zenon DEF Solves
  <2>4. QED
    BY <1>15, <2>1, <2>2, <2>3, Zenon
<1>18. NextOk(H, o2, n + 1)
  <2>1. PICK m : m = n + 1
    OBVIOUS
  <2>2. m - 1 = n /\ o2[m] = y
    BY <1>11, <2>1
  <2>3. StepOk(after[m - 1][H[CallOf(H, o2[m])].key], H[CallOf(H, o2[m])].op)
    BY <1>14, <1>15, <1>16, <1>17, <2>2, Zenon
  <2>4. \A j \in 1 .. m - 1 : o2[j] # o2[m]
    BY <1>4, <1>11, <2>2, Zenon DEF Among
  <2>5. \A id \in Ids(H) : ReturnOf(H, id) < CallOf(H, o2[m]) => \E j \in 1 .. m - 1 : o2[j] = id
    BY <1>4, <1>11, <2>2, Zenon DEF Among
  <2>6. QED
    BY <1>12, <2>1, <2>3, <2>4, <2>5, Zenon DEF NextOk
<1>19. LegalPrefix(H, o2)
  BY <1>8, <1>9, <1>10, <1>18, LegalAppend
<1>20. IsLegal(H, o2)
  <2>1. \A i \in 1 .. n + 1 : o2[i] \in Ids(H)
    BY <1>9, <1>11
  <2>2. QED
    BY <1>11, <1>19, <2>1, Zenon DEF IsLegal
<1>21. \A x : Among(o2, n + 1, x) <=> Among(o, n, x) \/ x = y
  <2>1. \A x : Among(o2, n, x) <=> Among(o, n, x)
    BY <1>11, Zenon DEF Among
  <2>2. \A x : Among(o2, n + 1, x) <=> Among(o2, n, x) \/ o2[n + 1] = x
    BY AmongNext
  <2>3. QED
    BY <1>11, <2>1, <2>2, Zenon
<1>22. ASSUME NEW k \in Key
       PROVE  after[n + 1][k] = IF k = key THEN StepState(after[n][k], op) ELSE after[n][k]
  <2>1. PICK m : m = n + 1
    OBVIOUS
  <2>2. m \in 1 .. Len(o2) /\ m - 1 = n /\ o2[m] = y
    BY <1>11, <2>1
  <2>3. after[m][k] = IF k = H[CallOf(H, o2[m])].key
                      THEN StepState(after[m - 1][k], H[CallOf(H, o2[m])].op)
                      ELSE after[m - 1][k]
    BY <1>11, <1>12, <2>2, StateAfterFacts
  <2>4. QED
    BY <1>14, <1>15, <2>1, <2>2, <2>3, Zenon
<1>23. KeysOf(H) \subseteq Key
  BY DEF KeysOf, Whole
<1>24. ASSUME NEW k \in KeysOf(H)
       PROVE  \E d \in 0 .. Len(p[k]) : Agrees(H, k, p[k], st[k], o2, n + 1, d)
  <2>1. CASE k = key
    <3>1. ASSUME NEW x \in OfKey(H, key) PROVE Among(o2, n + 1, x) <=> Among(q, c + 1, x)
      <4>1. Among(o, n, x) <=> Among(q, c, x)
        BY <1>4, Zenon DEF Agrees
      <4>2. Among(q, c + 1, x) <=> Among(q, c, x) \/ q[c + 1] = x
        BY <1>7, AmongNext
      <4>3. QED
        BY <1>4, <1>21, <4>1, <4>2, Zenon
    <3>2. after[n + 1][key] = s[c + 1]
      <4>1. key \in Key
        BY <1>23
      <4>2. QED
        BY <1>16, <1>17, <1>22, <4>1, Zenon
    <3>3. Agrees(H, key, q, s, o2, n + 1, c + 1)
      BY <1>12, <3>1, <3>2, Zenon DEF Agrees
    <3>4. QED
      BY <1>2, <1>3, <1>7, <2>1, <3>3, Zenon
  <2>2. CASE k # key
    <3>1. PICK d \in 0 .. Len(p[k]) : Agrees(H, k, p[k], st[k], o, n, d)
      BY Zenon DEF Merges
    <3>2. y \notin OfKey(H, k)
      BY <1>14, <2>2 DEF OfKey
    <3>3. ASSUME NEW x \in OfKey(H, k) PROVE Among(o2, n + 1, x) <=> Among(p[k], d, x)
      <4>1. Among(o, n, x) <=> Among(p[k], d, x)
        BY <3>1, Zenon DEF Agrees
      <4>2. x # y
        BY <3>2, <3>3, Zenon
      <4>3. QED
        BY <1>21, <4>1, <4>2, Zenon
    <3>4. after[n + 1][k] = st[k][d]
      <4>1. k \in Key
        BY <1>23
      <4>2. StateAfter(H, o)[n][k] = st[k][d]
        BY <3>1, Zenon DEF Agrees
      <4>3. QED
        BY <1>13, <1>22, <2>2, <4>1, <4>2, Zenon
    <3>5. Agrees(H, k, p[k], st[k], o2, n + 1, d)
      BY <1>12, <3>3, <3>4, Zenon DEF Agrees
    <3>6. QED
      BY <3>5, Zenon
  <2>3. QED
    BY <2>1, <2>2
<1>25. Merges(H, p, st, o2, n + 1)
  BY <1>11, <1>20, <1>24, Zenon DEF Merges
<1>26. QED
  BY <1>25, Zenon

\* When every key has an order, the whole history has one.
LEMMA MergeAll ==
    ASSUME NEW H, Whole(H), \A key \in KeysOf(H) : \E q, s : Solves(H, key, q, s)
    PROVE  Linearizable(H)
<1>1. PICK p : p = [key \in KeysOf(H) |-> CHOOSE q : \E s : Solves(H, key, q, s)]
  OBVIOUS
<1>2. PICK st : st = [key \in KeysOf(H) |-> CHOOSE s : Solves(H, key, p[key], s)]
  OBVIOUS
<1>3. ASSUME NEW key \in KeysOf(H) PROVE Solves(H, key, p[key], st[key])
  <2>1. p[key] = CHOOSE q : \E s : Solves(H, key, q, s)
    BY <1>1, Zenon
  <2>2. \E s : Solves(H, key, p[key], s)
    BY <2>1, Zenon
  <2>3. st[key] = CHOOSE s : Solves(H, key, p[key], s)
    BY <1>2, Zenon
  <2>4. QED
    BY <2>2, <2>3, Zenon
<1>4. IsFiniteSet(Ids(H))
  BY DEF Whole
<1>5. PICK z : z = Cardinality(Ids(H))
  OBVIOUS
<1>6. z \in Nat
  BY <1>4, <1>5, FS_CardinalityType
<1> DEFINE T == {n \in Nat : n <= z => \E o : Merges(H, p, st, o, n)}
<1>7. 0 \in T
  <2>1. PICK o : o = <<>>
    OBVIOUS
  <2>2. IsSeq(o) /\ Len(o) = 0
    <3>1. o \in Seq({})
      BY <2>1
    <3>2. QED
      BY <2>1, <3>1 DEF IsSeq
  <2>3. LegalPrefix(H, o)
    <3>1. \A i \in 1 .. Len(o) : NextOk(H, o, i)
      BY <2>2
    <3>2. QED
      BY <2>2, <3>1, LegalNext
  <2>4. IsLegal(H, o)
    <3>1. \A i \in 1 .. Len(o) : o[i] \in Ids(H)
      BY <2>2
    <3>2. QED
      BY <2>2, <2>3, <3>1, Zenon DEF IsLegal
  <2>5. StateAfter(H, o)[0] = [key \in Key |-> Empty]
    BY <2>2, StateAfterFacts
  <2>6. ASSUME NEW key \in KeysOf(H)
        PROVE  \E c \in 0 .. Len(p[key]) : Agrees(H, key, p[key], st[key], o, 0, c)
    <3>1. Len(p[key]) \in Nat /\ st[key][0] = Empty
      BY <1>3, Zenon DEF Solves
    <3>2. 0 \in 0 .. Len(p[key])
      BY <3>1
    <3>3. \A x : ~ Among(o, 0, x) /\ ~ Among(p[key], 0, x)
      BY AmongNext
    <3>4. key \in Key
      BY DEF KeysOf, Whole
    <3>5. StateAfter(H, o)[0][key] = st[key][0]
      BY <2>5, <3>1, <3>4, Zenon
    <3>6. QED
      BY <3>2, <3>3, <3>5, Zenon DEF Agrees
  <2>7. Merges(H, p, st, o, 0)
    BY <2>2, <2>4, <2>6, Zenon DEF Merges
  <2>8. QED
    BY <2>7
<1>8. ASSUME NEW n \in Nat, n \in T PROVE n + 1 \in T
  <2>1. SUFFICES ASSUME n + 1 <= z PROVE \E o : Merges(H, p, st, o, n + 1)
    OBVIOUS
  <2>2. n <= z /\ n < Cardinality(Ids(H))
    BY <1>5, <1>6, <2>1
  <2>3. PICK o : Merges(H, p, st, o, n)
    BY <1>8, <2>2
  <2>4. QED
    BY <1>3, <2>2, <2>3, MergeStep
<1>9. \A n \in Nat : n \in T
  <2> HIDE DEF T
  <2>1. QED
    BY <1>7, <1>8, NatSetInduction
<1>10. PICK o : Merges(H, p, st, o, z)
  BY <1>6, <1>9
<1>11. IsLegal(H, o) /\ Len(o) = Cardinality(Ids(H))
  BY <1>5, <1>10, Zenon DEF Merges
<1>12. QED
  BY <1>4, <1>11, LinearizableIs, Zenon

\* A search that returned true found an order of the operations of its key.
LEMMA Solved ==
    ASSUME NEW s, NEW v, NEW kl, SearchInv(s, v, kl), s.st = "true", NEW H, NEW key, NEW name,
           Embeds(s.history, H, key, name)
    PROVE  \E q, st : Solves(H, key, q, st)
<1>1. IsPart(s.history) /\ StackOK(s) /\ LegalOK(s) /\ TrueOK(s)
  BY Zenon DEF SearchInv
<1>2. PICK h : h = s.history
  OBVIOUS
<1>3. PICK n : n = Len(s.calls)
  OBVIOUS
<1>4. PICK ord : ord = OrderOf(s)
  OBVIOUS
<1>5. /\ IsSeq(ord) /\ Len(ord) = n
      /\ \A i \in 0 .. n : Done(s, i) = {ord[j] : j \in 1 .. i}
      /\ LegalPrefix(h, ord)
  <2>1. /\ IsSeq(OrderOf(s)) /\ Len(OrderOf(s)) = Len(s.calls)
        /\ \A i \in 0 .. Len(s.calls) : Done(s, i) = {OrderOf(s)[j] : j \in 1 .. i}
        /\ LegalPrefix(s.history, OrderOf(s))
    BY <1>1, OrderLegal
  <2>2. QED
    BY <1>2, <1>3, <1>4, <2>1
<1>6. n \in Nat /\ n \in 0 .. n /\ DOMAIN s.calls = 1 .. n
  BY <1>1, <1>3, SeqFacts DEF StackOK
<1>7. {ord[j] : j \in 1 .. n} = Ids(h)
  BY <1>1, <1>2, <1>3, <1>5, <1>6, Zenon DEF TrueOK
<1>8. /\ \A i \in 1 .. n : ord[i] \in Ids(h)
      /\ \A x \in Ids(h) : \E i \in 1 .. n : ord[i] = x
  BY <1>7
<1>9. \A i \in 1 .. n : NextOk(h, ord, i)
  BY <1>5, LegalNext
<1>10. PICK own : own = OfKey(H, key)
  OBVIOUS
<1>11. /\ \A x, y \in own : name[x] = name[y] => x = y
       /\ \A x \in own : name[x] \in Ids(h) /\ h[CallOf(h, name[x])].op = H[CallOf(H, x)].op
       /\ \A x \in Ids(h) : \E y \in own : name[y] = x
       /\ \A x, y \in own :
             ReturnOf(h, name[x]) < CallOf(h, name[y]) <=> ReturnOf(H, x) < CallOf(H, y)
  BY <1>2, <1>10, Zenon DEF Embeds
<1>12. PICK q : q = [i \in 1 .. n |-> CHOOSE y \in own : name[y] = ord[i]]
  OBVIOUS
<1>13. Len(q) = n
  <2>1. DOMAIN q = 1 .. n /\ q = [i \in 1 .. n |-> q[i]]
    BY <1>12
  <2>2. QED
    BY <1>6, <2>1, FunctionSeq
<1>14. ASSUME NEW i \in 1 .. n PROVE q[i] \in own /\ name[q[i]] = ord[i]
  <2>1. q[i] = CHOOSE y \in own : name[y] = ord[i]
    BY <1>12, Zenon
  <2>2. \E y \in own : name[y] = ord[i]
    BY <1>8, <1>11, Zenon
  <2>3. QED
    BY <2>1, <2>2, Zenon
<1>15. PICK st : st = [i \in 0 .. n |-> StateAt(s, i)]
  OBVIOUS
<1>16. \A i \in 1 .. n : i \in 0 .. n /\ i - 1 \in 0 .. n
  BY <1>6
<1>17. ASSUME NEW i \in 1 .. n
       PROVE  /\ StepOk(st[i - 1], H[CallOf(H, q[i])].op)
              /\ st[i] = StepState(st[i - 1], H[CallOf(H, q[i])].op)
  <2>1. PICK k : k = s.calls[i].entry
    OBVIOUS
  <2>2. k \in DOMAIN h /\ h[k].kind = "call"
    BY <1>1, <1>2, <1>6, <2>1, Zenon DEF StackOK
  <2>3. ord[i] = h[k].id
    BY <1>2, <1>4, <1>6, <2>1 DEF OrderOf
  <2>4. k = CallOf(h, h[k].id)
    <3>1. IsHistory(h)
      BY <1>1, <1>2, Zenon DEF IsPart
    <3>2. QED
      BY <2>2, <3>1, Matched
  <2>5. h[k].op = H[CallOf(H, q[i])].op
    <3>1. q[i] \in own /\ name[q[i]] = ord[i]
      BY <1>14, Zenon
    <3>2. h[CallOf(h, name[q[i]])].op = H[CallOf(H, q[i])].op
      BY <1>11, <3>1, Zenon
    <3>3. CallOf(h, name[q[i]]) = k
      BY <2>3, <2>4, <3>1, Zenon
    <3>4. QED
      BY <3>2, <3>3, Zenon
  <2>6. StepOk(StateAt(s, i - 1), h[k].op) /\ StateAt(s, i) = StepState(StateAt(s, i - 1), h[k].op)
    BY <1>1, <1>2, <1>6, <2>1, Zenon DEF LegalOK
  <2>7. st[i] = StateAt(s, i) /\ st[i - 1] = StateAt(s, i - 1)
    BY <1>15, <1>16, Zenon
  <2>8. QED
    BY <2>5, <2>6, <2>7, Zenon
<1>18. st[0] = Empty
  <2>1. 0 \in 0 .. n
    BY <1>6
  <2>2. QED
    BY <1>1, <1>15, <2>1, Zenon DEF LegalOK
<1>19. ASSUME NEW x \in own PROVE \E i \in 1 .. n : q[i] = x
  <2>1. PICK i \in 1 .. n : ord[i] = name[x]
    BY <1>8, <1>11, Zenon
  <2>2. q[i] = x
    <3>1. q[i] \in own /\ name[q[i]] = name[x]
      BY <1>14, <2>1, Zenon
    <3>2. QED
      BY <1>11, <3>1, Zenon
  <2>3. QED
    BY <2>2, Zenon
<1>20. ASSUME NEW i \in 1 .. n, NEW j \in 1 .. n, i < j PROVE q[i] # q[j]
  <2>1. i \in 1 .. j - 1
    BY <1>6, <1>20
  <2>2. \A m \in 1 .. j - 1 : ord[m] # ord[j]
    BY <1>9, Zenon DEF NextOk
  <2>3. ord[i] # ord[j]
    BY <2>1, <2>2, Zenon
  <2>4. QED
    BY <1>14, <2>3, Zenon
<1>21. ASSUME NEW i \in 1 .. n, NEW x \in own, ReturnOf(H, x) < CallOf(H, q[i])
       PROVE  \E j \in 1 .. i - 1 : q[j] = x
  <2>1. q[i] \in own /\ name[q[i]] = ord[i]
    BY <1>14, Zenon
  <2>2. ReturnOf(h, name[x]) < CallOf(h, name[q[i]])
    BY <1>11, <1>21, <2>1, Zenon
  <2>3. ReturnOf(h, name[x]) < CallOf(h, ord[i]) /\ name[x] \in Ids(h)
    BY <1>11, <2>1, <2>2, Zenon
  <2>4. PICK j \in 1 .. i - 1 : ord[j] = name[x]
    BY <1>9, <2>3, Zenon DEF NextOk
  <2>5. j \in 1 .. n
    BY <1>6
  <2>6. q[j] = x
    <3>1. q[j] \in own /\ name[q[j]] = name[x]
      BY <1>14, <2>4, <2>5, Zenon
    <3>2. QED
      BY <1>11, <3>1, Zenon
  <2>7. QED
    BY <2>6, Zenon
<1>22. Solves(H, key, q, st)
  BY <1>6, <1>10, <1>13, <1>14, <1>17, <1>18, <1>19, <1>20, <1>21, Zenon DEF Solves
<1>23. QED
  BY <1>22, Zenon

-----------------------------------------------------------------------------
(* The histories of Init.                                                  *)

\* An arrangement of a finite set has every element once.
LEMMA SeqsFacts ==
    ASSUME NEW S, IsFiniteSet(S), NEW q \in SetToSeqs(S)
    PROVE  /\ Cardinality(S) \in Nat
           /\ q \in [1 .. Cardinality(S) -> S]
           /\ \A i, j \in 1 .. Cardinality(S) : q[i] = q[j] => i = j
           /\ \A x \in S : \E i \in 1 .. Cardinality(S) : q[i] = x
<1>1. PICK n : n = Cardinality(S)
  OBVIOUS
<1>2. n \in Nat
  BY <1>1, FS_CardinalityType
<1>3. q \in [1 .. n -> S] /\ \A i, j \in 1 .. n : i # j => q[i] # q[j]
  BY <1>1 DEF SetToSeqs
<1>4. q \in Injection(1 .. n, S)
  BY <1>3 DEF Injection, IsInjective
<1>5. Cardinality(1 .. n) = n
  BY <1>2, FS_Interval
<1>6. q \in Surjection(1 .. n, S)
  BY <1>1, <1>4, <1>5, FS_Injection
<1>7. \A x \in S : \E i \in 1 .. n : q[i] = x
  BY <1>6 DEF Surjection
<1>8. \A i, j \in 1 .. n : q[i] = q[j] => i = j
  BY <1>3, Zenon
<1>9. QED
  BY <1>1, <1>2, <1>3, <1>7, <1>8, Zenon

\* Of m times, n are of calls, and each operation returns after its call.
IsShape(n, m, c, r) ==
    /\ c \in SUBSET (1 .. m) /\ IsFiniteSet(c) /\ Cardinality(c) = n
    /\ r \in [1 .. n -> (1 .. m) \ c]
    /\ \A i, j \in 1 .. n : r[i] = r[j] => i = j
    /\ \A x \in (1 .. m) \ c : \E i \in 1 .. n : r[i] = x
    /\ \A k \in c : k < r[Rank(c, k) + 1]

\* What makes a shape of n operations.
LEMMA ShapeFacts ==
    ASSUME NEW n \in 0 .. MaxOps, n \in Nat, NEW shape \in Shapes[n], NEW c, c = shape.calls,
           NEW r, r = shape.returns, NEW m, m = 2 * n
    PROVE  IsShape(n, m, c, r)
<1>2. m \in Nat
  OBVIOUS
<1>3. PICK D : D = 1 .. m
  OBVIOUS
<1>4. IsFiniteSet(D) /\ Cardinality(D) = m
  BY <1>2, <1>3, FS_Interval
<1>5. Shapes[n] = UNION {{[calls |-> d, returns |-> q] :
                            q \in {p \in SetToSeqs((1 .. 2 * n) \ d) :
                                     \A k \in d : k < p[Rank(d, k) + 1]}} :
                           d \in {e \in SUBSET (1 .. 2 * n) : Cardinality(e) = n}}
  BY DEF Shapes
<1>6. PICK d \in {e \in SUBSET (1 .. 2 * n) : Cardinality(e) = n} :
         shape \in {[calls |-> d, returns |-> q] :
                      q \in {p \in SetToSeqs((1 .. 2 * n) \ d) :
                               \A k \in d : k < p[Rank(d, k) + 1]}}
  BY <1>5
<1>7. d \in SUBSET D /\ Cardinality(d) = n
  BY <1>3, <1>6
<1>8. PICK q \in {p \in SetToSeqs((1 .. 2 * n) \ d) : \A k \in d : k < p[Rank(d, k) + 1]} :
         shape = [calls |-> d, returns |-> q]
  BY <1>6
<1>9. q \in SetToSeqs(D \ d) /\ \A k \in d : k < q[Rank(d, k) + 1]
  BY <1>3, <1>8
<1>10. c = d /\ r = q
  BY <1>8
<1>11. IsFiniteSet(c)
  BY <1>4, <1>7, <1>10, FS_Subset
<1>12. PICK S : S = D \ c
  OBVIOUS
<1>13. IsFiniteSet(S) /\ Cardinality(S) = n
  <2>1. D \cap c = c
    BY <1>7, <1>10
  <2>2. IsFiniteSet(D \ c) /\ Cardinality(D \ c) = Cardinality(D) - Cardinality(D \cap c)
    BY <1>4, FS_Difference
  <2>3. Cardinality(D \ c) = m - n
    BY <1>4, <1>7, <1>10, <2>1, <2>2, Zenon
  <2>4. m - n = n
    OBVIOUS
  <2>5. QED
    BY <1>12, <2>2, <2>3, <2>4, Zenon
<1>14. r \in SetToSeqs(S)
  BY <1>9, <1>10, <1>12, Zenon
<1>15. /\ r \in [1 .. n -> S]
       /\ \A i, j \in 1 .. n : r[i] = r[j] => i = j
       /\ \A x \in S : \E i \in 1 .. n : r[i] = x
  BY <1>13, <1>14, SeqsFacts
<1>16. QED
  BY <1>3, <1>7, <1>9, <1>10, <1>11, <1>12, <1>15, Zenon DEF IsShape

\* The operation that entry k of Entries belongs to.
OpAt(shape, ops, k) ==
    IF k \in shape.calls THEN Rank(shape.calls, k) + 1
    ELSE CHOOSE i \in DOMAIN ops : shape.returns[i] = k

\* Init begins with a history.
LEMMA EntriesWhole ==
    ASSUME NEW ops, NEW n \in 0 .. MaxOps, n \in Nat, Len(ops) = n, DOMAIN ops = 1 .. n,
           \A i \in DOMAIN ops : ops[i].key \in Key, NEW shape \in Shapes[n]
    PROVE  Whole(Entries(shape, ops))
<1>1. PICK c : c = shape.calls
  OBVIOUS
<1>2. PICK r : r = shape.returns
  OBVIOUS
<1>3. PICK m : m = 2 * n
  OBVIOUS
<1>4. /\ c \in SUBSET (1 .. m) /\ IsFiniteSet(c) /\ Cardinality(c) = n
      /\ r \in [1 .. n -> (1 .. m) \ c]
      /\ \A i, j \in 1 .. n : r[i] = r[j] => i = j
      /\ \A x \in (1 .. m) \ c : \E i \in 1 .. n : r[i] = x
      /\ \A k \in c : k < r[Rank(c, k) + 1]
  <2>1. IsShape(n, m, c, r)
    BY <1>1, <1>2, <1>3, ShapeFacts
  <2>2. QED
    BY <2>1, Zenon DEF IsShape
<1>5. m \in Nat
  BY <1>3
<1>6. PICK place : place = [k \in 1 .. m |-> OpAt(shape, ops, k)]
  OBVIOUS
<1>7. PICK H : H = Entries(shape, ops)
  OBVIOUS
<1>8. H = [k \in 1 .. m |-> [kind |-> IF k \in c THEN "call" ELSE "return", id |-> place[k],
                             key |-> ops[place[k]].key, op |-> ops[place[k]].op]]
  <2>1. Entries(shape, ops) =
          [k \in 1 .. 2 * Len(ops) |->
             [kind |-> IF k \in shape.calls THEN "call" ELSE "return", id |-> OpAt(shape, ops, k),
              key |-> ops[OpAt(shape, ops, k)].key, op |-> ops[OpAt(shape, ops, k)].op]]
    BY Zenon DEF Entries, OpAt
  <2>2. QED
    BY <1>1, <1>3, <1>6, <1>7, <2>1
<1>9. /\ DOMAIN H = 1 .. m
      /\ \A k \in 1 .. m : /\ H[k].kind = (IF k \in c THEN "call" ELSE "return")
                           /\ H[k].id = place[k] /\ H[k].key = ops[place[k]].key
                           /\ H[k].op = ops[place[k]].op
  BY <1>8
<1>10. IsSeq(H)
  <2>1. H = [k \in 1 .. m |-> H[k]]
    BY <1>8, <1>9
  <2>2. QED
    BY <1>5, <1>9, <2>1, FunctionSeq
<1>11. /\ \A x \in c : Rank(c, x) \in 0 .. n - 1
       /\ \A x, y \in c : Rank(c, x) = Rank(c, y) => x = y
       /\ \A i \in 0 .. n - 1 : \E x \in c : Rank(c, x) = i
  <2>1. c \in SUBSET Nat
    BY <1>4
  <2>2. QED
    BY <1>4, <2>1, RankFacts
<1>12. ASSUME NEW k \in c PROVE k \in 1 .. m /\ place[k] = Rank(c, k) + 1 /\ place[k] \in 1 .. n
  <2>1. k \in 1 .. m
    BY <1>4
  <2>2. place[k] = Rank(c, k) + 1
    <3>1. place[k] = OpAt(shape, ops, k)
      BY <1>6, <2>1, Zenon
    <3>2. QED
      BY <1>1, <3>1, Zenon DEF OpAt
  <2>3. Rank(c, k) \in 0 .. n - 1
    BY <1>11, Zenon
  <2>4. QED
    BY <2>1, <2>2, <2>3
<1>13. ASSUME NEW k \in 1 .. m, k \notin c PROVE place[k] \in 1 .. n /\ r[place[k]] = k
  <2>1. place[k] = CHOOSE i \in 1 .. n : r[i] = k
    <3>1. place[k] = OpAt(shape, ops, k)
      BY <1>6, Zenon
    <3>2. OpAt(shape, ops, k) = CHOOSE i \in DOMAIN ops : shape.returns[i] = k
      BY <1>1, <1>13, Zenon DEF OpAt
    <3>3. QED
      BY <1>2, <3>1, <3>2, Zenon
  <2>2. k \in (1 .. m) \ c
    BY <1>13
  <2>3. \E i \in 1 .. n : r[i] = k
    BY <1>4, <2>2, Zenon
  <2>4. QED
    BY <2>1, <2>3, Zenon
<1>14. ASSUME NEW k \in 1 .. m PROVE place[k] \in 1 .. n
  BY <1>12, <1>13, Zenon
<1>15. Ids(H) \subseteq 1 .. n
  BY <1>9, <1>14 DEF Ids
<1>16. ASSUME NEW id \in 1 .. n
       PROVE  \E x, y \in 1 .. m :
                 /\ x < y
                 /\ H[x].id = id /\ H[x].kind = "call"
                 /\ H[y].id = id /\ H[y].kind = "return"
                 /\ \A k \in 1 .. m : H[k].id = id => k = x \/ k = y
  <2>1. id - 1 \in 0 .. n - 1 /\ (id - 1) + 1 = id
    OBVIOUS
  <2>2. PICK x \in c : Rank(c, x) = id - 1
    BY <1>11, <2>1, Zenon
  <2>3. x \in 1 .. m /\ place[x] = id
    BY <1>12, <2>1, <2>2, Zenon
  <2>4. PICK y : y = r[id]
    OBVIOUS
  <2>5. y \in 1 .. m /\ y \notin c
    BY <1>4, <2>4
  <2>6. place[y] = id
    <3>1. place[y] \in 1 .. n /\ r[place[y]] = r[id]
      BY <1>13, <2>4, <2>5, Zenon
    <3>2. QED
      BY <1>4, <3>1, Zenon
  <2>7. x < y
    <3>1. x < r[Rank(c, x) + 1]
      BY <1>4, Zenon
    <3>2. QED
      BY <2>1, <2>2, <2>4, <3>1, Zenon
  <2>8. ASSUME NEW k \in 1 .. m, H[k].id = id PROVE k = x \/ k = y
    <3>1. place[k] = id
      BY <1>9, <2>8, Zenon
    <3>2. CASE k \in c
      <4>1. Rank(c, k) + 1 = Rank(c, x) + 1
        BY <1>12, <2>3, <3>1, <3>2, Zenon
      <4>2. Rank(c, k) \in 0 .. n - 1 /\ Rank(c, x) \in 0 .. n - 1
        BY <1>11, <3>2, Zenon
      <4>3. Rank(c, k) = Rank(c, x)
        BY <4>1, <4>2
      <4>4. QED
        BY <1>11, <3>2, <4>3, Zenon
    <3>3. CASE k \notin c
      BY <1>13, <2>4, <3>1, <3>3, Zenon
    <3>4. QED
      BY <3>2, <3>3
  <2>9. QED
    BY <1>9, <2>3, <2>5, <2>6, <2>7, <2>8, ZenonT(60)
<1>17. IsHistory(H)
  <2>1. \A k \in 1 .. m : H[k].kind \in {"call", "return"}
    BY <1>9, Zenon
  <2>2. \A id \in Ids(H) : id \in 1 .. n
    BY <1>15
  <2>3. QED
    <3>1. DOMAIN H = 1 .. m
      BY <1>9
    <3>2. \A k \in DOMAIN H : H[k].kind \in {"call", "return"}
      BY <2>1, <3>1, Zenon
    <3>3. ASSUME NEW id \in Ids(H)
          PROVE  \E x, y \in DOMAIN H :
                    /\ x < y
                    /\ H[x].id = id /\ H[x].kind = "call"
                    /\ H[y].id = id /\ H[y].kind = "return"
                    /\ \A k \in DOMAIN H : H[k].id = id => k = x \/ k = y
      <4>1. id \in 1 .. n
        BY <2>2, Zenon
      <4>2. PICK x \in 1 .. m, y \in 1 .. m :
               /\ x < y
               /\ H[x].id = id /\ H[x].kind = "call"
               /\ H[y].id = id /\ H[y].kind = "return"
               /\ \A k \in 1 .. m : H[k].id = id => k = x \/ k = y
        BY <1>16, <4>1, Zenon
      <4>3. QED
        BY <3>1, <4>2, Zenon
    <3>4. QED
      BY <1>10, <3>2, <3>3, Zenon DEF IsHistory
<1>18. IsFiniteSet(Ids(H)) /\ Ids(H) \subseteq Nat
  <2>1. IsFiniteSet(1 .. n)
    BY FS_Interval
  <2>2. QED
    BY <1>15, <2>1, FS_Subset
<1>19. \A k \in 1 .. m : H[k].key \in Key
  BY <1>9, <1>14, Zenon
<1>20. ASSUME NEW k \in 1 .. m, NEW l \in 1 .. m, H[k].id = H[l].id
       PROVE  H[k].key = H[l].key /\ H[k].op = H[l].op
  <2>1. place[k] = place[l]
    BY <1>9, <1>20, Zenon
  <2>2. QED
    BY <1>9, <2>1, ZenonT(60)
<1>21. Whole(H)
  BY <1>9, <1>17, <1>18, <1>19, <1>20, Zenon DEF Whole
<1>22. QED
  BY <1>7, <1>21, Zenon

\* Init chooses a history, and whether to explain it and to set a timer.
LEMMA InitWhole ==
    ASSUME Init
    PROVE  Whole(history) /\ computeInfo \in BOOLEAN /\ timeout \in BOOLEAN
<1>1. PICK scope \in Scopes :
         /\ \E ops \in scope.ops : \E shape \in Shapes[Len(ops)] : history = Entries(shape, ops)
         /\ computeInfo \in scope.verbose
         /\ timeout \in scope.timeouts
  BY Zenon DEF Init
<1>2. PICK ops \in scope.ops : \E shape \in Shapes[Len(ops)] : history = Entries(shape, ops)
  BY <1>1, Zenon
<1>3. PICK n : n = Len(ops)
  OBVIOUS
<1>4. PICK shape \in Shapes[n] : history = Entries(shape, ops)
  BY <1>2, <1>3, Zenon
<1>5. n \in 0 .. MaxOps /\ DOMAIN ops = 1 .. n /\ \A i \in DOMAIN ops : ops[i].key \in Key
  BY <1>3, ScopesAssumption, Zenon
<1>6. n \in Nat
  BY <1>5, ScopesAssumption
<1>7. Whole(Entries(shape, ops))
  BY <1>3, <1>5, <1>6, EntriesWhole
<1>8. computeInfo \in BOOLEAN /\ timeout \in BOOLEAN
  <2>1. scope.verbose \subseteq BOOLEAN /\ scope.timeouts \subseteq BOOLEAN
    BY ScopesAssumption, Zenon
  <2>2. QED
    BY <1>1, <2>1, Zenon
<1>9. QED
  BY <1>4, <1>7, <1>8, Zenon

-----------------------------------------------------------------------------
(* The searches of checkParallel.                                          *)

\* Every key of the history has its search, of its partition.
SearchesInv ==
    /\ Whole(history)
    /\ computeInfo \in BOOLEAN /\ timeout \in BOOLEAN /\ kill \in BOOLEAN
    /\ DOMAIN search = Keys /\ search = [key \in Keys |-> search[key]]
    /\ \A key \in Keys : /\ SearchInv(search[key], computeInfo, kill)
                         /\ search[key].history = Partition(history, key)

\* One step of the search of a key: to X, and its result is sent if it is over.
Moves(key, X) ==
    /\ search' = [search EXCEPT ![key] = X]
    /\ search[key].st = "run"
    /\ X.history = search[key].history
    /\ SearchInv(X, computeInfo, kill)
    /\ \/ X.st = "run" /\ results' = results
       \/ X.st # "run" /\ results' = results \cup {key}
    /\ history' = history /\ computeInfo' = computeInfo /\ timeout' = timeout
    /\ kill' = kill /\ loop' = loop

\* Every step of checkSingle keeps the invariant of its search.
LEMMA SearchMoves ==
    ASSUME SearchesInv, NEW key \in Keys, checkSingle(key)
    PROVE  \E X : Moves(key, X)
<1>1. PICK s : s = search[key]
  OBVIOUS
<1>2. SearchInv(s, computeInfo, kill)
  BY <1>1, Zenon DEF SearchesInv
<1>3. IsSearch(s)
  BY <1>2, Zenon DEF SearchInv
<1>4. Part(key) = s.history /\ Entry(key) = s.history[s.entry]
  BY <1>1, Zenon DEF Part, Entry
<1>5. CASE linearize(key)
  <2>1. PICK X : X = LinearizeTo(s)
    OBVIOUS
  <2>2. s.st = "run" /\ s.list.next[0] # Nil /\ s.history[s.entry].kind = "call"
    BY <1>1, <1>4, <1>5, Zenon DEF linearize, Running, CanLinearize
  <2>3. Considers(s, "call")
    BY <2>2, Zenon DEF Considers
  <2>4. StepOk(s.state, s.history[s.entry].op)
    BY <1>1, <1>4, <1>5, Zenon DEF linearize, CanLinearize
  <2>5. SearchInv(X, computeInfo, kill)
    BY <1>2, <2>1, <2>3, <2>4, LinearizeKeeps
  <2>6. X.st = s.st /\ X.history = s.history
    BY <1>3, <2>1 DEF LinearizeTo, IsSearch
  <2>7. search' = [search EXCEPT ![key] = X]
    BY <1>1, <1>4, <1>5, <2>1, Zenon DEF linearize, LinearizeTo
  <2>8. /\ history' = history /\ computeInfo' = computeInfo /\ timeout' = timeout
        /\ kill' = kill /\ loop' = loop /\ results' = results
    BY <1>5 DEF linearize
  <2>9. QED
    BY <1>1, <2>2, <2>5, <2>6, <2>7, <2>8, Zenon DEF Moves
<1>6. CASE skip(key)
  <2>1. PICK X : X = SkipTo(s)
    OBVIOUS
  <2>2. s.st = "run" /\ s.list.next[0] # Nil /\ s.history[s.entry].kind = "call"
    BY <1>1, <1>4, <1>6, Zenon DEF skip, Running
  <2>3. Considers(s, "call")
    BY <2>2, Zenon DEF Considers
  <2>4. StepOk(s.state, s.history[s.entry].op) =>
           cacheContains(s, bitSet(s.linearized, s.history[s.entry].id),
                         StepState(s.state, s.history[s.entry].op))
    BY <1>1, <1>4, <1>6, <2>2, Zenon DEF skip, CanLinearize
  <2>5. SearchInv(X, computeInfo, kill)
    BY <1>2, <2>1, <2>3, <2>4, SkipKeeps
  <2>6. X.st = s.st /\ X.history = s.history
    BY <1>3, <2>1 DEF SkipTo, IsSearch
  <2>7. search' = [search EXCEPT ![key] = X]
    <3>1. search' = [search EXCEPT ![key].entry = search[key].list.next[@]]
      BY <1>6, Zenon DEF skip
    <3>2. QED
      BY <1>1, <2>1, <3>1, Zenon DEF SkipTo
  <2>8. /\ history' = history /\ computeInfo' = computeInfo /\ timeout' = timeout
        /\ kill' = kill /\ loop' = loop /\ results' = results
    BY <1>6 DEF skip
  <2>9. QED
    BY <1>1, <2>2, <2>5, <2>6, <2>7, <2>8, Zenon DEF Moves
<1>7. CASE backtrack(key)
  <2>1. PICK X : X = BacktrackTo(s, computeInfo)
    OBVIOUS
  <2>2. s.st = "run" /\ s.list.next[0] # Nil /\ s.history[s.entry].kind = "return" /\ s.calls # <<>>
    BY <1>1, <1>4, <1>7, Zenon DEF backtrack, Running
  <2>3. Considers(s, "return")
    BY <2>2, Zenon DEF Considers
  <2>4. SearchInv(X, computeInfo, kill)
    BY <1>2, <2>1, <2>2, <2>3, BacktrackKeeps
  <2>5. X.st = s.st /\ X.history = s.history
    BY <1>3, <2>1 DEF BacktrackTo, IsSearch
  <2>6. Order(key) = OrderOf(s)
    BY <1>1, <1>4, Zenon DEF Order, OrderOf
  <2>7. search' = [search EXCEPT ![key] = X]
    BY <1>1, <1>4, <1>7, <2>1, <2>6, ZenonT(60) DEF backtrack, BacktrackTo
  <2>8. /\ history' = history /\ computeInfo' = computeInfo /\ timeout' = timeout
        /\ kill' = kill /\ loop' = loop /\ results' = results
    BY <1>7 DEF backtrack
  <2>9. QED
    BY <1>1, <2>2, <2>4, <2>5, <2>7, <2>8, Zenon DEF Moves
<1>8. ASSUME NEW ok \in BOOLEAN, checkSingleReturn(key, ok), s.st = "run",
             SearchInv(ReturnTo(s, ok), computeInfo, kill)
      PROVE  \E X : Moves(key, X)
  <2>1. PICK X : X = ReturnTo(s, ok)
    OBVIOUS
  <2>2. X.st # "run" /\ X.history = s.history
    BY <1>3, <2>1 DEF ReturnTo, IsSearch
  <2>3. Order(key) = OrderOf(s)
    BY <1>1, <1>4, Zenon DEF Order, OrderOf
  <2>4. search' = [search EXCEPT ![key] = X]
    <3>1. search' = [search EXCEPT ![key].st = IF ok THEN "true" ELSE "false",
                                   ![key].longest = IF ok THEN [i \in DOMAIN @ |-> OrderOf(s)] ELSE @]
      BY <1>8, <2>3, Zenon DEF checkSingleReturn
    <3>2. QED
      BY <1>1, <1>3, <2>1, <3>1 DEF ReturnTo, IsSearch, SearchesInv
  <2>5. /\ history' = history /\ computeInfo' = computeInfo /\ timeout' = timeout
        /\ kill' = kill /\ loop' = loop /\ results' = results \cup {key}
    BY <1>8 DEF checkSingleReturn
  <2>6. QED
    BY <1>1, <1>8, <2>1, <2>2, <2>4, <2>5, Zenon DEF Moves
<1>9. CASE exhausted(key)
  <2>1. s.st = "run" /\ s.list.next[0] # Nil /\ s.history[s.entry].kind = "return" /\ s.calls = <<>>
    BY <1>1, <1>4, <1>9, Zenon DEF exhausted, Running
  <2>2. Considers(s, "return")
    BY <2>1, Zenon DEF Considers
  <2>3. SearchInv(ReturnTo(s, FALSE), computeInfo, kill)
    BY <1>2, <2>1, <2>2, FalseKeeps
  <2>4. QED
    BY <1>8, <1>9, <2>1, <2>3, Zenon DEF exhausted
<1>10. CASE ordered(key)
  <2>1. s.st = "run" /\ s.list.next[0] = Nil
    BY <1>1, <1>10, Zenon DEF ordered
  <2>2. SearchInv(ReturnTo(s, TRUE), computeInfo, kill)
    BY <1>2, <2>1, OrderedKeeps
  <2>3. QED
    BY <1>8, <1>10, <2>1, <2>2, Zenon DEF ordered
<1>11. CASE killed(key)
  <2>1. s.st = "run" /\ kill
    BY <1>1, <1>11, Zenon DEF killed
  <2>2. SearchInv(ReturnTo(s, FALSE), computeInfo, kill)
    BY <1>2, <2>1, FalseKeeps
  <2>3. QED
    BY <1>8, <1>11, <2>1, <2>2, Zenon DEF killed
<1>12. QED
  BY <1>5, <1>6, <1>7, <1>9, <1>10, <1>11, Zenon DEF checkSingle

\* Every key of a whole history has a partition.
LEMMA PartFacts ==
    ASSUME Whole(history), NEW key \in Keys
    PROVE  /\ key \in Key
           /\ IsPart(Partition(history, key))
           /\ Embeds(Partition(history, key), history, key, Renamed(history, key))
<1>1. key \in {history[k].key : k \in DOMAIN history}
  BY DEF Keys
<1>2. key \in Key
  BY <1>1 DEF Whole
<1>3. QED
  BY <1>1, <1>2, PartitionFacts

\* The searches begin as they should.
LEMMA SearchesBegin ==
    ASSUME Init
    PROVE  SearchesInv
<1>1. Whole(history) /\ computeInfo \in BOOLEAN /\ timeout \in BOOLEAN
  BY InitWhole
<1>2. search = [key \in Keys |-> SearchInit(Partition(history, key))] /\ kill = FALSE
  BY Zenon DEF Init
<1>3. DOMAIN search = Keys /\ search = [key \in Keys |-> search[key]]
  BY <1>2
<1>4. ASSUME NEW key \in Keys
      PROVE  /\ SearchInv(search[key], computeInfo, kill)
             /\ search[key].history = Partition(history, key)
  <2>1. PICK h : h = Partition(history, key)
    OBVIOUS
  <2>2. search[key] = SearchInit(h)
    BY <1>2, <2>1, Zenon
  <2>3. IsPart(h)
    BY <1>1, <2>1, PartFacts
  <2>4. SearchInv(SearchInit(h), computeInfo, kill)
    BY <2>3, SearchBegins
  <2>5. SearchInit(h).history = h
    BY DEF SearchInit
  <2>6. QED
    BY <2>1, <2>2, <2>4, <2>5, Zenon
<1>5. QED
  BY <1>1, <1>2, <1>3, <1>4, Zenon DEF SearchesInv

\* checkParallel and the timer leave the searches alone; they may set kill.
Leaves ==
    /\ search' = search /\ history' = history /\ computeInfo' = computeInfo /\ timeout' = timeout
    /\ kill' \in BOOLEAN /\ (kill => kill')

LEMMA LeavesFacts ==
    ASSUME SearchesInv, (\E key \in Keys : takeResult(key) \/ drain(key)) \/ verdict \/ timedOut
    PROVE  Leaves
<1>1. kill \in BOOLEAN
  BY Zenon DEF SearchesInv
<1>2. ASSUME NEW key, takeResult(key) PROVE Leaves
  <2>1. kill' = (kill \/ (~ TakenOk(key) /\ ~ computeInfo))
    BY <1>2, Zenon DEF takeResult
  <2>2. search' = search /\ history' = history /\ computeInfo' = computeInfo /\ timeout' = timeout
    BY <1>2 DEF takeResult
  <2>3. QED
    BY <2>1, <2>2, Zenon DEF Leaves
<1>3. ASSUME NEW key, drain(key) PROVE Leaves
  BY <1>1, <1>3, Zenon DEF drain, Leaves
<1>4. ASSUME verdict PROVE Leaves
  BY <1>1, <1>4, Zenon DEF verdict, Leaves
<1>5. ASSUME timedOut PROVE Leaves
  BY <1>5, Zenon DEF timedOut, Leaves
<1>6. QED
  BY <1>2, <1>3, <1>4, <1>5, Zenon

\* What any step does to the searches.
LEMMA StepKinds ==
    ASSUME SearchesInv, [Next]_vars
    PROVE  \/ \E key \in Keys : \E X : Moves(key, X)
           \/ Leaves
           \/ vars' = vars
<1>1. CASE \E key \in Keys : checkSingle(key)
  BY <1>1, SearchMoves, Zenon
<1>2. CASE checkParallel \/ timedOut
  <2>1. (\E key \in Keys : takeResult(key) \/ drain(key)) \/ verdict \/ timedOut
    BY <1>2, Zenon DEF checkParallel
  <2>2. QED
    BY <2>1, LeavesFacts, Zenon
<1>3. QED
  BY <1>1, <1>2, Zenon DEF Next

\* Every step keeps the searches as they should be.
LEMMA SearchesKept ==
    ASSUME SearchesInv, [Next]_vars
    PROVE  SearchesInv'
<1>1. (\E key \in Keys : \E X : Moves(key, X)) \/ Leaves \/ vars' = vars
  BY StepKinds, Zenon
<1>2. CASE \E key \in Keys : \E X : Moves(key, X)
  <2>1. PICK key \in Keys : \E X : Moves(key, X)
    BY <1>2
  <2>2. PICK X : Moves(key, X)
    BY <2>1
  <2>3. /\ search' = [search EXCEPT ![key] = X]
        /\ X.history = search[key].history
        /\ SearchInv(X, computeInfo, kill)
        /\ history' = history /\ computeInfo' = computeInfo /\ timeout' = timeout /\ kill' = kill
    BY <2>2, Zenon DEF Moves
  <2>4. Keys' = Keys
    BY <2>3, Zenon DEF Keys
  <2>5. DOMAIN search = Keys /\ search = [k \in Keys |-> search[k]]
    BY Zenon DEF SearchesInv
  <2>6. /\ DOMAIN search' = Keys
        /\ \A k \in Keys : search'[k] = IF k = key THEN X ELSE search[k]
        /\ search' = [k \in Keys |-> search'[k]]
    BY <2>3, <2>5
  <2>7. ASSUME NEW k \in Keys
        PROVE  /\ SearchInv(search'[k], computeInfo, kill)
               /\ search'[k].history = Partition(history, k)
    <3>1. CASE k = key
      <4>1. search'[k] = X
        BY <2>6, <3>1, Zenon
      <4>2. search[key].history = Partition(history, key)
        BY Zenon DEF SearchesInv
      <4>3. QED
        BY <2>3, <3>1, <4>1, <4>2, Zenon
    <3>2. CASE k # key
      <4>1. search'[k] = search[k]
        BY <2>6, <3>2, Zenon
      <4>2. QED
        BY <4>1, Zenon DEF SearchesInv
    <3>3. QED
      BY <3>1, <3>2
  <2>8. /\ Whole(history)' /\ computeInfo' \in BOOLEAN /\ timeout' \in BOOLEAN /\ kill' \in BOOLEAN
    BY <2>3, Zenon DEF SearchesInv
  <2>9. QED
    BY <2>3, <2>4, <2>6, <2>7, <2>8, Zenon DEF SearchesInv
<1>3. CASE Leaves
  <2>1. /\ search' = search /\ history' = history /\ computeInfo' = computeInfo
        /\ timeout' = timeout /\ kill' \in BOOLEAN /\ (kill => kill')
    BY <1>3, Zenon DEF Leaves
  <2>2. Keys' = Keys
    BY <2>1, Zenon DEF Keys
  <2>3. ASSUME NEW k \in Keys
        PROVE  /\ SearchInv(search[k], computeInfo, kill')
               /\ search[k].history = Partition(history, k)
    <3>1. SearchInv(search[k], computeInfo, kill) /\ search[k].history = Partition(history, k)
      BY Zenon DEF SearchesInv
    <3>2. QED
      BY <2>1, <3>1, KillKeeps
  <2>4. QED
    BY <2>1, <2>2, <2>3, Zenon DEF SearchesInv
<1>4. CASE vars' = vars
  <2>1. /\ search' = search /\ history' = history /\ computeInfo' = computeInfo
        /\ timeout' = timeout /\ kill' = kill
    BY <1>4 DEF vars
  <2>2. Keys' = Keys
    BY <2>1, Zenon DEF Keys
  <2>3. QED
    BY <2>1, <2>2, Zenon DEF SearchesInv
<1>5. QED
  BY <1>1, <1>2, <1>3, <1>4

-----------------------------------------------------------------------------
(* The theorems about the searches.                                        *)

\* The invariant of the searches holds in every state that checkParallel and its
\* goroutines reach.
THEOREM SearchesHold == Spec => []SearchesInv
<1>1. Init => SearchesInv
  BY SearchesBegin
<1>2. SearchesInv /\ [Next]_vars => SearchesInv'
  BY SearchesKept
<1>3. QED
  BY <1>1, <1>2, PTL DEF Spec

\* What is pending by the bits is pending by the stack.
LEMMA PendingBits ==
    ASSUME NEW s, IsPart(s.history), BitsOK(s)
    PROVE  {0} \cup {k \in DOMAIN s.history : ~ get(s.linearized, s.history[k].id)} =
              Pending(s.history, Done(s, Len(s.calls)))
<1>1. PICK h : h = s.history
  OBVIOUS
<1>2. PICK D : D = Done(s, Len(s.calls))
  OBVIOUS
<1>3. D = {id \in Ids(h) : get(s.linearized, id)}
  BY <1>1, <1>2, Zenon DEF BitsOK, Content
<1>4. \A k \in DOMAIN h : h[k].id \in Ids(h)
  BY DEF Ids
<1>5. \A k \in DOMAIN h : ~ get(s.linearized, h[k].id) <=> h[k].id \notin D
  BY <1>3, <1>4
<1>6. {k \in DOMAIN h : ~ get(s.linearized, h[k].id)} = {k \in DOMAIN h : h[k].id \notin D}
  BY <1>5
<1>7. QED
  BY <1>1, <1>2, <1>6, Zenon DEF Pending

\* The next entry after k is the least of S, and its prev is k.
IsNext(list, k, S) ==
    /\ list.next[k] = IF S = {} THEN Nil ELSE CHOOSE m \in S : \A q \in S : m <= q
    /\ S # {} => list.prev[list.next[k]] = k

\* The search s has exactly the entries P in its list.
HasList(s, P) ==
    /\ s.st = "run" => s.entry \in P \cup {Nil}
    /\ \A k \in P : IsNext(s.list, k, {m \in P : m > k})

\* In a list that links P, next is the least entry behind, and prev leads back.
LEMMA LinkedNext ==
    ASSUME NEW list, NEW n \in Nat, NEW P \in SUBSET (0 .. n), Linked(list, P), NEW k \in P,
           NEW S, S = {m \in P : m > k}
    PROVE  IsNext(list, k, S)
<1>1. NextOf(list, k, P)
  BY DEF Linked
<1>2. PICK m : m = list.next[k]
  OBVIOUS
<1>3. P \subseteq Int
  OBVIOUS
<1>4. CASE S = {}
  <2>1. m = Nil
    BY <1>1, <1>2, <1>4 DEF NextOf
  <2>2. QED
    BY <1>2, <1>4, <2>1, Zenon DEF IsNext
<1>5. CASE S # {}
  <2>1. PICK x \in S : TRUE
    BY <1>5
  <2>2. x \in P /\ x > k
    BY <2>1
  <2>3. m \in P /\ m > k /\ \A p \in P : p > k => m <= p
    BY <1>1, <1>2, <1>3, <2>2 DEF NextOf
  <2>4. m \in S /\ \A q \in S : m <= q
    BY <2>3
  <2>5. PICK y : y = CHOOSE z \in S : \A q \in S : z <= q
    OBVIOUS
  <2>6. y \in S /\ \A q \in S : y <= q
    BY <2>4, <2>5, Zenon
  <2>7. y = m
    BY <1>3, <2>4, <2>6
  <2>8. m # 0
    BY <1>3, <2>3
  <2>9. PrevOf(list, m, P)
    BY <2>3, <2>8, Zenon DEF Linked
  <2>10. PICK j : j = list.prev[m]
    OBVIOUS
  <2>11. j \in P /\ j < m /\ \A p \in P : p < m => p <= j
    BY <2>9, <2>10 DEF PrevOf
  <2>12. k <= j /\ ~ (j > k)
    BY <1>3, <2>3, <2>11
  <2>13. j = k
    BY <1>3, <2>11, <2>12
  <2>14. QED
    BY <1>2, <1>5, <2>5, <2>7, <2>10, <2>13, Zenon DEF IsNext
<1>6. QED
  BY <1>4, <1>5

\* lift and unlift leave the list of exactly the entries that are not ordered, for
\* histories of any length and however the searches interleave.
THEOREM ListHolds == Spec => []ListIsPending
<1>1. SearchesInv => ListIsPending
  <2>1. SUFFICES ASSUME SearchesInv, NEW key \in Keys
        PROVE HasList(search[key], {0} \cup {k \in DOMAIN Part(key) :
                                              ~ get(search[key].linearized, Part(key)[k].id)})
    BY Zenon DEF ListIsPending, HasList, IsNext
  <2>2. PICK s : s = search[key]
    OBVIOUS
  <2>3. SearchInv(s, computeInfo, kill)
    BY <2>1, <2>2, Zenon DEF SearchesInv
  <2>4. IsPart(s.history) /\ BitsOK(s) /\ ListOK(s) /\ EntryOK(s)
    BY <2>3, Zenon DEF SearchInv
  <2>5. PICK P : P = {0} \cup {k \in DOMAIN s.history : ~ get(s.linearized, s.history[k].id)}
    OBVIOUS
  <2>6. P = Pending(s.history, Done(s, Len(s.calls)))
    BY <2>4, <2>5, PendingBits
  <2>7. s.st = "run" => s.entry \in P \cup {Nil}
    <3>1. s.st = "run" => s.entry \in P \ {0} \/ s.entry = Nil
      <4>1. s.st = "run" => \/ s.entry \in Pending(s.history, Done(s, Len(s.calls))) \ {0}
                            \/ s.entry = Nil
        BY <2>4, Zenon DEF EntryOK
      <4>2. QED
        BY <2>6, <4>1
    <3>2. QED
      BY <3>1
  <2>8. PICK n : n = Len(s.history)
    OBVIOUS
  <2>9. IsHistory(s.history)
    BY <2>4, Zenon DEF IsPart
  <2>10. n \in Nat /\ P \in SUBSET (0 .. n)
    <3>1. n \in Nat
      BY <2>8, <2>9, Matched
    <3>2. PICK D : D = Done(s, Len(s.calls))
      OBVIOUS
    <3>3. Pending(s.history, D) \in SUBSET (0 .. Len(s.history))
      BY <2>9, PendingFacts
    <3>4. QED
      BY <2>6, <2>8, <3>1, <3>2, <3>3, Zenon
  <2>11. PICK list : list = s.list
    OBVIOUS
  <2>12. Linked(list, P)
    BY <2>4, <2>6, <2>11, Zenon DEF ListOK
  <2>13. ASSUME NEW k \in P PROVE IsNext(list, k, {m \in P : m > k})
    <3>1. PICK S : S = {m \in P : m > k}
      OBVIOUS
    <3>2. IsNext(list, k, S)
      BY <2>10, <2>12, <3>1, LinkedNext
    <3>3. QED
      BY <3>1, <3>2, Zenon
  <2>14. Part(key) = s.history
    BY <2>2, Zenon DEF Part
  <2>15. HasList(s, P)
    BY <2>7, <2>11, <2>13, Zenon DEF HasList
  <2>16. QED
    BY <2>2, <2>5, <2>14, <2>15, Zenon
<1>2. QED
  BY <1>1, SearchesHold, PTL

\* A search returns legal orders for the operations, killed or not, whatever the
\* cache kept it from trying.
THEOREM PartialsHold == Spec => []PartialsLegal
<1>1. SearchesInv => PartialsLegal
  <2>1. SUFFICES ASSUME SearchesInv, NEW key \in Keys, NEW id \in DOMAIN search[key].longest,
                        search[key].longest[id] # <<>>
        PROVE /\ LegalPrefix(Part(key), search[key].longest[id])
              /\ \E i \in DOMAIN search[key].longest[id] : search[key].longest[id][i] = id
    BY Zenon DEF PartialsLegal
  <2>2. PICK s : s = search[key]
    OBVIOUS
  <2>3. SearchInv(s, computeInfo, kill)
    BY <2>1, <2>2, Zenon DEF SearchesInv
  <2>4. LongestOK(s)
    BY <2>3, Zenon DEF SearchInv
  <2>5. Part(key) = s.history
    BY <2>2, Zenon DEF Part
  <2>6. QED
    BY <2>1, <2>2, <2>4, <2>5, Zenon DEF LongestOK
<1>2. QED
  BY <1>1, SearchesHold, PTL

-----------------------------------------------------------------------------
(* The loop of checkParallel.                                              *)

\* The keys whose result checkParallel has taken from the channel.
Taken == {key \in Keys : search[key].st # "run" /\ key \notin results}

LoopType ==
    loop \in [st : {"loop", "drain", "Ok", "Illegal", "Unknown"}, count : Nat, ok : BOOLEAN,
              timedOut : BOOLEAN]

\* What checkParallel has counted and concluded is about the searches: it counts
\* what it took; ok is about all of that, and about all keys once the loop ends
\* without timeout; an illegal partition was searched to the end, because
\* nothing is killed before the loop ends.
LoopInv ==
    /\ LoopType
    /\ results \subseteq Keys /\ \A key \in results : search[key].st # "run"
    /\ loop.count = Cardinality(Taken)
    /\ kill => loop.st # "loop"
    /\ loop.st = "loop" => ~ loop.timedOut
    /\ loop.st = "loop" /\ loop.ok => \A key \in Taken : search[key].st = "true"
    /\ loop.st # "loop" /\ loop.ok /\ ~ loop.timedOut => \A key \in Keys : search[key].st = "true"
    /\ ~ loop.ok => \E key \in Keys : search[key].st = "false" /\ AllClosed(search[key], computeInfo)
    /\ loop.timedOut => timeout
    /\ loop.st = "Ok" => loop.ok /\ ~ loop.timedOut
    /\ loop.st = "Illegal" => ~ loop.ok
    /\ loop.st = "Unknown" => loop.timedOut
    /\ computeInfo /\ loop.st \in {"Ok", "Illegal", "Unknown"} => Taken = Keys

\* There are finitely many keys.
LEMMA KeysFinite ==
    ASSUME Whole(history)
    PROVE  IsFiniteSet(Keys)
<1>1. PICK n : n = Len(history)
  OBVIOUS
<1>2. n \in Nat /\ DOMAIN history = 1 .. n
  BY <1>1, Matched DEF Whole
<1>3. PICK q : q = [j \in 1 .. n |-> history[j].key]
  OBVIOUS
<1>4. PICK R : R = {q[j] : j \in 1 .. n}
  OBVIOUS
<1>5. IsFiniteSet(R)
  BY <1>2, <1>4, ImageFacts
<1>6. Keys = R
  BY <1>2, <1>3, <1>4 DEF Keys
<1>7. QED
  BY <1>5, <1>6, Zenon

\* Before the first step nothing is taken.
LEMMA LoopBegins ==
    ASSUME Init
    PROVE  LoopInv
<1>1. SearchesInv
  BY SearchesBegin
<1>2. /\ search = [key \in Keys |-> SearchInit(Partition(history, key))]
      /\ kill = FALSE /\ results = {}
      /\ loop = [st |-> "loop", count |-> 0, ok |-> TRUE, timedOut |-> FALSE]
  BY Zenon DEF Init
<1>3. \A key \in Keys : search[key].st = "run"
  BY <1>2 DEF SearchInit
<1>4. Taken = {}
  BY <1>3, Zenon DEF Taken
<1>5. Cardinality(Taken) = 0
  BY <1>4, FS_EmptySet
<1>6. loop.st = "loop" /\ loop.count = 0 /\ loop.ok = TRUE /\ loop.timedOut = FALSE /\ LoopType
  BY <1>2 DEF LoopType
<1>7. results \subseteq Keys /\ \A key \in results : search[key].st # "run"
  BY <1>2
<1>8. QED
  BY <1>2, <1>4, <1>5, <1>6, <1>7, Zenon DEF LoopInv

\* A step of a search changes nothing that checkParallel has taken.
LEMMA LoopMoves ==
    ASSUME SearchesInv, LoopInv, NEW key \in Keys, NEW X, Moves(key, X)
    PROVE  LoopInv'
<1>1. /\ search' = [search EXCEPT ![key] = X]
      /\ search[key].st = "run"
      /\ \/ X.st = "run" /\ results' = results
         \/ X.st # "run" /\ results' = results \cup {key}
      /\ history' = history /\ computeInfo' = computeInfo /\ timeout' = timeout
      /\ kill' = kill /\ loop' = loop
  BY Zenon DEF Moves
<1>2. Keys' = Keys
  BY <1>1, Zenon DEF Keys
<1>3. DOMAIN search = Keys
  BY Zenon DEF SearchesInv
<1>4. \A k \in Keys : search'[k] = IF k = key THEN X ELSE search[k]
  BY <1>1, <1>3
<1>5. /\ results \subseteq Keys
      /\ \A k \in results : search[k].st # "run"
  BY Zenon DEF LoopInv
<1>6. key \notin results
  BY <1>1, <1>5, Zenon
<1>7. ASSUME NEW k \in Keys
      PROVE  search'[k].st # "run" /\ k \notin results' <=> search[k].st # "run" /\ k \notin results
  <2>1. CASE k = key
    <3>1. search'[k] = X
      BY <1>4, <2>1, Zenon
    <3>2. QED
      BY <1>1, <2>1, <3>1
  <2>2. CASE k # key
    <3>1. search'[k] = search[k]
      BY <1>4, <2>2, Zenon
    <3>2. k \in results' <=> k \in results
      BY <1>1, <2>2
    <3>3. QED
      BY <3>1, <3>2, Zenon
  <2>3. QED
    BY <2>1, <2>2
<1>8. Taken' = Taken
  BY <1>2, <1>7 DEF Taken
<1>9. key \notin Taken
  BY <1>1, Zenon DEF Taken
<1>10. \A k \in Keys : k # key => search'[k] = search[k]
  BY <1>4, Zenon
<1>11. results' \subseteq Keys /\ \A k \in results' : search'[k].st # "run"
  <2>1. ASSUME NEW k \in results' PROVE k \in Keys /\ search'[k].st # "run"
    <3>1. CASE k = key
      <4>1. X.st # "run"
        BY <1>1, <1>6, <2>1, <3>1, Zenon
      <4>2. search'[k] = X
        BY <1>4, <3>1, Zenon
      <4>3. QED
        BY <3>1, <4>1, <4>2, Zenon
    <3>2. CASE k # key
      <4>1. k \in results
        BY <1>1, <2>1, <3>2
      <4>2. k \in Keys /\ search[k].st # "run"
        BY <1>5, <4>1
      <4>3. QED
        BY <1>10, <3>2, <4>2, Zenon
    <3>3. QED
      BY <3>1, <3>2
  <2>2. QED
    BY <2>1
<1>12. loop.st = "loop" /\ loop.ok => \A k \in Taken : search'[k].st = "true"
  <2>1. SUFFICES ASSUME loop.st = "loop", loop.ok, NEW k \in Taken PROVE search'[k].st = "true"
    OBVIOUS
  <2>2. search[k].st = "true"
    BY <2>1, Zenon DEF LoopInv
  <2>3. k \in Keys /\ k # key
    BY <1>9, <2>1, Zenon DEF Taken
  <2>4. QED
    BY <1>10, <2>2, <2>3, Zenon
<1>13. ~ (loop.st # "loop" /\ loop.ok /\ ~ loop.timedOut)
  <2>1. search[key].st # "true"
    BY <1>1
  <2>2. QED
    BY <2>1, Zenon DEF LoopInv
<1>14. ~ loop.ok => \E k \in Keys : search'[k].st = "false" /\ AllClosed(search'[k], computeInfo)
  <2>1. SUFFICES ASSUME ~ loop.ok
                 PROVE \E k \in Keys : search'[k].st = "false" /\ AllClosed(search'[k], computeInfo)
    OBVIOUS
  <2>2. PICK k \in Keys : search[k].st = "false" /\ AllClosed(search[k], computeInfo)
    BY <2>1, Zenon DEF LoopInv
  <2>3. k # key
    BY <1>1, <2>2
  <2>4. search'[k] = search[k]
    BY <1>10, <2>3, Zenon
  <2>5. QED
    BY <2>2, <2>4, Zenon
<1>15. LoopType'
  BY <1>1, Zenon DEF LoopInv, LoopType
<1>16. /\ loop.count = Cardinality(Taken)
       /\ kill => loop.st # "loop"
       /\ loop.st = "loop" => ~ loop.timedOut
       /\ loop.timedOut => timeout
       /\ loop.st = "Ok" => loop.ok /\ ~ loop.timedOut
       /\ loop.st = "Illegal" => ~ loop.ok
       /\ loop.st = "Unknown" => loop.timedOut
       /\ computeInfo /\ loop.st \in {"Ok", "Illegal", "Unknown"} => Taken = Keys
  BY Zenon DEF LoopInv
<1>17. QED
  BY <1>1, <1>2, <1>8, <1>11, <1>12, <1>13, <1>14, <1>15, <1>16, Zenon DEF LoopInv

\* Taking a result from the channel adds a key to those that are taken.
LEMMA TakeFacts ==
    ASSUME SearchesInv, LoopInv, NEW key \in results, results' = results \ {key},
           search' = search, history' = history
    PROVE  /\ Keys' = Keys
           /\ Taken' = Taken \cup {key} /\ Cardinality(Taken') = loop.count + 1
           /\ results' \subseteq Keys /\ \A k \in results' : search'[k].st # "run"
           /\ key \in Keys /\ search[key].st # "run"
           /\ loop.count + 1 >= Cardinality(Keys) => Taken' = Keys
<1>1. /\ results \subseteq Keys /\ \A k \in results : search[k].st # "run"
      /\ loop.count = Cardinality(Taken)
  BY Zenon DEF LoopInv
<1>2. key \in Keys /\ search[key].st # "run"
  BY <1>1
<1>3. Keys' = Keys
  BY Zenon DEF Keys
<1>4. Taken' = {k \in Keys : search[k].st # "run" /\ k \notin results \ {key}}
  BY <1>3, Zenon DEF Taken
<1>5. Taken' = Taken \cup {key}
  BY <1>2, <1>4 DEF Taken
<1>6. IsFiniteSet(Keys)
  BY KeysFinite DEF SearchesInv
<1>7. Taken \subseteq Keys /\ key \notin Taken
  BY DEF Taken
<1>8. IsFiniteSet(Taken)
  BY <1>6, <1>7, FS_Subset
<1>9. PICK T : T = Taken'
  OBVIOUS
<1>10. Cardinality(T) = loop.count + 1
  BY <1>1, <1>5, <1>7, <1>8, <1>9, FS_AddElement
<1>11. T \in SUBSET Keys
  BY <1>2, <1>5, <1>7, <1>9
<1>12. Cardinality(T) <= Cardinality(Keys) /\ (Cardinality(Keys) = Cardinality(T) => Keys = T)
  BY <1>6, <1>11, FS_Subset
<1>13. Cardinality(Keys) \in Nat /\ loop.count \in Nat
  BY <1>1, <1>6, <1>8, FS_CardinalityType
<1>14. loop.count + 1 >= Cardinality(Keys) => T = Keys
  BY <1>10, <1>12, <1>13
<1>15. results' \subseteq Keys /\ \A k \in results' : search'[k].st # "run"
  BY <1>1
<1>16. QED
  BY <1>2, <1>3, <1>5, <1>9, <1>10, <1>14, <1>15, Zenon

\* A result is taken in the loop.  No search was killed, so a partition that is
\* illegal was searched to the end.
LEMMA LoopTakes ==
    ASSUME SearchesInv, LoopInv, NEW key, takeResult(key)
    PROVE  LoopInv'
<1>1. PICK ok : ok = TakenOk(key)
  OBVIOUS
<1>2. PICK stop : stop = ((~ ok /\ ~ computeInfo) \/ AllCounted(loop.count + 1))
  OBVIOUS
<1>3. /\ loop.st = "loop" /\ key \in results /\ results' = results \ {key}
      /\ loop' = [loop EXCEPT !.count = @ + 1, !.ok = ok, !.st = IF stop THEN "drain" ELSE @]
      /\ kill' = (kill \/ (~ ok /\ ~ computeInfo))
  BY <1>1, <1>2, Zenon DEF takeResult
<1>4. search' = search /\ history' = history /\ computeInfo' = computeInfo /\ timeout' = timeout
  BY DEF takeResult
<1>5. /\ Keys' = Keys
      /\ Taken' = Taken \cup {key} /\ Cardinality(Taken') = loop.count + 1
      /\ results' \subseteq Keys /\ \A k \in results' : search'[k].st # "run"
      /\ key \in Keys /\ search[key].st # "run"
      /\ loop.count + 1 >= Cardinality(Keys) => Taken' = Keys
  BY <1>3, <1>4, TakeFacts
<1>6. LoopType
  BY Zenon DEF LoopInv
<1>7. ok \in BOOLEAN /\ (ok <=> loop.ok /\ search[key].st = "true")
  <2>1. loop.ok \in BOOLEAN
    BY <1>6 DEF LoopType
  <2>2. QED
    BY <1>1, <2>1, Zenon DEF TakenOk
<1>8. stop \in BOOLEAN
  BY <1>2, Zenon
<1>9. /\ loop'.count = loop.count + 1 /\ loop'.ok = ok /\ loop'.timedOut = loop.timedOut
      /\ loop'.st = IF stop THEN "drain" ELSE "loop"
      /\ LoopType'
  <2>1. /\ loop'.count = loop.count + 1 /\ loop'.ok = ok /\ loop'.timedOut = loop.timedOut
        /\ loop'.st = IF stop THEN "drain" ELSE loop.st
    BY <1>3, <1>6 DEF LoopType
  <2>2. LoopType'
    <3>1. loop.count \in Nat
      BY <1>6 DEF LoopType
    <3>2. loop.count + 1 \in Nat
      BY <3>1
    <3>3. (IF stop THEN "drain" ELSE "loop") \in {"loop", "drain", "Ok", "Illegal", "Unknown"}
      BY Zenon
    <3>4. QED
      BY <1>3, <1>6, <1>7, <3>2, <3>3 DEF LoopType
  <2>3. QED
    BY <1>3, <2>1, <2>2, Zenon
<1>10. ~ kill /\ ~ loop.timedOut
  BY <1>3, Zenon DEF LoopInv
<1>11. \A k \in Taken : loop.ok => search[k].st = "true"
  BY <1>3, Zenon DEF LoopInv
<1>12. \A k \in Taken' : ok => search[k].st = "true"
  <2>1. ASSUME NEW k \in Taken', ok PROVE search[k].st = "true"
    <3>1. k \in Taken \/ k = key
      BY <1>5
    <3>2. QED
      BY <1>7, <1>11, <2>1, <3>1, Zenon
  <2>2. QED
    BY <2>1
<1>13. stop /\ ok => Taken' = Keys
  <2>1. SUFFICES ASSUME stop, ok PROVE Taken' = Keys
    OBVIOUS
  <2>2. AllCounted(loop.count + 1)
    BY <1>2, <2>1, Zenon
  <2>3. QED
    BY <1>5, <2>2, Zenon DEF AllCounted
<1>14. ~ ok => \E k \in Keys : search[k].st = "false" /\ AllClosed(search[k], computeInfo)
  <2>1. SUFFICES ASSUME ~ ok
                 PROVE \E k \in Keys : search[k].st = "false" /\ AllClosed(search[k], computeInfo)
    OBVIOUS
  <2>2. CASE ~ loop.ok
    BY <2>2, Zenon DEF LoopInv
  <2>3. CASE loop.ok
    <3>1. search[key].st # "true"
      BY <1>7, <2>1, <2>3, Zenon
    <3>2. SearchInv(search[key], computeInfo, kill)
      BY <1>5, Zenon DEF SearchesInv
    <3>3. search[key].st \in {"run", "true", "false"} /\ ClosedOK(search[key], computeInfo, kill)
      BY <3>2, Zenon DEF SearchInv
    <3>4. search[key].st = "false"
      BY <1>5, <3>1, <3>3, Zenon
    <3>5. AllClosed(search[key], computeInfo)
      BY <1>10, <3>3, <3>4, Zenon DEF ClosedOK
    <3>6. QED
      BY <1>5, <3>4, <3>5, Zenon
  <2>4. QED
    BY <2>2, <2>3
<1>15. kill' => loop'.st # "loop"
  <2>1. SUFFICES ASSUME kill' PROVE loop'.st # "loop"
    OBVIOUS
  <2>2. ~ ok /\ ~ computeInfo
    BY <1>3, <1>10, <2>1, Zenon
  <2>3. stop
    BY <1>2, <2>2, Zenon
  <2>4. loop'.st = "drain"
    BY <1>9, <2>3, Zenon
  <2>5. "drain" # "loop"
    OBVIOUS
  <2>6. QED
    BY <2>4, <2>5, Zenon
<1>16. loop'.st = "loop" \/ loop'.st = "drain"
  BY <1>9, Zenon
<1>17. loop'.st = "loop" /\ loop'.ok => \A k \in Taken' : search'[k].st = "true"
  BY <1>4, <1>9, <1>12, Zenon
<1>18. loop'.st # "loop" /\ loop'.ok => \A k \in Keys' : search'[k].st = "true"
  <2>1. SUFFICES ASSUME loop'.st # "loop", loop'.ok, NEW k \in Keys' PROVE search'[k].st = "true"
    OBVIOUS
  <2>2. stop /\ ok
    BY <1>9, <2>1, Zenon
  <2>3. k \in Taken'
    BY <1>5, <1>13, <2>1, <2>2, Zenon
  <2>4. QED
    BY <1>4, <1>12, <2>2, <2>3, Zenon
<1>19. ~ loop'.ok => \E k \in Keys' : search'[k].st = "false" /\ AllClosed(search'[k], computeInfo')
  BY <1>4, <1>5, <1>9, <1>14, Zenon
<1>20. "drain" # "Ok" /\ "drain" # "Illegal" /\ "drain" # "Unknown" /\ "loop" # "Ok"
       /\ "loop" # "Illegal" /\ "loop" # "Unknown"
  OBVIOUS
<1>21. loop'.count = Cardinality(Taken')
  BY <1>5, <1>9, Zenon
<1>22. ~ loop'.timedOut
  BY <1>9, <1>10, Zenon
<1>23. results' \subseteq Keys' /\ \A k \in results' : search'[k].st # "run"
  BY <1>5, Zenon
<1>24. loop'.st # "Ok" /\ loop'.st # "Illegal" /\ loop'.st # "Unknown"
  BY <1>16, <1>20, Zenon
<1>25. loop'.st \notin {"Ok", "Illegal", "Unknown"}
  BY <1>24
<1>26. QED
  BY <1>9, <1>15, <1>17, <1>18, <1>19, <1>21, <1>22, <1>23, <1>24, <1>25, Zenon DEF LoopInv

\* After the loop results are only counted.
LEMMA LoopDrains ==
    ASSUME SearchesInv, LoopInv, NEW key, drain(key)
    PROVE  LoopInv'
<1>1. /\ loop.st = "drain" /\ key \in results /\ results' = results \ {key}
      /\ loop' = [loop EXCEPT !.count = @ + 1]
      /\ search' = search /\ history' = history /\ computeInfo' = computeInfo /\ timeout' = timeout
      /\ kill' = kill
  BY DEF drain
<1>2. /\ Keys' = Keys
      /\ Taken' = Taken \cup {key} /\ Cardinality(Taken') = loop.count + 1
      /\ results' \subseteq Keys /\ \A k \in results' : search'[k].st # "run"
  BY <1>1, TakeFacts
<1>3. LoopType
  BY Zenon DEF LoopInv
<1>4. /\ loop'.count = loop.count + 1 /\ loop'.ok = loop.ok /\ loop'.timedOut = loop.timedOut
      /\ loop'.st = "drain"
  BY <1>1, <1>3 DEF LoopType
<1>5. LoopType'
  <2>1. loop.count \in Nat
    BY <1>3 DEF LoopType
  <2>2. loop.count + 1 \in Nat
    BY <2>1
  <2>3. QED
    BY <1>1, <1>3, <2>2 DEF LoopType
<1>6. "drain" # "Ok" /\ "drain" # "Illegal" /\ "drain" # "Unknown" /\ "drain" # "loop"
  OBVIOUS
<1>7. /\ loop.ok /\ ~ loop.timedOut => \A k \in Keys : search[k].st = "true"
      /\ ~ loop.ok => \E k \in Keys : search[k].st = "false" /\ AllClosed(search[k], computeInfo)
      /\ loop.timedOut => timeout
  BY <1>1, <1>6, Zenon DEF LoopInv
<1>8. loop'.count = Cardinality(Taken')
  BY <1>2, <1>4, Zenon
<1>9. results' \subseteq Keys' /\ \A k \in results' : search'[k].st # "run"
  BY <1>2, Zenon
<1>10. /\ loop'.ok /\ ~ loop'.timedOut => \A k \in Keys' : search'[k].st = "true"
       /\ ~ loop'.ok => \E k \in Keys' : search'[k].st = "false" /\ AllClosed(search'[k], computeInfo')
       /\ loop'.timedOut => timeout'
  BY <1>1, <1>2, <1>4, <1>7, Zenon
<1>11. loop'.st # "Ok" /\ loop'.st # "Illegal" /\ loop'.st # "Unknown" /\ loop'.st # "loop"
  BY <1>4, <1>6, Zenon
<1>12. loop'.st \notin {"Ok", "Illegal", "Unknown"}
  BY <1>11
<1>13. QED
  BY <1>5, <1>8, <1>9, <1>10, <1>11, <1>12, Zenon DEF LoopInv

\* The timer ends the loop and kills the searches.
LEMMA LoopTimesOut ==
    ASSUME SearchesInv, LoopInv, timedOut
    PROVE  LoopInv'
<1>1. /\ loop.st = "loop" /\ timeout
      /\ loop' = [loop EXCEPT !.timedOut = TRUE, !.st = "drain"]
      /\ search' = search /\ history' = history /\ computeInfo' = computeInfo /\ timeout' = timeout
      /\ results' = results
  BY DEF timedOut
<1>2. Keys' = Keys
  BY <1>1, Zenon DEF Keys
<1>3. Taken' = Taken
  BY <1>1, <1>2, Zenon DEF Taken
<1>4. LoopType
  BY Zenon DEF LoopInv
<1>5. /\ loop'.count = loop.count /\ loop'.ok = loop.ok /\ loop'.timedOut = TRUE
      /\ loop'.st = "drain"
  BY <1>1, <1>4 DEF LoopType
<1>6. LoopType'
  BY <1>1, <1>4 DEF LoopType
<1>7. "drain" # "Ok" /\ "drain" # "Illegal" /\ "drain" # "Unknown" /\ "drain" # "loop"
  OBVIOUS
<1>8. /\ results \subseteq Keys /\ \A k \in results : search[k].st # "run"
      /\ loop.count = Cardinality(Taken)
      /\ ~ loop.ok => \E k \in Keys : search[k].st = "false" /\ AllClosed(search[k], computeInfo)
  BY Zenon DEF LoopInv
<1>9. /\ results' \subseteq Keys' /\ \A k \in results' : search'[k].st # "run"
      /\ loop'.count = Cardinality(Taken')
      /\ ~ loop'.ok => \E k \in Keys' : search'[k].st = "false" /\ AllClosed(search'[k], computeInfo')
      /\ timeout' /\ loop'.timedOut
  BY <1>1, <1>2, <1>3, <1>5, <1>8, Zenon
<1>10. loop'.st # "Ok" /\ loop'.st # "Illegal" /\ loop'.st # "Unknown" /\ loop'.st # "loop"
  BY <1>5, <1>7, Zenon
<1>11. loop'.st \notin {"Ok", "Illegal", "Unknown"}
  BY <1>10
<1>12. QED
  BY <1>6, <1>9, <1>10, <1>11, Zenon DEF LoopInv

\* The verdict is made of ok and timedOut.
LEMMA LoopEnds ==
    ASSUME SearchesInv, LoopInv, verdict
    PROVE  LoopInv'
<1>1. PICK st : st = IF ~ loop.ok THEN "Illegal" ELSE IF loop.timedOut THEN "Unknown" ELSE "Ok"
  OBVIOUS
<1>2. /\ loop.st = "drain"
      /\ computeInfo => AllCounted(loop.count)
      /\ loop' = [loop EXCEPT !.st = st]
  BY <1>1, Zenon DEF verdict
<1>3. /\ search' = search /\ history' = history /\ computeInfo' = computeInfo /\ timeout' = timeout
      /\ results' = results /\ kill' = kill
  BY DEF verdict
<1>4. Keys' = Keys
  BY <1>3, Zenon DEF Keys
<1>5. Taken' = Taken
  BY <1>3, <1>4, Zenon DEF Taken
<1>6. LoopType
  BY Zenon DEF LoopInv
<1>7. loop.ok \in BOOLEAN /\ loop.timedOut \in BOOLEAN
  BY <1>6 DEF LoopType
<1>8. \/ st = "Illegal" /\ ~ loop.ok
      \/ st = "Unknown" /\ loop.ok /\ loop.timedOut
      \/ st = "Ok" /\ loop.ok /\ ~ loop.timedOut
  BY <1>1, Zenon
<1>9. /\ loop'.count = loop.count /\ loop'.ok = loop.ok /\ loop'.timedOut = loop.timedOut
      /\ loop'.st = st
  BY <1>2, <1>6 DEF LoopType
<1>10. LoopType'
  <2>1. st \in {"loop", "drain", "Ok", "Illegal", "Unknown"}
    BY <1>8, Zenon
  <2>2. QED
    BY <1>2, <1>6, <2>1 DEF LoopType
<1>11. "drain" # "loop" /\ "Ok" # "loop" /\ "Illegal" # "loop" /\ "Unknown" # "loop"
       /\ "Ok" # "Illegal" /\ "Ok" # "Unknown" /\ "Illegal" # "Unknown"
  OBVIOUS
<1>12. /\ results \subseteq Keys /\ \A k \in results : search[k].st # "run"
       /\ loop.count = Cardinality(Taken)
       /\ loop.ok /\ ~ loop.timedOut => \A k \in Keys : search[k].st = "true"
       /\ ~ loop.ok => \E k \in Keys : search[k].st = "false" /\ AllClosed(search[k], computeInfo)
       /\ loop.timedOut => timeout
  BY <1>2, <1>11, Zenon DEF LoopInv
<1>13. computeInfo => Taken = Keys
  <2>1. SUFFICES ASSUME computeInfo PROVE Taken = Keys
    OBVIOUS
  <2>2. Cardinality(Taken) >= Cardinality(Keys)
    BY <1>2, <1>12, <2>1, Zenon DEF AllCounted
  <2>3. IsFiniteSet(Keys)
    BY KeysFinite DEF SearchesInv
  <2>4. PICK T : T = Taken
    OBVIOUS
  <2>5. T \in SUBSET Keys
    BY <2>4 DEF Taken
  <2>6. /\ IsFiniteSet(T) /\ Cardinality(T) <= Cardinality(Keys)
        /\ (Cardinality(Keys) = Cardinality(T) => Keys = T)
    BY <2>3, <2>5, FS_Subset
  <2>7. Cardinality(Keys) \in Nat /\ Cardinality(T) \in Nat
    BY <2>3, <2>6, FS_CardinalityType
  <2>8. QED
    BY <2>2, <2>4, <2>6, <2>7
<1>14. /\ results' \subseteq Keys' /\ \A k \in results' : search'[k].st # "run"
       /\ loop'.count = Cardinality(Taken')
       /\ loop'.ok /\ ~ loop'.timedOut => \A k \in Keys' : search'[k].st = "true"
       /\ ~ loop'.ok => \E k \in Keys' : search'[k].st = "false" /\ AllClosed(search'[k], computeInfo')
       /\ loop'.timedOut => timeout'
       /\ computeInfo' => Taken' = Keys'
  BY <1>3, <1>4, <1>5, <1>9, <1>12, <1>13, Zenon
<1>15. /\ loop'.st # "loop"
       /\ loop'.st = "Ok" => loop'.ok /\ ~ loop'.timedOut
       /\ loop'.st = "Illegal" => ~ loop'.ok
       /\ loop'.st = "Unknown" => loop'.timedOut
  BY <1>8, <1>9, <1>11, Zenon
<1>16. QED
  BY <1>10, <1>14, <1>15, Zenon DEF LoopInv

\* Every step keeps the loop as it should be.
LEMMA LoopKept ==
    ASSUME SearchesInv, LoopInv, [Next]_vars
    PROVE  LoopInv'
<1>1. CASE \E key \in Keys : checkSingle(key)
  <2>1. PICK key \in Keys : checkSingle(key)
    BY <1>1
  <2>2. PICK X : Moves(key, X)
    BY <2>1, SearchMoves
  <2>3. QED
    BY <2>2, LoopMoves
<1>2. CASE \E key \in Keys : takeResult(key)
  BY <1>2, LoopTakes
<1>3. CASE \E key \in Keys : drain(key)
  BY <1>3, LoopDrains
<1>4. CASE verdict
  BY <1>4, LoopEnds
<1>5. CASE timedOut
  BY <1>5, LoopTimesOut
<1>6. CASE vars' = vars
  <2>1. /\ search' = search /\ history' = history /\ computeInfo' = computeInfo
        /\ timeout' = timeout /\ kill' = kill /\ results' = results /\ loop' = loop
    BY <1>6 DEF vars
  <2>2. Keys' = Keys
    BY <2>1, Zenon DEF Keys
  <2>3. Taken' = Taken
    BY <2>1, <2>2, Zenon DEF Taken
  <2>4. QED
    BY <2>1, <2>2, <2>3, Zenon DEF LoopInv, LoopType
<1>7. QED
  BY <1>1, <1>2, <1>3, <1>4, <1>5, <1>6, Zenon DEF Next, checkParallel

\* checkParallel counts and concludes right, in whatever order the searches end,
\* are killed and are looked at.
THEOREM LoopHolds == Spec => [](SearchesInv /\ LoopInv)
<1>1. Init => SearchesInv /\ LoopInv
  BY SearchesBegin, LoopBegins
<1>2. SearchesInv /\ LoopInv /\ [Next]_vars => SearchesInv' /\ LoopInv'
  BY SearchesKept, LoopKept
<1>3. QED
  BY <1>1, <1>2, PTL DEF Spec

\* The verdict is right about the whole history: Ok only if it is linearizable,
\* Illegal only if it is not, Unknown only with a timer, for any number of keys
\* and operations.
THEOREM VerdictHolds == Spec => []VerdictCorrect
<1>1. ASSUME SearchesInv, LoopInv PROVE VerdictCorrect
  <2>1. Whole(history)
    BY <1>1, Zenon DEF SearchesInv
  <2>2. ASSUME NEW key \in Keys
        PROVE  /\ key \in Key
               /\ SearchInv(search[key], computeInfo, kill)
               /\ Embeds(search[key].history, history, key, Renamed(history, key))
    <3>1. search[key].history = Partition(history, key) /\ SearchInv(search[key], computeInfo, kill)
      BY <1>1, Zenon DEF SearchesInv
    <3>2. key \in Key /\ Embeds(Partition(history, key), history, key, Renamed(history, key))
      BY <2>1, PartFacts
    <3>3. QED
      BY <3>1, <3>2, Zenon
  <2>3. ASSUME loop.st = "Ok" PROVE Linearizable(history)
    <3>1. loop.ok /\ ~ loop.timedOut
      BY <1>1, <2>3, Zenon DEF LoopInv
    <3>2. loop.st # "loop"
      BY <2>3
    <3>3. \A key \in Keys : search[key].st = "true"
      BY <1>1, <3>1, <3>2, Zenon DEF LoopInv
    <3>4. ASSUME NEW key \in KeysOf(history) PROVE \E q, s : Solves(history, key, q, s)
      <4>1. key \in Keys
        BY Zenon DEF Keys, KeysOf
      <4>2. QED
        BY <2>2, <3>3, <4>1, Solved
    <3>5. QED
      BY <2>1, <3>4, MergeAll
  <2>4. ASSUME loop.st = "Illegal" PROVE ~ Linearizable(history)
    <3>1. ~ loop.ok
      BY <1>1, <2>4, Zenon DEF LoopInv
    <3>2. PICK key \in Keys : AllClosed(search[key], computeInfo)
      BY <1>1, <3>1, Zenon DEF LoopInv
    <3>3. QED
      BY <2>1, <2>2, <3>2, Refuted
  <2>5. ASSUME loop.st = "Unknown" PROVE timeout
    BY <1>1, <2>5, Zenon DEF LoopInv
  <2>6. QED
    BY <2>3, <2>4, <2>5, Zenon DEF VerdictCorrect
<1>2. QED
  BY <1>1, LoopHolds, PTL

-----------------------------------------------------------------------------
(* The report of a verbose check.                                          *)

\* Every entry of a partition has the same key, and the partition has its own
\* operations under their own names.
LEMMA SelfEmbeds ==
    ASSUME NEW h, IsPart(h)
    PROVE  \E key \in Key : /\ \A id \in Ids(h) : h[CallOf(h, id)].key = key
                            /\ OfKey(h, key) = Ids(h)
                            /\ Embeds(h, h, key, [id \in Ids(h) |-> id])
<1>1. PICK key \in Key : \A k \in DOMAIN h : h[k].key = key
  BY Zenon DEF IsPart
<1>2. \A id \in Ids(h) : CallOf(h, id) \in DOMAIN h
  BY Matched DEF IsPart
<1>3. \A id \in Ids(h) : h[CallOf(h, id)].key = key
  BY <1>1, <1>2, Zenon
<1>4. OfKey(h, key) = Ids(h)
  BY <1>3 DEF OfKey
<1>5. PICK name : name = [id \in Ids(h) |-> id]
  OBVIOUS
<1>6. DOMAIN name = Ids(h) /\ \A id \in Ids(h) : name[id] = id
  BY <1>5, Zenon
<1>7. Embeds(h, h, key, name)
  BY <1>4, <1>6, Zenon DEF Embeds
<1>8. QED
  BY <1>3, <1>4, <1>5, <1>7, Zenon

\* A search that was through keeps for each operation of a legal order one that
\* is at least as long.
LEMMA LongestCovers ==
    ASSUME NEW s, NEW v, v = TRUE, NEW kl, kl = FALSE, SearchInv(s, v, kl), s.st # "run",
           NEW o, IsLegal(s.history, o), NEW k \in 1 .. Len(o)
    PROVE  s.longest[o[k]] # <<>> /\ Len(s.longest[o[k]]) >= Len(o)
<1>1. PICK h : h = s.history
  OBVIOUS
<1>2. /\ IsPart(h) /\ IsFiniteSet(Ids(h)) /\ LongestOK(s) /\ TrueOK(s) /\ ClosedOK(s, v, kl)
      /\ LegalOK(s) /\ StackOK(s)
  BY <1>1, Zenon DEF SearchInv, IsPart
<1>3. IsSeq(o) /\ (\A i \in 1 .. Len(o) : o[i] \in Ids(h)) /\ LegalPrefix(h, o)
  BY <1>1, Zenon DEF IsLegal
<1>4. PICK n : n = Len(o)
  OBVIOUS
<1>5. n \in Nat /\ k \in 1 .. n /\ n >= 1
  BY <1>3, <1>4, SeqFacts
<1>6. PICK id : id = o[k]
  OBVIOUS
<1>7. id \in Ids(h)
  BY <1>3, <1>6, Zenon
<1>8. PICK q : q = s.longest[id]
  OBVIOUS
<1>9. IsSeq(q)
  BY <1>1, <1>2, <1>7, <1>8, Zenon DEF LongestOK
<1>10. Len(q) \in Nat /\ (q = <<>> <=> Len(q) = 0)
  BY <1>9, SeqFacts
<1>11. n <= Cardinality(Ids(h)) /\ Cardinality(Ids(h)) \in Nat
  BY <1>1, <1>2, <1>4, FullOrder, FS_CardinalityType
<1>12. CASE s.st = "true"
  <2>1. Done(s, Len(s.calls)) = Ids(h) /\ q = OrderOf(s)
    BY <1>1, <1>2, <1>7, <1>8, <1>12, Zenon DEF TrueOK
  <2>2. PICK m : m = Len(s.calls)
    OBVIOUS
  <2>3. m \in Nat
    BY <1>2, <2>2, SeqFacts DEF StackOK
  <2>4. /\ Len(OrderOf(s)) = Len(s.calls)
        /\ \A i \in 0 .. Len(s.calls) : Done(s, i) = {OrderOf(s)[x] : x \in 1 .. i}
    <3>1. IsPart(s.history)
      BY <1>1, <1>2, Zenon
    <3>2. QED
      BY <1>2, <3>1, OrderLegal
  <2>5. Len(q) = m /\ m \in 0 .. m
    BY <2>1, <2>2, <2>3, <2>4
  <2>6. Ids(h) = {q[x] : x \in 1 .. m}
    <3>1. Done(s, m) = {OrderOf(s)[x] : x \in 1 .. m}
      BY <2>2, <2>4, <2>5, Zenon
    <3>2. QED
      BY <2>1, <2>2, <3>1
  <2>7. Cardinality(Ids(h)) <= m
    BY <2>3, <2>6, ImageFacts
  <2>8. Len(q) >= n /\ q # <<>>
    BY <1>5, <1>10, <1>11, <2>3, <2>5, <2>7
  <2>9. QED
    BY <1>4, <1>6, <1>8, <2>8, Zenon
<1>13. CASE s.st = "false"
  <2>1. AllClosed(s, v)
    BY <1>2, <1>13, Zenon DEF ClosedOK
  <2>2. PICK key \in Key : OfKey(h, key) = Ids(h) /\ Embeds(h, h, key, [x \in Ids(h) |-> x])
    BY <1>2, SelfEmbeds, Zenon
  <2>3. PICK name : name = [x \in Ids(h) |-> x]
    OBVIOUS
  <2>4. PICK D : D = Seen(h, key, name, o, n)
    OBVIOUS
  <2>5. \A j \in 0 .. Len(o) :
              <<Seen(h, key, name, o, j), StateAfter(h, o)[j][key]>> \in Known(s)
    BY <1>1, <2>1, <2>2, <2>3, Covered, Zenon
  <2>6. n \in 0 .. n
    BY <1>5
  <2>7. PICK c : c = <<D, StateAfter(h, o)[n][key]>>
    OBVIOUS
  <2>8. c \in Known(s) /\ c[1] = D
    BY <1>4, <2>4, <2>5, <2>6, <2>7
  <2>9. D = {o[i] : i \in 1 .. n}
    <3>1. \A i \in 1 .. n : o[i] \in OfKey(h, key) /\ name[o[i]] = o[i]
      BY <1>3, <1>4, <2>2, <2>3, Zenon
    <3>2. QED
      BY <2>4, <3>1 DEF Seen
  <2>10. Cardinality(D) = n
    <3>1. \A i \in 1 .. n : NextOk(h, o, i)
      BY <1>3, <1>4, LegalNext
    <3>2. ASSUME NEW i \in 1 .. n, NEW j \in 1 .. n, i < j PROVE o[i] # o[j]
      <4>1. i \in 1 .. j - 1
        BY <1>5, <3>2
      <4>2. \A m \in 1 .. j - 1 : o[m] # o[j]
        BY <3>1, Zenon DEF NextOk
      <4>3. QED
        BY <4>1, <4>2, Zenon
    <3>3. QED
      BY <1>5, <2>9, <3>2, ImageFacts
  <2>11. id \in D
    BY <1>5, <1>6, <2>9
  <2>12. Closed(s, c, v)
    BY <2>1, <2>8, Zenon DEF AllClosed
  <2>13. Len(q) >= Cardinality(D)
    BY <1>8, <2>8, <2>11, <2>12, Zenon DEF Closed
  <2>14. Len(q) >= n /\ q # <<>>
    BY <1>5, <1>10, <2>10, <2>13
  <2>15. QED
    BY <1>4, <1>6, <1>8, <2>14, Zenon
<1>14. s.st \in {"run", "true", "false"}
  BY Zenon DEF SearchInv
<1>15. QED
  BY <1>12, <1>13, <1>14

\* The equation of the recursive function of Replay.
IsReplay(h, o, f) ==
    f = [j \in 0 .. Len(o) |->
           IF j = 0 THEN Empty ELSE StepState(f[j - 1], h[CallOf(h, o[j])].op)]

\* Replaying an order of operations of one key goes through the states of that
\* key.
LEMMA ReplayIs ==
    ASSUME NEW h, NEW o, IsSeq(o), NEW key \in Key,
           \A i \in 1 .. Len(o) : h[CallOf(h, o[i])].key = key
    PROVE  \A j \in 0 .. Len(o) : Replay(h, o)[j] = StateAfter(h, o)[j][key]
<1>1. PICK n : n = Len(o)
  OBVIOUS
<1>2. n \in Nat
  BY <1>1, SeqFacts
<1>3. PICK a : a = StateAfter(h, o)
  OBVIOUS
<1>4. a[0][key] = Empty
  BY <1>3, StateAfterFacts
<1>5. \A i \in 1 .. n : a[i][key] = StepState(a[i - 1][key], h[CallOf(h, o[i])].op)
  BY <1>1, <1>3, StateAfterFacts
<1>6. PICK f : f = [j \in 0 .. n |-> a[j][key]]
  OBVIOUS
<1>7. ASSUME NEW j \in 0 .. n
      PROVE  f[j] = IF j = 0 THEN Empty ELSE StepState(f[j - 1], h[CallOf(h, o[j])].op)
  <2>1. f[j] = a[j][key]
    BY <1>6, Zenon
  <2>2. CASE j = 0
    BY <1>4, <2>1, <2>2, Zenon
  <2>3. CASE j # 0
    <3>1. j \in 1 .. n /\ j - 1 \in 0 .. n
      BY <1>2, <2>3
    <3>2. f[j - 1] = a[j - 1][key]
      BY <1>6, <3>1, Zenon
    <3>3. QED
      BY <1>5, <2>1, <2>3, <3>1, <3>2, Zenon
  <2>4. QED
    BY <2>2, <2>3
<1>8. f = [j \in 0 .. n |-> IF j = 0 THEN Empty ELSE StepState(f[j - 1], h[CallOf(h, o[j])].op)]
  <2>1. DOMAIN f = 0 .. n /\ f = [j \in 0 .. n |-> f[j]]
    BY <1>6
  <2>2. QED
    BY <1>7, <2>1
<1>9. IsReplay(h, o, f)
  BY <1>1, <1>8, Zenon DEF IsReplay
<1>10. IsReplay(h, o, Replay(h, o))
  BY <1>9, Zenon DEF Replay, IsReplay
<1>11. PICK r : r = Replay(h, o)
  OBVIOUS
<1>12. r = [j \in 0 .. n |-> IF j = 0 THEN Empty ELSE StepState(r[j - 1], h[CallOf(h, o[j])].op)]
  BY <1>1, <1>10, <1>11, Zenon DEF IsReplay
<1> DEFINE T == {j \in Nat : j <= n => r[j] = a[j][key]}
<1>13. 0 \in T
  <2>1. 0 \in 0 .. n
    BY <1>2
  <2>2. r[0] = Empty
    BY <1>12, <2>1, Zenon
  <2>3. QED
    BY <1>4, <2>2
<1>14. ASSUME NEW j \in Nat, j \in T PROVE j + 1 \in T
  <2>1. SUFFICES ASSUME j + 1 <= n PROVE r[j + 1] = a[j + 1][key]
    OBVIOUS
  <2>2. j + 1 \in 0 .. n /\ j + 1 \in 1 .. n /\ j + 1 # 0 /\ (j + 1) - 1 = j /\ j <= n
    BY <1>2, <2>1
  <2>3. r[j] = a[j][key]
    BY <1>14, <2>2
  <2>4. r[j + 1] = StepState(r[j], h[CallOf(h, o[j + 1])].op)
    BY <1>12, <2>2, Zenon
  <2>5. a[j + 1][key] = StepState(a[j][key], h[CallOf(h, o[j + 1])].op)
    BY <1>5, <2>2, Zenon
  <2>6. QED
    BY <2>3, <2>4, <2>5, Zenon
<1>15. \A j \in Nat : j \in T
  <2> HIDE DEF T
  <2>1. QED
    BY <1>13, <1>14, NatSetInduction
<1>16. ASSUME NEW j \in 0 .. n PROVE r[j] = a[j][key]
  <2>1. j \in Nat /\ j <= n
    BY <1>2
  <2>2. QED
    BY <1>15, <2>1
<1>17. QED
  BY <1>1, <1>3, <1>11, <1>16, Zenon

\* Replaying a legal order of a partition, model.Step is ok all the way.
LEMMA ReplayOk ==
    ASSUME NEW h, IsPart(h), NEW o, IsLegal(h, o), NEW j \in 1 .. Len(o)
    PROVE  StepOk(Replay(h, o)[j - 1], h[CallOf(h, o[j])].op)
<1>1. IsSeq(o) /\ (\A i \in 1 .. Len(o) : o[i] \in Ids(h)) /\ LegalPrefix(h, o)
  BY Zenon DEF IsLegal
<1>2. PICK key \in Key : \A id \in Ids(h) : h[CallOf(h, id)].key = key
  BY SelfEmbeds, Zenon
<1>3. \A i \in 1 .. Len(o) : h[CallOf(h, o[i])].key = key
  BY <1>1, <1>2, Zenon
<1>4. \A i \in 0 .. Len(o) : Replay(h, o)[i] = StateAfter(h, o)[i][key]
  BY <1>1, <1>3, ReplayIs
<1>5. NextOk(h, o, j)
  BY <1>1, LegalNext
<1>6. StepOk(StateAfter(h, o)[j - 1][key], h[CallOf(h, o[j])].op)
  BY <1>3, <1>5, Zenon DEF NextOk
<1>7. j - 1 \in 0 .. Len(o)
  BY <1>1, SeqFacts
<1>8. QED
  BY <1>4, <1>6, <1>7, Zenon

\* Linearization i of q is the one that largestIndex keeps for an operation.
IsLargest(q, id, i) ==
    /\ id \in Range(q[i])
    /\ \A j \in DOMAIN q : id \in Range(q[j]) =>
          \/ Len(q[j]) < Len(q[i])
          \/ Len(q[j]) = Len(q[i]) /\ i <= j

\* The linearization that is shown for an operation contains it and is as long
\* as any other that does.
LEMMA LargestShown ==
    ASSUME NEW P, IsFiniteSet(P), \A p \in P : IsSeq(p), NEW q \in Sorted(P),
           NEW p \in P, NEW x \in DOMAIN p, NEW id, id = p[x]
    PROVE  \E i \in DOMAIN q : /\ id \in DOMAIN Largest(q) /\ Largest(q)[id] = i
                               /\ id \in Range(q[i]) /\ Len(q[i]) >= Len(p)
<1>1. PICK n : n = Cardinality(P)
  OBVIOUS
<1>2. q \in SetToSeqs(P) /\ \A i, j \in DOMAIN q : i < j => Len(q[i]) >= Len(q[j])
  BY DEF Sorted
<1>3. /\ n \in Nat /\ q \in [1 .. n -> P]
      /\ \A y \in P : \E i \in 1 .. n : q[i] = y
  BY <1>1, <1>2, SeqsFacts
<1>4. DOMAIN q = 1 .. n
  BY <1>3
<1>5. \A i \in 1 .. n : Len(q[i]) \in Nat
  <2>1. \A i \in 1 .. n : IsSeq(q[i])
    BY <1>3
  <2>2. QED
    BY <2>1, SeqFacts
<1>6. PICK k \in 1 .. n : q[k] = p
  BY <1>3
<1>7. id \in Range(q[k])
  BY <1>6 DEF Range
<1>8. PICK T : T = {i \in 1 .. n : id \in Range(q[i])}
  OBVIOUS
<1>9. T \in SUBSET Nat /\ k \in T
  BY <1>3, <1>7, <1>8
<1>10. PICK i \in T : \A m \in T : i <= m
  BY <1>9, LeastOf
<1>11. i \in 1 .. n /\ id \in Range(q[i])
  BY <1>8, <1>10
<1>12. ASSUME NEW j \in 1 .. n, id \in Range(q[j])
       PROVE  Len(q[j]) < Len(q[i]) \/ (Len(q[j]) = Len(q[i]) /\ i <= j)
  <2>1. i <= j
    BY <1>8, <1>10, <1>12
  <2>2. CASE i = j
    BY <2>1, <2>2
  <2>3. CASE i # j
    <3>1. i < j
      BY <1>11, <2>1, <2>3
    <3>2. Len(q[i]) >= Len(q[j])
      BY <1>2, <1>4, <1>11, <3>1, Zenon
    <3>3. Len(q[i]) \in Nat /\ Len(q[j]) \in Nat
      BY <1>5, <1>11, Zenon
    <3>4. QED
      BY <2>1, <3>2, <3>3
  <2>4. QED
    BY <2>2, <2>3
<1>13. IsLargest(q, id, i)
  BY <1>4, <1>11, <1>12, Zenon DEF IsLargest
<1>14. id \in UNION {Range(q[j]) : j \in DOMAIN q}
  BY <1>4, <1>6, <1>7
<1>15. PICK w : w = Largest(q)[id]
  OBVIOUS
<1>16. /\ id \in DOMAIN Largest(q)
       /\ w = CHOOSE j \in DOMAIN q : IsLargest(q, id, j)
  BY <1>14, <1>15, Zenon DEF Largest, IsLargest
<1>17. w \in DOMAIN q /\ IsLargest(q, id, w)
  BY <1>4, <1>11, <1>13, <1>16, Zenon
<1>18. id \in Range(q[w]) /\ (Len(q[k]) < Len(q[w]) \/ Len(q[k]) = Len(q[w]))
  BY <1>4, <1>7, <1>17, Zenon DEF IsLargest
<1>19. Len(q[w]) >= Len(p)
  <2>1. Len(q[w]) \in Nat /\ Len(q[k]) \in Nat
    BY <1>4, <1>5, <1>17, Zenon
  <2>2. Len(q[w]) >= Len(q[k])
    BY <1>18, <2>1
  <2>3. QED
    BY <1>6, <2>2, Zenon
<1>20. QED
  BY <1>15, <1>16, <1>17, <1>18, <1>19, Zenon

\* The linearizations of a partition are finitely many and legal.
LEMMA PartialsFacts ==
    ASSUME NEW key, NEW s, s = search[key], NEW v, NEW kl, SearchInv(s, v, kl)
    PROVE  /\ IsFiniteSet(Partials(key))
           /\ \A p \in Partials(key) : IsLegal(s.history, p)
           /\ \A id \in Ids(s.history) : s.longest[id] # <<>> => s.longest[id] \in Partials(key)
<1>1. PICK h : h = s.history
  OBVIOUS
<1>2. LongestOK(s) /\ IsFiniteSet(Ids(h))
  BY <1>1, Zenon DEF SearchInv, IsPart
<1>3. PICK lon : lon = s.longest
  OBVIOUS
<1>4. PICK S : S = {lon[id] : id \in Ids(h)}
  OBVIOUS
<1>5. DOMAIN lon = Ids(h)
  BY <1>1, <1>2, <1>3, Zenon DEF LongestOK
<1>6. Partials(key) = S \ {<<>>}
  BY <1>3, <1>4, <1>5 DEF Partials
<1>7. IsFiniteSet(S)
  <2>1. PICK f : f = [id \in Ids(h) |-> lon[id]]
    OBVIOUS
  <2>2. f \in Surjection(Ids(h), S)
    BY <1>4, <2>1 DEF Surjection
  <2>3. QED
    BY <1>2, <2>2, FS_Surjection
<1>8. IsFiniteSet(Partials(key))
  <2>1. Partials(key) \in SUBSET S
    BY <1>6
  <2>2. QED
    BY <1>7, <2>1, FS_Subset
<1>9. ASSUME NEW p \in Partials(key) PROVE IsLegal(h, p)
  <2>1. PICK id \in Ids(h) : p = lon[id]
    BY <1>4, <1>6
  <2>2. p # <<>>
    BY <1>6
  <2>3. IsSeq(p) /\ LegalPrefix(h, p) /\ \A i \in DOMAIN p : p[i] \in Ids(h)
    BY <1>1, <1>2, <1>3, <2>1, <2>2, Zenon DEF LongestOK
  <2>4. DOMAIN p = 1 .. Len(p)
    BY <2>3, SeqFacts
  <2>5. QED
    BY <2>3, <2>4, Zenon DEF IsLegal
<1>10. \A id \in Ids(h) : lon[id] # <<>> => lon[id] \in Partials(key)
  BY <1>4, <1>6
<1>11. QED
  BY <1>1, <1>3, <1>8, <1>9, <1>10, Zenon

\* What ReportExplains says of one arrangement of the linearizations.
Explains(q, o, k) ==
    LET shown == Largest(q)
    IN  /\ o[k] \in DOMAIN shown
        /\ Len(q[shown[o[k]]]) >= Len(o)
        /\ \E x \in DOMAIN q[shown[o[k]]] : q[shown[o[k]]][x] = o[k]

\* The report of a partition whose search has returned.
LEMMA PartExplained ==
    ASSUME NEW key, NEW s, s = search[key], NEW v, v = TRUE, NEW kl, SearchInv(s, v, kl), s.st # "run",
           NEW q \in Sorted(Partials(key))
    PROVE  /\ ~ Panics(s.history, q)
           /\ kl = FALSE => \A o \in LegalPrefixes(s.history) : \A k \in DOMAIN o :
                         Explains(q, o, k)
<1>1. PICK h : h = s.history
  OBVIOUS
<1>2. PICK P : P = Partials(key)
  OBVIOUS
<1>3. IsPart(h) /\ IsFiniteSet(Ids(h)) /\ LongestOK(s)
  BY <1>1, Zenon DEF SearchInv, IsPart
<1>4. /\ IsFiniteSet(P) /\ \A p \in P : IsLegal(h, p)
      /\ \A id \in Ids(h) : s.longest[id] # <<>> => s.longest[id] \in P
  BY <1>1, <1>2, PartialsFacts
<1>5. \A p \in P : IsSeq(p)
  BY <1>4, Zenon DEF IsLegal
<1>6. q \in Sorted(P) /\ q \in SetToSeqs(P)
  BY <1>2 DEF Sorted
<1>7. ~ Panics(h, q)
  <2>1. PICK n : n = Cardinality(P)
    OBVIOUS
  <2>2. q \in [1 .. n -> P]
    BY <1>4, <1>6, <2>1, SeqsFacts
  <2>3. ASSUME NEW i \in DOMAIN q, NEW j \in DOMAIN q[i]
        PROVE  StepOk(Replay(h, q[i])[j - 1], h[CallOf(h, q[i][j])].op)
    <3>1. PICK p : p = q[i]
      OBVIOUS
    <3>2. p \in P
      BY <2>2, <3>1
    <3>3. IsLegal(h, p) /\ IsSeq(p)
      BY <1>4, <1>5, <3>2, Zenon
    <3>4. j \in 1 .. Len(p)
      BY <2>3, <3>1, <3>3, SeqFacts
    <3>5. StepOk(Replay(h, p)[j - 1], h[CallOf(h, p[j])].op)
      BY <1>3, <3>3, <3>4, ReplayOk
    <3>6. QED
      BY <3>1, <3>5, Zenon
  <2>4. QED
    BY <2>3, Zenon DEF Panics
<1>8. ASSUME kl = FALSE, NEW o \in LegalPrefixes(h), NEW k \in DOMAIN o PROVE Explains(q, o, k)
  <2>1. IsLegal(h, o) /\ IsSeq(o)
    BY <1>3, LinearizableIs DEF IsLegal
  <2>2. k \in 1 .. Len(o) /\ Len(o) \in Nat
    BY <1>8, <2>1, SeqFacts
  <2>3. PICK id : id = o[k]
    OBVIOUS
  <2>4. id \in Ids(h)
    BY <2>1, <2>2, <2>3, Zenon DEF IsLegal
  <2>5. PICK p : p = s.longest[id]
    OBVIOUS
  <2>6. p # <<>> /\ Len(p) >= Len(o)
    <3>1. IsLegal(s.history, o)
      BY <1>1, <2>1, Zenon
    <3>2. s.longest[o[k]] # <<>> /\ Len(s.longest[o[k]]) >= Len(o)
      BY <1>8, <2>2, <3>1, LongestCovers
    <3>3. QED
      BY <2>3, <2>5, <3>2, Zenon
  <2>7. p \in P
    BY <1>4, <2>4, <2>5, <2>6, Zenon
  <2>8. PICK x \in DOMAIN p : p[x] = id
    BY <1>1, <1>3, <2>4, <2>5, <2>6, Zenon DEF LongestOK
  <2>9. PICK i \in DOMAIN q : /\ id \in DOMAIN Largest(q) /\ Largest(q)[id] = i
                              /\ id \in Range(q[i]) /\ Len(q[i]) >= Len(p)
    BY <1>4, <1>5, <1>6, <2>7, <2>8, LargestShown
  <2>10. Len(q[i]) \in Nat /\ Len(p) \in Nat
    <3>1. IsSeq(p)
      BY <1>5, <2>7, Zenon
    <3>2. q \in [1 .. Cardinality(P) -> P]
      BY <1>4, <1>6, SeqsFacts
    <3>3. q[i] \in P
      BY <3>2
    <3>4. IsSeq(q[i])
      BY <1>5, <3>3, Zenon
    <3>5. QED
      BY <3>1, <3>4, SeqFacts
  <2>11. Len(q[i]) >= Len(o)
    BY <2>2, <2>6, <2>9, <2>10
  <2>12. PICK y \in DOMAIN q[i] : q[i][y] = id
    BY <2>9 DEF Range
  <2>13. QED
    BY <2>3, <2>9, <2>11, <2>12, Zenon DEF Explains
<1>9. QED
  BY <1>1, <1>7, <1>8, Zenon

\* The report of a verbose check explains it: replaying a linearization never
\* panics, and unless the check was killed the one shown for an operation is a
\* longest of all legal orders that contain it, and one is shown if there is any.
THEOREM ReportHolds == Spec => []ReportExplains
<1>1. ASSUME SearchesInv, LoopInv PROVE ReportExplains
  <2>1. SUFFICES ASSUME computeInfo, loop.st \in {"Ok", "Illegal", "Unknown"}, NEW key \in Keys,
                        NEW q \in Sorted(Partials(key))
                 PROVE  /\ ~ Panics(Part(key), q)
                        /\ \A o \in IF kill THEN {} ELSE LegalPrefixes(Part(key)) : \A k \in DOMAIN o :
                              Explains(q, o, k)
    BY Zenon DEF ReportExplains, Explains
  <2>2. PICK s : s = search[key]
    OBVIOUS
  <2>3. SearchInv(s, computeInfo, kill)
    BY <1>1, <2>2, Zenon DEF SearchesInv
  <2>4. s.st # "run"
    <3>1. Taken = Keys
      BY <1>1, <2>1, Zenon DEF LoopInv
    <3>2. QED
      BY <2>2, <3>1 DEF Taken
  <2>5. Part(key) = s.history
    BY <2>2, Zenon DEF Part
  <2>6. /\ ~ Panics(s.history, q)
        /\ kill = FALSE => \A o \in LegalPrefixes(s.history) : \A k \in DOMAIN o : Explains(q, o, k)
    <3>1. computeInfo = TRUE
      BY <1>1, <2>1, Zenon DEF SearchesInv
    <3>2. QED
      BY <2>1, <2>2, <2>3, <2>4, <3>1, PartExplained
  <2>7. CASE kill
    BY <2>5, <2>6, <2>7, Zenon
  <2>8. CASE ~ kill
    <3>1. kill = FALSE
      BY <1>1, <2>8, Zenon DEF SearchesInv
    <3>2. QED
      BY <2>5, <2>6, <2>8, <3>1, Zenon
  <2>9. QED
    BY <2>7, <2>8
<1>2. QED
  BY <1>1, LoopHolds, PTL
=============================================================================
