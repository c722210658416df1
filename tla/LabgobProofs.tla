---------------------------- MODULE LabgobProofs ----------------------------
(***************************************************************************)
(* Proofs about Labgob for any goroutines, types, values and number of      *)
(* uses: every lower-case field is counted once, and a reply that keeps old *)
(* contents has been warned about.                                          *)
(*                                                                          *)
(* The count is settled by a balance.  What has been counted, together with *)
(* the lower-case components that wait on the stacks, is what the recorded  *)
(* types have; a component waits at one place of one stack, so places are   *)
(* counted and not components.                                              *)
(***************************************************************************)
EXTENDS Labgob, FiniteSetTheorems, TLAPS

\* What every state has.
LabgobTypeOK ==
    /\ checked \in SUBSET Type /\ roots \in SUBSET Type
    /\ errorCount \in Nat /\ defaultErrors \in Nat
    /\ pc \in [Proc -> {"idle", "encode", "decode", "gob"}]
    /\ stack \in [Proc -> Seq(Component)]
    /\ reply \in [Proc -> Value] /\ sent \in [Proc -> Value]
    /\ warned \in [Proc -> BOOLEAN]
    /\ \A p \in Proc : pc[p] \in {"idle", "gob"} => stack[p] = <<>>

\* The places of a sequence of components that are yet to be complained about.
LowerIn(s) == {k \in DOMAIN s : s[k].lower}

\* The places of all stacks that are.
Places(st) == UNION {{<<p, k>> : k \in LowerIn(st[p])} : p \in Proc}
Pending == Places(stack)

\* The lower-case components of some types.
Lower(S) == {c \in Components(S) : Fields[c[1]][c[2]].lower}

\* A type that some goroutine will look at.
OnStack(t) == \E p \in Proc : \E k \in DOMAIN stack[p] : stack[p][k].type = t

\* Components are counted, or wait.
Balance ==
    /\ IsFiniteSet(Pending) /\ IsFiniteSet(Lower(checked))
    /\ errorCount - defaultErrors + Cardinality(Pending) = Cardinality(Lower(checked))

\* No type is passed over: its components are recorded, or wait.
Covered ==
    /\ \A t \in roots : t \in checked \/ OnStack(t)
    /\ \A t \in checked : \A i \in DOMAIN Fields[t] :
          Fields[t][i].type \in checked \/ OnStack(Fields[t][i].type)

\* No type is looked at that was not to be sent.
Found == \A t \in Type : t \in checked \/ OnStack(t) => t \in Reachable

\* Contents that checkDefault1 gets to are warned about before gob decodes.
WarnedAt(p) ==
    \A l \in Leaf : LooksAt(l) =>
       /\ pc[p] \in {"idle", "encode"} /\ reply[p][l] # sent[p][l] => warned[p]
       /\ pc[p] = "gob" /\ reply[p][l] # 0 => warned[p]

LabgobInv ==
    /\ LabgobTypeOK
    /\ Balance
    /\ Covered
    /\ Found
    /\ \A p \in Proc : WarnedAt(p)

-----------------------------------------------------------------------------
(* Sets and sequences.                                                     *)

\* A pending place is a place of a stack.
LEMMA PendingPlace ==
    ASSUME NEW st
    PROVE  \A p, k : <<p, k>> \in Places(st) <=> p \in Proc /\ k \in DOMAIN st[p] /\ st[p][k].lower
<1>1. \A p, k, q, j : <<p, k>> = <<q, j>> => p = q /\ k = j
  OBVIOUS
<1>2. ASSUME NEW p, NEW k, <<p, k>> \in Places(st)
      PROVE  p \in Proc /\ k \in DOMAIN st[p] /\ st[p][k].lower
  <2>1. PICK q \in Proc : <<p, k>> \in {<<q, j>> : j \in LowerIn(st[q])}
    BY <1>2, Zenon DEF Places
  <2>2. PICK j \in LowerIn(st[q]) : <<p, k>> = <<q, j>>
    BY <2>1, Zenon
  <2>3. p \in Proc /\ k \in LowerIn(st[p])
    BY <1>1, <2>2, Zenon
  <2>4. QED
    BY <2>3 DEF LowerIn
<1>3. ASSUME NEW p \in Proc, NEW k \in DOMAIN st[p], st[p][k].lower
      PROVE  <<p, k>> \in Places(st)
  <2>1. k \in LowerIn(st[p])
    BY <1>3 DEF LowerIn
  <2>2. <<p, k>> \in {<<p, j>> : j \in LowerIn(st[p])}
    BY <2>1, Zenon
  <2>3. QED
    BY <2>2 DEF Places
<1>4. QED
  BY <1>2, <1>3, Zenon

\* Places(st) places are pairs.
LEMMA PendingPair ==
    ASSUME NEW st
    PROVE  \A e \in Places(st) : \E p, k : e = <<p, k>>
BY Zenon DEF Places

\* Sets of pairs are the same if they have the same pairs.
LEMMA PairSets ==
    ASSUME NEW S, NEW T,
           \A e \in S : \E p, k : e = <<p, k>>,
           \A e \in T : \E p, k : e = <<p, k>>,
           \A p, k : <<p, k>> \in S <=> <<p, k>> \in T
    PROVE  S = T
<1>1. ASSUME NEW e \in S PROVE e \in T
  <2>1. PICK p, k : e = <<p, k>>
    OBVIOUS
  <2>2. QED
    BY <2>1, Zenon
<1>2. ASSUME NEW e \in T PROVE e \in S
  <2>1. PICK p, k : e = <<p, k>>
    OBVIOUS
  <2>2. QED
    BY <2>1, Zenon
<1>3. QED
  BY <1>1, <1>2, Zenon

\* A component is a place of a type.
LEMMA ComponentPlace ==
    ASSUME NEW S
    PROVE  /\ \A t, i : <<t, i>> \in Components(S) <=> t \in S /\ i \in DOMAIN Fields[t]
           /\ \A c \in Components(S) : \E t, i : c = <<t, i>>
<1>1. \A t, i, u, j : <<t, i>> = <<u, j>> => t = u /\ i = j
  OBVIOUS
<1>2. ASSUME NEW t, NEW i, <<t, i>> \in Components(S)
      PROVE  t \in S /\ i \in DOMAIN Fields[t]
  <2>1. PICK u \in S : <<t, i>> \in {<<u, j>> : j \in DOMAIN Fields[u]}
    BY <1>2, Zenon DEF Components
  <2>2. PICK j \in DOMAIN Fields[u] : <<t, i>> = <<u, j>>
    BY <2>1, Zenon
  <2>3. QED
    BY <1>1, <2>2, Zenon
<1>3. ASSUME NEW t \in S, NEW i \in DOMAIN Fields[t] PROVE <<t, i>> \in Components(S)
  <2>1. <<t, i>> \in {<<t, j>> : j \in DOMAIN Fields[t]}
    BY Zenon
  <2>2. QED
    BY <2>1 DEF Components
<1>4. \A c \in Components(S) : \E t, i : c = <<t, i>>
  BY Zenon DEF Components
<1>5. QED
  BY <1>2, <1>3, <1>4, Zenon

\* A lower-case component is one.
LEMMA LowerPlace ==
    ASSUME NEW S
    PROVE  /\ \A t, i : <<t, i>> \in Lower(S) <=>
                 t \in S /\ i \in DOMAIN Fields[t] /\ Fields[t][i].lower
           /\ \A c \in Lower(S) : \E t, i : c = <<t, i>>
<1>1. \A t, i : <<t, i>>[1] = t /\ <<t, i>>[2] = i
  OBVIOUS
<1>2. ASSUME NEW t, NEW i
      PROVE  <<t, i>> \in Lower(S) <=> t \in S /\ i \in DOMAIN Fields[t] /\ Fields[t][i].lower
  BY <1>1, ComponentPlace DEF Lower
<1>3. \A c \in Lower(S) : \E t, i : c = <<t, i>>
  BY ComponentPlace DEF Lower
<1>4. QED
  BY <1>2, <1>3, Zenon

\* Sets that have nothing in common are counted separately.
LEMMA DisjointUnion ==
    ASSUME NEW S, NEW T, IsFiniteSet(S), IsFiniteSet(T), S \cap T = {}
    PROVE  /\ IsFiniteSet(S \cup T)
           /\ Cardinality(S \cup T) = Cardinality(S) + Cardinality(T)
<1>1. Cardinality(S) \in Nat /\ Cardinality(T) \in Nat
  BY FS_CardinalityType
<1>2. Cardinality(S \cap T) = 0
  BY FS_EmptySet
<1>3. Cardinality(S \cup T) = Cardinality(S) + Cardinality(T) - Cardinality(S \cap T)
  BY FS_Union, Zenon
<1>4. QED
  BY <1>1, <1>2, <1>3, FS_Union

\* A one-to-one correspondence keeps the size of a finite set.
LEMMA SameSize ==
    ASSUME NEW S, NEW T, NEW f \in [S -> T], IsFiniteSet(S),
           \A x, y \in S : f[x] = f[y] => x = y,
           \A z \in T : \E x \in S : f[x] = z
    PROVE  IsFiniteSet(T) /\ Cardinality(T) = Cardinality(S)
<1>1. f \in Bijection(S, T)
  BY Zenon DEF Bijection, Injection, IsInjective, Surjection
<1>2. ExistsBijection(S, T)
  BY <1>1, Zenon DEF ExistsBijection
<1>3. QED
  BY <1>2, FS_Bijection, Zenon

-----------------------------------------------------------------------------
(* What the actions do to the stacks.                                      *)

\* Encode and Decode put the type itself on an empty stack.
Starts(p, t) ==
    /\ pc[p] = "idle"
    /\ stack' = [stack EXCEPT ![p] = <<[lower |-> FALSE, type |-> t]>>]
    /\ roots' = roots \cup {t}
    /\ UNCHANGED <<checked, errorCount, defaultErrors>>

\* A goroutine that starts has the one type to look at.
LEMMA StartsStack ==
    ASSUME LabgobTypeOK, NEW p \in Proc, NEW t \in Type, Starts(p, t)
    PROVE  /\ stack' \in [Proc -> Seq(Component)]
           /\ \A q \in Proc : q # p => stack'[q] = stack[q]
           /\ stack[p] = <<>>
           /\ DOMAIN stack'[p] = {1}
           /\ ~ stack'[p][1].lower /\ stack'[p][1].type = t
<1> DEFINE r == [lower |-> FALSE, type |-> t]
<1>1. r \in Component /\ ~ r.lower /\ r.type = t
  BY DEF Component
<1> HIDE DEF r
<1>2. stack' = [stack EXCEPT ![p] = <<r>>]
  BY DEF Starts, r
<1>3. stack \in [Proc -> Seq(Component)] /\ stack[p] = <<>>
  BY DEF LabgobTypeOK, Starts
<1>4. <<r>> \in Seq(Component) /\ DOMAIN <<r>> = {1} /\ <<r>>[1] = r
  BY <1>1
<1>5. stack'[p] = <<r>>
  BY <1>2, <1>3
<1>6. QED
  BY <1>1, <1>2, <1>3, <1>4, <1>5

\* complain only resets the mark of the first place.
LEMMA ComplainStack ==
    ASSUME LabgobTypeOK, NEW p \in Proc, complain(p)
    PROVE  /\ stack' \in [Proc -> Seq(Component)]
           /\ 1 \in DOMAIN stack[p] /\ stack[p][1].lower
           /\ \A q \in Proc : DOMAIN stack'[q] = DOMAIN stack[q]
           /\ \A q \in Proc : \A k \in DOMAIN stack[q] :
                 /\ stack'[q][k].type = stack[q][k].type
                 /\ stack'[q][k].lower <=> stack[q][k].lower /\ ~ (q = p /\ k = 1)
<1> DEFINE r == [stack[p][1] EXCEPT !.lower = FALSE]
<1> DEFINE s == [stack[p] EXCEPT ![1] = r]
<1>1. stack \in [Proc -> Seq(Component)]
  BY DEF LabgobTypeOK
<1>2. stack[p] \in Seq(Component) /\ stack[p] # <<>>
  BY <1>1 DEF complain
<1>3. 1 \in DOMAIN stack[p] /\ Head(stack[p]) = stack[p][1] /\ stack[p][1] \in Component
  BY <1>2
<1>4. stack[p][1].lower
  BY <1>3 DEF complain
<1>5. r \in Component /\ ~ r.lower /\ r.type = stack[p][1].type
  BY <1>3 DEF Component
<1>6. stack' = [stack EXCEPT ![p] = s]
  BY <1>1, <1>2, <1>3 DEF complain
<1> HIDE DEF r
<1>7. /\ s \in Seq(Component)
      /\ DOMAIN s = DOMAIN stack[p]
      /\ \A k \in DOMAIN stack[p] : s[k] = IF k = 1 THEN r ELSE stack[p][k]
  BY <1>2, <1>3, <1>5
<1> HIDE DEF s
<1>8. \A q \in Proc : stack'[q] = IF q = p THEN s ELSE stack[q]
  BY <1>1, <1>6
<1>9. stack' \in [Proc -> Seq(Component)]
  BY <1>1, <1>6, <1>7
<1>10. \A q \in Proc : DOMAIN stack'[q] = DOMAIN stack[q]
  BY <1>7, <1>8
<1>11. ASSUME NEW q \in Proc, NEW k \in DOMAIN stack[q]
       PROVE  /\ stack'[q][k].type = stack[q][k].type
              /\ stack'[q][k].lower <=> stack[q][k].lower /\ ~ (q = p /\ k = 1)
  <2>1. CASE q = p /\ k = 1
    BY <1>5, <1>7, <1>8, <2>1
  <2>2. CASE ~ (q = p /\ k = 1)
    <3>1. stack'[q][k] = stack[q][k]
      BY <1>7, <1>8, <2>2
    <3>2. QED
      BY <2>2, <3>1, Zenon
  <2>3. QED
    BY <2>1, <2>2, Zenon
<1>12. QED
  BY <1>3, <1>4, <1>9, <1>10, <1>11

\* checkType takes the first type off the stack and puts its components there
\* if it is new.
New(p) == IF Head(stack[p]).type \in checked THEN <<>> ELSE Fields[Head(stack[p]).type]

LEMMA CheckTypeStack ==
    ASSUME LabgobTypeOK, NEW p \in Proc, checkType(p)
    PROVE  /\ stack' \in [Proc -> Seq(Component)]
           /\ New(p) \in Seq(Component)
           /\ Len(stack[p]) \in Nat /\ DOMAIN stack[p] = 1 .. Len(stack[p]) /\ Len(stack[p]) >= 1
           /\ Head(stack[p]).type \in Type /\ stack[p][1].type = Head(stack[p]).type
           /\ ~ stack[p][1].lower
           /\ \A q \in Proc : q # p => stack'[q] = stack[q]
           /\ DOMAIN stack'[p] = 1 .. Len(New(p)) + Len(stack[p]) - 1
           /\ \A k \in 1 .. Len(New(p)) : stack'[p][k] = New(p)[k]
           /\ \A k \in 2 .. Len(stack[p]) : stack'[p][Len(New(p)) + k - 1] = stack[p][k]
<1> DEFINE s == stack[p]
           t == Head(s).type
           F == New(p)
<1>1. stack \in [Proc -> Seq(Component)]
  BY DEF LabgobTypeOK
<1>2. s \in Seq(Component) /\ s # <<>>
  BY <1>1 DEF checkType
<1>3. stack' = [stack EXCEPT ![p] = F \o Tail(s)]
  BY <1>1 DEF checkType, New
<1>4. ~ Head(s).lower
  BY DEF checkType
<1> HIDE DEF s
<1>5. /\ Len(s) \in Nat /\ DOMAIN s = 1 .. Len(s) /\ Len(s) >= 1
      /\ Head(s) = s[1] /\ s[1] \in Component
  BY <1>2
<1>6. t \in Type
  BY <1>5 DEF Component
<1>7. F \in Seq(Component)
  <2>1. t \notin checked => F = Fields[t]
    BY DEF New, s
  <2>2. t \in checked => F = <<>>
    BY DEF New, s
  <2>3. Fields[t] \in Seq(Component)
    BY <1>6, TypesClosed
  <2>4. <<>> \in Seq(Component)
    OBVIOUS
  <2>5. QED
    BY <2>1, <2>2, <2>3, <2>4, Zenon
<1> HIDE DEF F, t
<1>8. /\ Tail(s) \in Seq(Component) /\ Len(Tail(s)) = Len(s) - 1
      /\ \A k \in 2 .. Len(s) : Tail(s)[k - 1] = s[k]
  BY <1>2, <1>5
<1>9. Len(F) \in Nat /\ DOMAIN F = 1 .. Len(F)
  BY <1>7
<1>10. /\ F \o Tail(s) \in Seq(Component)
       /\ Len(F \o Tail(s)) = Len(F) + Len(s) - 1
       /\ DOMAIN (F \o Tail(s)) = 1 .. Len(F) + Len(s) - 1
       /\ \A k \in 1 .. Len(F) : (F \o Tail(s))[k] = F[k]
  BY <1>5, <1>7, <1>8, <1>9
<1>11. ASSUME NEW k \in 2 .. Len(s) PROVE (F \o Tail(s))[Len(F) + k - 1] = s[k]
  <2>1. k - 1 \in 1 .. Len(Tail(s)) /\ Len(F) + (k - 1) = Len(F) + k - 1
    BY <1>5, <1>8, <1>9
  <2>2. (F \o Tail(s))[Len(F) + (k - 1)] = Tail(s)[k - 1]
    BY <1>7, <1>8, <1>9, <2>1
  <2>3. QED
    BY <1>8, <2>1, <2>2
<1>12. stack'[p] = F \o Tail(s) /\ stack' \in [Proc -> Seq(Component)]
  BY <1>1, <1>3, <1>10
<1>13. \A q \in Proc : q # p => stack'[q] = stack[q]
  BY <1>1, <1>3
<1>14. QED
  BY <1>4, <1>5, <1>6, <1>7, <1>10, <1>11, <1>12, <1>13 DEF F, s, t

-----------------------------------------------------------------------------
(* The balance.                                                            *)

\* Reset marks and counts: one component less waits, and one more is counted.
LEMMA ComplainBalance ==
    ASSUME LabgobTypeOK, Balance, NEW p \in Proc, complain(p)
    PROVE  Balance'
<1>1. /\ 1 \in DOMAIN stack[p] /\ stack[p][1].lower
      /\ \A q \in Proc : DOMAIN stack'[q] = DOMAIN stack[q]
      /\ \A q \in Proc : \A k \in DOMAIN stack[q] :
            stack'[q][k].lower <=> stack[q][k].lower /\ ~ (q = p /\ k = 1)
  BY ComplainStack
<1> DEFINE one == <<p, 1>>
<1>2. \A q, k : <<q, k>> = one <=> q = p /\ k = 1
  OBVIOUS
<1>3. \A q, k : <<q, k>> \in Places(stack') <=> <<q, k>> \in Places(stack) \ {one}
  <2> SUFFICES ASSUME NEW q, NEW k
               PROVE  <<q, k>> \in Places(stack') <=> <<q, k>> \in Places(stack) \ {one}
    OBVIOUS
  <2>1. <<q, k>> \in Places(stack') <=> q \in Proc /\ k \in DOMAIN stack'[q] /\ stack'[q][k].lower
    BY PendingPlace, Zenon
  <2>2. <<q, k>> \in Places(stack) <=> q \in Proc /\ k \in DOMAIN stack[q] /\ stack[q][k].lower
    BY PendingPlace, Zenon
  <2>3. <<q, k>> \in Places(stack) \ {one} <=> <<q, k>> \in Places(stack) /\ ~ (q = p /\ k = 1)
    BY <1>2, Zenon
  <2>4. QED
    BY <1>1, <2>1, <2>2, <2>3, Zenon
<1>4. Places(stack') = Places(stack) \ {one}
  <2>1. \A e \in Places(stack') : \E q, k : e = <<q, k>>
    BY PendingPair, Zenon
  <2>2. \A e \in Places(stack) \ {one} : \E q, k : e = <<q, k>>
    BY PendingPair, Zenon
  <2>3. QED
    BY <1>3, <2>1, <2>2, PairSets, Zenon
<1>5. one \in Places(stack)
  BY <1>1, PendingPlace, Zenon
<1> HIDE DEF one
<1>6. IsFiniteSet(Places(stack)) /\ IsFiniteSet(Lower(checked))
  BY DEF Balance, Pending
<1>7. Cardinality(Places(stack)) \in Nat /\ Cardinality(Lower(checked)) \in Nat
  BY <1>6, FS_CardinalityType
<1>8. /\ IsFiniteSet(Places(stack'))
      /\ Cardinality(Places(stack')) = Cardinality(Places(stack)) - 1
  BY <1>4, <1>5, <1>6, FS_RemoveElement
<1>9. checked' = checked /\ errorCount' = errorCount + 1 /\ defaultErrors' = defaultErrors
  BY DEF complain
<1>10. errorCount - defaultErrors + Cardinality(Places(stack)) = Cardinality(Lower(checked))
  BY DEF Balance, Pending
<1>11. errorCount \in Nat /\ defaultErrors \in Nat
  BY DEF LabgobTypeOK
<1>12. Lower(checked') = Lower(checked)
  BY <1>9
<1>13. errorCount' - defaultErrors' + Cardinality(Places(stack')) = Cardinality(Lower(checked'))
  BY <1>7, <1>8, <1>9, <1>10, <1>11, <1>12
<1>14. QED
  BY <1>6, <1>8, <1>12, <1>13 DEF Balance, Pending

\* What starts has no mark.
LEMMA StartsBalance ==
    ASSUME LabgobTypeOK, Balance, NEW p \in Proc, NEW t \in Type, Starts(p, t)
    PROVE  Balance'
<1>1. /\ \A q \in Proc : q # p => stack'[q] = stack[q]
      /\ stack[p] = <<>> /\ DOMAIN stack'[p] = {1} /\ ~ stack'[p][1].lower
  BY StartsStack
<1>2. DOMAIN stack[p] = {}
  BY <1>1
<1>3. \A q, k : <<q, k>> \in Places(stack') <=> <<q, k>> \in Places(stack)
  <2> SUFFICES ASSUME NEW q, NEW k
               PROVE  <<q, k>> \in Places(stack') <=> <<q, k>> \in Places(stack)
    OBVIOUS
  <2>1. <<q, k>> \in Places(stack') <=> q \in Proc /\ k \in DOMAIN stack'[q] /\ stack'[q][k].lower
    BY PendingPlace, Zenon
  <2>2. <<q, k>> \in Places(stack) <=> q \in Proc /\ k \in DOMAIN stack[q] /\ stack[q][k].lower
    BY PendingPlace, Zenon
  <2>3. CASE q = p
    <3>1. ~ (k \in DOMAIN stack'[p] /\ stack'[p][k].lower) /\ k \notin DOMAIN stack[p]
      BY <1>1, <1>2
    <3>2. QED
      BY <2>1, <2>2, <2>3, <3>1, Zenon
  <2>4. CASE q # p
    BY <1>1, <2>1, <2>2, <2>4, Zenon
  <2>5. QED
    BY <2>3, <2>4, Zenon
<1>4. Places(stack') = Places(stack)
  <2>1. \A e \in Places(stack') : \E q, k : e = <<q, k>>
    BY PendingPair, Zenon
  <2>2. \A e \in Places(stack) : \E q, k : e = <<q, k>>
    BY PendingPair, Zenon
  <2>3. QED
    BY <1>3, <2>1, <2>2, PairSets, Zenon
<1>5. checked' = checked /\ errorCount' = errorCount /\ defaultErrors' = defaultErrors
  BY DEF Starts
<1>6. QED
  BY <1>4, <1>5 DEF Balance, Pending

\* The marks of a sequence of components, as pairs with something, are as many
\* as they are.
LEMMA PairedSize ==
    ASSUME NEW s \in Seq(Component), NEW a
    PROVE  LET P == {<<a, k>> : k \in LowerIn(s)}
           IN  IsFiniteSet(P) /\ Cardinality(P) = Cardinality(LowerIn(s))
<1> DEFINE P == {<<a, k>> : k \in LowerIn(s)}
           f == [k \in LowerIn(s) |-> <<a, k>>]
<1>1. IsFiniteSet(LowerIn(s))
  <2>1. Len(s) \in Nat /\ LowerIn(s) \in SUBSET (1 .. Len(s))
    BY DEF LowerIn
  <2>2. IsFiniteSet(1 .. Len(s))
    BY <2>1, FS_Interval
  <2>3. QED
    BY <2>1, <2>2, FS_Subset
<1>2. f \in [LowerIn(s) -> P]
  BY Zenon
<1>3. \A k, j \in LowerIn(s) : f[k] = f[j] => k = j
  OBVIOUS
<1>4. \A z \in P : \E k \in LowerIn(s) : f[k] = z
  BY Zenon
<1> HIDE DEF P, f
<1>5. QED
  BY <1>1, <1>2, <1>3, <1>4, SameSize DEF P

\* checkType moves the places of its stack and adds those of the new components.
LEMMA CheckTypePlaces ==
    ASSUME LabgobTypeOK, Balance, NEW p \in Proc, checkType(p)
    PROVE  /\ IsFiniteSet(Places(stack'))
           /\ Cardinality(Places(stack')) = Cardinality(Places(stack)) + Cardinality(LowerIn(New(p)))
<1> DEFINE n == Len(New(p))
           moved(e) == IF e[1] = p THEN <<p, e[2] + n - 1>> ELSE e
           f == [e \in Places(stack) |-> moved(e)]
           Kept == {moved(e) : e \in Places(stack)}
           Fresh == {<<p, k>> : k \in LowerIn(New(p))}
<1>1. /\ New(p) \in Seq(Component)
      /\ Len(stack[p]) \in Nat /\ DOMAIN stack[p] = 1 .. Len(stack[p]) /\ Len(stack[p]) >= 1
      /\ ~ stack[p][1].lower
      /\ \A q \in Proc : q # p => stack'[q] = stack[q]
      /\ DOMAIN stack'[p] = 1 .. n + Len(stack[p]) - 1
      /\ \A k \in 1 .. n : stack'[p][k] = New(p)[k]
      /\ \A k \in 2 .. Len(stack[p]) : stack'[p][n + k - 1] = stack[p][k]
  BY CheckTypeStack
<1>2. n \in Nat /\ DOMAIN New(p) = 1 .. n
  BY <1>1
<1>3. \A q, k : <<q, k>>[1] = q /\ <<q, k>>[2] = k
  OBVIOUS
<1>4. \A q, k, r, j : <<q, k>> = <<r, j>> <=> q = r /\ k = j
  OBVIOUS
<1> HIDE DEF n
<1>5. /\ \A k : moved(<<p, k>>) = <<p, k + n - 1>>
      /\ \A q, k : q # p => moved(<<q, k>>) = <<q, k>>
  BY <1>3, Zenon
<1>6. f \in [Places(stack) -> Kept] /\ \A z \in Kept : \E e \in Places(stack) : f[e] = z
  BY Zenon
<1>7. \A e \in Places(stack) : f[e] = moved(e)
  BY Zenon
<1>8. \A k : <<p, k>> \in Places(stack) => k \in 2 .. Len(stack[p]) /\ stack[p][k].lower
  <2> SUFFICES ASSUME NEW k, <<p, k>> \in Places(stack)
               PROVE  k \in 2 .. Len(stack[p]) /\ stack[p][k].lower
    OBVIOUS
  <2>1. k \in DOMAIN stack[p] /\ stack[p][k].lower
    BY PendingPlace, Zenon
  <2>2. k # 1
    BY <1>1, <2>1, Zenon
  <2>3. QED
    BY <1>1, <2>1, <2>2
<1> HIDE DEF moved
<1>9. \A q, j : <<q, j>> \in Kept <=>
                 \/ q # p /\ <<q, j>> \in Places(stack)
                 \/ q = p /\ \E k : <<p, k>> \in Places(stack) /\ j = k + n - 1
  <2> TAKE q, j
  <2>1. ASSUME <<q, j>> \in Kept
        PROVE  \/ q # p /\ <<q, j>> \in Places(stack)
               \/ q = p /\ \E k : <<p, k>> \in Places(stack) /\ j = k + n - 1
    <3>1. PICK e \in Places(stack) : <<q, j>> = moved(e)
      BY <2>1, Zenon
    <3>2. PICK r, k : e = <<r, k>>
      BY PendingPair, Zenon
    <3>3. CASE r = p
      <4>1. <<q, j>> = <<p, k + n - 1>>
        BY <1>5, <3>1, <3>2, <3>3, Zenon
      <4>2. QED
        BY <1>4, <3>2, <3>3, <4>1, Zenon
    <3>4. CASE r # p
      <4>1. <<q, j>> = <<r, k>>
        BY <1>5, <3>1, <3>2, <3>4, Zenon
      <4>2. QED
        BY <1>4, <3>2, <3>4, <4>1, Zenon
    <3>5. QED
      BY <3>3, <3>4, Zenon
  <2>2. ASSUME q # p, <<q, j>> \in Places(stack) PROVE <<q, j>> \in Kept
    BY <1>5, <2>2, Zenon
  <2>3. ASSUME q = p, NEW k, <<p, k>> \in Places(stack), j = k + n - 1 PROVE <<q, j>> \in Kept
    BY <1>5, <2>3, Zenon
  <2>4. QED
    BY <2>1, <2>2, <2>3, Zenon
<1>10. \A q, j : <<q, j>> \in Fresh <=> q = p /\ j \in LowerIn(New(p))
  <2> TAKE q, j
  <2>1. <<q, j>> \in Fresh <=> \E k \in LowerIn(New(p)) : <<q, j>> = <<p, k>>
    BY Zenon
  <2>2. QED
    BY <1>4, <2>1, Zenon
<1>11. /\ \A e \in Fresh : \E q, k : e = <<q, k>>
       /\ \A e \in Kept : \E q, k : e = <<q, k>>
  <2>1. ASSUME NEW e \in Kept PROVE \E q, k : e = <<q, k>>
    <3>1. PICK d \in Places(stack) : e = moved(d)
      BY Zenon
    <3>2. PICK r, k : d = <<r, k>>
      BY PendingPair, Zenon
    <3>3. e = moved(<<r, k>>)
      BY <3>1, <3>2, Zenon
    <3>4. e = <<p, k + n - 1>> \/ e = <<r, k>>
      BY <1>5, <3>3, Zenon
    <3>5. QED
      BY <3>4
  <2>2. \A e \in Fresh : \E q, k : e = <<q, k>>
    BY Zenon
  <2>3. QED
    BY <2>1, <2>2, Zenon
<1>12. /\ IsFiniteSet(Fresh)
       /\ Cardinality(Fresh) = Cardinality(LowerIn(New(p)))
  BY <1>1, PairedSize
<1> HIDE DEF Fresh, Kept, f
<1>13. ASSUME NEW d \in Places(stack), NEW e \in Places(stack), f[d] = f[e]
       PROVE  d = e
  <2>1. PICK q, k : d = <<q, k>>
    BY PendingPair, Zenon
  <2>2. PICK r, j : e = <<r, j>>
    BY PendingPair, Zenon
  <2>3. moved(<<q, k>>) = moved(<<r, j>>)
    BY <1>7, <1>13, <2>1, <2>2, Zenon
  <2>4. CASE q = p /\ r = p
    <3>1. <<p, k + n - 1>> = <<p, j + n - 1>>
      BY <1>5, <2>3, <2>4, Zenon
    <3>2. k + n - 1 = j + n - 1
      BY <1>4, <3>1, Zenon
    <3>3. k \in 2 .. Len(stack[p]) /\ j \in 2 .. Len(stack[p])
      BY <1>8, <2>1, <2>2, <2>4, Zenon
    <3>4. k = j
      BY <1>1, <1>2, <3>2, <3>3
    <3>5. QED
      BY <2>1, <2>2, <2>4, <3>4, Zenon
  <2>5. CASE q # p /\ r # p
    BY <1>5, <2>1, <2>2, <2>3, <2>5, Zenon
  <2>6. CASE q = p /\ r # p
    <3>1. <<p, k + n - 1>> = <<r, j>>
      BY <1>5, <2>3, <2>6, Zenon
    <3>2. QED
      BY <1>4, <2>6, <3>1, Zenon
  <2>7. CASE q # p /\ r = p
    <3>1. <<q, k>> = <<p, j + n - 1>>
      BY <1>5, <2>3, <2>7, Zenon
    <3>2. QED
      BY <1>4, <2>7, <3>1, Zenon
  <2>8. QED
    BY <2>4, <2>5, <2>6, <2>7, Zenon
<1>14. IsFiniteSet(Places(stack))
  BY DEF Balance, Pending
<1>15. IsFiniteSet(Kept) /\ Cardinality(Kept) = Cardinality(Places(stack))
  <2>1. \A d, e \in Places(stack) : f[d] = f[e] => d = e
    BY <1>13, Zenon
  <2>2. f \in [Places(stack) -> Kept]
    BY <1>6
  <2>3. \A z \in Kept : \E e \in Places(stack) : f[e] = z
    BY <1>6
  <2>4. QED
    BY <1>14, <2>1, <2>2, <2>3, SameSize
<1>16. \A q, j : <<q, j>> \in Places(stack') <=> <<q, j>> \in Kept \cup Fresh
  <2> TAKE q, j
  <2>1. <<q, j>> \in Places(stack') <=> q \in Proc /\ j \in DOMAIN stack'[q] /\ stack'[q][j].lower
    BY PendingPlace, Zenon
  <2>2. CASE q # p
    <3>1. <<q, j>> \in Places(stack) <=> q \in Proc /\ j \in DOMAIN stack[q] /\ stack[q][j].lower
      BY PendingPlace, Zenon
    <3>2. <<q, j>> \in Places(stack') <=> <<q, j>> \in Places(stack)
      BY <1>1, <2>1, <2>2, <3>1, Zenon
    <3>3. <<q, j>> \in Kept <=> <<q, j>> \in Places(stack)
      BY <1>9, <2>2, Zenon
    <3>4. <<q, j>> \notin Fresh
      BY <1>10, <2>2, Zenon
    <3>5. QED
      BY <3>2, <3>3, <3>4, Zenon
  <2>3. CASE q = p
    <3>1. <<p, j>> \in Fresh <=> j \in 1 .. n /\ stack'[p][j].lower
      <4>1. j \in LowerIn(New(p)) <=> j \in 1 .. n /\ New(p)[j].lower
        BY <1>2 DEF LowerIn
      <4>2. j \in 1 .. n => stack'[p][j] = New(p)[j]
        BY <1>1, Zenon
      <4>3. QED
        BY <1>10, <4>1, <4>2, Zenon
    <3>2. ASSUME j \in n + 1 .. n + Len(stack[p]) - 1, stack'[p][j].lower
          PROVE  <<p, j>> \in Kept
      <4>1. /\ j - n + 1 \in 2 .. Len(stack[p])
            /\ n + (j - n + 1) - 1 = j /\ (j - n + 1) + n - 1 = j
            /\ j - n + 1 \in DOMAIN stack[p]
        BY <1>1, <1>2, <3>2
      <4>2. stack'[p][j] = stack[p][j - n + 1]
        BY <1>1, <4>1, Zenon
      <4>3. <<p, j - n + 1>> \in Places(stack)
        BY <3>2, <4>1, <4>2, PendingPlace, Zenon
      <4>4. QED
        BY <1>9, <4>1, <4>3, Zenon
    <3>3. ASSUME <<p, j>> \in Kept
          PROVE  j \in DOMAIN stack'[p] /\ stack'[p][j].lower
      <4>1. PICK k : <<p, k>> \in Places(stack) /\ j = k + n - 1
        BY <1>9, <3>3, Zenon
      <4>2. k \in 2 .. Len(stack[p]) /\ stack[p][k].lower
        BY <1>8, <4>1, Zenon
      <4>3. j \in DOMAIN stack'[p] /\ n + k - 1 = j
        BY <1>1, <1>2, <4>1, <4>2
      <4>4. QED
        BY <1>1, <4>2, <4>3, Zenon
    <3>4. j \in 1 .. n => j \in DOMAIN stack'[p]
      BY <1>1, <1>2
    <3>5. j \in DOMAIN stack'[p] => j \in 1 .. n \/ j \in n + 1 .. n + Len(stack[p]) - 1
      BY <1>1, <1>2
    <3>6. QED
      BY <2>1, <2>3, <3>1, <3>2, <3>3, <3>4, <3>5, Zenon
  <2>4. QED
    BY <2>2, <2>3, Zenon
<1>17. Places(stack') = Kept \cup Fresh
  <2>1. \A e \in Places(stack') : \E q, k : e = <<q, k>>
    BY PendingPair, Zenon
  <2>2. \A e \in Kept \cup Fresh : \E q, k : e = <<q, k>>
    BY <1>11, Zenon
  <2>3. QED
    BY <1>16, <2>1, <2>2, PairSets, Zenon
<1>18. Kept \cap Fresh = {}
  <2> SUFFICES ASSUME NEW e \in Kept, e \in Fresh PROVE FALSE
    BY Zenon
  <2>1. PICK q, j : e = <<q, j>>
    BY <1>11, Zenon
  <2>2. q = p /\ j \in LowerIn(New(p))
    BY <1>10, <2>1, Zenon
  <2>3. PICK k : <<p, k>> \in Places(stack) /\ j = k + n - 1
    BY <1>9, <2>1, <2>2, Zenon
  <2>4. k \in 2 .. Len(stack[p])
    BY <1>8, <2>3, Zenon
  <2>5. j \in 1 .. n
    BY <1>2, <2>2 DEF LowerIn
  <2>6. QED
    BY <1>1, <1>2, <2>3, <2>4, <2>5
<1>19. QED
  BY <1>12, <1>15, <1>17, <1>18, DisjointUnion

\* The components of a new type wait as soon as it is recorded.
LEMMA CheckTypeBalance ==
    ASSUME LabgobTypeOK, Balance, NEW p \in Proc, checkType(p)
    PROVE  Balance'
<1> DEFINE t == Head(stack[p]).type
           More == {<<t, k>> : k \in LowerIn(New(p))}
<1>1. /\ checked' = checked \cup {t}
      /\ errorCount' = errorCount /\ defaultErrors' = defaultErrors
  BY DEF checkType, Mark
<1>2. t \in Type /\ New(p) \in Seq(Component)
  BY CheckTypeStack
<1>3. /\ t \in checked => New(p) = <<>>
      /\ t \notin checked => New(p) = Fields[t]
  BY DEF New
<1>4. IsFiniteSet(More) /\ Cardinality(More) = Cardinality(LowerIn(New(p)))
  BY <1>2, PairedSize
<1>5. \A u, k : <<u, k>> \in More <=> u = t /\ k \in LowerIn(New(p))
  <2> TAKE u, k
  <2>1. <<u, k>> \in More <=> \E j \in LowerIn(New(p)) : <<u, k>> = <<t, j>>
    BY Zenon
  <2>2. \A j : <<u, k>> = <<t, j>> <=> u = t /\ k = j
    OBVIOUS
  <2>3. QED
    BY <2>1, <2>2, Zenon
<1>6. \A e \in More : \E u, k : e = <<u, k>>
  BY Zenon
<1> HIDE DEF More, t
<1>7. \A u, k : <<u, k>> \in Lower(checked') <=> <<u, k>> \in Lower(checked) \cup More
  <2> TAKE u, k
  <2>1. <<u, k>> \in Lower(checked') <=> u \in checked' /\ k \in DOMAIN Fields[u] /\ Fields[u][k].lower
    BY LowerPlace, Zenon
  <2>2. <<u, k>> \in Lower(checked) <=> u \in checked /\ k \in DOMAIN Fields[u] /\ Fields[u][k].lower
    BY LowerPlace, Zenon
  <2>3. CASE t \in checked
    <3>1. checked' = checked
      BY <1>1, <2>3
    <3>2. LowerIn(New(p)) = {}
      BY <1>3, <2>3 DEF LowerIn
    <3>3. QED
      BY <1>5, <2>1, <2>2, <3>1, <3>2, Zenon
  <2>4. CASE t \notin checked
    <3>1. k \in LowerIn(New(p)) <=> k \in DOMAIN Fields[t] /\ Fields[t][k].lower
      BY <1>3, <2>4 DEF LowerIn
    <3>2. u \in checked' <=> u \in checked \/ u = t
      BY <1>1
    <3>3. QED
      BY <1>5, <2>1, <2>2, <3>1, <3>2, Zenon
  <2>5. QED
    BY <2>3, <2>4, Zenon
<1>8. Lower(checked') = Lower(checked) \cup More
  <2>1. \A e \in Lower(checked') : \E u, k : e = <<u, k>>
    BY LowerPlace, Zenon
  <2>2. \A e \in Lower(checked) \cup More : \E u, k : e = <<u, k>>
    BY <1>6, LowerPlace, Zenon
  <2>3. QED
    BY <1>7, <2>1, <2>2, PairSets, Zenon
<1>9. Lower(checked) \cap More = {}
  <2> SUFFICES ASSUME NEW e \in Lower(checked), e \in More PROVE FALSE
    BY Zenon
  <2>1. PICK u, k : e = <<u, k>>
    BY <1>6, Zenon
  <2>2. u = t /\ k \in LowerIn(New(p)) /\ u \in checked
    BY <1>5, <2>1, LowerPlace, Zenon
  <2>3. New(p) = <<>>
    BY <1>3, <2>2, Zenon
  <2>4. QED
    BY <2>2, <2>3 DEF LowerIn
<1>10. /\ IsFiniteSet(Places(stack)) /\ IsFiniteSet(Lower(checked))
       /\ errorCount - defaultErrors + Cardinality(Places(stack)) = Cardinality(Lower(checked))
  BY DEF Balance, Pending
<1>11. /\ IsFiniteSet(Lower(checked'))
       /\ Cardinality(Lower(checked')) = Cardinality(Lower(checked)) + Cardinality(LowerIn(New(p)))
  BY <1>4, <1>8, <1>9, <1>10, DisjointUnion
<1>12. /\ IsFiniteSet(Places(stack'))
       /\ Cardinality(Places(stack')) = Cardinality(Places(stack)) + Cardinality(LowerIn(New(p)))
  BY CheckTypePlaces
<1>13. /\ Cardinality(Places(stack)) \in Nat /\ Cardinality(Lower(checked)) \in Nat
       /\ Cardinality(More) \in Nat
  BY <1>4, <1>10, FS_CardinalityType
<1>14. errorCount \in Nat /\ defaultErrors \in Nat
  BY DEF LabgobTypeOK
<1>15. errorCount' - defaultErrors' + Cardinality(Places(stack')) = Cardinality(Lower(checked'))
  BY <1>1, <1>4, <1>10, <1>11, <1>12, <1>13, <1>14
<1>16. QED
  BY <1>11, <1>12, <1>15 DEF Balance, Pending

-----------------------------------------------------------------------------
(* The types that are looked at.                                           *)

\* Closed sets with what labgob was called with have all that can be reached.
LEMMA ReachableClosed ==
    ASSUME LabgobTypeOK
    PROVE  roots \subseteq Reachable /\ Closed(Reachable)
<1>1. roots \subseteq Reachable
  BY DEF LabgobTypeOK, Reachable
<1>2. ASSUME NEW c \in Components(Reachable)
      PROVE  Fields[c[1]][c[2]].type \in Reachable
  <2>1. PICK t, i : c = <<t, i>>
    BY ComponentPlace, Zenon
  <2>2. t \in Reachable /\ i \in DOMAIN Fields[t]
    BY <2>1, ComponentPlace, Zenon
  <2>3. c[1] = t /\ c[2] = i
    BY <2>1
  <2>4. t \in Type
    BY <2>2 DEF Reachable
  <2>5. Fields[t][i] \in Component
    BY <2>2, <2>4, TypesClosed
  <2>6. Fields[t][i].type \in Type
    BY <2>5 DEF Component
  <2>7. ASSUME NEW S \in SUBSET Type, roots \subseteq S, Closed(S)
        PROVE  Fields[t][i].type \in S
    <3>1. t \in S
      BY <2>2, <2>7 DEF Reachable
    <3>2. <<t, i>> \in Components(S)
      BY <2>2, <3>1, ComponentPlace, Zenon
    <3>3. QED
      BY <2>1, <2>3, <2>7, <3>2 DEF Closed
  <2>8. QED
    BY <2>3, <2>6, <2>7 DEF Reachable
<1>3. QED
  BY <1>1, <1>2 DEF Closed

\* The components of a type, one by one.
LEMMA ClosedPlace ==
    ASSUME NEW S
    PROVE  Closed(S) <=> \A t \in S : \A i \in DOMAIN Fields[t] : Fields[t][i].type \in S
<1>1. ASSUME Closed(S), NEW t \in S, NEW i \in DOMAIN Fields[t]
      PROVE  Fields[t][i].type \in S
  <2>1. <<t, i>> \in Components(S) /\ <<t, i>>[1] = t /\ <<t, i>>[2] = i
    BY ComponentPlace
  <2>2. QED
    BY <1>1, <2>1 DEF Closed
<1>2. ASSUME \A t \in S : \A i \in DOMAIN Fields[t] : Fields[t][i].type \in S,
             NEW c \in Components(S)
      PROVE  Fields[c[1]][c[2]].type \in S
  <2>1. PICK t, i : c = <<t, i>>
    BY ComponentPlace, Zenon
  <2>2. t \in S /\ i \in DOMAIN Fields[t]
    BY <2>1, ComponentPlace, Zenon
  <2>3. c[1] = t /\ c[2] = i
    BY <2>1
  <2>4. QED
    BY <1>2, <2>2, <2>3
<1>3. QED
  BY <1>1, <1>2 DEF Closed

\* A step that keeps what is recorded and what the stacks hold.
LEMMA SameTypes ==
    ASSUME Covered, Found, checked' = checked, roots' = roots,
           \A t : OnStack(t)' <=> OnStack(t)
    PROVE  Covered' /\ Found'
<1>1. Reachable' = Reachable
  BY DEF Reachable
<1>2. Covered'
  BY Zenon DEF Covered
<1>3. Found'
  BY <1>1, Zenon DEF Found
<1>4. QED
  BY <1>2, <1>3

\* complain keeps them.
LEMMA ComplainTypes ==
    ASSUME LabgobTypeOK, Covered, Found, NEW p \in Proc, complain(p)
    PROVE  Covered' /\ Found'
<1>1. /\ \A q \in Proc : DOMAIN stack'[q] = DOMAIN stack[q]
      /\ \A q \in Proc : \A k \in DOMAIN stack[q] : stack'[q][k].type = stack[q][k].type
  BY ComplainStack
<1>2. \A t : OnStack(t)' <=> OnStack(t)
  BY <1>1, Zenon DEF OnStack
<1>3. checked' = checked /\ roots' = roots
  BY DEF complain
<1>4. QED
  BY <1>2, <1>3, SameTypes

\* The type that a goroutine starts with is on its stack.
LEMMA StartsTypes ==
    ASSUME LabgobTypeOK, Covered, Found, NEW p \in Proc, NEW t \in Type, Starts(p, t)
    PROVE  Covered' /\ Found'
<1>1. /\ \A q \in Proc : q # p => stack'[q] = stack[q]
      /\ stack[p] = <<>> /\ DOMAIN stack'[p] = {1} /\ stack'[p][1].type = t
  BY StartsStack
<1>2. DOMAIN stack[p] = {}
  BY <1>1
<1>3. 1 \in DOMAIN stack'[p] /\ \A k \in DOMAIN stack'[p] : k = 1
  BY <1>1
<1>4. \A u : OnStack(u) => OnStack(u)'
  BY <1>1, <1>2, Zenon DEF OnStack
<1>5. OnStack(t)'
  BY <1>1, <1>3, Zenon DEF OnStack
<1>6. ASSUME NEW u, OnStack(u)' PROVE u = t \/ OnStack(u)
  <2>0. PICK q \in Proc : \E k \in DOMAIN stack'[q] : stack'[q][k].type = u
    BY <1>6, Zenon DEF OnStack
  <2>1. PICK k \in DOMAIN stack'[q] : stack'[q][k].type = u
    BY <2>0
  <2>2. CASE q = p
    BY <1>1, <1>3, <2>1, <2>2, Zenon
  <2>3. CASE q # p
    BY <1>1, <2>1, <2>3, Zenon DEF OnStack
  <2>4. QED
    BY <2>2, <2>3
<1>7. checked' = checked /\ roots' = roots \cup {t}
  BY DEF Starts
<1>8. t \in Reachable' /\ \A u \in Reachable : u \in Reachable'
  BY <1>7 DEF Reachable
<1>9. Covered'
  <2>1. \A u \in roots' : u \in checked' \/ OnStack(u)'
    BY <1>4, <1>5, <1>7 DEF Covered
  <2>2. \A u \in checked' : \A i \in DOMAIN Fields[u] :
           Fields[u][i].type \in checked' \/ OnStack(Fields[u][i].type)'
    BY <1>4, <1>7, Zenon DEF Covered
  <2>3. QED
    BY <2>1, <2>2, Zenon DEF Covered
<1>10. \A u \in Type : u \in checked' \/ OnStack(u)' => u \in Reachable'
  BY <1>6, <1>7, <1>8, Zenon DEF Found
<1>11. QED
  BY <1>9, <1>10, Zenon DEF Found

\* checkType records the type that it takes off and puts its components on.
LEMMA CheckTypeTypes ==
    ASSUME LabgobTypeOK, Covered, Found, NEW p \in Proc, checkType(p)
    PROVE  Covered' /\ Found'
<1>0. PICK t : t = Head(stack[p]).type
  OBVIOUS
<1> DEFINE n == Len(New(p))
<1>1. /\ New(p) \in Seq(Component)
      /\ Len(stack[p]) \in Nat /\ DOMAIN stack[p] = 1 .. Len(stack[p]) /\ Len(stack[p]) >= 1
      /\ t \in Type /\ stack[p][1].type = t
      /\ \A q \in Proc : q # p => stack'[q] = stack[q]
      /\ DOMAIN stack'[p] = 1 .. n + Len(stack[p]) - 1
      /\ \A k \in 1 .. n : stack'[p][k] = New(p)[k]
      /\ \A k \in 2 .. Len(stack[p]) : stack'[p][n + k - 1] = stack[p][k]
  BY <1>0, CheckTypeStack
<1>2. n \in Nat /\ DOMAIN New(p) = 1 .. n
  BY <1>1
<1>3. checked' = checked \cup {t} /\ roots' = roots
  BY <1>0 DEF checkType, Mark
<1>4. /\ t \in checked => New(p) = <<>>
      /\ t \notin checked => New(p) = Fields[t]
  BY <1>0 DEF New
<1>5. OnStack(t)
  <2>1. 1 \in DOMAIN stack[p]
    BY <1>1
  <2>2. QED
    BY <1>1, <2>1, Zenon DEF OnStack
<1> HIDE DEF n
<1>6. ASSUME NEW u, OnStack(u) PROVE u = t \/ OnStack(u)'
  <2>0. PICK q \in Proc : \E k \in DOMAIN stack[q] : stack[q][k].type = u
    BY <1>6, Zenon DEF OnStack
  <2>1. PICK k \in DOMAIN stack[q] : stack[q][k].type = u
    BY <2>0
  <2>2. CASE q # p
    BY <1>1, <2>1, <2>2, Zenon DEF OnStack
  <2>3. CASE q = p /\ k = 1
    BY <1>1, <2>1, <2>3, Zenon
  <2>4. CASE q = p /\ k # 1
    <3>1. k \in 2 .. Len(stack[p]) /\ n + k - 1 \in DOMAIN stack'[p]
      BY <1>1, <1>2, <2>1, <2>4
    <3>2. stack'[p][n + k - 1].type = u
      BY <1>1, <2>1, <2>4, <3>1, Zenon
    <3>3. QED
      BY <3>1, <3>2, Zenon DEF OnStack
  <2>5. QED
    BY <2>2, <2>3, <2>4
<1>7. ASSUME NEW i \in DOMAIN Fields[t], t \notin checked PROVE OnStack(Fields[t][i].type)'
  <2>1. i \in 1 .. n /\ New(p)[i] = Fields[t][i]
    BY <1>2, <1>4, <1>7
  <2>2. i \in DOMAIN stack'[p]
    BY <1>1, <1>2, <2>1
  <2>3. stack'[p][i].type = Fields[t][i].type
    BY <1>1, <2>1, Zenon
  <2>4. QED
    BY <2>2, <2>3, Zenon DEF OnStack
<1>8. ASSUME NEW u, OnStack(u)'
      PROVE  OnStack(u) \/ \E i \in DOMAIN Fields[t] : u = Fields[t][i].type
  <2>0. PICK q \in Proc : \E k \in DOMAIN stack'[q] : stack'[q][k].type = u
    BY <1>8, Zenon DEF OnStack
  <2>1. PICK k \in DOMAIN stack'[q] : stack'[q][k].type = u
    BY <2>0
  <2>2. CASE q # p
    BY <1>1, <2>1, <2>2, Zenon DEF OnStack
  <2>3. CASE q = p /\ k \in 1 .. n
    <3>1. New(p) # <<>>
      <4>1. n # 0
        BY <1>2, <2>3
      <4>2. QED
        BY <4>1 DEF n
    <3>2. New(p) = Fields[t]
      BY <1>4, <3>1, Zenon
    <3>3. k \in DOMAIN Fields[t] /\ stack'[p][k] = Fields[t][k]
      BY <1>1, <1>2, <2>3, <3>2
    <3>4. QED
      BY <2>1, <2>3, <3>3, Zenon
  <2>4. CASE q = p /\ k \notin 1 .. n
    <3>1. /\ k - n + 1 \in 2 .. Len(stack[p]) /\ n + (k - n + 1) - 1 = k
          /\ k - n + 1 \in DOMAIN stack[p]
      BY <1>1, <1>2, <2>1, <2>4
    <3>2. stack'[p][k] = stack[p][k - n + 1]
      BY <1>1, <3>1, Zenon
    <3>3. QED
      BY <2>1, <2>4, <3>1, <3>2, Zenon DEF OnStack
  <2>5. QED
    BY <2>2, <2>3, <2>4, Zenon
<1>9. Covered'
  <2>1. \A u \in roots' : u \in checked' \/ OnStack(u)'
    BY <1>3, <1>6 DEF Covered
  <2>2. ASSUME NEW u \in checked', NEW i \in DOMAIN Fields[u]
        PROVE  Fields[u][i].type \in checked' \/ OnStack(Fields[u][i].type)'
    <3>1. CASE u \in checked
      <4>1. Fields[u][i].type \in checked \/ OnStack(Fields[u][i].type)
        BY <3>1, Zenon DEF Covered
      <4>2. QED
        BY <1>3, <1>6, <4>1
    <3>2. CASE u \notin checked
      <4>1. u = t
        BY <1>3, <3>2
      <4>2. QED
        BY <1>7, <3>2, <4>1, Zenon
    <3>3. QED
      BY <3>1, <3>2
  <2>3. QED
    BY <2>1, <2>2, Zenon DEF Covered
<1>10. Reachable' = Reachable
  BY <1>3 DEF Reachable
<1>11. t \in Reachable
  BY <1>1, <1>5 DEF Found
<1>12. \A i \in DOMAIN Fields[t] : Fields[t][i].type \in Reachable
  BY <1>11, ReachableClosed, ClosedPlace, Zenon
<1>13. \A u \in Type : u \in checked' \/ OnStack(u)' => u \in Reachable
  <2>1. \A u \in checked' : u \in checked \/ u = t
    BY <1>3
  <2>2. QED
    BY <1>8, <1>11, <1>12, <2>1, Zenon DEF Found
<1>14. Found'
  BY <1>10, <1>13, Zenon DEF Found
<1>15. QED
  BY <1>9, <1>14

-----------------------------------------------------------------------------
(* Types and warnings.                                                     *)

\* What encoding/gob makes of a value and a variable is a value.
LEMMA GobValue ==
    ASSUME NEW v \in Value, NEW old \in Value
    PROVE  gobDecode(v, old) \in Value
BY DEF gobDecode, Value

\* Every action keeps the types.
LEMMA TypesNext ==
    ASSUME LabgobTypeOK, [Next]_vars
    PROVE  LabgobTypeOK'
<1> USE DEF LabgobTypeOK
<1>1. Default \in Value
  BY DEF Default, Value
<1>2. ASSUME NEW p \in Proc, NEW t \in Type, Encode(p, t) PROVE LabgobTypeOK'
  <2>1. Starts(p, t)
    BY <1>2 DEF Encode, Starts
  <2>2. stack' \in [Proc -> Seq(Component)] /\ \A q \in Proc : q # p => stack'[q] = stack[q]
    BY <2>1, StartsStack
  <2>3. pc' = [pc EXCEPT ![p] = "encode"] /\ roots' = roots \cup {t}
    BY <1>2 DEF Encode
  <2>4. \A q \in Proc : pc'[q] \in {"idle", "gob"} => q # p /\ pc[q] \in {"idle", "gob"}
    BY <2>3
  <2>5. UNCHANGED <<checked, errorCount, reply, sent, warned, defaultErrors>>
    BY <1>2 DEF Encode
  <2>6. pc' \in [Proc -> {"idle", "encode", "decode", "gob"}] /\ roots' \in SUBSET Type
    BY <2>3
  <2>7. \A q \in Proc : pc'[q] \in {"idle", "gob"} => stack'[q] = <<>>
    BY <2>2, <2>4
  <2>8. QED
    BY <2>2, <2>5, <2>6, <2>7
<1>3. ASSUME NEW p \in Proc, NEW t \in Type, NEW v \in Value, NEW fresh \in BOOLEAN,
             Decode(p, t, v, fresh)
      PROVE  LabgobTypeOK'
  <2>1. Starts(p, t)
    BY <1>3 DEF Decode, Starts
  <2>2. stack' \in [Proc -> Seq(Component)] /\ \A q \in Proc : q # p => stack'[q] = stack[q]
    BY <2>1, StartsStack
  <2>3. pc' = [pc EXCEPT ![p] = "decode"] /\ roots' = roots \cup {t}
    BY <1>3 DEF Decode
  <2>4. \A q \in Proc : pc'[q] \in {"idle", "gob"} => q # p /\ pc[q] \in {"idle", "gob"}
    BY <2>3
  <2>5. /\ sent' \in [Proc -> Value] /\ warned' \in [Proc -> BOOLEAN]
        /\ reply' \in [Proc -> Value]
    BY <1>1, <1>3 DEF Decode
  <2>6. UNCHANGED <<checked, errorCount, defaultErrors>>
    BY <1>3 DEF Decode
  <2>7. pc' \in [Proc -> {"idle", "encode", "decode", "gob"}] /\ roots' \in SUBSET Type
    BY <2>3
  <2>8. \A q \in Proc : pc'[q] \in {"idle", "gob"} => stack'[q] = <<>>
    BY <2>2, <2>4
  <2>9. QED
    BY <2>2, <2>5, <2>6, <2>7, <2>8
<1>4. ASSUME NEW p \in Proc, complain(p) PROVE LabgobTypeOK'
  <2>1. stack' \in [Proc -> Seq(Component)] /\ 1 \in DOMAIN stack[p]
    BY <1>4, ComplainStack
  <2>2. \A q \in Proc : q # p => stack'[q] = stack[q]
    BY <1>4 DEF complain
  <2>3. pc[p] \notin {"idle", "gob"}
    BY <2>1
  <2>4. /\ errorCount' = errorCount + 1
        /\ UNCHANGED <<checked, pc, reply, sent, warned, roots, defaultErrors>>
    BY <1>4 DEF complain
  <2>5. \A q \in Proc : pc'[q] \in {"idle", "gob"} => stack'[q] = <<>>
    BY <2>2, <2>3, <2>4
  <2>6. QED
    BY <2>1, <2>4, <2>5
<1>5. ASSUME NEW p \in Proc, checkType(p) PROVE LabgobTypeOK'
  <2>1. /\ stack' \in [Proc -> Seq(Component)] /\ Head(stack[p]).type \in Type
        /\ DOMAIN stack[p] = 1 .. Len(stack[p]) /\ Len(stack[p]) >= 1
        /\ \A q \in Proc : q # p => stack'[q] = stack[q]
    BY <1>5, CheckTypeStack
  <2>2. pc[p] \notin {"idle", "gob"}
    BY <2>1
  <2>3. /\ checked' = checked \cup {Head(stack[p]).type}
        /\ UNCHANGED <<errorCount, pc, reply, sent, warned, roots, defaultErrors>>
    BY <1>5 DEF checkType, Mark
  <2>4. \A q \in Proc : pc'[q] \in {"idle", "gob"} => stack'[q] = <<>>
    BY <2>1, <2>2, <2>3
  <2>5. QED
    BY <2>1, <2>3, <2>4
<1>6. ASSUME NEW p \in Proc, checkDefault(p) PROVE LabgobTypeOK'
  <2> DEFINE found == {l \in Leaf : LooksAt(l) /\ reply[p][l] # 0}
  <2>1. IsFiniteSet(found)
    <3>1. found \in SUBSET Leaf
      OBVIOUS
    <3>2. QED
      BY <3>1, FiniteValues, FS_Subset, Zenon
  <2>2. Cardinality(found) \in Nat
    BY <2>1, FS_CardinalityType
  <2>3. /\ errorCount' = errorCount + Cardinality(found)
        /\ defaultErrors' = defaultErrors + Cardinality(found)
        /\ warned' = [warned EXCEPT ![p] = found # {}]
        /\ pc' = [pc EXCEPT ![p] = "gob"] /\ stack[p] = <<>>
        /\ UNCHANGED <<checked, stack, reply, sent, roots>>
    BY <1>6 DEF checkDefault
  <2> HIDE DEF found
  <2>4. errorCount' \in Nat /\ defaultErrors' \in Nat
    BY <2>2, <2>3
  <2>5. warned' \in [Proc -> BOOLEAN]
    BY <2>3
  <2>6. /\ pc' \in [Proc -> {"idle", "encode", "decode", "gob"}]
        /\ \A q \in Proc : pc'[q] \in {"idle", "gob"} => stack'[q] = <<>>
    BY <2>3
  <2>7. QED
    BY <2>3, <2>4, <2>5, <2>6
<1>7. ASSUME NEW p \in Proc, gob(p) PROVE LabgobTypeOK'
  <2>1. stack[p] = <<>> /\ pc' = [pc EXCEPT ![p] = "idle"]
    BY <1>7 DEF gob
  <2>2. UNCHANGED <<checked, errorCount, stack, sent, warned, roots, defaultErrors>>
    BY <1>7 DEF gob
  <2>3. reply' \in [Proc -> Value]
    <3>1. gobDecode(sent[p], reply[p]) \in Value
      BY GobValue
    <3>2. QED
      BY <1>7, <3>1 DEF gob
  <2>4. /\ pc' \in [Proc -> {"idle", "encode", "decode", "gob"}]
        /\ \A q \in Proc : pc'[q] \in {"idle", "gob"} => stack'[q] = <<>>
    BY <2>1, <2>2
  <2>5. QED
    BY <2>2, <2>3, <2>4
<1>8. CASE UNCHANGED vars
  BY <1>8 DEF vars
<1>9. QED
  BY <1>2, <1>3, <1>4, <1>5, <1>6, <1>7, <1>8, Zenon DEF Next, Running

\* No action lets contents go unnoticed.
LEMMA WarnedNext ==
    ASSUME LabgobTypeOK, \A q \in Proc : WarnedAt(q), [Next]_vars
    PROVE  \A q \in Proc : WarnedAt(q)'
<1> SUFFICES ASSUME NEW q \in Proc, NEW l \in Leaf, LooksAt(l)
             PROVE  /\ pc'[q] \in {"idle", "encode"} /\ reply'[q][l] # sent'[q][l] => warned'[q]
                    /\ pc'[q] = "gob" /\ reply'[q][l] # 0 => warned'[q]
  BY Zenon DEF WarnedAt
<1>1. /\ pc[q] \in {"idle", "encode"} /\ reply[q][l] # sent[q][l] => warned[q]
      /\ pc[q] = "gob" /\ reply[q][l] # 0 => warned[q]
  BY Zenon DEF WarnedAt
<1>2. /\ pc \in [Proc -> {"idle", "encode", "decode", "gob"}]
      /\ reply \in [Proc -> Value] /\ sent \in [Proc -> Value]
      /\ warned \in [Proc -> BOOLEAN]
  BY DEF LabgobTypeOK
<1>3. ASSUME pc'[q] = pc[q], reply'[q] = reply[q], sent'[q] = sent[q], warned'[q] = warned[q]
      PROVE  /\ pc'[q] \in {"idle", "encode"} /\ reply'[q][l] # sent'[q][l] => warned'[q]
             /\ pc'[q] = "gob" /\ reply'[q][l] # 0 => warned'[q]
  BY <1>1, <1>3, Zenon
<1>4. ASSUME NEW p \in Proc, NEW t \in Type, Encode(p, t)
      PROVE  /\ pc'[q] \in {"idle", "encode"} /\ reply'[q][l] # sent'[q][l] => warned'[q]
             /\ pc'[q] = "gob" /\ reply'[q][l] # 0 => warned'[q]
  <2>1. /\ UNCHANGED <<reply, sent, warned>> /\ pc[p] = "idle"
        /\ pc' = [pc EXCEPT ![p] = "encode"]
    BY <1>4 DEF Encode
  <2>2. /\ q # p => pc'[q] = pc[q]
        /\ q = p => pc'[q] = "encode" /\ pc[q] = "idle"
    BY <1>2, <2>1
  <2>3. pc'[q] = "encode" => pc'[q] # "gob"
    BY <1>2
  <2>4. QED
    BY <1>1, <2>1, <2>2, <2>3, Zenon
<1>5. ASSUME NEW p \in Proc, NEW t \in Type, NEW v \in Value, NEW fresh \in BOOLEAN,
             Decode(p, t, v, fresh)
      PROVE  /\ pc'[q] \in {"idle", "encode"} /\ reply'[q][l] # sent'[q][l] => warned'[q]
             /\ pc'[q] = "gob" /\ reply'[q][l] # 0 => warned'[q]
  <2>1. CASE q = p
    <3>1. pc'[q] = "decode"
      BY <1>2, <1>5, <2>1 DEF Decode
    <3>2. QED
      BY <3>1
  <2>2. CASE q # p
    BY <1>2, <1>3, <1>5, <2>2 DEF Decode
  <2>3. QED
    BY <2>1, <2>2, Zenon
<1>6. ASSUME NEW p \in Proc, complain(p) \/ checkType(p)
      PROVE  /\ pc'[q] \in {"idle", "encode"} /\ reply'[q][l] # sent'[q][l] => warned'[q]
             /\ pc'[q] = "gob" /\ reply'[q][l] # 0 => warned'[q]
  <2>1. UNCHANGED <<pc, reply, sent, warned>>
    BY <1>6 DEF complain, checkType
  <2>2. QED
    BY <1>3, <2>1
<1>7. ASSUME NEW p \in Proc, checkDefault(p)
      PROVE  /\ pc'[q] \in {"idle", "encode"} /\ reply'[q][l] # sent'[q][l] => warned'[q]
             /\ pc'[q] = "gob" /\ reply'[q][l] # 0 => warned'[q]
  <2> DEFINE found == {m \in Leaf : LooksAt(m) /\ reply[p][m] # 0}
  <2>1. /\ warned' = [warned EXCEPT ![p] = found # {}]
        /\ pc' = [pc EXCEPT ![p] = "gob"]
        /\ UNCHANGED <<reply, sent>>
    BY <1>7 DEF checkDefault
  <2>2. CASE q = p
    <3>1. pc'[q] = "gob" /\ (warned'[q] <=> found # {})
      BY <1>2, <2>1, <2>2
    <3>2. reply[p][l] # 0 => found # {}
      OBVIOUS
    <3>3. pc'[q] \notin {"idle", "encode"}
      BY <3>1
    <3>4. QED
      BY <2>1, <2>2, <3>1, <3>2, <3>3, Zenon
  <2>3. CASE q # p
    BY <1>2, <1>3, <2>1, <2>3
  <2>4. QED
    BY <2>2, <2>3, Zenon
<1>8. ASSUME NEW p \in Proc, gob(p)
      PROVE  /\ pc'[q] \in {"idle", "encode"} /\ reply'[q][l] # sent'[q][l] => warned'[q]
             /\ pc'[q] = "gob" /\ reply'[q][l] # 0 => warned'[q]
  <2>1. UNCHANGED <<sent, warned>> /\ pc' = [pc EXCEPT ![p] = "idle"]
    BY <1>8 DEF gob
  <2>2. CASE q # p
    BY <1>2, <1>3, <1>8, <2>1, <2>2 DEF gob
  <2>3. CASE q = p
    <3>1. pc'[q] # "gob"
      BY <1>2, <2>1, <2>3
    <3>2. CASE pc[p] = "gob"
      <4>1. reply' = [reply EXCEPT ![p] = gobDecode(sent[p], @)]
        BY <1>8, <3>2 DEF gob
      <4>2. reply'[q][l] = IF sent[q][l] = 0 THEN reply[q][l] ELSE sent[q][l]
        BY <1>2, <2>3, <4>1 DEF gobDecode
      <4>3. reply'[q][l] # sent[q][l] => reply[q][l] # 0
        BY <4>2
      <4>4. QED
        BY <1>1, <2>1, <2>3, <3>1, <3>2, <4>3, Zenon
    <3>3. CASE pc[p] # "gob"
      <4>1. pc[q] = "encode" /\ reply' = reply
        BY <1>8, <2>3, <3>3 DEF gob
      <4>2. QED
        BY <1>1, <2>1, <3>1, <4>1
    <3>4. QED
      BY <3>2, <3>3, Zenon
  <2>4. QED
    BY <2>2, <2>3, Zenon
<1>9. CASE UNCHANGED vars
  BY <1>3, <1>9 DEF vars
<1>10. QED
  BY <1>4, <1>5, <1>6, <1>7, <1>8, <1>9, Zenon DEF Next, Running

-----------------------------------------------------------------------------
(* The invariant.                                                          *)

\* Steps that leave the stacks alone, and count alike what they count.
LEMMA StacksKept ==
    ASSUME Balance, Covered, Found, UNCHANGED <<checked, roots, stack>>,
           errorCount' - defaultErrors' = errorCount - defaultErrors
    PROVE  Balance' /\ Covered' /\ Found'
<1>1. Balance'
  BY DEF Balance, Pending
<1>2. \A t : OnStack(t)' <=> OnStack(t)
  BY DEF OnStack
<1>3. QED
  BY <1>1, <1>2, SameTypes

\* Every action keeps the balance and the cover.
LEMMA CountsNext ==
    ASSUME LabgobTypeOK, Balance, Covered, Found, [Next]_vars
    PROVE  Balance' /\ Covered' /\ Found'
<1>1. ASSUME NEW p \in Proc, NEW t \in Type, Starts(p, t) PROVE Balance' /\ Covered' /\ Found'
  BY <1>1, StartsBalance, StartsTypes
<1>2. ASSUME NEW p \in Proc, NEW t \in Type, Encode(p, t) PROVE Balance' /\ Covered' /\ Found'
  BY <1>1, <1>2 DEF Encode, Starts
<1>3. ASSUME NEW p \in Proc, NEW t \in Type, NEW v \in Value, NEW fresh \in BOOLEAN,
             Decode(p, t, v, fresh)
      PROVE  Balance' /\ Covered' /\ Found'
  BY <1>1, <1>3 DEF Decode, Starts
<1>4. ASSUME NEW p \in Proc, complain(p) PROVE Balance' /\ Covered' /\ Found'
  BY <1>4, ComplainBalance, ComplainTypes
<1>5. ASSUME NEW p \in Proc, checkType(p) PROVE Balance' /\ Covered' /\ Found'
  BY <1>5, CheckTypeBalance, CheckTypeTypes
<1>6. ASSUME NEW p \in Proc, checkDefault(p) PROVE Balance' /\ Covered' /\ Found'
  <2> DEFINE found == {l \in Leaf : LooksAt(l) /\ reply[p][l] # 0}
  <2>1. found \in SUBSET Leaf
    OBVIOUS
  <2>2. /\ errorCount' = errorCount + Cardinality(found)
        /\ defaultErrors' = defaultErrors + Cardinality(found)
        /\ UNCHANGED <<checked, roots, stack>>
    BY <1>6 DEF checkDefault
  <2> HIDE DEF found
  <2>3. IsFiniteSet(found)
    BY <2>1, FiniteValues, FS_Subset, Zenon
  <2>4. Cardinality(found) \in Nat /\ errorCount \in Nat /\ defaultErrors \in Nat
    BY <2>3, FS_CardinalityType DEF LabgobTypeOK
  <2>5. errorCount' - defaultErrors' = errorCount - defaultErrors
    BY <2>2, <2>4
  <2>6. QED
    BY <2>2, <2>5, StacksKept
<1>7. ASSUME NEW p \in Proc, gob(p) PROVE Balance' /\ Covered' /\ Found'
  BY <1>7, StacksKept DEF gob
<1>8. CASE UNCHANGED vars
  BY <1>8, StacksKept DEF vars
<1>9. QED
  BY <1>2, <1>3, <1>4, <1>5, <1>6, <1>7, <1>8, Zenon DEF Next, Running

\* Nothing is recorded, on a stack or decoded to begin with.
LEMMA LabgobInit ==
    ASSUME Init
    PROVE  LabgobInv
<1>1. Default \in Value
  BY DEF Default, Value
<1>2. LabgobTypeOK
  BY <1>1 DEF Init, LabgobTypeOK
<1>3. \A p \in Proc : stack[p] = <<>> /\ DOMAIN stack[p] = {}
  BY DEF Init
<1>4. Places(stack) = {}
  <2>1. \A p \in Proc : DOMAIN stack[p] = {}
    BY <1>3, Zenon
  <2>2. \A p, k : <<p, k>> \notin Places(stack)
    BY <2>1, PendingPlace
  <2>3. QED
    BY <2>2, PendingPair
<1>5. Lower(checked) = {}
  BY DEF Init, Lower, Components
<1>6. Balance
  <2>1. IsFiniteSet({}) /\ Cardinality({}) = 0
    BY FS_EmptySet
  <2>2. errorCount = 0 /\ defaultErrors = 0
    BY DEF Init
  <2>3. errorCount - defaultErrors + Cardinality({}) = Cardinality({})
    BY <2>1, <2>2
  <2>4. QED
    BY <1>4, <1>5, <2>1, <2>3, Zenon DEF Balance, Pending
<1>7. Covered /\ Found
  BY <1>3 DEF Init, Covered, Found, OnStack
<1>8. \A p \in Proc : WarnedAt(p)
  BY DEF Init, WarnedAt
<1>9. QED
  BY <1>2, <1>6, <1>7, <1>8 DEF LabgobInv

\* The invariant holds whatever the types and however the goroutines of
\* src/src/labgob/labgob.go take turns.
THEOREM LabgobInvariant == Spec => []LabgobInv
<1>1. Init => LabgobInv
  BY LabgobInit
<1>2. LabgobInv /\ [Next]_vars => LabgobInv'
  BY TypesNext, CountsNext, WarnedNext DEF LabgobInv
<1>3. QED
  BY <1>1, <1>2, PTL DEF Spec

\* checkType: once every goroutine is through, each lower-case field of every
\* type that labgob was given, or that such a type refers to, directly or not,
\* has been counted exactly once, for any types, any of which may refer to
\* itself, and any number of goroutines that meet the same types.
THEOREM FieldsCountedOnce == Spec => []ComplainedOnce
<1>1. LabgobInv => ComplainedOnce
  <2> SUFFICES ASSUME LabgobInv, \A p \in Proc : stack[p] = <<>>
               PROVE  errorCount - defaultErrors = Cardinality(Lower(Reachable))
    BY DEF ComplainedOnce, Lower
  <2> USE DEF LabgobInv
  <2>1. \A p \in Proc : DOMAIN stack[p] = {}
    OBVIOUS
  <2>2. Places(stack) = {}
    <3>1. \A p, k : <<p, k>> \notin Places(stack)
      BY <2>1, PendingPlace
    <3>2. QED
      BY <3>1, PendingPair
  <2>3. \A t : ~ OnStack(t)
    BY <2>1 DEF OnStack
  <2>4. roots \subseteq checked /\ Closed(checked)
    BY <2>3, ClosedPlace DEF Covered
  <2>5. checked \in SUBSET Type
    BY DEF LabgobTypeOK
  <2>6. Reachable \subseteq checked
    BY <2>4, <2>5 DEF Reachable
  <2>7. checked \subseteq Reachable
    BY <2>5 DEF Found
  <2>8. Reachable = checked
    BY <2>6, <2>7
  <2>9. errorCount - defaultErrors + Cardinality(Places(stack)) = Cardinality(Lower(checked))
    BY DEF Balance, Pending
  <2>10. Cardinality(Places(stack)) = 0
    BY <2>2, FS_EmptySet
  <2>11. errorCount \in Nat /\ defaultErrors \in Nat
    BY DEF LabgobTypeOK
  <2>12. errorCount - defaultErrors = Cardinality(Lower(checked))
    BY <2>9, <2>10, <2>11
  <2>13. QED
    BY <2>8, <2>12
<1>2. QED
  BY <1>1, LabgobInvariant, PTL

\* Contents that checkDefault1 gets to, and that a Decode has left different
\* from what was sent.
LeafWarned ==
    \A p \in Proc : \A l \in Leaf :
       LooksAt(l) /\ pc[p] = "idle" /\ reply[p][l] # sent[p][l] => warned[p]

\* checkDefault: a Decode that leaves something else than what was sent in a
\* leaf that checkDefault1 gets to has warned, whatever its other leaves are.
THEOREM LeavesAreWarned == Spec => []LeafWarned
<1>1. LabgobInv => LeafWarned
  BY DEF LabgobInv, WarnedAt, LeafWarned
<1>2. QED
  BY <1>1, LabgobInvariant, PTL

\* checkDefault: where it gets to all of a value, no reply keeps old contents
\* without a warning.  (It does not look into slices, maps, interfaces and what
\* is deep: then the theorem above is all that holds.)
THEOREM StaleRepliesAreWarned ==
    ASSUME \A l \in Leaf : LooksAt(l)
    PROVE  Spec => []StaleWarned
<1>1. LabgobTypeOK /\ LeafWarned => StaleWarned
  <2> SUFFICES ASSUME LabgobTypeOK, LeafWarned, NEW p \in Proc, pc[p] = "idle",
                      reply[p] # sent[p]
               PROVE  warned[p]
    BY DEF StaleWarned
  <2>1. reply[p] \in [Leaf -> 0 .. 1] /\ sent[p] \in [Leaf -> 0 .. 1]
    BY DEF LabgobTypeOK, Value
  <2>2. PICK l \in Leaf : reply[p][l] # sent[p][l]
    BY <2>1
  <2>3. QED
    BY <2>2, Zenon DEF LeafWarned
<1>2. LabgobInv => LabgobTypeOK
  BY DEF LabgobInv
<1>3. QED
  BY <1>1, <1>2, LabgobInvariant, LeavesAreWarned, PTL
=============================================================================
