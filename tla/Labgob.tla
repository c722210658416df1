------------------------------- MODULE Labgob -------------------------------
(***************************************************************************)
(* labgob, src/src/labgob/labgob.go: the wrapper around encoding/gob that   *)
(* labrpc and Raft's persistence use.  checkType complains, once, about     *)
(* lower-case fields of every type that is sent; checkDefault complains     *)
(* about decoding into a variable that holds something already.  Goroutines *)
(* encode and decode concurrently and share checked and errorCount.         *)
(*                                                                          *)
(* A type is known by its components, a value by the contents of its        *)
(* leaves, 0 being the default of every kind of leaf.                       *)
(***************************************************************************)
EXTENDS Integers, Sequences, FiniteSets

CONSTANTS
    Proc,           \* goroutines that use labgob
    Type,
    Fields,         \* Fields[t]: components of t, [lower : BOOLEAN, type : Type]
    Leaf,           \* leaves of the values that are sent
    Kind,           \* Kind[l]: "scalar", or "slice", "map", "interface"
    Depth,          \* Depth[l]: depth at which checkDefault1 meets l
    MaxUses         \* bound on the uses of one goroutine

\* A component of a type, and whether its name begins with a small letter.
Component == [lower : BOOLEAN, type : Type]

ASSUME TypesClosed == Fields \in [Type -> Seq(Component)]

\* A value has finitely many leaves.
ASSUME FiniteValues == IsFiniteSet(Leaf)

Value == [Leaf -> 0 .. 1]
Default == [l \in Leaf |-> 0]

VARIABLES
    checked, errorCount,
    pc,             \* what a goroutine is doing
    stack,          \* the recursion of checkType: components to look at
    reply,          \* the variable a goroutine decodes into
    sent,           \* the value that was encoded for it
    warned,         \* this Decode has counted an error
    roots,          \* history: the types checkType was called with
    defaultErrors,  \* history: the errors that checkDefault has counted
    uses

vars == <<checked, errorCount, pc, stack, reply, sent, warned, roots, defaultErrors, uses>>

-----------------------------------------------------------------------------
(* encoding/gob: default contents are not sent, so they do not overwrite.  *)
gobDecode(v, old) == [l \in Leaf |-> IF v[l] = 0 THEN old[l] ELSE v[l]]

\* Encode, EncodeValue, Register and RegisterName begin with checkValue.
Encode(p, t) ==
    /\ pc[p] = "idle" /\ uses[p] < MaxUses
    /\ uses' = [uses EXCEPT ![p] = @ + 1]
    /\ pc' = [pc EXCEPT ![p] = "encode"]
    /\ stack' = [stack EXCEPT ![p] = <<[lower |-> FALSE, type |-> t]>>]
    /\ roots' = roots \cup {t}
    /\ UNCHANGED <<checked, errorCount, reply, sent, warned, defaultErrors>>

\* Decode of a value of type t that a peer encoded; the variable is the one
\* of the latest Decode or a fresh one.
Decode(p, t, v, fresh) ==
    /\ pc[p] = "idle" /\ uses[p] < MaxUses
    /\ uses' = [uses EXCEPT ![p] = @ + 1]
    /\ pc' = [pc EXCEPT ![p] = "decode"]
    /\ stack' = [stack EXCEPT ![p] = <<[lower |-> FALSE, type |-> t]>>]
    /\ roots' = roots \cup {t}
    /\ sent' = [sent EXCEPT ![p] = v]
    /\ warned' = [warned EXCEPT ![p] = FALSE]
    /\ reply' = [reply EXCEPT ![p] = IF fresh THEN Default ELSE @]
    /\ UNCHANGED <<checked, errorCount, defaultErrors>>

-----------------------------------------------------------------------------
\* A lower-case field is counted before its type is looked at.
complain(p) ==
    /\ stack[p] # <<>>
    /\ Head(stack[p]).lower
    /\ errorCount' = errorCount + 1
    /\ stack' = [stack EXCEPT ![p][1].lower = FALSE]
    /\ UNCHANGED <<checked, pc, reply, sent, warned, roots, defaultErrors, uses>>

\* Mutant: a type is recorded once it has been looked at.
MarkLate(t) == IF Fields[t] = <<>> THEN checked \cup {t} ELSE checked

\* Mutant: only types that refer to themselves are recorded.
MarkRecursive(t) ==
    IF \E i \in DOMAIN Fields[t] : Fields[t][i].type = t THEN checked \cup {t} ELSE checked

\* A type is recorded, under the lock, before its components are looked at.
Mark(t) == checked \cup {t}

checkType(p) ==
    LET t == Head(stack[p]).type
    IN  /\ stack[p] # <<>>
        /\ ~ Head(stack[p]).lower
        /\ checked' = Mark(t)
        /\ stack' = [stack EXCEPT ![p] = (IF t \in checked THEN <<>> ELSE Fields[t]) \o Tail(@)]
        /\ UNCHANGED <<errorCount, pc, reply, sent, warned, roots, defaultErrors, uses>>

-----------------------------------------------------------------------------
\* Mutant: the leaves of a struct behind a pointer are too deep.
LooksAtShallow(l) == Kind[l] = "scalar" /\ Depth[l] < 3

\* The leaves that checkDefault1 gets to and has a case for.
LooksAt(l) == Kind[l] = "scalar" /\ Depth[l] <= 3

checkDefault(p) ==
    LET found == {l \in Leaf : LooksAt(l) /\ reply[p][l] # 0}
    IN  /\ pc[p] = "decode" /\ stack[p] = <<>>
        /\ errorCount' = errorCount + Cardinality(found)
        /\ defaultErrors' = defaultErrors + Cardinality(found)
        /\ warned' = [warned EXCEPT ![p] = found # {}]
        /\ pc' = [pc EXCEPT ![p] = "gob"]
        /\ UNCHANGED <<checked, stack, reply, sent, roots, uses>>

gob(p) ==
    /\ \/ /\ pc[p] = "gob"
          /\ reply' = [reply EXCEPT ![p] = gobDecode(sent[p], @)]
       \/ /\ pc[p] = "encode" /\ stack[p] = <<>>
          /\ UNCHANGED reply
    /\ pc' = [pc EXCEPT ![p] = "idle"]
    /\ UNCHANGED <<checked, errorCount, stack, sent, warned, roots, defaultErrors, uses>>

-----------------------------------------------------------------------------
Init ==
    /\ checked = {} /\ errorCount = 0 /\ roots = {} /\ defaultErrors = 0
    /\ pc = [p \in Proc |-> "idle"]
    /\ stack = [p \in Proc |-> <<>>]
    /\ reply = [p \in Proc |-> Default]
    /\ sent = [p \in Proc |-> Default]
    /\ warned = [p \in Proc |-> FALSE]
    /\ uses = [p \in Proc |-> 0]

Running(p) == complain(p) \/ checkType(p) \/ checkDefault(p) \/ gob(p)

Next ==
    \E p \in Proc :
       \/ \E t \in Type : Encode(p, t)
       \/ \E t \in Type, v \in Value, fresh \in BOOLEAN : Decode(p, t, v, fresh)
       \/ Running(p)

Spec == Init /\ [][Next]_vars

\* A goroutine that has called labgob runs on.
FairSpec == Spec /\ \A p \in Proc : WF_vars(Running(p))

-----------------------------------------------------------------------------
(* Properties.                                                             *)

\* The components of some types, as pairs of a type and a position.
Components(S) == UNION {{<<t, i>> : i \in DOMAIN Fields[t]} : t \in S}

\* A set of types with the types of all components.
Closed(S) == \A c \in Components(S) : Fields[c[1]][c[2]].type \in S

\* The types that can be reached from the ones labgob was called with.
Reachable == {t \in Type : \A S \in SUBSET Type : roots \subseteq S /\ Closed(S) => t \in S}

\* "only complain once, and avoid recursion": when every goroutine is through,
\* each lower-case field of every type reached has been counted exactly once,
\* whoever met it first and however the types refer to each other.
ComplainedOnce ==
    (\A p \in Proc : stack[p] = <<>>) =>
        errorCount - defaultErrors =
            Cardinality({c \in Components(Reachable) : Fields[c[1]][c[2]].lower})

\* "warn if the value contains non-default values [...] GOB won't overwrite the
\* non-default value": what differs from the value sent has been warned about.
StaleWarned ==
    \A p \in Proc : pc[p] = "idle" /\ reply[p] # sent[p] => warned[p]

\* Types that refer to themselves are checked in finite time.
CheckEnds == \A p \in Proc : pc[p] # "idle" ~> pc[p] = "idle"
=============================================================================
