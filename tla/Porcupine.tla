----------------------------- MODULE Porcupine -----------------------------
(***************************************************************************)
(* The linearizability checker of src/src/porcupine with the key/value      *)
(* model of src/src/models/kv.go.  checkParallel runs one checkSingle       *)
(* goroutine per key; each searches for an order of the operations with a   *)
(* stack of tentative choices, a cache, and a doubly linked list of the     *)
(* entries that are not yet ordered.                                        *)
(*                                                                          *)
(* Node k of a list is entry k of the history; node 0 is headEntry.         *)
(***************************************************************************)
EXTENDS Bitset

CONSTANTS
    Key,
    MaxOps,     \* bound on the operations of a history
    Scopes      \* what to try: [ops, verbose, timeouts], ops in order of their calls

ASSUME ScopesAssumption ==
    /\ MaxOps \in Nat
    /\ \A scope \in Scopes :
          /\ \A ops \in scope.ops : /\ Len(ops) \in 0 .. MaxOps
                                    /\ DOMAIN ops = 1 .. Len(ops)
                                    /\ \A i \in DOMAIN ops : ops[i].key \in Key
          /\ scope.verbose \subseteq BOOLEAN
          /\ scope.timeouts \subseteq BOOLEAN

Nil == -1

\* String concatenation and comparison are those of sequences of letters.
Empty == <<>>

-----------------------------------------------------------------------------
(* Histories.                                                              *)

Ids(h) == {h[k].id : k \in DOMAIN h}
CallOf(h, id) == CHOOSE k \in DOMAIN h : h[k].id = id /\ h[k].kind = "call"
ReturnOf(h, id) == CHOOSE k \in DOMAIN h : h[k].id = id /\ h[k].kind = "return"

\* How many of S come before x.
Rank(S, x) == Cardinality({y \in S : y < x})

\* The orders in which n operations may call and return: the times of the calls,
\* which operations are numbered by, and by operation that of its return.
Shapes[n \in 0 .. MaxOps] ==
    UNION {{[calls |-> c, returns |-> r] :
              r \in {q \in SetToSeqs((1 .. 2 * n) \ c) :
                       \A k \in c : k < q[Rank(c, k) + 1]}} :
             c \in {d \in SUBSET (1 .. 2 * n) : Cardinality(d) = n}}

\* The entries that makeEntries and convertEntries make of operations with
\* different times: they call and return in the order of the shape.
Entries(shape, ops) ==
    [k \in 1 .. 2 * Len(ops) |->
       LET id == IF k \in shape.calls THEN Rank(shape.calls, k) + 1
                 ELSE CHOOSE i \in DOMAIN ops : shape.returns[i] = k
       IN  [kind |-> IF k \in shape.calls THEN "call" ELSE "return", id |-> id,
            key |-> ops[id].key, op |-> ops[id].op]]

\* KvModel.Partition and makeEntries: the entries of one key, with the ids of
\* its operations counted from 0.
Partition(h, key) ==
    LET own == {k \in DOMAIN h : h[k].key = key}
        ids == {h[k].id : k \in own}
    IN  [n \in 1 .. Cardinality(own) |->
           LET e == h[CHOOSE k \in own : Rank(own, k) = n - 1]
           IN  [kind |-> e.kind, id |-> Rank(ids, e.id), key |-> key, op |-> e.op]]

-----------------------------------------------------------------------------
(* KvModel for one key.                                                    *)

StepOk(state, op) == op.op = "get" => op.out = state

StepState(state, op) ==
    CASE op.op = "get" -> state
      [] op.op = "put" -> <<op.value>>
      [] op.op = "append" -> Append(state, op.value)

-----------------------------------------------------------------------------
VARIABLES
    history,      \* the history to check
    computeInfo, timeout,
    search,       \* by key: the locals of its checkSingle
    kill,
    results,      \* the channel of keys whose checkSingle has returned
    loop          \* checkParallel: count, ok, timedOut and its verdict

vars == <<history, computeInfo, timeout, search, kill, results, loop>>

Keys == {history[k].key : k \in DOMAIN history}
Part(key) == search[key].history

\* makeLinkedEntries and the headEntry put before the list.
makeLinkedEntries(h) ==
    [next |-> [k \in 0 .. Len(h) |-> IF k < Len(h) THEN k + 1 ELSE Nil],
     prev |-> [k \in 0 .. Len(h) |-> IF k > 0 THEN k - 1 ELSE Nil]]

\* lift takes call k, and then its return m, out of the list.
lift(list, k, m) ==
    LET next1 == [list.next EXCEPT ![list.prev[k]] = list.next[k]]
        prev1 == [list.prev EXCEPT ![list.next[k]] = list.prev[k]]
    IN  [next |-> [next1 EXCEPT ![prev1[m]] = next1[m]],
         prev |-> IF next1[m] = Nil THEN prev1
                  ELSE [prev1 EXCEPT ![next1[m]] = prev1[m]]]

\* Mutant: unlift puts the call back first.
unliftCallFirst(list, k, m) ==
    [next |-> [list.next EXCEPT ![list.prev[k]] = k, ![list.prev[m]] = m],
     prev |-> IF list.next[m] = Nil THEN [list.prev EXCEPT ![list.next[k]] = k]
              ELSE [list.prev EXCEPT ![list.next[m]] = m, ![list.next[k]] = k]]

\* unlift puts the return back, and then the call.
unlift(list, k, m) ==
    LET next1 == [list.next EXCEPT ![list.prev[m]] = m]
        prev1 == IF list.next[m] = Nil THEN list.prev
                 ELSE [list.prev EXCEPT ![list.next[m]] = m]
    IN  [next |-> [next1 EXCEPT ![prev1[k]] = k],
         prev |-> [prev1 EXCEPT ![next1[k]] = k]]

-----------------------------------------------------------------------------
(* checkSingle.                                                            *)

SearchInit(h) ==
    [st |-> "run", history |-> h, list |-> makeLinkedEntries(h), entry |-> 1, state |-> Empty,
     linearized |-> newBitset(Cardinality(Ids(h))), cache |-> {}, calls |-> <<>>,
     longest |-> [id \in Ids(h) |-> <<>>]]

\* The entry under consideration, and the operation it belongs to.
Entry(key) == Part(key)[search[key].entry]

Running(key) == search[key].st = "run" /\ ~ kill /\ search[key].list.next[0] # Nil

\* Mutant: the cache ignores which operations were ordered.
cacheContainsState(s, linearized, state) == \E e \in s.cache : e[2] = state

\* A set of operations and a state that the search has been in before.
cacheContains(s, linearized, state) ==
    \E e \in s.cache : /\ hash(e[1]) = hash(linearized)
                       /\ equals(e[1], linearized)
                       /\ e[2] = state

\* Mutant: the outcome of Step is ignored.
CanLinearizeAny(key) ==
    LET s == search[key]
        e == Entry(key)
    IN  /\ e.kind = "call"
        /\ ~ cacheContains(s, bitSet(s.linearized, e.id), StepState(s.state, e.op))

\* The call under consideration can come next and leads somewhere new.
CanLinearize(key) ==
    LET s == search[key]
        e == Entry(key)
    IN  /\ e.kind = "call"
        /\ StepOk(s.state, e.op)
        /\ ~ cacheContains(s, bitSet(s.linearized, e.id), StepState(s.state, e.op))

\* Order the call next and start again from the head of the list.
linearize(key) ==
    LET s == search[key]
        e == Entry(key)
        new == StepState(s.state, e.op)
        lin == bitSet(s.linearized, e.id)
        list == lift(s.list, s.entry, ReturnOf(Part(key), e.id))
    IN  /\ Running(key)
        /\ CanLinearize(key)
        /\ search' = [search EXCEPT ![key] =
              [s EXCEPT !.cache = @ \cup {<<lin, new>>},
                        !.calls = Append(@, [entry |-> s.entry, state |-> s.state]),
                        !.state = new, !.linearized = lin, !.list = list,
                        !.entry = list.next[0]]]
        /\ UNCHANGED <<history, computeInfo, timeout, kill, results, loop>>

\* The call cannot come next: look at the following entry.
skip(key) ==
    /\ Running(key)
    /\ Entry(key).kind = "call"
    /\ ~ CanLinearize(key)
    /\ search' = [search EXCEPT ![key].entry = search[key].list.next[@]]
    /\ UNCHANGED <<history, computeInfo, timeout, kill, results, loop>>

\* The ids on the stack, in order.
Order(key) ==
    [i \in DOMAIN search[key].calls |-> Part(key)[search[key].calls[i].entry].id]

\* A return whose call was not ordered: undo the latest choice.
backtrack(key) ==
    LET s == search[key]
        top == s.calls[Len(s.calls)]
        id == Part(key)[top.entry].id
        list == unlift(s.list, top.entry, ReturnOf(Part(key), id))
    IN  /\ Running(key)
        /\ Entry(key).kind = "return"
        /\ s.calls # <<>>
        /\ search' = [search EXCEPT ![key] =
              [s EXCEPT !.longest =
                           [i \in DOMAIN @ |->
                              IF computeInfo /\ i \in Range(Order(key))
                                 /\ Len(s.calls) > Len(@[i])
                              THEN Order(key) ELSE @[i]],
                        !.state = top.state, !.linearized = bitClear(@, id),
                        !.calls = Front(@), !.list = list,
                        !.entry = list.next[top.entry]]]
        /\ UNCHANGED <<history, computeInfo, timeout, kill, results, loop>>

\* checkSingle returns and its goroutine sends the result.
checkSingleReturn(key, ok) ==
    /\ search' = [search EXCEPT ![key].st = IF ok THEN "true" ELSE "false",
                                ![key].longest = IF ok THEN [i \in DOMAIN @ |-> Order(key)]
                                                 ELSE @]
    /\ results' = results \cup {key}
    /\ UNCHANGED <<history, computeInfo, timeout, kill, loop>>

\* A return at the head with nothing to undo.
exhausted(key) ==
    /\ Running(key)
    /\ Entry(key).kind = "return"
    /\ search[key].calls = <<>>
    /\ checkSingleReturn(key, FALSE)

\* Every entry is ordered.
ordered(key) ==
    /\ search[key].st = "run"
    /\ search[key].list.next[0] = Nil
    /\ checkSingleReturn(key, TRUE)

killed(key) ==
    /\ search[key].st = "run"
    /\ search[key].list.next[0] # Nil
    /\ kill
    /\ checkSingleReturn(key, FALSE)

-----------------------------------------------------------------------------
(* checkParallel.                                                          *)

\* ok after a result was taken from the channel.
TakenOk(key) == loop.ok /\ search[key].st = "true"

\* Mutant: one result more than there are partitions is expected.
AllCountedPast(count) == count > Cardinality(Keys)

\* Every partition has sent its result.
AllCounted(count) == count >= Cardinality(Keys)

\* A result is taken; an illegal partition settles it unless all are wanted.
takeResult(key) ==
    LET ok == TakenOk(key)
        stop == (~ ok /\ ~ computeInfo) \/ AllCounted(loop.count + 1)
    IN  /\ loop.st = "loop"
        /\ key \in results
        /\ results' = results \ {key}
        /\ loop' = [loop EXCEPT !.count = @ + 1, !.ok = ok,
                                !.st = IF stop THEN "drain" ELSE @]
        /\ kill' = (kill \/ (~ ok /\ ~ computeInfo))
        /\ UNCHANGED <<history, computeInfo, timeout, search>>

\* case <-timeoutChan
timedOut ==
    /\ loop.st = "loop"
    /\ timeout
    /\ loop' = [loop EXCEPT !.timedOut = TRUE, !.st = "drain"]
    /\ kill' = TRUE
    /\ UNCHANGED <<history, computeInfo, timeout, search, results>>

\* With computeInfo the remaining goroutines are waited for; their results
\* are not looked at.
drain(key) ==
    /\ loop.st = "drain"
    /\ computeInfo
    /\ key \in results
    /\ results' = results \ {key}
    /\ loop' = [loop EXCEPT !.count = @ + 1]
    /\ UNCHANGED <<history, computeInfo, timeout, search, kill>>

verdict ==
    /\ loop.st = "drain"
    /\ computeInfo => AllCounted(loop.count)
    /\ loop' = [loop EXCEPT !.st = IF ~ loop.ok THEN "Illegal"
                                   ELSE IF loop.timedOut THEN "Unknown" ELSE "Ok"]
    /\ UNCHANGED <<history, computeInfo, timeout, search, kill, results>>

-----------------------------------------------------------------------------
Init ==
    /\ \E scope \in Scopes :
          /\ \E ops \in scope.ops : \E shape \in Shapes[Len(ops)] :
                history = Entries(shape, ops)
          /\ computeInfo \in scope.verbose
          /\ timeout \in scope.timeouts
    /\ search = [key \in Keys |-> SearchInit(Partition(history, key))]
    /\ kill = FALSE
    /\ results = {}
    /\ loop = [st |-> "loop", count |-> 0, ok |-> TRUE, timedOut |-> FALSE]

checkSingle(key) ==
    \/ linearize(key)
    \/ skip(key)
    \/ backtrack(key)
    \/ exhausted(key)
    \/ ordered(key)
    \/ killed(key)

checkParallel ==
    \/ \E key \in Keys : takeResult(key) \/ drain(key)
    \/ verdict

Next ==
    \/ \E key \in Keys : checkSingle(key)
    \/ checkParallel
    \/ timedOut

Spec == Init /\ [][Next]_vars

\* Every goroutine runs on; the timer need not expire.
FairSpec ==
    /\ Spec
    /\ \A key \in Key : WF_vars(key \in Keys /\ checkSingle(key))
    /\ WF_vars(checkParallel)

-----------------------------------------------------------------------------
(* Properties.                                                             *)

\* The states of all keys after the first i operations of an order.
StateAfter(h, order) ==
    LET after[i \in 0 .. Len(order)] ==
          IF i = 0 THEN [key \in Key |-> Empty]
          ELSE LET e == h[CallOf(h, order[i])]
               IN  [after[i - 1] EXCEPT ![e.key] = StepState(@, e.op)]
    IN  after

\* An order of some operations that respects the real time and the store.
LegalPrefix(h, order) ==
    LET after == StateAfter(h, order)
    IN  \A i \in DOMAIN order :
           LET e == h[CallOf(h, order[i])]
           IN  /\ StepOk(after[i - 1][e.key], e.op)
               /\ \A j \in i + 1 .. Len(order) : order[i] # order[j]
               /\ \A id \in Ids(h) :
                     ReturnOf(h, id) < CallOf(h, order[i]) =>
                        \E j \in 1 .. i - 1 : order[j] = id

\* The legal orders that are one operation longer than those of L.
Longer(h, L) == {o \in {Append(p, id) : p \in L, id \in Ids(h)} : LegalPrefix(h, o)}

\* By number, the legal orders of so many of the operations of h.
LegalOrders(h) ==
    LET legal[k \in 0 .. Cardinality(Ids(h))] ==
          IF k = 0 THEN {<<>>} ELSE Longer(h, legal[k - 1])
    IN  legal

\* All legal beginnings of an order of the operations of h.
LegalPrefixes(h) == UNION {LegalOrders(h)[k] : k \in 0 .. Cardinality(Ids(h))}

\* The definition that checkSingle decides.
Linearizable(h) == \E o \in LegalPrefixes(h) : Len(o) = Cardinality(Ids(h))

\* "Partition functions, such that a history is linearizable if and only if
\* each partition is linearizable": the verdict is about the whole history,
\* whatever order results, the kill flag and the timeout come in.
VerdictCorrect ==
    /\ loop.st = "Ok" => Linearizable(history)
    /\ loop.st = "Illegal" => ~ Linearizable(history)
    /\ loop.st = "Unknown" => timeout

\* lift and unlift leave the list of exactly the entries that are not ordered,
\* linked both ways, however deep the search has gone and come back.
ListIsPending ==
    \A key \in Keys :
       LET s == search[key]
           h == Part(key)
           pending == {0} \cup {k \in DOMAIN h : ~ get(s.linearized, h[k].id)}
           after(k) == {m \in pending : m > k}
       IN  /\ s.st = "run" => s.entry \in pending \cup {Nil}
           /\ \A k \in pending :
                 /\ s.list.next[k] = IF after(k) = {} THEN Nil
                                     ELSE CHOOSE m \in after(k) : \A q \in after(k) : m <= q
                 /\ after(k) # {} => s.list.prev[s.list.next[k]] = k

\* "longest linearizable prefix that includes the given entry": what a search
\* returns for an operation, killed or not, is a legal order that contains it.
PartialsLegal ==
    \A key \in Keys : search[key].st # "run" =>
       \A id \in DOMAIN search[key].longest :
          LET order == search[key].longest[id]
          IN  order # <<>> => /\ LegalPrefix(Part(key), order)
                              /\ \E i \in DOMAIN order : order[i] = id

\* A check without timeout returns, although other searches are killed, wait
\* or have not been looked at.
CheckReturns == <>(loop.st \in {"Ok", "Illegal", "Unknown"})
=============================================================================
