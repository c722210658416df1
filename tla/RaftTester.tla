----------------------------- MODULE RaftTester -----------------------------
(***************************************************************************)
(* The checks of src/src/raft/config.go.  Raft itself is arbitrary here: it *)
(* sends any message to any applyCh and Start claims any index, since the   *)
(* question is what the tester notices of a Raft that goes wrong.           *)
(*                                                                          *)
(* A restart adds a goroutine for the new applyCh; the old one goes on, and *)
(* cfg.logs is kept.                                                        *)
(***************************************************************************)
EXTENDS Naturals, FiniteSets

CONSTANTS
    N,          \* number of servers; they are scanned in order
    Cmd,        \* commands
    MaxIndex,   \* bound on log indexes
    MaxGen,     \* bound on the instances of a server
    Restarted   \* the servers that the test may restart

Server == 1 .. N
Index == 1 .. MaxIndex
Gen == 1 .. MaxGen

\* No entry, no index, or the -1 of wait.
None == "none"

ASSUME TesterAssumption ==
    /\ {N, MaxIndex, MaxGen} \subseteq Nat \ {0}
    /\ Restarted \subseteq Server
    /\ None \notin Cmd

VARIABLES
    snapshots,   \* make_config was asked for snapshots: the readers are applierSnap
    logs,        \* cfg.logs: by server and index, a command or None
    applier,     \* by server and instance: "none", "reading", "failing"
    lastApplied, \* by server and instance: the local of applierSnap
    exited,      \* log.Fatalf ended the process
    test,        \* the goroutine of the test: one or wait, and its locals
    installed    \* history: by server, the index whose entry is that of a
                 \* snapshot, 0 if there is none

vars == <<snapshots, logs, applier, lastApplied, exited, test, installed>>

-----------------------------------------------------------------------------
(* The readers of applyCh.                                                 *)

\* Mutant: only the log of the server itself is compared.
DisagreesOwn(i, k, v) == logs[i][k] \notin {None, v}

\* checkLogs: some server has already committed a different value.
Disagrees(i, k, v) == \E j \in Server : logs[j][k] \notin {None, v}

\* Mutant: the predecessor is looked up as if it were always there.
PrevOkAlways(i, k) == TRUE

\* checkLogs: the entry before index k was there.
PrevOk(i, k) == k > 1 => logs[i][k - 1] # None

\* checkLogs under cfg.mu: the entry is recorded whatever the checks say, and
\* only afterwards the reader acts on an error.
checkLogs(i, g, k, v) ==
    /\ logs' = [logs EXCEPT ![i][k] = v]
    /\ installed' = [installed EXCEPT ![i] = IF @ = k THEN 0 ELSE @]
    /\ applier' = [applier EXCEPT ![i][g] =
                     IF Disagrees(i, k, v) \/ ~ PrevOk(i, k) THEN "failing" ELSE @]

\* A reader and the message it gets.
Receives(i, g) == ~ exited /\ applier[i][g] = "reading"

applierCommand(i, g, k, v) ==
    /\ ~ snapshots
    /\ Receives(i, g)
    /\ checkLogs(i, g, k, v)
    /\ UNCHANGED <<snapshots, lastApplied, exited, test>>

\* applierSnap ignores a command that it has already.
applierSnapCommand(i, g, k, v) ==
    /\ snapshots
    /\ Receives(i, g)
    /\ k > lastApplied[i][g]
    /\ checkLogs(i, g, k, v)
    /\ lastApplied' = [lastApplied EXCEPT ![i][g] = k]
    /\ UNCHANGED <<snapshots, exited, test>>

\* Mutant: the index of the snapshot is not kept.
applierSnapInstallForgets(i, g, k, v) ==
    /\ snapshots
    /\ Receives(i, g)
    /\ logs' = [logs EXCEPT ![i] = [n \in Index |-> IF n = k THEN v ELSE None]]
    /\ installed' = [installed EXCEPT ![i] = k]
    /\ UNCHANGED <<snapshots, lastApplied, applier, exited, test>>

\* applierSnap on a snapshot, which CondInstallSnapshot always admits.
applierSnapInstall(i, g, k, v) ==
    /\ snapshots
    /\ Receives(i, g)
    /\ logs' = [logs EXCEPT ![i] = [n \in Index |-> IF n = k THEN v ELSE None]]
    /\ installed' = [installed EXCEPT ![i] = k]
    /\ lastApplied' = [lastApplied EXCEPT ![i][g] = k]
    /\ UNCHANGED <<snapshots, applier, exited, test>>

\* log.Fatalf("apply error").
Fatal(i, g) ==
    /\ ~ exited
    /\ applier[i][g] = "failing"
    /\ exited' = TRUE
    /\ UNCHANGED <<snapshots, logs, applier, lastApplied, test, installed>>

\* start1: another instance with an applyCh and a reader of its own.
start1(i, g) ==
    /\ ~ exited
    /\ i \in Restarted
    /\ applier[i][g] = "none"
    /\ g > 1 => applier[i][g - 1] # "none"
    /\ applier' = [applier EXCEPT ![i][g] = "reading"]
    /\ UNCHANGED <<snapshots, logs, lastApplied, exited, test, installed>>

-----------------------------------------------------------------------------
(* one and wait.                                                           *)

\* No call under way.  "by" is the function, "pc" where it is, "next" the
\* server that nCommitted looks at, "count" and "found" what it has so far.
Idle == [by |-> None, pc |-> "idle", cmd |-> None, n |-> 0, retry |-> FALSE,
         index |-> 1, next |-> 1, count |-> 0, found |-> None, last |-> FALSE,
         result |-> None]

TestStep ==
    ~ exited /\ UNCHANGED <<snapshots, logs, applier, lastApplied, exited, installed>>

\* one(cmd, expectedServers, retry).
one(cmd, n, retry) ==
    /\ TestStep
    /\ test.pc = "idle"
    /\ test' = [Idle EXCEPT !.by = "one", !.pc = "start", !.cmd = cmd, !.n = n,
                            !.retry = retry]

\* Some connected server says that it is the leader and has put cmd at index.
Started(index) ==
    /\ TestStep
    /\ test.pc = "start"
    /\ test' = [test EXCEPT !.pc = "scan", !.index = index]

\* Ten seconds have passed.
oneGivesUp ==
    /\ TestStep
    /\ test.pc = "start"
    /\ test' = [test EXCEPT !.pc = "failed"]

\* wait(index, n, startTerm).
wait(index, n) ==
    /\ TestStep
    /\ test.pc = "idle"
    /\ test' = [Idle EXCEPT !.by = "wait", !.pc = "scan", !.index = index, !.n = n]

\* nCommitted looks at one server, under cfg.mu, and goes on to the next.
nCommitted ==
    LET entry == logs[test.next][test.index]
        bad == entry # None /\ test.count > 0 /\ test.found # entry
    IN  /\ TestStep
        /\ test.pc = "scan"
        /\ test.next \in Server
        /\ test' = [test EXCEPT !.next = @ + 1,
                                !.pc = IF bad THEN "failed" ELSE @,
                                !.count = IF entry # None THEN @ + 1 ELSE @,
                                !.found = IF entry # None THEN entry ELSE @]

\* nCommitted has returned.
Counted == test.pc = "scan" /\ test.next \notin Server

\* nCommitted is called once more; "last" is wait's call after its loop.
Rescan(last) ==
    test' = [test EXCEPT !.next = 1, !.count = 0, !.found = None, !.last = last]

\* Mutant: one is content with any command at its index.
AgreedOnAny == test.count > 0 /\ test.count >= test.n

\* one: enough servers have the command that was submitted.
Agreed == test.count > 0 /\ test.count >= test.n /\ test.found = test.cmd

oneReturns ==
    /\ TestStep
    /\ test.by = "one"
    /\ Counted
    /\ Agreed
    /\ test' = [test EXCEPT !.pc = "returned", !.result = test.cmd]

\* Not agreed: one looks again, or its two seconds are over.
oneAgain ==
    /\ TestStep
    /\ test.by = "one"
    /\ Counted
    /\ ~ Agreed
    /\ \/ Rescan(FALSE)
       \/ test' = [test EXCEPT !.pc = IF test.retry THEN "start" ELSE "failed",
                               !.next = 1, !.count = 0, !.found = None]

\* wait looks again while there are too few; it leaves its loop with enough of
\* them, or after 30 rounds.
waitAgain ==
    /\ TestStep
    /\ test.by = "wait"
    /\ Counted
    /\ ~ test.last
    /\ \/ Rescan(test.count >= test.n)
       \/ Rescan(TRUE)

\* Someone has moved on to a later term.
waitMovedOn ==
    /\ TestStep
    /\ test.by = "wait"
    /\ Counted
    /\ ~ test.last
    /\ test.count < test.n
    /\ test' = [test EXCEPT !.pc = "returned", !.result = None]

waitReturns ==
    /\ TestStep
    /\ test.by = "wait"
    /\ Counted
    /\ test.last
    /\ test' = [test EXCEPT !.pc = IF test.count < test.n THEN "failed" ELSE "returned",
                            !.result = test.found]

\* The test goes on to its next call.
TestGoesOn ==
    /\ TestStep
    /\ test.pc = "returned"
    /\ test' = Idle

-----------------------------------------------------------------------------
\* make_config has started every server once.
Init ==
    /\ snapshots \in BOOLEAN
    /\ logs = [i \in Server |-> [k \in Index |-> None]]
    /\ applier = [i \in Server |-> [g \in Gen |-> IF g = 1 THEN "reading" ELSE "none"]]
    /\ lastApplied = [i \in Server |-> [g \in Gen |-> 0]]
    /\ exited = FALSE
    /\ test = Idle
    /\ installed = [i \in Server |-> 0]

Readers ==
    \E i \in Server, g \in Gen :
       \/ \E k \in Index, v \in Cmd : \/ applierCommand(i, g, k, v)
                                      \/ applierSnapCommand(i, g, k, v)
                                      \/ applierSnapInstall(i, g, k, v)
       \/ Fatal(i, g)
       \/ start1(i, g)

Test ==
    \/ \E cmd \in Cmd, n \in Server, retry \in BOOLEAN : one(cmd, n, retry)
    \/ \E index \in Index : Started(index)
    \/ oneGivesUp
    \/ \E index \in Index, n \in Server : wait(index, n)
    \/ nCommitted
    \/ oneReturns
    \/ oneAgain
    \/ waitAgain
    \/ waitMovedOn
    \/ waitReturns
    \/ TestGoesOn

Next == Readers \/ Test

Spec == Init /\ [][Next]_vars

-----------------------------------------------------------------------------
(* Properties.                                                             *)

\* A reader has found an error: the process ends, or is about to.
Noticed == exited \/ \E i \in Server, g \in Gen : applier[i][g] = "failing"

\* "some server has already committed a different value for this entry!": two
\* servers, or a server before and after a restart, that were given different
\* commands for an index are always noticed, as long as both logs still have
\* the entry.  Only what came in a snapshot is not compared.
DivergenceCaught ==
    \A i, j \in Server, k \in Index :
       logs[i][k] # None /\ logs[j][k] # None /\ logs[i][k] # logs[j][k]
          => k \in {installed[i], installed[j]} \/ Noticed

\* "apply out of order": the entries of a server have no gap, across restarts
\* and snapshots, other than what a snapshot stands for.
NoGaps ==
    \A i \in Server, k \in Index \ {1} :
       logs[i][k] # None /\ logs[i][k - 1] = None => k = installed[i] \/ Noticed

\* With snapshots, and while a server runs one instance, its entries go from a
\* snapshot or from 1 up to lastApplied: commands that applierSnap ignores are
\* those below, and a snapshot replaces all the others.
SnapshotThenCommands ==
    snapshots => \A i \in Server :
       LET have == {k \in Index : logs[i][k] # None}
       IN  \/ \E m \in Index : have = m .. lastApplied[i][1]
           \/ \E g \in Gen \ {1} : applier[i][g] # "none"
           \/ Noticed

\* When one or wait returns a command, as many servers as asked for have it at
\* the index, although nCommitted looked at them one after the other while
\* readers went on and servers restarted.  (A snapshot takes entries away.)
ReturnedIsCommitted ==
    ~ snapshots /\ test.pc = "returned" /\ test.result # None =>
       \/ Cardinality({i \in Server : logs[i][test.index] = test.result}) >= test.n
       \/ Noticed
=============================================================================
