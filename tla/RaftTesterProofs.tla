-------------------------- MODULE RaftTesterProofs --------------------------
(***************************************************************************)
(* What the readers of applyCh notice, for any number of servers, restarts, *)
(* indexes and commands, with and without snapshots.                        *)
(***************************************************************************)
EXTENDS RaftTester, FiniteSetTheorems, TLAPS

TesterTypeOK ==
    /\ logs \in [Server -> [Index -> Cmd \cup {None}]]
    /\ applier \in [Server -> [Gen -> {"none", "reading", "failing"}]]
    /\ installed \in [Server -> Index \cup {0}]

ReadersInv == TesterTypeOK /\ DivergenceCaught /\ NoGaps

\* A step that records nothing and forgets no error.
LEMMA QuietStep ==
    ASSUME ReadersInv, UNCHANGED <<logs, installed>>, TesterTypeOK', Noticed => Noticed'
    PROVE  ReadersInv'
BY DEF ReadersInv, DivergenceCaught, NoGaps

\* checkLogs records the entry that it checks.
LEMMA CheckLogsStep ==
    ASSUME ReadersInv, NEW i \in Server, NEW g \in Gen, NEW k \in Index, NEW v \in Cmd,
           Receives(i, g), checkLogs(i, g, k, v), UNCHANGED exited
    PROVE  ReadersInv'
<1>1. TesterTypeOK
    BY DEF ReadersInv
<1>2. TesterTypeOK'
    BY <1>1 DEF TesterTypeOK, checkLogs
<1>3. CASE Disagrees(i, k, v) \/ ~ PrevOk(i, k)
  <2>1. applier'[i][g] = "failing"
    BY <1>1, <1>3 DEF TesterTypeOK, checkLogs
  <2>2. Noticed'
    BY <2>1 DEF Noticed
  <2>3. QED
    BY <1>2, <2>2 DEF ReadersInv, DivergenceCaught, NoGaps
<1>4. CASE ~ Disagrees(i, k, v) /\ PrevOk(i, k)
  <2>1. applier' = applier
    BY <1>1, <1>4 DEF TesterTypeOK, checkLogs
  <2>2. Noticed' = Noticed
    BY <2>1 DEF Noticed
  <2>3. /\ logs'[i][k] = v
        /\ \A j \in Server, n \in Index : j # i \/ n # k => logs'[j][n] = logs[j][n]
    BY <1>1 DEF TesterTypeOK, checkLogs
  <2>4. \A j \in Server : logs[j][k] \in {None, v}
    BY <1>4 DEF Disagrees
  <2>5. \A j \in Server, n \in Index : n # k \/ j # i => (n = installed'[j] <=> n = installed[j])
    BY <1>1, TesterAssumption DEF TesterTypeOK, checkLogs, Index
  <2>6. DivergenceCaught'
    <3> SUFFICES ASSUME NEW j \in Server, NEW h \in Server, NEW n \in Index,
                        logs'[j][n] # None, logs'[h][n] # None, logs'[j][n] # logs'[h][n]
                 PROVE  n \in {installed'[j], installed'[h]} \/ Noticed
        BY <2>2 DEF DivergenceCaught
    <3>1. n # k
        BY <2>3, <2>4
    <3>2. QED
        BY <2>3, <2>5, <3>1 DEF ReadersInv, DivergenceCaught
  <2>7. NoGaps'
    <3> SUFFICES ASSUME NEW j \in Server, NEW n \in Index \ {1},
                        logs'[j][n] # None, logs'[j][n - 1] = None
                 PROVE  n = installed'[j] \/ Noticed
        BY <2>2 DEF NoGaps
    <3>1. n - 1 \in Index /\ n - 1 # n /\ n > 1
        BY TesterAssumption DEF Index
    <3>2. v # None
        BY TesterAssumption
    <3>3. logs[j][n - 1] = None
        BY <2>3, <3>1, <3>2
    <3>4. j # i \/ n # k
        BY <1>4, <3>1, <3>3 DEF PrevOk
    <3>5. logs[j][n] # None
        BY <2>3, <3>4
    <3>6. QED
        BY <2>5, <3>3, <3>4, <3>5 DEF ReadersInv, NoGaps
  <2>8. QED
    BY <1>2, <2>6, <2>7 DEF ReadersInv
<1>5. QED
    BY <1>3, <1>4

\* A snapshot leaves one entry, which is not compared.
LEMMA InstallStep ==
    ASSUME ReadersInv, NEW i \in Server, NEW g \in Gen, NEW k \in Index, NEW v \in Cmd,
           applierSnapInstall(i, g, k, v)
    PROVE  ReadersInv'
<1> DEFINE only == [n \in Index |-> IF n = k THEN v ELSE None]
<1>1. TesterTypeOK
    BY DEF ReadersInv
<1>2. /\ logs' = [logs EXCEPT ![i] = only]
      /\ installed' = [installed EXCEPT ![i] = k]
      /\ UNCHANGED <<applier, exited>>
    BY DEF applierSnapInstall
<1>3. only \in [Index -> Cmd \cup {None}]
    OBVIOUS
<1>4. /\ \A n \in Index \ {k} : logs'[i][n] = None
      /\ installed'[i] = k
      /\ \A j \in Server \ {i} : logs'[j] = logs[j] /\ installed'[j] = installed[j]
    BY <1>1, <1>2 DEF TesterTypeOK
<1> HIDE DEF only
<1>5. TesterTypeOK'
    BY <1>1, <1>2, <1>3 DEF TesterTypeOK
<1>6. Noticed' = Noticed
    BY <1>2 DEF Noticed
<1>7. DivergenceCaught'
  <2> SUFFICES ASSUME NEW j \in Server, NEW h \in Server, NEW n \in Index,
                      logs'[j][n] # None, logs'[h][n] # None, logs'[j][n] # logs'[h][n]
               PROVE  n \in {installed'[j], installed'[h]} \/ Noticed
      BY <1>6 DEF DivergenceCaught
  <2>1. CASE i \in {j, h}
      BY <1>4, <2>1
  <2>2. CASE i \notin {j, h}
      BY <1>4, <2>2 DEF ReadersInv, DivergenceCaught
  <2>3. QED
      BY <2>1, <2>2
<1>8. NoGaps'
  <2> SUFFICES ASSUME NEW j \in Server, NEW n \in Index \ {1},
                      logs'[j][n] # None, logs'[j][n - 1] = None
               PROVE  n = installed'[j] \/ Noticed
      BY <1>6 DEF NoGaps
  <2>1. CASE j = i
      BY <1>4, <2>1
  <2>2. CASE j # i
      BY <1>4, <2>2 DEF ReadersInv, NoGaps
  <2>3. QED
      BY <2>1, <2>2
<1>9. QED
    BY <1>5, <1>7, <1>8 DEF ReadersInv

LEMMA ReadersInit == Init => ReadersInv
BY TesterAssumption DEF Init, ReadersInv, TesterTypeOK, DivergenceCaught, NoGaps, Index, Gen, Server

LEMMA ReadersNext == ReadersInv /\ [Next]_vars => ReadersInv'
<1> SUFFICES ASSUME ReadersInv, [Next]_vars PROVE ReadersInv'
    OBVIOUS
<1>1. TesterTypeOK
    BY DEF ReadersInv
<1>2. ASSUME NEW i \in Server, NEW g \in Gen, NEW k \in Index, NEW v \in Cmd,
             applierCommand(i, g, k, v) \/ applierSnapCommand(i, g, k, v)
      PROVE  ReadersInv'
    BY <1>2, CheckLogsStep DEF applierCommand, applierSnapCommand
<1>3. ASSUME NEW i \in Server, NEW g \in Gen, NEW k \in Index, NEW v \in Cmd,
             applierSnapInstall(i, g, k, v)
      PROVE  ReadersInv'
    BY <1>3, InstallStep
<1>4. ASSUME NEW i \in Server, NEW g \in Gen, Fatal(i, g)
      PROVE  ReadersInv'
    BY <1>1, <1>4, QuietStep DEF Fatal, TesterTypeOK, Noticed
<1>5. ASSUME NEW i \in Server, NEW g \in Gen, start1(i, g)
      PROVE  ReadersInv'
  <2>1. UNCHANGED <<logs, exited, installed>>
    BY <1>5 DEF start1
  <2>2. TesterTypeOK'
    BY <1>1, <1>5 DEF start1, TesterTypeOK
  <2>3. \A j \in Server, h \in Gen : applier[j][h] = "failing" => applier'[j][h] = "failing"
    BY <1>1, <1>5 DEF start1, TesterTypeOK
  <2>4. QED
    BY <2>1, <2>2, <2>3, QuietStep DEF Noticed
<1>6. CASE UNCHANGED <<logs, applier, exited, installed>>
    BY <1>1, <1>6, QuietStep DEF TesterTypeOK, Noticed
<1>7. CASE Test
  <2>1. UNCHANGED <<logs, applier, exited, installed>>
    BY <1>7 DEF Test, TestStep, one, Started, oneGivesUp, wait, nCommitted, oneReturns,
       oneAgain, waitAgain, waitMovedOn, waitReturns, TestGoesOn
  <2>2. QED
    BY <1>6, <2>1
<1>8. CASE Readers
    BY <1>2, <1>3, <1>4, <1>5, <1>8 DEF Readers
<1>9. QED
    BY <1>6, <1>7, <1>8 DEF Next, vars

\* The readers' invariant, from which what they notice follows.
THEOREM ReadersInvariant == Spec => []ReadersInv
<1>1. ReadersInv /\ [Next]_vars => ReadersInv'
    BY ReadersNext
<1>2. QED
    BY <1>1, ReadersInit, PTL DEF Spec

\* checkLogs and its callers: commands that differ at an index, on any servers
\* and across restarts, never go unnoticed while both are there.
THEOREM DivergenceIsCaught == Spec => []DivergenceCaught
<1>1. ReadersInv => DivergenceCaught
    BY DEF ReadersInv
<1>2. QED
    BY <1>1, ReadersInvariant, PTL

\* prevok: a command before which one is missing never goes unnoticed.
THEOREM GapsAreCaught == Spec => []NoGaps
<1>1. ReadersInv => NoGaps
    BY DEF ReadersInv
<1>2. QED
    BY <1>1, ReadersInvariant, PTL

-----------------------------------------------------------------------------
(* Snapshots and commands of a server that was not restarted.              *)

\* The indices that the log of server i has.
Have(i) == {k \in Index : logs[i][k] # None}

RestartedSince(i) == \E g \in Gen \ {1} : applier[i][g] # "none"

SnapInv ==
    /\ TesterTypeOK
    /\ lastApplied \in [Server -> [Gen -> Index \cup {0}]]
    /\ SnapshotThenCommands

\* The log of one server is as SnapshotThenCommands says.
Contiguous(i) ==
    \/ \E m \in Index : Have(i) = m .. lastApplied[i][1]
    \/ RestartedSince(i)
    \/ Noticed

\* SnapshotThenCommands, server by server.
LEMMA SnapshotByServer ==
    SnapshotThenCommands <=> (snapshots => \A i \in Server : Contiguous(i))
BY DEF SnapshotThenCommands, Contiguous, Have, RestartedSince

\* A server that a step leaves alone stays contiguous.
LEMMA ContiguousKept ==
    ASSUME NEW i \in Server, Contiguous(i), Noticed => Noticed',
           logs'[i] = logs[i], lastApplied'[i] = lastApplied[i],
           \A g \in Gen : applier[i][g] # "none" => applier'[i][g] # "none"
    PROVE  Contiguous(i)'
<1>1. Have(i)' = Have(i)
  BY DEF Have
<1>2. RestartedSince(i) => RestartedSince(i)'
  BY DEF RestartedSince
<1>3. QED
  BY <1>1, <1>2 DEF Contiguous

\* applierSnap on a command: the one after lastApplied, or an error.
LEMMA SnapCommandContiguous ==
    ASSUME SnapInv, NEW i \in Server, NEW g \in Gen, NEW k \in Index, NEW v \in Cmd,
           applierSnapCommand(i, g, k, v), Contiguous(i)
    PROVE  Contiguous(i)'
<1>1. TesterTypeOK /\ lastApplied \in [Server -> [Gen -> Index \cup {0}]]
  BY DEF SnapInv
<1>2. /\ logs' = [logs EXCEPT ![i][k] = v]
      /\ applier' = [applier EXCEPT ![i][g] =
                       IF Disagrees(i, k, v) \/ ~ PrevOk(i, k) THEN "failing" ELSE @]
      /\ lastApplied' = [lastApplied EXCEPT ![i][g] = k]
      /\ exited' = exited
      /\ applier[i][g] = "reading"
      /\ k > lastApplied[i][g]
  BY DEF applierSnapCommand, checkLogs, Receives
<1>3. CASE Disagrees(i, k, v) \/ ~ PrevOk(i, k)
  <2>1. applier'[i][g] = "failing"
    BY <1>1, <1>2, <1>3 DEF TesterTypeOK
  <2>2. QED
    BY <2>1 DEF Contiguous, Noticed
<1>4. CASE ~ Disagrees(i, k, v) /\ PrevOk(i, k)
  <2>1. applier' = applier
    BY <1>1, <1>2, <1>4 DEF TesterTypeOK
  <2>2. Noticed' = Noticed /\ RestartedSince(i)' = RestartedSince(i)
    BY <1>2, <2>1 DEF Noticed, RestartedSince
  <2>3. CASE RestartedSince(i) \/ Noticed
    BY <2>2, <2>3 DEF Contiguous
  <2>4. CASE ~ RestartedSince(i) /\ ~ Noticed
    <3>1. g = 1
      BY <1>2, <2>4 DEF RestartedSince
    <3>2. lastApplied'[i][1] = k /\ k > lastApplied[i][1] /\ lastApplied[i][1] \in Index \cup {0}
      BY <1>1, <1>2, <3>1
    <3>3. PICK m \in Index : Have(i) = m .. lastApplied[i][1]
      BY <2>4 DEF Contiguous
    <3>4. v # None
      BY TesterAssumption
    <3>5. Have(i)' = Have(i) \cup {k}
      BY <1>1, <1>2, <3>4 DEF Have, TesterTypeOK
    <3>6. k \in Nat /\ m \in Nat /\ lastApplied[i][1] \in Nat /\ k >= 1 /\ m >= 1
      BY <3>2 DEF Index
    <3>7. CASE k = 1
      <4>1. Have(i)' = k .. k
        BY <3>2, <3>3, <3>5, <3>6, <3>7
      <4>2. QED
        BY <3>2, <4>1 DEF Contiguous
    <3>8. CASE k > 1
      <4>1. k - 1 \in Index
        BY <3>8, TesterAssumption DEF Index
      <4>2. k - 1 \in Have(i)
        BY <1>4, <3>8, <4>1 DEF PrevOk, Have
      <4>3. k - 1 = lastApplied[i][1] /\ m <= k - 1
        BY <3>2, <3>3, <3>6, <4>2
      <4>4. Have(i)' = m .. k
        BY <3>3, <3>5, <3>6, <4>3
      <4>5. QED
        BY <3>2, <4>4 DEF Contiguous
    <3>9. QED
      BY <3>6, <3>7, <3>8
  <2>5. QED
    BY <2>3, <2>4
<1>5. QED
  BY <1>3, <1>4

\* applierSnap on a snapshot: it stands for everything before it.
LEMMA SnapInstallContiguous ==
    ASSUME SnapInv, NEW i \in Server, NEW g \in Gen, NEW k \in Index, NEW v \in Cmd,
           applierSnapInstall(i, g, k, v)
    PROVE  Contiguous(i)'
<1>1. TesterTypeOK /\ lastApplied \in [Server -> [Gen -> Index \cup {0}]]
  BY DEF SnapInv
<1>2. /\ logs' = [logs EXCEPT ![i] = [n \in Index |-> IF n = k THEN v ELSE None]]
      /\ lastApplied' = [lastApplied EXCEPT ![i][g] = k]
      /\ applier' = applier
      /\ applier[i][g] = "reading"
  BY DEF applierSnapInstall, Receives
<1>3. logs'[i] = [n \in Index |-> IF n = k THEN v ELSE None]
  BY <1>1, <1>2 DEF TesterTypeOK
<1>4. Have(i)' = {k}
  BY <1>3, TesterAssumption DEF Have
<1>5. CASE g = 1
  <2>1. lastApplied'[i][1] = k
    BY <1>1, <1>2, <1>5
  <2>2. {k} = k .. k
    BY DEF Index
  <2>3. QED
    BY <1>4, <2>1, <2>2 DEF Contiguous
<1>6. CASE g # 1
  BY <1>2, <1>6 DEF Contiguous, RestartedSince
<1>7. QED
  BY <1>5, <1>6

\* The first instance of every server starts with an empty log.
LEMMA SnapInit == Init => SnapInv
<1> SUFFICES ASSUME Init PROVE SnapInv
  OBVIOUS
<1>1. TesterTypeOK
  BY ReadersInit DEF ReadersInv
<1>2. lastApplied \in [Server -> [Gen -> Index \cup {0}]]
  BY DEF Init
<1>3. 1 \in Gen /\ 1 \in Index
  BY TesterAssumption DEF Gen, Index
<1>4. ASSUME NEW i \in Server PROVE Contiguous(i)
  <2>1. Have(i) = {}
    BY DEF Have, Init
  <2>2. lastApplied[i][1] = 0
    BY <1>3 DEF Init
  <2>3. 1 .. 0 = {}
    OBVIOUS
  <2>4. QED
    BY <1>3, <2>1, <2>2, <2>3 DEF Contiguous
<1>5. QED
  BY <1>1, <1>2, <1>4, SnapshotByServer DEF SnapInv

\* No step of readers, restarts and tests disturbs it.
LEMMA SnapNext == ReadersInv /\ SnapInv /\ [Next]_vars => SnapInv'
<1> SUFFICES ASSUME ReadersInv, SnapInv, [Next]_vars PROVE SnapInv'
  OBVIOUS
<1>1. /\ TesterTypeOK
      /\ lastApplied \in [Server -> [Gen -> Index \cup {0}]]
      /\ snapshots => \A i \in Server : Contiguous(i)
  BY SnapshotByServer DEF SnapInv
<1>2. TesterTypeOK'
  BY ReadersNext DEF ReadersInv
<1>3. SUFFICES /\ lastApplied' \in [Server -> [Gen -> Index \cup {0}]]
               /\ snapshots' => \A i \in Server : Contiguous(i)'
  BY <1>2, SnapshotByServer DEF SnapInv, SnapshotThenCommands, Contiguous, Have, RestartedSince
<1>4. ASSUME NEW i \in Server, NEW g \in Gen, NEW k \in Index, NEW v \in Cmd,
             applierSnapCommand(i, g, k, v) \/ applierSnapInstall(i, g, k, v)
      PROVE  /\ lastApplied' \in [Server -> [Gen -> Index \cup {0}]]
             /\ snapshots' => \A j \in Server : Contiguous(j)'
  <2>1. snapshots /\ lastApplied' = [lastApplied EXCEPT ![i][g] = k]
    BY <1>4 DEF applierSnapCommand, applierSnapInstall
  <2>2. Contiguous(i)'
    BY <1>1, <1>4, <2>1, SnapCommandContiguous, SnapInstallContiguous
  <2>3. exited' = exited
    BY <1>4 DEF applierSnapCommand, applierSnapInstall
  <2>4. /\ \A j \in Server \ {i} : /\ logs'[j] = logs[j]
                                   /\ lastApplied'[j] = lastApplied[j]
                                   /\ applier'[j] = applier[j]
        /\ \A h \in Gen \ {g} : applier'[i][h] = applier[i][h]
        /\ applier[i][g] = "reading"
    BY <1>1, <1>4 DEF applierSnapCommand, applierSnapInstall, checkLogs, TesterTypeOK, Receives
  <2>5. Noticed => Noticed'
    BY <2>3, <2>4 DEF Noticed
  <2>6. ASSUME NEW j \in Server \ {i} PROVE Contiguous(j)'
    BY <1>1, <2>1, <2>4, <2>5, ContiguousKept
  <2>7. QED
    BY <1>1, <2>1, <2>2, <2>6
<1>5. CASE ~ snapshots /\ UNCHANGED <<snapshots, lastApplied>>
  BY <1>1, <1>5
<1>6. CASE /\ UNCHANGED <<snapshots, logs, lastApplied>>
           /\ Noticed => Noticed'
           /\ \A i \in Server, g \in Gen : applier[i][g] # "none" => applier'[i][g] # "none"
  BY <1>1, <1>6, ContiguousKept
<1>7. ASSUME NEW i \in Server, NEW g \in Gen, start1(i, g)
      PROVE  /\ lastApplied' \in [Server -> [Gen -> Index \cup {0}]]
             /\ snapshots' => \A j \in Server : Contiguous(j)'
  <2>1. /\ UNCHANGED <<snapshots, logs, lastApplied, exited>>
        /\ applier' = [applier EXCEPT ![i][g] = "reading"]
        /\ applier[i][g] = "none"
    BY <1>7 DEF start1
  <2>2. \A j \in Server, h \in Gen : applier[j][h] # "none" => applier'[j][h] = applier[j][h]
    BY <1>1, <2>1 DEF TesterTypeOK
  <2>3. QED
    BY <1>6, <2>1, <2>2 DEF Noticed
<1>8. CASE Readers
  <2>1. ASSUME NEW i \in Server, NEW g \in Gen, Fatal(i, g)
        PROVE  /\ UNCHANGED <<snapshots, logs, lastApplied, applier>>
               /\ Noticed'
    BY <2>1 DEF Fatal, Noticed
  <2>2. ASSUME NEW i \in Server, NEW g \in Gen, NEW k \in Index, NEW v \in Cmd,
               applierCommand(i, g, k, v)
        PROVE  ~ snapshots /\ UNCHANGED <<snapshots, lastApplied>>
    BY <2>2 DEF applierCommand
  <2>3. QED
    BY <1>4, <1>5, <1>6, <1>7, <1>8, <2>1, <2>2 DEF Readers
<1>9. CASE UNCHANGED <<snapshots, logs, applier, lastApplied, exited>>
  BY <1>6, <1>9 DEF Noticed
<1>10. CASE Test
  BY <1>9, <1>10 DEF Test, TestStep, one, Started, oneGivesUp, wait, nCommitted, oneReturns,
     oneAgain, waitAgain, waitMovedOn, waitReturns, TestGoesOn
<1>11. QED
  BY <1>8, <1>9, <1>10 DEF Next, vars

\* applierSnap: until a server is restarted, its log is a snapshot, or nothing,
\* and the commands after it up to lastApplied, or an error was noticed.
THEOREM SnapshotsThenCommands == Spec => []SnapshotThenCommands
<1>1. SnapInv => SnapshotThenCommands
  BY DEF SnapInv
<1>2. QED
  BY <1>1, SnapInit, SnapNext, ReadersInvariant, PTL DEF Spec

-----------------------------------------------------------------------------
(* What one and wait return.                                               *)

\* The servers that nCommitted has looked at and that have what it found.
Seen == {i \in Server : i < test.next /\ logs[i][test.index] = test.found}

\* The servers that have the result of one or wait at its index.
HaveResult == {i \in Server : logs[i][test.index] = test.result}

Call == [by : {None, "one", "wait"},
         pc : {"idle", "start", "scan", "returned", "failed"},
         cmd : Cmd \cup {None}, n : Nat, retry : BOOLEAN, index : Index, next : Nat,
         count : Nat, found : Cmd \cup {None}, last : BOOLEAN, result : Cmd \cup {None}]

TestTypeOK ==
    /\ test \in Call
    /\ test.pc \in {"start", "scan"} => test.n > 0
    /\ test.pc = "start" => test.count = 0

\* nCommitted has counted no more servers than have the command it found.
CountedSeen ==
    ~ snapshots /\ test.pc = "scan" =>
       test.count = 0 \/ (test.found # None /\ test.count <= Cardinality(Seen)) \/ Noticed

TestInv == TestTypeOK /\ CountedSeen /\ ReturnedIsCommitted

\* Without snapshots no entry goes away and none is replaced by another
\* command, unless that is noticed.
EntriesKept ==
    /\ snapshots' = snapshots
    /\ Noticed => Noticed'
    /\ ~ snapshots => \/ Noticed'
                      \/ \A i \in Server, k \in Index :
                            logs[i][k] # None => logs'[i][k] = logs[i][k]

\* checkLogs, Fatal and start1 as the test sees them.
LEMMA ReadersKeepEntries ==
    ASSUME TesterTypeOK, Readers
    PROVE  EntriesKept /\ test' = test
<1>1. ASSUME NEW i \in Server, NEW g \in Gen, NEW k \in Index, NEW v \in Cmd,
             applierCommand(i, g, k, v)
      PROVE  EntriesKept /\ test' = test
  <2>1. /\ logs' = [logs EXCEPT ![i][k] = v]
        /\ applier' = [applier EXCEPT ![i][g] =
                         IF Disagrees(i, k, v) \/ ~ PrevOk(i, k) THEN "failing" ELSE @]
        /\ UNCHANGED <<snapshots, exited, test>>
        /\ applier[i][g] = "reading"
    BY <1>1 DEF applierCommand, checkLogs, Receives
  <2>2. \A j \in Server, h \in Gen : applier[j][h] = "failing" => applier'[j][h] = "failing"
    BY <2>1 DEF TesterTypeOK
  <2>3. Noticed => Noticed'
    BY <2>1, <2>2 DEF Noticed
  <2>4. CASE Disagrees(i, k, v)
    <3>1. applier'[i][g] = "failing"
      BY <2>1, <2>4 DEF TesterTypeOK
    <3>2. Noticed'
      BY <3>1 DEF Noticed
    <3>3. QED
      BY <2>1, <2>3, <3>2 DEF EntriesKept
  <2>5. CASE ~ Disagrees(i, k, v)
    <3>1. logs[i][k] \in {None, v}
      BY <2>5 DEF Disagrees
    <3>2. \A j \in Server, n \in Index : logs[j][n] # None => logs'[j][n] = logs[j][n]
      BY <2>1, <3>1 DEF TesterTypeOK
    <3>3. QED
      BY <2>1, <2>3, <3>2 DEF EntriesKept
  <2>6. QED
    BY <2>4, <2>5
<1>2. ASSUME NEW i \in Server, NEW g \in Gen, NEW k \in Index, NEW v \in Cmd,
             applierSnapCommand(i, g, k, v) \/ applierSnapInstall(i, g, k, v)
      PROVE  EntriesKept /\ test' = test
  <2>1. snapshots /\ UNCHANGED <<snapshots, exited, test>>
    BY <1>2 DEF applierSnapCommand, applierSnapInstall
  <2>2. \A j \in Server, h \in Gen : applier[j][h] = "failing" => applier'[j][h] = "failing"
    BY <1>2 DEF applierSnapCommand, applierSnapInstall, checkLogs, Receives, TesterTypeOK
  <2>3. Noticed => Noticed'
    BY <2>1, <2>2 DEF Noticed
  <2>4. QED
    BY <2>1, <2>3 DEF EntriesKept
<1>3. ASSUME NEW i \in Server, NEW g \in Gen, Fatal(i, g)
      PROVE  EntriesKept /\ test' = test
  BY <1>3 DEF Fatal, EntriesKept, Noticed
<1>4. ASSUME NEW i \in Server, NEW g \in Gen, start1(i, g)
      PROVE  EntriesKept /\ test' = test
  <2>1. UNCHANGED <<snapshots, logs, exited, test>>
    BY <1>4 DEF start1
  <2>2. \A j \in Server, h \in Gen : applier[j][h] = "failing" => applier'[j][h] = "failing"
    BY <1>4 DEF start1, TesterTypeOK
  <2>3. QED
    BY <2>1, <2>2 DEF EntriesKept, Noticed
<1>5. QED
  BY <1>1, <1>2, <1>3, <1>4 DEF Readers

\* Readers that go on while nCommitted is under way, or after it returned,
\* only add to what was counted.
LEMMA ReadersKeepTest ==
    ASSUME TestInv, EntriesKept, test' = test
    PROVE  TestInv'
<1>1. TestTypeOK'
  BY DEF TestInv, TestTypeOK
<1>2. IsFiniteSet(Server)
  BY FS_Interval, TesterAssumption DEF Server
<1>3. IsFiniteSet(Seen') /\ IsFiniteSet(HaveResult')
  BY <1>2, FS_Subset DEF Seen, HaveResult
<1>4. ASSUME ~ snapshots, ~ Noticed', test.pc = "scan", test.count # 0
      PROVE  test.found # None /\ test.count <= Cardinality(Seen')
  <2>1. test.found # None /\ test.count <= Cardinality(Seen)
    BY <1>4 DEF TestInv, CountedSeen, EntriesKept
  <2>2. Seen \subseteq Seen'
    BY <1>4, <2>1 DEF Seen, EntriesKept, TestInv, TestTypeOK, Call
  <2>3. Cardinality(Seen) <= Cardinality(Seen')
    BY <1>3, <2>2, FS_Subset
  <2>4. Cardinality(Seen) \in Nat /\ Cardinality(Seen') \in Nat
    BY <1>3, <2>2, FS_Subset, FS_CardinalityType
  <2>5. QED
    BY <2>1, <2>3, <2>4 DEF TestInv, TestTypeOK, Call
<1>5. CountedSeen'
  BY <1>4 DEF CountedSeen, EntriesKept
<1>6. ASSUME ~ snapshots, ~ Noticed', test.pc = "returned", test.result # None
      PROVE  Cardinality(HaveResult') >= test.n
  <2>1. Cardinality(HaveResult) >= test.n
    BY <1>6 DEF TestInv, ReturnedIsCommitted, EntriesKept, HaveResult
  <2>2. HaveResult \subseteq HaveResult'
    BY <1>6 DEF HaveResult, EntriesKept, TestInv, TestTypeOK, Call
  <2>3. Cardinality(HaveResult) <= Cardinality(HaveResult')
    BY <1>3, <2>2, FS_Subset
  <2>4. Cardinality(HaveResult) \in Nat /\ Cardinality(HaveResult') \in Nat
    BY <1>3, <2>2, FS_Subset, FS_CardinalityType
  <2>5. QED
    BY <2>1, <2>3, <2>4 DEF TestInv, TestTypeOK, Call
<1>7. ReturnedIsCommitted'
  BY <1>6 DEF ReturnedIsCommitted, EntriesKept, HaveResult
<1>8. QED
  BY <1>1, <1>5, <1>7 DEF TestInv

\* nCommitted looks at one server more.
LEMMA NCommittedStep ==
    ASSUME TesterTypeOK, TestInv, nCommitted
    PROVE  TestInv'
<1> DEFINE entry == logs[test.next][test.index]
           bad == entry # None /\ test.count > 0 /\ test.found # entry
<1>1. /\ test.pc = "scan"
      /\ test.next \in Server
      /\ UNCHANGED <<snapshots, logs, applier, exited>>
      /\ test' = [test EXCEPT !.next = @ + 1,
                              !.pc = IF bad THEN "failed" ELSE @,
                              !.count = IF entry # None THEN @ + 1 ELSE @,
                              !.found = IF entry # None THEN entry ELSE @]
  BY DEF nCommitted, TestStep
<1>2. test \in Call /\ test.n > 0
  BY <1>1 DEF TestInv, TestTypeOK
<1>3. test.index \in Index /\ test.next \in Nat /\ test.count \in Nat
      /\ test.n \in Nat /\ test.found \in Cmd \cup {None}
  BY <1>2 DEF Call
<1>4. entry \in Cmd \cup {None}
  BY <1>1, <1>3 DEF TesterTypeOK
<1> HIDE DEF entry
<1>5. /\ test'.next = test.next + 1
      /\ test'.pc = IF bad THEN "failed" ELSE "scan"
      /\ test'.count = IF entry # None THEN test.count + 1 ELSE test.count
      /\ test'.found = IF entry # None THEN entry ELSE test.found
      /\ test'.index = test.index
      /\ test'.n = test.n
  BY <1>1, <1>2 DEF Call
<1> HIDE DEF bad
<1>6. TestTypeOK'
  <2>1. /\ test.next + 1 \in Nat
        /\ (IF bad THEN "failed" ELSE test.pc) \in {"scan", "failed"}
        /\ (IF entry # None THEN test.count + 1 ELSE test.count) \in Nat
        /\ (IF entry # None THEN entry ELSE test.found) \in Cmd \cup {None}
    BY <1>1, <1>3, <1>4
  <2>2. test' \in Call
    BY <1>1, <1>2, <2>1 DEF Call
  <2>3. QED
    BY <1>2, <1>5, <2>2 DEF TestTypeOK
<1>7. Noticed' = Noticed /\ logs' = logs /\ snapshots' = snapshots
  BY <1>1 DEF Noticed
<1>8. ReturnedIsCommitted'
  BY <1>5 DEF ReturnedIsCommitted
<1>9. CountedSeen'
  <2> SUFFICES ASSUME ~ snapshots, ~ Noticed, ~ bad, test'.count # 0
               PROVE  test'.found # None /\ test'.count <= Cardinality(Seen')
    BY <1>5, <1>7 DEF CountedSeen
  <2>1. IsFiniteSet(Server)
    BY FS_Interval, TesterAssumption DEF Server
  <2>2. IsFiniteSet(Seen') /\ IsFiniteSet(Seen)
    BY <2>1, FS_Subset DEF Seen
  <2>3. Cardinality(Seen') \in Nat /\ Cardinality(Seen) \in Nat
    BY <2>2, FS_CardinalityType
  <2>4. test.count = 0 \/ (test.found # None /\ test.count <= Cardinality(Seen))
    BY <1>1 DEF TestInv, CountedSeen
  <2>5. CASE entry = None
    <3>1. test'.count = test.count /\ test'.found = test.found
      BY <1>5, <2>5
    <3>2. Seen \subseteq Seen'
      BY <1>3, <1>5, <1>7, <3>1, TesterAssumption DEF Seen, Server
    <3>3. Cardinality(Seen) <= Cardinality(Seen')
      BY <2>2, <3>2, FS_Subset
    <3>4. QED
      BY <1>3, <2>3, <2>4, <3>1, <3>3
  <2>6. CASE entry # None
    <3>1. test'.count = test.count + 1 /\ test'.found = entry
      BY <1>5, <2>6
    <3>2. test.next \in Seen'
      BY <1>1, <1>3, <1>5, <1>7, <3>1 DEF Seen, entry
    <3>3. CASE test.count = 0
      <4>1. {test.next} \subseteq Seen'
        BY <3>2
      <4>2. Cardinality({test.next}) = 1
        BY FS_Singleton
      <4>3. Cardinality({test.next}) <= Cardinality(Seen')
        BY <2>2, <4>1, FS_Subset
      <4>4. QED
        BY <2>6, <3>1, <3>3, <4>2, <4>3
    <3>4. CASE test.count # 0
      <4>1. test.found = entry
        BY <1>3, <2>6, <3>4 DEF bad
      <4>2. Seen \cup {test.next} \subseteq Seen'
        BY <1>3, <1>5, <1>7, <3>1, <3>2, <4>1, TesterAssumption DEF Seen, Server
      <4>3. test.next \notin Seen
        BY <1>3 DEF Seen
      <4>4. Cardinality(Seen \cup {test.next}) = Cardinality(Seen) + 1
        BY <2>2, <4>3, FS_AddElement
      <4>5. Cardinality(Seen \cup {test.next}) <= Cardinality(Seen')
        BY <2>2, <4>2, FS_Subset
      <4>6. QED
        BY <1>3, <2>3, <2>4, <2>6, <3>1, <3>4, <4>4, <4>5
    <3>5. QED
      BY <3>3, <3>4
  <2>7. QED
    BY <2>5, <2>6
<1>10. QED
  BY <1>6, <1>8, <1>9 DEF TestInv

\* one and wait return after a scan that counted enough servers.
LEMMA ReturnStep ==
    ASSUME TesterTypeOK, TestInv, oneReturns \/ waitReturns
    PROVE  TestInv'
<1>1. /\ test.pc = "scan"
      /\ test.next \notin Server
      /\ UNCHANGED <<snapshots, logs, applier, exited>>
  BY DEF oneReturns, waitReturns, Counted, TestStep
<1>2. test \in Call /\ test.n > 0
  BY <1>1 DEF TestInv, TestTypeOK
<1>3. /\ test'.index = test.index
      /\ test'.n = test.n
      /\ test'.pc \in {"failed", "returned"}
      /\ test'.pc = "returned" =>
            test.count >= test.n /\ test'.result = test.found
      /\ test' \in Call
  <2>1. CASE oneReturns
    BY <1>2, <2>1 DEF oneReturns, Agreed, Call
  <2>2. CASE waitReturns
    <3>1. test' = [test EXCEPT !.pc = IF test.count < test.n THEN "failed" ELSE "returned",
                               !.result = test.found]
      BY <2>2 DEF waitReturns
    <3>2. test.count \in Nat /\ test.n \in Nat /\ test.found \in Cmd \cup {None}
      BY <1>2 DEF Call
    <3>3. CASE test.count < test.n
      BY <1>2, <3>1, <3>2, <3>3 DEF Call
    <3>4. CASE test.count >= test.n
      BY <1>2, <3>1, <3>2, <3>4 DEF Call
    <3>5. QED
      BY <3>2, <3>3, <3>4
  <2>3. QED
    BY <2>1, <2>2
<1>4. TestTypeOK' /\ CountedSeen'
  BY <1>3 DEF TestTypeOK, CountedSeen
<1>5. Noticed' = Noticed /\ logs' = logs /\ snapshots' = snapshots
  BY <1>1 DEF Noticed
<1>6. ASSUME ~ snapshots, ~ Noticed, test'.pc = "returned"
      PROVE  Cardinality(HaveResult') >= test.n
  <2>1. IsFiniteSet(Server)
    BY FS_Interval, TesterAssumption DEF Server
  <2>2. IsFiniteSet(HaveResult') /\ IsFiniteSet(Seen)
    BY <2>1, FS_Subset DEF Seen, HaveResult
  <2>3. test.count \in Nat /\ test.n \in Nat /\ test.count # 0
    BY <1>2, <1>3, <1>6 DEF Call
  <2>4. test.count <= Cardinality(Seen)
    BY <1>1, <1>6, <2>3 DEF TestInv, CountedSeen
  <2>5. Seen \subseteq HaveResult'
    BY <1>3, <1>5, <1>6 DEF Seen, HaveResult
  <2>6. Cardinality(Seen) <= Cardinality(HaveResult')
    BY <2>2, <2>5, FS_Subset
  <2>7. Cardinality(Seen) \in Nat /\ Cardinality(HaveResult') \in Nat
    BY <2>2, FS_CardinalityType
  <2>8. QED
    BY <1>3, <1>6, <2>3, <2>4, <2>6, <2>7
<1>7. ReturnedIsCommitted'
  BY <1>3, <1>5, <1>6 DEF ReturnedIsCommitted, HaveResult
<1>8. QED
  BY <1>4, <1>7 DEF TestInv

\* The other steps of one and wait start, restart or give up a scan.
LEMMA TestQuietStep ==
    ASSUME TestInv, Test, ~ nCommitted, ~ oneReturns, ~ waitReturns
    PROVE  TestInv'
<1>1. test \in Call
  BY DEF TestInv, TestTypeOK
<1>2. Idle \in Call
  BY TesterAssumption DEF Idle, Call, Index
<1>3. SUFFICES /\ test' \in Call
               /\ test'.pc \in {"start", "scan"} => test'.n > 0 /\ test'.count = 0
               /\ test'.pc = "returned" => test'.result = None
  BY <1>3 DEF TestInv, TestTypeOK, CountedSeen, ReturnedIsCommitted
<1>4. ASSUME NEW cmd \in Cmd, NEW n \in Server, NEW retry \in BOOLEAN, one(cmd, n, retry)
      PROVE  test' \in Call /\ test'.pc = "start" /\ test'.n > 0 /\ test'.count = 0
  <2>1. n \in Nat /\ n > 0
    BY TesterAssumption DEF Server
  <2>2. test' = [Idle EXCEPT !.by = "one", !.pc = "start", !.cmd = cmd, !.n = n,
                             !.retry = retry]
    BY <1>4 DEF one
  <2>3. test' \in Call
    BY <1>2, <2>1, <2>2 DEF Call
  <2>4. QED
    BY <2>1, <2>2, <2>3 DEF Idle
<1>5. ASSUME NEW index \in Index, Started(index)
      PROVE  test' \in Call /\ test'.pc = "scan" /\ test'.n > 0 /\ test'.count = 0
  BY <1>1, <1>5 DEF Started, Call, TestInv, TestTypeOK
<1>6. ASSUME oneGivesUp
      PROVE  test' \in Call /\ test'.pc = "failed"
  BY <1>1, <1>6 DEF oneGivesUp, Call
<1>7. ASSUME NEW index \in Index, NEW n \in Server, wait(index, n)
      PROVE  test' \in Call /\ test'.pc = "scan" /\ test'.n > 0 /\ test'.count = 0
  <2>1. n \in Nat /\ n > 0
    BY TesterAssumption DEF Server
  <2>2. test' = [Idle EXCEPT !.by = "wait", !.pc = "scan", !.index = index, !.n = n]
    BY <1>7 DEF wait
  <2>3. test' \in Call
    BY <1>2, <2>1, <2>2 DEF Call
  <2>4. QED
    BY <2>1, <2>2, <2>3 DEF Idle
<1>8. ASSUME oneAgain \/ waitAgain
      PROVE  /\ test' \in Call
             /\ test'.pc \in {"start", "scan", "failed"}
             /\ test'.n > 0 /\ test'.count = 0
  <2>1. test.pc = "scan" /\ test.n > 0
    BY <1>8 DEF oneAgain, waitAgain, Counted, TestInv, TestTypeOK
  <2>2. ASSUME NEW last \in BOOLEAN, Rescan(last)
        PROVE  /\ test' \in Call
               /\ test'.pc \in {"start", "scan", "failed"}
               /\ test'.n > 0 /\ test'.count = 0
    BY <1>1, <2>1, <2>2 DEF Rescan, Call
  <2>3. CASE test' = [test EXCEPT !.pc = IF test.retry THEN "start" ELSE "failed",
                                  !.next = 1, !.count = 0, !.found = None]
    <3>1. (IF test.retry THEN "start" ELSE "failed") \in {"start", "failed"}
      OBVIOUS
    <3>2. QED
      BY <1>1, <2>1, <2>3, <3>1 DEF Call
  <2>4. (test.count >= test.n) \in BOOLEAN
    BY <1>1 DEF Call
  <2>5. QED
    BY <1>8, <2>2, <2>3, <2>4 DEF oneAgain, waitAgain
<1>9. ASSUME waitMovedOn
      PROVE  test' \in Call /\ test'.pc = "returned" /\ test'.result = None
  BY <1>1, <1>9 DEF waitMovedOn, Call
<1>10. ASSUME TestGoesOn
       PROVE  test' \in Call /\ test'.pc = "idle"
  BY <1>2, <1>10 DEF TestGoesOn, Idle
<1>11. QED
  BY <1>4, <1>5, <1>6, <1>7, <1>8, <1>9, <1>10 DEF Test

\* No call is under way when the test begins.
LEMMA TestInit == Init => TestInv
BY TesterAssumption DEF Init, TestInv, TestTypeOK, CountedSeen, ReturnedIsCommitted, Idle, Call, Index

\* Every step of the readers and of the test.
LEMMA TestNext == ReadersInv /\ TestInv /\ [Next]_vars => TestInv'
<1> SUFFICES ASSUME ReadersInv, TestInv, [Next]_vars PROVE TestInv'
  OBVIOUS
<1>1. TesterTypeOK
  BY DEF ReadersInv
<1>2. CASE Readers
  BY <1>1, <1>2, ReadersKeepEntries, ReadersKeepTest
<1>3. CASE Test
  BY <1>1, <1>3, NCommittedStep, ReturnStep, TestQuietStep
<1>4. CASE UNCHANGED vars
  BY <1>4, ReadersKeepTest DEF vars, EntriesKept, Noticed
<1>5. QED
  BY <1>2, <1>3, <1>4 DEF Next

\* one and wait: a command that they return is at its index on as many servers
\* as the test asked for, for any interleaving of scan and readers.
THEOREM ReturnedCommandsAreCommitted == Spec => []ReturnedIsCommitted
<1>1. TestInv => ReturnedIsCommitted
  BY DEF TestInv
<1>2. QED
  BY <1>1, TestInit, TestNext, ReadersInvariant, PTL DEF Spec
=============================================================================
