# Verification of lab_6_824: Raft, its network and its checkers

The repository holds the labs of MIT 6.824 in Go. What is its own is the Raft
library `src/src/raft/raft.go` and the MapReduce of `src/src/mr`; around them
stand what the labs provide and every test relies on: the simulated network
(`labrpc`), the encoder (`labgob`), the test harness (`raft/config.go`) and the
linearizability checker (`porcupine`). The key/value and sharding services are
stubs.

This directory has TLA+ modules of these parts, TLC configurations that check
them on small instances, and proofs of the properties that carry most weight,
checked by TLAPS for every value of the constants. `PROJECT.json` lists
components, runs, mutants, hazards, findings and theorems, and maps every
definition to the lines it models.

Paths below are relative to `src/src/`.

## Inventory

| component | state | operations | hard behaviour | what makes it correct |
|---|---|---|---|---|
| Raft peer, `raft/raft.go` | term, vote, leader, log suffix, what was cut from it, commit and apply indexes, next/match indexes | `startElection`, `sendAERpcs`, their senders, `RequestVote`, `AppendEntries`, `InstallSnapshot`, `findMaxN`, `Start`, `doSnapshot`, `applyLogToRsm`, `Make` | `cond.Wait` gives up the mutex while votes and acknowledgements come in; senders time out while their request is still on its way; two `persist()` calls in one critical section; log and snapshot saved at different times | one winner per term, votes and terms survive crashes, committed entries stay on a majority's disks, services get one log in order, a leader that stays brings them up to date, no index out of range |
| Persister, `raft/persister.go` | Raft state, snapshot | `SaveRaftState`, `SaveStateAndSnapshot`, `Copy` | what a crash finds | disk follows memory |
| Test harness, `raft/config.go` | instances, client ends, `cfg.logs` | `crash1`, `start1`, `connect`, `disconnect`, `applier`, `applierSnap`, `checkLogs`, `nCommitted`, `wait`, `one` | an instance cannot be stopped and goes on next to its successor; logs are read server by server | an old instance has no effect; what goes wrong is noticed; what `one` returns is committed |
| Network, `labrpc/labrpc.go` | ends, servers, calls in progress | `Call`, `processReq`, `Enable`, `AddServer`, `DeleteServer`, `Reliable`, `LongReordering`, `Cleanup` | lost, delayed, reordered messages; servers replaced during a call | a positive reply means the update survives; `Call` returns |
| Encoder, `labgob/labgob.go` | types checked, error count | `Encode`, `Decode`, `checkType`, `checkDefault` | goroutines share the table of types; default values do not overwrite | complains once, warns about a reused variable |
| Checker, `porcupine/`, `models/kv.go` | search per key: list, stack, cache, bitset | `checkParallel`, `checkSingle`, `lift`, `unlift`, bitset | undoing in exact reverse order; kill flag, timeout and results race | the verdict is linearizability |
| Report, `porcupine/visualization.go` | partial linearizations of a finished check | `computeVisualizationData` | searches that were killed, and what the cache kept them from trying | what it shows of an operation is a longest legal order |
| MapReduce, `mr/` | finished and issued tasks | `GetTask`, `FinishNotify`, `Worker` | workers ask, finish and report concurrently | tasks are handed out once, the job ends |
| Harnesses of the services, `kvraft/config.go`, `shardctrler/config.go`, `shardkv/config.go` | clerks and their ends | `makeClient`, `ConnectClient`, `DisconnectClient`, `ShutdownServer`, `StartServer` | a clerk's ends outlive the servers they lead to | a clerk's acknowledged update survives |
| kvraft, shardctrler, shardkv | none yet: handlers without bodies | | | not modelled |
| `main/`, `mrapps/`, `script/`, HTML and scripts of the report | | programs, text processing | | not modelled |

How they interact: a service calls `Start` and reads `applyCh`; Raft peers call
each other through `labrpc` ends and save through a persister; `labrpc` encodes
every request and reply with `labgob`, as `persist()` does; the harness owns
ends, servers and persisters and replaces all three when it restarts a server;
porcupine judges histories of the key/value tests.

## Modules

`Raft.tla` is the core. A step is one critical section of `rf.mu`. Where the
code gives up the mutex the model is cut: a round of `startElection` or
`sendAERpcs` is *spawn*, per peer *build the request* and *use the reply*, and
*the tail after the last sender finished* (`startElectionEnd`,
`sendAERpcsEnd`). The local variables that live across such a cut are state:
`ticker` holds the round's kind, its term and who answered yes; `call[i][j]`
holds the sender goroutine for peer j with its request or reply.
`InstallSnapshotSender` keeps the mutex during its RPC, and `Unlocked` makes
everybody else at that peer wait. `late` holds requests whose sender gave up
after `RPCTimeout` and that may still be executed. `Restart` is a crash and a
`Make` from the disk; a crash may also fall between the two saves that one
critical section makes (`HalfSaved`). `logs` is `cfg.logs`, `next` the index
`ApplyMsgSender` passes on next, `snapReq` the goroutines of `Snapshot` and
`InstallSnapshot` that have yet to run `doSnapshot`. `voted`, `won` and `chosen`
are history variables: votes given, campaigns won, and the log of commands that
some `findMaxN` has found committed. Slice accesses that could be out of range are predicates
(`HandlerPanics`, `WorkerPanics`, `ApplierPanics`, `doSnapshotPanics`,
`findMaxNPanics`): `NoIndexPanic` says that none is about to happen.

`AgreedLog.tla` is the abstract specification of what Raft promises its services:
one log that only grows, and each service is given its commands in order, or a
snapshot in place of the first of them, and after a restart once more from a
command that it has or from the start. It says nothing of terms, leaders and
disks. `RaftAgreement.tla` is the refinement: the abstract log is `chosen`, what a
service has been given is `logs`, and its position is `next`. Every critical
section of `Raft.tla` must be a step of `AgreedLog` or leave its three variables
alone (`ImplementsAgreedLog`).

`Labrpc.tla` has the network and the parts of the harnesses that crash and
restart servers behind it and connect clerks to them. Generation g of node i is the server, the Raft and
the persister of the g-th `start1(i)` and the ends it was given; a crashed
generation goes on making calls and executing handlers. `readEndnameInfo`,
`dispatch`, `poll`, `processReply` and `AfterFunc` are the stages of
`processReq`; `connect`, `disconnect`, `crash1`, `DeleteServer`, `Copy`,
`start1` and `AddServer` those of the harness. A clerk (`ClientEnd`,
`ConnectClient`, `DisconnectClient`, from `kvraft/config.go`) has one set of ends
for good, which a crash of the server does not disable: for it, only the identity
of the server that `isServerDead` compares stands between a late reply and the
caller.

`RaftTester.tla` has the checks of the harness. Raft is arbitrary in it: any
message on any `applyCh`, any index from `Start`. That over-approximates every
Raft, and the tester is there for those that go wrong. `nCommitted` is one step
per server, since it takes `cfg.mu` once per server; a reader that found an
error is `"failing"` between the unlock and `log.Fatalf`.

`Porcupine.tla` has `checkParallel`, one `checkSingle` per key, the linked list
with `lift` and `unlift`, and the key/value model. Its reference is
`Linearizable`, the definition by legal orders. `Bitset.tla` has the bitset of
words of W bits in which a search keeps what it has linearized and by which the
cache looks up, so a history is checked with the words the code would have.
`Scopes` says which histories a run looks at; `Init` picks one of them. It gives
the operations and whether the check is verbose or timed; `Shapes` are all the
ways in which that many operations may overlap, and `Partition` counts the
operations of a key from 0, by their rank (`Rank`), as `makeEntries` does.
`Visualization.tla` is `computeVisualizationData` on the linearizations of a
verbose check: their order, the replay through the model, which panics on an
invalid one, and the choice of the linearization to show for an operation.

`Labgob.tla` has goroutines inside `checkType` and `checkDefault`; gob itself is
external and known by the one thing labgob is about: a default value is not
sent and does not overwrite. Types are known by their components, which must be
types again (`TypesClosed`), and a value has finitely many leaves
(`FiniteValues`). `Reachable`, the types that `checkType` has to get to, is the
least set that contains the types sent and is closed under components.

`MapReduce.tla` has coordinator and workers. The package does not compile as
committed (`mr/worker.go:103` has a method without a body), so the module
follows the code of the handlers and of the part of the worker that is there.

`MC*.tla` instantiate these for TLC. The proofs are in `RaftElectionProofs.tla`,
`RaftServiceProofs.tla`, which extends it with logs, disks and deliveries,
`RaftReignProofs.tla`, which extends both with the history of one leader's log, and
`RaftDurableProofs.tla`, which extends that with the ends of logs and disks; in
`LabrpcProofs.tla`, `RaftTesterProofs.tla` and `LabgobProofs.tla`; and those of the
checker and its report in `PorcupineProofs.tla`.

## Runs

| run | instance | checks |
|---|---|---|
| `RaftLateVotes` | 3 peers, all campaign in one term, all may crash, one late request | `CampaignUnique`, `VoteSurvivesCrash`, `TermsGrow` |
| `RaftReplicate` | 3 peers, two leaders in two terms, two commands for one index | `TypeOK`, `ApplyAgree`, `CommittedIsDurable`, `LeaderCompleteness`, `NoIndexPanic`, `ImplementsAgreedLog` |
| `RaftSnapshot` | 3 peers, one leader, two entries, snapshot every second entry, a lagging peer | `NoLostDelivery`, `LogDurable`, `ImplementsAgreedLog` |
| `RaftCatchUp` | 2 peers, a leader that may crash and lead again, four entries, two snapshots, lost messages, with fairness | `CatchUp`, `ImplementsAgreedLog` |
| `Labrpc` | two nodes of two generations, a clerk, one call, with fairness of the network | `AckedSurvives`, `OldInstanceSilent`, `CallReturns` |
| `Tester` | 2 servers, one of which is restarted, 2 indexes, 2 commands, with and without snapshots | `DivergenceCaught`, `NoGaps`, `ReturnedIsCommitted`, `SnapshotThenCommands` |
| `Porcupine` | histories of up to 3 operations on one key, those of 4 with a put and a get, one of 5, and of up to 3 on two keys with and without `computeInfo`, under a timeout | `VerdictCorrect`, `ListIsPending`, `PartialsLegal`, `ReportExplains`, `CheckReturns` |
| `LabgobTypes` | 2 goroutines, 2 uses each, types that refer to each other and to themselves | `ComplainedOnce`, `StaleWarned`, `CheckEnds` |

Runs that show a disagreement of code and comment: `RaftTwoLeaders`,
`RaftLateAppend`, `RaftSnapshotCrash`, `MapReduceEnds`.

Sizes of the larger ones, in distinct states: `Tester` 1.3 million, `Labrpc`
770,000, `RaftReplicate` 479,000, `Porcupine` 368,000, `RaftSnapshot` 348,000,
`RaftCatchUp` 133,000.

### Bounds

Raft. Three peers are the smallest number with a majority that is not
everybody, and the number most tests use. Two terms are what a deposed leader
and its successor need; an entry that both of them append is at index 1, and
snapshots need two entries, of which one is cut. `RaftCatchUp` has two peers, with
which every commit needs the follower that lags, and four entries: two snapshots,
and an index between them to which a leader that restarts from the first can back
up. `Candidates` and `Crashable`
limit who campaigns and who crashes, and the symmetry sets contain only peers
with equal roles. `MaxTerm`, `MaxIndex` and `MaxLate` appear in the guards of
`startElection`, `Start` and `RPCTimeout` alone. These bounds make the model
stop where the code would go on, so deadlock is not checked in Raft's runs.

The timing environment of Raft is explicit. A peer that does not lead may time
out whenever it likes. `CampaignsOverlap` and `AppendsOverlap` say whether
rounds of different peers may overlap, and `MaxLate` how many requests outlive
their `RPCTimeout`. Elections are checked and proved without these restrictions.
Replication and snapshots are checked with rounds that do not overlap
(`CampaignsOverlap`, `AppendsOverlap` FALSE, `MaxLate` 0): election timers are
800 to 1800 ms, a round ends after at most 150 ms, and the ticker sleeps 50 ms,
so this is the usual course of events, but nothing in the code enforces it. Where
it fails, the runs `RaftTwoLeaders` and `RaftLateAppend` show what happens; the
replication properties do not hold without the restriction.

Labrpc. Two nodes and two generations of each: one call can be sent by a clerk, by
an old or a new instance, to an old or a new one, with a crash between any two
stages. A
second call would only add interleavings, since calls share no state but the
maps. Deadlock is checked: the tester can always go on.

RaftTester. Two indexes are what a gap, a wrong index or a snapshot that runs
ahead of a command needs, and two servers what a disagreement needs; `Restarted`
has one of them, so that the reader of an old instance meets its successor and a
server that was never restarted. `DivergenceCaught` and `NoGaps` cover readers of
both kinds: the only entries that are exempt are the ones a snapshot stands for
(`installed`), which `applierSnap` takes over without comparing them with other
servers. `ReturnedIsCommitted` is about tests without snapshots, since a snapshot
drops older entries.
Deadlock is not checked: the test process ends.

Porcupine. Four operations are the fewest with which a search makes two
tentative choices, undoes both and finds another way; with W = 2 they end inside a
word, at its end and one after it. The history of five (`Split`) is the smallest
kind in which the longest legal orders of two operations have different lengths,
without which any choice of what to show would do. The verdict ends a run of the checker, so
deadlock is not checked. Labgob: `MaxUses` ends a run, so deadlock is not
checked; two uses show a variable that is used again. The reply has two integers:
`checkDefault1` does not look into slices, maps and structs below depth 3, where
old contents survive without a warning.

### Fairness

Safety runs assume none. `Raft!FairSpec`, for `RaftCatchUp`: goroutines that can
go on do so (the round of a peer, its senders up to the call, the applier and
`doSnapshot`; weak fairness), and a sender that waits gets a reply or runs into
`time.After(RPCTimeout)` (weak). The network may lose any message but not all of
them: strong fairness says that where a leader calls a peer again and again, its
requests are executed again and again, and answered in time again and again.
`labrpc` drops a tenth of the requests and of the replies of an unreliable network,
so this is almost certain of a leader that is connected, and without it no leader
could do anything. Elections, commands, crashes and losses get no fairness.

`Labrpc!FairSpec` lets the goroutine of each call go on
when it can; handlers and tester get no fairness, since `Call` promises to return
without them except while a handler runs. `Porcupine!FairSpec` lets searches and
the collecting loop go on; the timer need not expire. `Labgob!FairSpec` lets a
goroutine inside labgob go on. These are goroutines of a preemptive scheduler,
and each action they take stays enabled until taken, so weak fairness is what
the runtime gives. `MapReduce!Spec` gives the workers more than they have,
they never die and always go on, and the job still does not end.

## What the runs found

1. `RaftTwoLeaders`: `startElection` compares the votes of its old term after
   `cond.Wait` and makes itself leader of whatever term it is in by then, which
   may be led by another peer. `CampaignUnique` is what does hold, and is proved.
2. `RaftLateAppend`: `AppendEntries` cuts the log after `PrevLogIndex` also when
   it already holds the entries of the request, so a late, shorter request removes
   entries that were acknowledged and committed.
3. `RaftSnapshotCrash`: `InstallSnapshot` cuts the log and a later `persist()`
   saves it, while the snapshot is saved by a goroutine of its own; a crash in
   between leaves a log that begins after a snapshot nobody has.
4. `MapReduceEnds`: a finished task is marked unfinished and the issue time of a
   task is never set, so every worker gets the first map task for ever.

Two more limits of the code that no comment speaks about:

- `InstallSnapshot` moves `lastAppliedIndex` past `commitIndex`; if that peer
  becomes leader, `findMaxN` reads a negative index. To reproduce it, check
  `NoIndexPanic` with the constants of `RaftSnapshot`, `MaxTerm = 2`,
  `Candidates = {s1, s2}` and `MaxIndex = 1`. `RaftReplicate` checks
  `NoIndexPanic` without snapshots, and `RaftSnapshot` has one leader.
- Replication can stand still under one leader. On a rejection `nextIndex` becomes
  `min(lastApplied + 1, nextIndex / 2)`. A leader that was restarted from a
  snapshot behind that of a follower can so arrive at an index that the follower
  has cut and the leader has not; the follower rejects every such round,
  `nextIndex` never grows on a rejection, and the leader sees no reason to send a
  snapshot. `CatchUp` excludes exactly this state (`Overshot`) and says that
  nothing else keeps a leader that stays from bringing every service up to date.

## Proofs

`RaftElectionProofs` proves `CampaignsUnique`, `VotesSurviveCrashes` and
`TermsOnlyGrow` for any finite set of peers, any bounds, overlapping rounds, late
requests and crashes at any point, `HalfSaved` included. The assumptions are
those named in `Raft.tla`. The inductive invariant is `ElectionInv`:

- `Saved`: term and vote are on disk after every critical section. Without it
  nothing is known after a restart.
- `VotesOnce`, `VotesHeld`: a peer votes once in a term and remembers that it has
  voted as long as it is in that term.
- `VoteOrLeader`: `AppendEntries` and `InstallSnapshot` overwrite `voteFor` with
  the leader. That is harmless because `voteFor` is never `Nil` then, and a second
  vote request that matches it would have to come from a peer that had claimed
  this very term, which `Leads` and `ClaimsPast` exclude.
- `Counted`, `CallsOK`, `LateOK`: votes counted, replies on their way and requests
  that outlived their sender are all backed by `voted`, and requests of a leader
  by a claim.
- `WonByVotes`: every campaign won has a majority of voters; `MajoritiesMeet`
  makes two of them share one.

`LabrpcProofs` proves `AckedUpdatesSurvive` and `OldInstancesSilent` for any
nodes, clerks, calls and generations. `LabrpcInv` adds to them that a name is served by
the latest generation until it is deleted (`ServedByLatest`), that of the servers'
ends only those of a latest generation that is not cut off are enabled
(`EndsOfLatest`; clerks' ends may be enabled at any time), that a call
runs on a generation that has been started (`Served`) and has saved there when its
handler returned (`HandlerSaved`). `ServedByLatest` decides that a reply
passes `isServerDead` only while its server is the one the next instance will be
copied from, for clerks as for servers; `EndsOfLatest` that an old instance is
silent; the last is needed because `start1` writes a persister, which must not be
one that a handler has already written.

`RaftServiceProofs` proves `TypesHold`, `LogsAreDurable` and `NothingIsLost`, again
for any constants. `ServiceInv`, which uses `ElectionInv`, has

- the types of logs, indexes, disks, deliveries and message bodies (`LogOK`,
  `IndexOK`, `DeliveryOK`, `BodiesOK`). They are not obvious where the code
  computes an index: `nextIndex` is halved, `findMaxN` looks for a maximum, and a
  snapshot is sent only by who has cut its log (`SenderOK`);
- `DurableAt`: the disk is what memory is, unless a snapshot that moved
  `lastAppliedIndex` still waits for its `doSnapshot` (`Installing`);
- `InStepAt`: `ApplyMsgSender` waits for the index after `lastApplied`, with the
  same exception.

That `findMaxN` has a maximum to find needs induction on indexes, which is done by
a least counterexample (`LeastNat`, from the well-foundedness of `<`).

`RaftReignProofs` is about the log while one peer campaigns: `Reign(l)` says that
`Candidates` has nobody but l. l may win any number of terms, lose its lead to a
round of its own, and crash, as may its followers; requests get lost, late and
repeated; snapshots are taken and sent. `RaftSnapshot` and `RaftCatchUp` are
instances. The invariant `ReignInv` says that there is a history G of entries of
which every log, every disk and the entries of every request are slices
(`LogSlices`, `Carries`), that its commands are `chosen` as far as that goes
(`HistoryOK`), that services have only what was chosen (`ServedAt`), that l has
the end of G in memory and on disk, and the snapshot of what it has cut
(`LeaderAt`), and that nobody else has a round or a lead (`Alone`). G is bound by
the quantifier of the invariant, since nobody keeps it: the leader has cut its
beginning and the followers lack its end. From it follow

- `ServicesAgree`: the services never get different commands for an index;
- `OneReignImplements`: the refinement of `AgreedLog`. Each kind of step has its
  lemma: a commit appends to the abstract log (`CommitChooses`), the applier
  delivers its next command (`ApplyDelivers`), `doSnapshot` installs what is chosen
  (`SnapshotInstalls`), a restart goes back to a command the service has or to the
  start (`RestartRewinds`, `RestartStartsOver`), and everything else leaves the
  abstract variables alone (`OthersStutter`). The hypothesis is that nobody but l
  crashes or that no snapshots are taken (`Uncut`): a follower that dies after
  `InstallSnapshot` restarts from a snapshot that nobody saved, which is what
  `RaftSnapshotCrash` shows;
- `AgreedLogAgrees`: the abstract specification by itself is enough for
  `ApplyAgree`, so the refinement is not weaker than what `checkLogs` asks for.

Without `Reign(l)` these are not theorems. `RaftTwoLeaders` has the reason; with
three candidates it does not even take overlapping rounds: a campaigner with a
majority adopts a newer term from a reply, claims that term, and later grants its
vote of it to somebody else. `RaftReplicate` checks them for two candidates.

`RaftDurableProofs` is about where logs and disks end. Besides `Reign(l)` it needs
`MaxLate = 0`: a request is answered, lost or given up before the next one to that
peer is sent. `RaftLateAppend` shows what happens otherwise, with one leader: an old
request cuts what was acknowledged. Rounds, terms, crashes of anybody, snapshots and
requests that are lost or time out are as in `RaftReignProofs`. `DurableInv` adds to
the history G of `ReignInv`, for the same G (`KeptWith`):

- `Quiet`: only l has goroutines that call, and every request has one that waits;
- `TermsAt`: the term of the last entry cut is that of the history, so that
  `AppendEntries` never finds a conflict (`NoConflict`);
- `EndsAt`: what is committed or about to be cut is in the log, and the disk ends
  where the log does, or the log ends in a snapshot that l has;
- `CallAt`: a request that was sent reaches at least to the end of its receiver's
  log, so that the cut in `AppendEntries` removes nothing and logs and disks only
  grow, but for a restart between `InstallSnapshot` and `doSnapshot`; one that
  succeeded reaches no further than the receiver's disk or l's snapshot;
- `MatchAt`: `matchIndex` is right about entries of the current term. About older
  ones it is not: `startElection` sets it to the end of the leader's log, which is a
  guess. It does no harm because `findMaxN` counts entries of `currentTerm` only,
  and those come after the guess (`FreshAt`);
- `LeaderEnds`: l has committed what it cut and looks no further than its log;
- `ChosenDurable`: a majority of disks reaches every committed index.

Of these only `ChosenDurable` is the goal; `MatchAt` is what a commit needs of it,
`CallAt` what a reply needs for `MatchAt`, and `EndsAt` and `TermsAt` what the
handlers need for `CallAt`. From `DurableInv` follow

- `CommittedStaysDurable`: an entry below a disk's end is that of G, so a majority
  of disks that reach an index holds what any peer has there;
- `LeadersComplete`: nobody but l leads, and its log is the end of G;
- `NoPanics`: each of the five places where the code slices or indexes `Log` stays
  inside it.

`RaftTesterProofs` proves
`DivergenceIsCaught` and `GapsAreCaught` for readers with and without snapshots,
for any number of servers, instances, indexes and commands. The invariant is the
conjunction of the two and a type invariant: both are inductive, since a reader
records and checks under one lock, an error that was found is not forgotten, and a
snapshot leaves an entry that is exempt. `SnapshotsThenCommands` adds where a log
begins and ends (`SnapInv`). `ReturnedCommandsAreCommitted` is about a count that
is taken server by server while readers go on: `CountedSeen` says that what
`nCommitted` has counted so far is no more than the servers it has passed that
have its command (`Seen`), which stays true because an entry is not overwritten by
another without an error (`EntriesKept`).

`LabgobProofs` proves `FieldsCountedOnce` for any types, which may refer to
themselves and each other, and any number of goroutines. The invariant is a
balance: complaints counted and complaints that wait on the stacks of the
goroutines make up the lower-case components of the types recorded (`Balance`).
`Covered` says that no type is passed over, since its components are recorded or
wait on some stack, not necessarily that of the goroutine that met it; `Found`
that none is recorded that was not to be sent. When all stacks are empty the types
recorded are `Reachable` and the balance is the claim. `StaleRepliesAreWarned` has
the hypothesis that `checkDefault1` gets to every leaf of the value; without it,
`LeavesAreWarned` is what holds.

`PorcupineProofs` proves the four safety properties of the checker for any keys,
any operations, any overlap of them (`Shapes`), any word size of the bitset, with
and without `computeInfo`, kills and timeouts. The assumptions are that words have
bits (`WordAssumption`) and what `Scopes` consists of (`ScopesAssumption`).

The invariant `SearchInv` of one search looks at all depths of its stack, not only
at the top, because `backtrack` goes back to what was there:

- `StackOK`, `LegalOK`: the stack is a legal order of different operations;
- `BitsOK`: the bits are the operations on the stack (`BitFacts`: setting and
  clearing a bit of a word touches no other);
- `ListOK`: the list links what is pending, and a node that was taken out at some
  depth still has the links it needs to fit in at that depth (`Fits`). That is what
  `unlift` relies on, and why the order in which it puts nodes back matters;
- `TriedOK`: at every depth all calls before the entry under consideration have
  been tried, so what they lead to is known (`Known`, the configurations in the
  cache);
- `ClosedOK`: a known configuration is on the stack or closed, which means that
  every legal next operation leads to a known one, that it is not complete, and in a
  verbose check that for each of its operations an order at least as long is kept.
  A return at the front of the list closes the configuration on top
  (`ReturnCloses`): no operation that is called after it can come next;
- `LongestOK`, `TrueOK`: the orders kept are legal and contain their operation, and
  a search that returned true has ordered everything.

`LoopInv` is about `checkParallel`: it counts what it took from the channel, `ok`
speaks of all of that, and an illegal partition was not killed, because nothing is
before the loop ends. From the two follow

- `ListHolds` and `PartialsHold`, which are parts of `SearchInv` in other words;
- `VerdictHolds`. *Illegal*: when a search is through, everything it knows is
  closed, so every legal order of the whole history, restricted to that key, stays
  in known configurations (`Covered`) and none is complete (`Refuted`). *Ok*: the
  orders of the partitions merge into one of the whole history (`MergeAll`). Take
  the operation that returns first of those that are left; what comes next in the
  order of its partition is called before that return, hence before any operation
  that is left returns, and so can come next in the merged order
  (`MergeNext`, `MergeStep`). This is the locality of linearizability that the
  comment on `Partition` asks of a model. It needs that `Partition` keeps
  operations, their order and their results (`PartitionFacts`, `Embeds`) and that
  the history begins with entries that match (`EntriesWhole`);
- `ReportHolds`. Replaying an order of one key goes through the states in which it
  is legal (`ReplayIs`). For a legal order o of a partition, the configuration that
  it ends in is known (`Covered`, with the partition as the whole) and so each of
  its operations has an order kept that is as long (`LongestCovers`); the first
  linearization in sorted order that contains it is a longest (`LargestShown`).

Recursive functions (`StateAfter`, `LegalOrders`, `Replay`) are reasoned about by
their equation: a function that satisfies it exists, by induction on its length,
hence the one that the definition chooses does too. Induction is over sets of
numbers (`NatSetInduction`), which needs no operator as a parameter.

Only model-checked:

- `ApplyAgree`, `ImplementsAgreedLog`, `CommittedIsDurable`, `LeaderCompleteness` and
  `NoIndexPanic` for more than one campaigner, see above.
- The liveness properties `CatchUp`, `CallReturns`, `CheckReturns` and `CheckEnds`:
  liveness under fairness is out of the prover's reach.

## Not modelled

- kvraft, shardctrler and shardkv servers: their handlers have no bodies, so there
  is no behaviour to translate. Of the clerks, that of kvraft is a stub too, that of
  shardctrler takes the first zero reply for the configuration, and that of shardkv
  finds no group in it and never sends a request.
- Their harnesses, but for clerks: `ShutdownServer` and `StartServer` take the
  steps of `crash1` and `start1`. `connectUnlocked` does not ask whether the other
  server is up; the tests call it only when all are. The ends that shardkv's
  `make_end` gives a server are never disabled, but no server asks for one.
- `checkOneLeader`, `checkTerms`, `checkNoLeader`: one reading per server of what
  `Raft.tla` states as invariants. Statistics, byte counters, timing of delays.
- `labrpc` reflection and dispatch by name, `LongDelays`, which only changes how
  long a failing call waits.
- Encodings: a request, an entry and a snapshot are values. That encoding does not
  alias is what labgob is for.
- Workers of MapReduce that die: the job already does not end when none does.
- The HTML, scripts and texts of porcupine's page, the programs in `main`, the
  MapReduce applications and scripts.
- An empty history, on which `checkParallel` waits for ever without a timeout: no
  test records one.

## Plan

Done: elections, replication, snapshots and restarts of Raft, the abstract log and
its refinement, progress of replication; network, harness and clerks; the readers
and `one`; porcupine and its report; labgob; MapReduce; the proofs above.

Next: Raft behind `RaftTester`'s readers, with the reader of an old instance that
still asks for snapshots. Both are checked on their own: the readers against any
Raft, Raft with the service of the harness built in.
