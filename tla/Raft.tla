-------------------------------- MODULE Raft --------------------------------
(***************************************************************************)
(* The Raft peers of src/src/raft/raft.go, with the persister that outlives *)
(* them, the unreliable RPC layer between them and the service of           *)
(* src/src/raft/config.go that consumes applyCh and asks for snapshots.     *)
(*                                                                          *)
(* A step is one critical section of rf.mu.  startElection and sendAERpcs   *)
(* release the mutex in cond.Wait, and their sender goroutines release it   *)
(* around the RPC, so each is cut there: spawn, build the request, use the  *)
(* reply, finish.  InstallSnapshotSender keeps the mutex during its RPC.    *)
(*                                                                          *)
(* Log[i][k] is rf.Log[k-1] of the code.  The entry with log index n is     *)
(* Log[i][n - lastAppliedIndex[i]]; index 0 holds the dummy entry of Make.  *)
(***************************************************************************)
EXTENDS Integers, Sequences, FiniteSets

CONSTANTS
    Server,           \* the indices of peers[]
    Command,          \* what the service passes to Start
    Nil,              \* -1 as a peer index, nil as a command
    SnapShotInterval, \* config.go's constant; 0 when the service never snapshots
    MaxTerm,          \* bound: no peer campaigns beyond this term
    MaxIndex,         \* bound: Start appends no entry beyond this index
    MaxLate,          \* bound on requests that outlive their RPCTimeout
    Candidates,       \* the peers whose election timer ever expires
    Crashable,        \* the peers the tester may crash and start again
    CampaignsOverlap, \* may a campaign start while another one is running?
    AppendsOverlap    \* may an AppendEntries round overlap another round?

ASSUME ServerAssumption ==
    /\ IsFiniteSet(Server)
    /\ Nil \notin Server
    /\ Nil \notin Command
    /\ Candidates \subseteq Server
    /\ Crashable \subseteq Server

ASSUME BoundAssumption ==
    /\ MaxTerm \in Nat
    /\ MaxIndex \in Nat
    /\ MaxLate \in Nat
    /\ SnapShotInterval \in Nat
    /\ CampaignsOverlap \in BOOLEAN
    /\ AppendsOverlap \in BOOLEAN

VARIABLES
    currentTerm, voteFor, leaderId,              \* type Raft, lines 85-89
    Log, lastAppliedIndex, lastAppliedTerm,      \* log suffix and what was cut
    commitIndex, lastApplied,
    nextIndex, matchIndex,
    raftstate, snapshot,  \* type Persister: what a restarted peer reads
    ticker,     \* the round ticker() waits for: its kind, term and counter
    call,       \* call[i][j]: i's sender goroutine for peer j
    late,       \* requests whose sender gave up but that may still arrive
    snapReq,    \* goroutines started by Snapshot() that wait for the mutex
    next,       \* ApplyMsgSender's local: the index it passes on next
    logs,       \* cfg.logs: the commands the service got, by index
    voted,      \* history: <<v, t, c>>, c got v's first vote of term t
    won,        \* history: campaigns won, with the term claimed by winning
    chosen      \* history: the commands that were ever committed, by index

electionVars == <<currentTerm, voteFor, leaderId>>
logVars      == <<Log, lastAppliedIndex, lastAppliedTerm>>
applyVars    == <<commitIndex, lastApplied>>
leaderVars   == <<nextIndex, matchIndex>>
serviceVars  == <<snapReq, next, logs>>
historyVars  == <<voted, won, chosen>>
vars == <<electionVars, logVars, applyVars, leaderVars, raftstate, snapshot,
          ticker, call, late, serviceVars, historyVars>>

-----------------------------------------------------------------------------
Peers(i) == Server \ {i}

\* count > int64(len(rf.peers)/2)
Majority(S) == Cardinality(S) > Cardinality(Server) \div 2

LastLogIndex(i) == Len(Log[i]) + lastAppliedIndex[i]

LastLogTerm(i) ==
    IF Log[i] # <<>> THEN Log[i][Len(Log[i])].Term ELSE lastAppliedTerm[i]

\* The entry with log index n, for n in lastAppliedIndex + 1 .. LastLogIndex.
EntryAt(i, n) == Log[i][n - lastAppliedIndex[i]]

Minimum(a, b) == IF a > b THEN b ELSE a

RaftState(i) ==
    [currentTerm |-> currentTerm[i], voteFor |-> voteFor[i], Log |-> Log[i],
     lastAppliedIndex |-> lastAppliedIndex[i],
     lastAppliedTerm |-> lastAppliedTerm[i]]

\* SaveRaftState with the values the critical section leaves behind.
persist(i) == raftstate' = [raftstate EXCEPT ![i] = RaftState(i)']

SaveStateAndSnapshot(i, value) ==
    persist(i) /\ snapshot' = [snapshot EXCEPT ![i] = value]

-----------------------------------------------------------------------------
(* Sender goroutines and the network.                                      *)

Finished == [st |-> "finished"]
Spawned(rpc) == [st |-> "spawned", rpc |-> rpc]
Sent(m) == [st |-> "sent", args |-> m]
Replied(m, r) == [st |-> "replied", args |-> m, reply |-> r]
\* The server instance the request was sent to was deleted.
Lost(m) == [st |-> "lost", args |-> m]

\* Requests that a peer may still execute.
Requests ==
    late \cup {call[p[1]][p[2]].args :
                  p \in {q \in Server \X Server : call[q[1]][q[2]].st = "sent"}}

\* i's goroutine for j waits for an answer to an rpc request.
Waits(i, j, rpc) ==
    /\ call[i][j].st \in {"sent", "replied", "lost"}
    /\ call[i][j].args.rpc = rpc

\* InstallSnapshotSender holds rf.mu from building args to reading the reply.
Unlocked(i) == \A j \in Server : ~ Waits(i, j, "InstallSnapshot")

\* The handler of m ran: its reply goes to the sender if that still waits.
Answer(m, reply) ==
    \/ /\ call[m.from][m.to] = Sent(m)
       /\ call' = [call EXCEPT ![m.from][m.to] = Replied(m, reply)]
       /\ UNCHANGED late
    \/ /\ m \in late
       /\ late' = late \ {m}
       /\ UNCHANGED call

Finish(i, j) == call' = [call EXCEPT ![i][j] = Finished]

AllFinished(i) == \A j \in Peers(i) : call[i][j] = Finished

Idle == [kind |-> "idle", term |-> 0, yes |-> {}]

\* The reply does not come within RPCTimeout, or Call returned false; the
\* sender stops waiting.  The request was executed, is lost, or comes late: its
\* handler may still wait for the mutex of the peer.
RPCTimeout(i, j) ==
    /\ call[i][j].st \in {"sent", "replied", "lost"}
    /\ Unlocked(i) \/ Waits(i, j, "InstallSnapshot")
    /\ Finish(i, j)
    /\ \/ UNCHANGED late
       \/ /\ call[i][j].st = "sent"
          /\ Cardinality(late) < MaxLate
          /\ late' = late \cup {call[i][j].args}
    /\ UNCHANGED <<electionVars, logVars, applyVars, leaderVars, raftstate,
                   snapshot, ticker, serviceVars, historyVars>>

-----------------------------------------------------------------------------
(* Elections.                                                              *)

Campaigning(i) == ticker[i].kind = "election"

\* The timing of the environment: which rounds of other peers may still be
\* running when a round starts.
CampaignAllowed(i) ==
    \A k \in Peers(i) :
       /\ Campaigning(k) => CampaignsOverlap
       /\ ticker[k].kind = "append" => AppendsOverlap

AppendAllowed(i) == AppendsOverlap \/ \A k \in Peers(i) : ticker[k] = Idle

\* ticker() finds itself not leading and its timer expired.  The timer is
\* random, so it may have expired whenever the peer is not the leader.
ElectionDue(i) ==
    /\ ticker[i] = Idle
    /\ Unlocked(i)
    /\ leaderId[i] # i
    /\ i \in Candidates
    /\ currentTerm[i] < MaxTerm
    /\ CampaignAllowed(i)

startElection(i) ==
    /\ ElectionDue(i)
    /\ currentTerm' = [currentTerm EXCEPT ![i] = @ + 1]
    /\ voteFor' = [voteFor EXCEPT ![i] = i]
    /\ leaderId' = [leaderId EXCEPT ![i] = Nil]
    /\ ticker' = [ticker EXCEPT ![i] =
                    [kind |-> "election", term |-> currentTerm[i] + 1, yes |-> {i}]]
    /\ call' = [call EXCEPT ![i] =
                  [j \in Server |->
                     IF j = i THEN Finished ELSE Spawned("RequestVote")]]
    /\ voted' = voted \cup {<<i, currentTerm[i] + 1, i>>}
    /\ UNCHANGED <<logVars, applyVars, leaderVars, snapshot, late,
                   serviceVars, won, chosen>>
    /\ persist(i)

RequestVoteArgs(i, j) ==
    [rpc |-> "RequestVote", from |-> i, to |-> j, Term |-> currentTerm[i],
     LastLogIndex |-> LastLogIndex(i), LastLogTerm |-> LastLogTerm(i)]

\* electionSender up to the Call: a changed term ends it at once.
electionSenderCall(i, j) ==
    /\ call[i][j] = Spawned("RequestVote")
    /\ Unlocked(i)
    /\ call' = [call EXCEPT ![i][j] =
                  IF currentTerm[i] # ticker[i].term
                  THEN Finished ELSE Sent(RequestVoteArgs(i, j))]
    /\ UNCHANGED <<electionVars, logVars, applyVars, leaderVars, raftstate,
                   snapshot, ticker, late, serviceVars, historyVars>>

\* electionSender after a reply within RPCTimeout.
electionSenderReply(i, j) ==
    LET r == call[i][j].reply
        current == currentTerm[i] = ticker[i].term
        newer == current /\ r.Term > currentTerm[i]
    IN  /\ Waits(i, j, "RequestVote")
        /\ call[i][j].st = "replied"
        /\ Unlocked(i)
        /\ Finish(i, j)
        /\ currentTerm' = [currentTerm EXCEPT ![i] = IF newer THEN r.Term ELSE @]
        /\ voteFor' = [voteFor EXCEPT ![i] = IF newer THEN Nil ELSE @]
        /\ ticker' = [ticker EXCEPT ![i].yes =
                        IF current /\ r.VoteGranted THEN @ \cup {j} ELSE @]
        /\ UNCHANGED <<leaderId, logVars, applyVars, leaderVars, snapshot,
                       late, serviceVars, historyVars>>
        /\ IF newer THEN persist(i) ELSE UNCHANGED raftstate

\* RequestVote's vote after a newer term was adopted.
VoteBefore(m) ==
    IF m.Term > currentTerm[m.to] THEN Nil ELSE voteFor[m.to]

\* Mutant: RequestVote without the comparison of the last entries.
UpToDateAlways(m) == TRUE

UpToDate(m) ==
    \/ m.LastLogTerm > LastLogTerm(m.to)
    \/ /\ m.LastLogTerm = LastLogTerm(m.to)
       /\ m.LastLogIndex >= LastLogIndex(m.to)

\* Mutant: RequestVote without the test of voteFor.
VoteGrantedTwice(m) == m.Term >= currentTerm[m.to] /\ UpToDate(m)

VoteGranted(m) ==
    /\ m.Term >= currentTerm[m.to]
    /\ VoteBefore(m) \in {Nil, m.from}
    /\ UpToDate(m)

\* Mutant: the persist() of the vote is forgotten.
VoteSavesTermOnly(m) == m.Term > currentTerm[m.to]

\* RequestVote went through updateCurrentTerm or updateVoteFor.
VoteSaves(m) == m.Term > currentTerm[m.to] \/ VoteGranted(m)

\* The RequestVote handler of peer m.to.
RequestVote(m) ==
    LET j == m.to
        newer == m.Term > currentTerm[j]
    IN  /\ m.rpc = "RequestVote"
        /\ Unlocked(j)
        /\ Answer(m, [Term |-> currentTerm[j], VoteGranted |-> VoteGranted(m)])
        /\ currentTerm' = [currentTerm EXCEPT ![j] = IF newer THEN m.Term ELSE @]
        /\ voteFor' = [voteFor EXCEPT ![j] =
                         IF VoteGranted(m) THEN m.from ELSE VoteBefore(m)]
        /\ leaderId' = [leaderId EXCEPT ![j] = IF newer THEN Nil ELSE @]
        /\ voted' = IF VoteGranted(m) /\ \A c \in Server : <<j, m.Term, c>> \notin voted
                    THEN voted \cup {<<j, m.Term, m.from>>} ELSE voted
        /\ UNCHANGED <<logVars, applyVars, leaderVars, snapshot, ticker,
                       serviceVars, won, chosen>>
        /\ IF VoteSaves(m) THEN persist(j) ELSE UNCHANGED raftstate

\* nextIndex and matchIndex of a new leader or a new instance.
NextIndexes(i) == [j \in Server |-> LastLogIndex(i) + 1]
MatchIndexes(i) == [j \in Server |-> LastLogIndex(i)]

\* startElection after its last sender finished: a majority makes i leader of
\* whatever term it is in by now.
startElectionEnd(i) ==
    LET win == Majority(ticker[i].yes)
    IN  /\ Campaigning(i)
        /\ AllFinished(i)
        /\ Unlocked(i)
        /\ leaderId' = [leaderId EXCEPT ![i] = IF win THEN i ELSE @]
        /\ nextIndex' = [nextIndex EXCEPT ![i] = IF win THEN NextIndexes(i) ELSE @]
        /\ matchIndex' = [matchIndex EXCEPT ![i] = IF win THEN MatchIndexes(i) ELSE @]
        /\ ticker' = [ticker EXCEPT ![i] = Idle]
        /\ won' = IF win
                  THEN won \cup {[campaign |-> ticker[i].term, leader |-> i,
                                  claimed |-> currentTerm[i]]}
                  ELSE won
        /\ UNCHANGED <<currentTerm, voteFor, logVars, applyVars, raftstate,
                       snapshot, call, late, serviceVars, voted, chosen>>

-----------------------------------------------------------------------------
(* Replication.                                                            *)

\* Where the next AppendEntries to j starts is already cut from the log.
IsSendSnapshot(i, j) == nextIndex[i][j] - 1 < lastAppliedIndex[i]

\* The round of a sender goroutine is still that of its leader.
SameLeader(i) == currentTerm[i] = ticker[i].term /\ leaderId[i] = i

\* ticker() finds itself leading.  It reads leaderId without the mutex: if it
\* was deposed since, every worker returns at once and the round changes nothing.
sendAERpcs(i) ==
    /\ ticker[i] = Idle
    /\ Unlocked(i)
    /\ leaderId[i] = i
    /\ AppendAllowed(i)
    /\ ticker' = [ticker EXCEPT ![i] =
                    [kind |-> "append", term |-> currentTerm[i], yes |-> {i}]]
    /\ call' = [call EXCEPT ![i] =
                  [j \in Server |->
                     IF j = i THEN Finished
                     ELSE IF IsSendSnapshot(i, j) THEN Spawned("InstallSnapshot")
                     ELSE Spawned("AppendEntries")]]
    /\ UNCHANGED <<electionVars, logVars, applyVars, leaderVars, raftstate,
                   snapshot, late, serviceVars, historyVars>>

AppendEntriesArgs(i, j) ==
    LET prev == nextIndex[i][j] - 1
    IN  [rpc |-> "AppendEntries", from |-> i, to |-> j, Term |-> currentTerm[i],
         PrevLogIndex |-> prev,
         PrevLogTerm |-> IF prev = lastAppliedIndex[i] THEN lastAppliedTerm[i]
                         ELSE EntryAt(i, prev).Term,
         Entries |-> SubSeq(Log[i], prev - lastAppliedIndex[i] + 1, Len(Log[i])),
         LeaderCommit |-> commitIndex[i]]

\* appendRPCWorker would slice Log beyond its end.
WorkerPanics(i, j) ==
    /\ call[i][j] = Spawned("AppendEntries")
    /\ ~ IsSendSnapshot(i, j)
    /\ SameLeader(i)
    /\ nextIndex[i][j] - 1 > LastLogIndex(i)

\* appendRPCWorker up to the Call.
appendRPCWorkerCall(i, j) ==
    /\ call[i][j] = Spawned("AppendEntries")
    /\ Unlocked(i)
    /\ ~ WorkerPanics(i, j)
    /\ call' = [call EXCEPT ![i][j] =
                  IF IsSendSnapshot(i, j) \/ ~ SameLeader(i)
                  THEN Finished ELSE Sent(AppendEntriesArgs(i, j))]
    /\ UNCHANGED <<electionVars, logVars, applyVars, leaderVars, raftstate,
                   snapshot, ticker, late, serviceVars, historyVars>>

\* The common start of AppendEntries and InstallSnapshot: a request that is
\* not of an older term makes its sender the leader and the vote of this peer.
Admitted(m) == m.Term >= currentTerm[m.to]

FollowLeader(m) ==
    IF Admitted(m)
    THEN /\ currentTerm' = [currentTerm EXCEPT ![m.to] = m.Term]
         /\ leaderId' = [leaderId EXCEPT ![m.to] = m.from]
         /\ voteFor' = [voteFor EXCEPT ![m.to] = m.from]
    ELSE UNCHANGED electionVars

\* FollowLeader went through updateCurrentTerm or updateVoteFor.
FollowSaves(m) ==
    /\ Admitted(m)
    /\ m.Term > currentTerm[m.to] \/ voteFor[m.to] # m.from

PrevInRange(m) ==
    m.PrevLogIndex \in lastAppliedIndex[m.to] .. LastLogIndex(m.to)

PrevMatches(m) ==
    m.PrevLogTerm = IF m.PrevLogIndex = lastAppliedIndex[m.to]
                    THEN lastAppliedTerm[m.to]
                    ELSE EntryAt(m.to, m.PrevLogIndex).Term

Success(m) == Admitted(m) /\ PrevInRange(m) /\ PrevMatches(m)

\* The handler cuts the log below a previous entry of another term.
Conflict(m) == Admitted(m) /\ PrevInRange(m) /\ ~ PrevMatches(m)

\* It would then slice Log[:-1].
HandlerPanics(m) ==
    /\ m.rpc = "AppendEntries"
    /\ Conflict(m)
    /\ m.PrevLogIndex = lastAppliedIndex[m.to]

\* A request with entries replaces everything after PrevLogIndex by them.
LogAfter(m) ==
    LET k == m.PrevLogIndex - lastAppliedIndex[m.to]
    IN  IF Conflict(m) THEN SubSeq(Log[m.to], 1, k - 1)
        ELSE IF Success(m) /\ m.Entries # <<>>
        THEN SubSeq(Log[m.to], 1, k) \o m.Entries
        ELSE Log[m.to]

CommitAfter(m) ==
    IF Success(m) /\ m.LeaderCommit > commitIndex[m.to]
    THEN Minimum(m.LeaderCommit, Len(LogAfter(m)) + lastAppliedIndex[m.to])
    ELSE commitIndex[m.to]

\* Mutants: the persist() after the append, or of the new term, is forgotten.
AppendSavesVoteOnly(m) == FollowSaves(m) \/ Conflict(m)
AppendSavesLogOnly(m) == Conflict(m) \/ (Success(m) /\ m.Entries # <<>>)

AppendSaves(m) ==
    FollowSaves(m) \/ Conflict(m) \/ (Success(m) /\ m.Entries # <<>>)

\* The AppendEntries handler of peer m.to.
AppendEntries(m) ==
    LET j == m.to
    IN  /\ m.rpc = "AppendEntries"
        /\ Unlocked(j)
        /\ ~ HandlerPanics(m)
        /\ Answer(m, [Term |-> currentTerm[j], Success |-> Success(m)])
        /\ FollowLeader(m)
        /\ Log' = [Log EXCEPT ![j] = LogAfter(m)]
        /\ commitIndex' = [commitIndex EXCEPT ![j] = CommitAfter(m)]
        /\ UNCHANGED <<lastAppliedIndex, lastAppliedTerm, lastApplied,
                       leaderVars, snapshot, ticker, serviceVars, historyVars>>
        /\ IF AppendSaves(m) THEN persist(j) ELSE UNCHANGED raftstate

\* A reply of a newer term ends the leadership.
StepDown(i, term) ==
    /\ currentTerm' = [currentTerm EXCEPT ![i] = term]
    /\ leaderId' = [leaderId EXCEPT ![i] = Nil]
    /\ voteFor' = [voteFor EXCEPT ![i] = Nil]

\* Mutant: nextIndex one too far after a success.
AdvanceTooFar(i, j) == nextIndex[i][j] + Len(call[i][j].args.Entries) + 1

\* nextIndex after a success.
Advance(i, j) == nextIndex[i][j] + Len(call[i][j].args.Entries)

\* Mutant: back to the entry last applied, not to the one after it.
BackUpTooFar(i, j) == Minimum(lastApplied[i], nextIndex[i][j] \div 2)

\* Mutant: a rejection leaves nextIndex alone.
BackUpNever(i, j) == nextIndex[i][j]

\* nextIndex after a rejection.
BackUp(i, j) == Minimum(lastApplied[i] + 1, nextIndex[i][j] \div 2)

\* appendRPCWorker after a reply within RPCTimeout.
appendRPCWorkerReply(i, j) ==
    LET r == call[i][j].reply
        use == SameLeader(i) /\ r.Term <= currentTerm[i]
    IN  /\ Waits(i, j, "AppendEntries")
        /\ call[i][j].st = "replied"
        /\ Unlocked(i)
        /\ Finish(i, j)
        /\ nextIndex' = [nextIndex EXCEPT ![i][j] =
                           IF ~ use THEN @
                           ELSE IF r.Success THEN Advance(i, j) ELSE BackUp(i, j)]
        /\ matchIndex' = [matchIndex EXCEPT ![i][j] =
                            IF use /\ r.Success THEN Advance(i, j) - 1 ELSE @]
        /\ ticker' = [ticker EXCEPT ![i].yes =
                        IF use /\ r.Success THEN @ \cup {j} ELSE @]
        /\ UNCHANGED <<logVars, applyVars, snapshot, late, serviceVars,
                       historyVars>>
        /\ IF SameLeader(i) /\ ~ use
           THEN StepDown(i, r.Term) /\ persist(i)
           ELSE UNCHANGED <<electionVars, raftstate>>

\* Mutant: a peer is counted one entry too early.
ReplicatedTooEarly(i, N) ==
    Majority({i} \cup {j \in Peers(i) : /\ matchIndex[i][j] >= N - 1
                                        /\ EntryAt(i, N).Term = currentTerm[i]})

\* findMaxN counts a majority for N.
Replicated(i, N) ==
    Majority({i} \cup {j \in Peers(i) : /\ matchIndex[i][j] >= N
                                        /\ EntryAt(i, N).Term = currentTerm[i]})

Committable(i) ==
    {N \in lastAppliedIndex[i] + 1 .. LastLogIndex(i) :
        N > commitIndex[i] /\ Replicated(i, N)}

\* findMaxN counts down to an index that was cut from the log.
findMaxNPanics(i) ==
    /\ Majority(ticker[i].yes)
    /\ Committable(i) = {}
    /\ \E j \in Peers(i) :
          \E N \in commitIndex[i] + 1 .. lastAppliedIndex[i] : matchIndex[i][j] >= N

findMaxN(i) ==
    IF Committable(i) = {} THEN commitIndex[i]
    ELSE CHOOSE N \in Committable(i) : \A M \in Committable(i) : M <= N

\* chosen, once i takes the entries up to N for committed.
ChosenBy(i, N) ==
    [k \in 1 .. (IF N > Len(chosen) THEN N ELSE Len(chosen)) |->
       IF k \in lastAppliedIndex[i] + 1 .. N THEN EntryAt(i, k).Command ELSE chosen[k]]

\* sendAERpcs after its last worker finished.  Neither the term nor the
\* leadership is looked at again.
sendAERpcsEnd(i) ==
    /\ ticker[i].kind = "append"
    /\ AllFinished(i)
    /\ Unlocked(i)
    /\ ~ findMaxNPanics(i)
    /\ commitIndex' = [commitIndex EXCEPT ![i] =
                         IF Majority(ticker[i].yes) THEN findMaxN(i) ELSE @]
    /\ chosen' = ChosenBy(i, commitIndex'[i])
    /\ ticker' = [ticker EXCEPT ![i] = Idle]
    /\ UNCHANGED <<electionVars, logVars, lastApplied, leaderVars, raftstate,
                   snapshot, call, late, serviceVars, voted, won>>

\* Start on a leader; elsewhere it changes nothing.
Start(i, c) ==
    /\ leaderId[i] = i
    /\ Unlocked(i)
    /\ LastLogIndex(i) < MaxIndex
    /\ Log' = [Log EXCEPT ![i] =
                 Append(@, [Term |-> currentTerm[i], Command |-> c])]
    /\ UNCHANGED <<electionVars, lastAppliedIndex, lastAppliedTerm, applyVars,
                   leaderVars, snapshot, ticker, call, late, serviceVars,
                   historyVars>>
    /\ persist(i)

-----------------------------------------------------------------------------
(* Snapshots.                                                              *)

InstallSnapshotArgs(i, j) ==
    [rpc |-> "InstallSnapshot", from |-> i, to |-> j, Term |-> currentTerm[i],
     LastIncludedIndex |-> lastAppliedIndex[i],
     LastIncludedTerm |-> lastAppliedTerm[i], Data |-> snapshot[i]]

\* InstallSnapshotSender up to the Call; from here on it holds the mutex.
InstallSnapshotSenderCall(i, j) ==
    /\ call[i][j] = Spawned("InstallSnapshot")
    /\ Unlocked(i)
    /\ call' = [call EXCEPT ![i][j] =
                  IF SameLeader(i) THEN Sent(InstallSnapshotArgs(i, j))
                  ELSE Finished]
    /\ UNCHANGED <<electionVars, logVars, applyVars, leaderVars, raftstate,
                   snapshot, ticker, late, serviceVars, historyVars>>

\* InstallSnapshotSender after a reply within RPCTimeout.
InstallSnapshotSenderReply(i, j) ==
    LET newer == call[i][j].reply.Term > currentTerm[i]
    IN  /\ Waits(i, j, "InstallSnapshot")
        /\ call[i][j].st = "replied"
        /\ Finish(i, j)
        /\ nextIndex' = [nextIndex EXCEPT ![i][j] =
                           IF newer THEN @ ELSE lastAppliedIndex[i] + 1]
        /\ matchIndex' = [matchIndex EXCEPT ![i][j] =
                            IF newer THEN @ ELSE lastAppliedIndex[i]]
        /\ UNCHANGED <<logVars, applyVars, snapshot, ticker, late, serviceVars,
                       historyVars>>
        /\ IF newer THEN StepDown(i, call[i][j].reply.Term) /\ persist(i)
           ELSE UNCHANGED <<electionVars, raftstate>>

\* The snapshot reaches beyond what this peer has cut.
Ahead(m) == Admitted(m) /\ lastAppliedIndex[m.to] < m.LastIncludedIndex

\* It covers the whole log of this peer.
Covers(m) == Admitted(m) /\ LastLogIndex(m.to) <= m.LastIncludedIndex

\* What InstallSnapshot makes of the log, without saving it.
InstallLog(m) ==
    LET j == m.to
    IN  /\ Log' = [Log EXCEPT ![j] =
                     IF Covers(m) THEN <<>>
                     ELSE IF Ahead(m)
                     THEN SubSeq(@, m.LastIncludedIndex - lastAppliedIndex[j] + 1, Len(@))
                     ELSE @]
        /\ lastAppliedIndex' = [lastAppliedIndex EXCEPT ![j] =
                                  IF Covers(m) \/ Ahead(m) THEN m.LastIncludedIndex ELSE @]
        /\ lastAppliedTerm' = [lastAppliedTerm EXCEPT ![j] =
                                 IF Covers(m) \/ Ahead(m) THEN m.LastIncludedTerm ELSE @]
        /\ lastApplied' = [lastApplied EXCEPT ![j] =
                             IF ~ Covers(m) /\ Ahead(m) THEN m.LastIncludedIndex ELSE @]

\* The InstallSnapshot handler of peer m.to.  doSnapshot is left to a goroutine.
InstallSnapshot(m) ==
    LET j == m.to
    IN  /\ m.rpc = "InstallSnapshot"
        /\ Unlocked(j)
        /\ Answer(m, [Term |-> currentTerm[j]])
        /\ FollowLeader(m)
        /\ InstallLog(m)
        /\ snapReq' = [snapReq EXCEPT ![j] =
                         IF Admitted(m)
                         THEN @ \cup {[index |-> m.LastIncludedIndex, value |-> m.Data]}
                         ELSE @]
        \* updateCurrentTerm and updateVoteFor save the log as it still is
        /\ raftstate' = [raftstate EXCEPT ![j] =
                           IF FollowSaves(m)
                           THEN [RaftState(j) EXCEPT !.currentTerm = m.Term,
                                                     !.voteFor = m.from]
                           ELSE @]
        /\ UNCHANGED <<commitIndex, leaderVars, snapshot, ticker, next, logs,
                       historyVars>>

\* Mutant: ApplyMsgSender waits for the index of the snapshot itself.
NextAfterSame(r) == r.index

\* ApplyMsgSender's next after a snapshot.
NextAfter(r) == r.index + 1

\* doSnapshot would slice Log beyond its end.
doSnapshotPanics(i, r) ==
    r.index >= lastAppliedIndex[i] /\ r.index > LastLogIndex(i)

\* doSnapshot with the mutex: cut the log, save it with the snapshot and hand
\* the snapshot to the service.  An older snapshot is dropped.
doSnapshot(i, r) ==
    LET cut == r.index - lastAppliedIndex[i]
    IN  /\ Unlocked(i)
        /\ snapReq' = [snapReq EXCEPT ![i] = @ \ {r}]
        /\ ~ doSnapshotPanics(i, r)
        /\ UNCHANGED <<electionVars, commitIndex, leaderVars, ticker, call,
                       late, historyVars>>
        /\ IF cut < 0
           THEN UNCHANGED <<logVars, lastApplied, raftstate, snapshot, next, logs>>
           ELSE /\ Log' = [Log EXCEPT ![i] = SubSeq(@, cut + 1, Len(@))]
                /\ lastAppliedIndex' = [lastAppliedIndex EXCEPT ![i] = r.index]
                /\ lastAppliedTerm' = [lastAppliedTerm EXCEPT ![i] =
                                         IF cut = 0 THEN @ ELSE Log[i][cut].Term]
                /\ lastApplied' = [lastApplied EXCEPT ![i] = r.index]
                /\ next' = [next EXCEPT ![i] = NextAfter(r)]
                /\ logs' = [logs EXCEPT ![i] = [k \in {r.index} |-> r.value]]
                /\ SaveStateAndSnapshot(i, r.value)

-----------------------------------------------------------------------------
(* The applier.                                                            *)

\* The indices a batch up to index sends.  Nothing is sent while an installed
\* snapshot is not yet handed over (lastApplied below lastAppliedIndex).
Batch(i, index) ==
    IF lastApplied[i] >= lastAppliedIndex[i] THEN lastApplied[i] + 1 .. index ELSE {}

ApplierPanics(i) == \E k \in Batch(i, commitIndex[i]) : k > LastLogIndex(i)

\* Mutant: ApplyMsgSender passes on whatever it is sent.
PassedAny(i, index) == Batch(i, index)

\* ApplyMsgSender drops every command but the one it expects next.
Passed(i, index) ==
    IF next[i] \in Batch(i, index) THEN next[i] .. index ELSE {}

\* applierSnap ignores index 0.
Received(i, index) == Passed(i, index) \ {0}

\* What checkLogs makes of cfg.logs[i].
checkLogs(i, index) ==
    [k \in DOMAIN logs[i] \cup Received(i, index) |->
       IF k \in Received(i, index) THEN EntryAt(i, k).Command ELSE logs[i][k]]

SnapshotDue(k) ==
    SnapShotInterval # 0 /\ (k + 1) % SnapShotInterval = 0

\* applyLogToRsm with ApplyMsgSender and the service at the other end.  applier
\* reads commitIndex before it takes the mutex, so index may be behind it.
applyLogToRsm(i, index) ==
    /\ Unlocked(i)
    /\ Batch(i, index) # {}
    /\ index <= LastLogIndex(i)
    /\ lastApplied' = [lastApplied EXCEPT ![i] = index]
    /\ next' = [next EXCEPT ![i] = @ + Cardinality(Passed(i, index))]
    /\ logs' = [logs EXCEPT ![i] = checkLogs(i, index)]
    /\ snapReq' = [snapReq EXCEPT ![i] =
                     @ \cup {[index |-> k, value |-> EntryAt(i, k).Command] :
                                k \in {n \in Received(i, index) : SnapshotDue(n)}}]
    /\ UNCHANGED <<electionVars, logVars, commitIndex, leaderVars, raftstate,
                   snapshot, ticker, call, late, historyVars>>

-----------------------------------------------------------------------------
(* Crash and restart.                                                      *)

\* Terms that a critical section of i saves before it saves the vote.
NewTerms(i) ==
    {m.Term : m \in {n \in Requests : n.to = i /\ n.Term > currentTerm[i]}}
    \cup {call[i][j].reply.Term :
             j \in {k \in Server : /\ call[i][k].st = "replied"
                                   /\ call[i][k].args.rpc # "RequestVote"
                                   /\ SameLeader(i)
                                   /\ call[i][k].reply.Term > currentTerm[i]}}
    \cup (IF ElectionDue(i) THEN {currentTerm[i] + 1} ELSE {})

\* What is on disk when i dies between two calls of persist() in one critical
\* section: the new term with the old vote, or the new vote with the old log.
HalfSaved(i) ==
    LET Saved(t, v) == [RaftState(i) EXCEPT !.currentTerm = t, !.voteFor = v]
        InHandler == {m \in Requests : m.to = i}
    IN  {Saved(t, voteFor[i]) : t \in NewTerms(i)}
        \cup {Saved(m.Term, Nil) : m \in {n \in InHandler :
                 n.rpc = "RequestVote" /\ n.Term > currentTerm[i]}}
        \cup {Saved(m.Term, m.from) : m \in {n \in InHandler :
                 n.rpc # "RequestVote" /\ FollowSaves(n)}}

\* What Make and readPersist turn the saved state into.
Restore(i, disk) ==
    /\ currentTerm' = [currentTerm EXCEPT ![i] = disk.currentTerm]
    /\ voteFor' = [voteFor EXCEPT ![i] = disk.voteFor]
    /\ Log' = [Log EXCEPT ![i] = disk.Log]
    /\ lastAppliedIndex' = [lastAppliedIndex EXCEPT ![i] = disk.lastAppliedIndex]
    /\ lastAppliedTerm' = [lastAppliedTerm EXCEPT ![i] = disk.lastAppliedTerm]

\* crash1: the old instance loses its connections and its server.  Its own
\* requests S may still be on their way; requests to it die with it.
crash1(i, S) ==
    /\ call' = [p \in Server |-> [q \in Server |->
                  IF p = i THEN Finished
                  ELSE IF q = i /\ call[p][q].st = "sent" THEN Lost(call[p][q].args)
                  ELSE call[p][q]]]
    /\ late' = {m \in late : m.to # i} \cup S
    /\ Cardinality(late') <= MaxLate

\* start1 after crash1: a new instance is made from the persister.
Restart(i) ==
    \E disk \in {raftstate[i]} \cup HalfSaved(i),
       S \in SUBSET {call[i][j].args : j \in {k \in Server : call[i][k].st = "sent"}} :
        /\ i \in Crashable
        /\ crash1(i, S)
        /\ Restore(i, disk)
        /\ raftstate' = [raftstate EXCEPT ![i] = disk]
        /\ leaderId' = [leaderId EXCEPT ![i] = Nil]
        /\ commitIndex' = [commitIndex EXCEPT ![i] = disk.lastAppliedIndex]
        /\ lastApplied' = [lastApplied EXCEPT ![i] = disk.lastAppliedIndex]
        /\ nextIndex' = [nextIndex EXCEPT ![i] = NextIndexes(i)']
        /\ matchIndex' = [matchIndex EXCEPT ![i] = MatchIndexes(i)']
        /\ ticker' = [ticker EXCEPT ![i] = Idle]
        /\ snapReq' = [snapReq EXCEPT ![i] = {}]
        /\ next' = [next EXCEPT ![i] = disk.lastAppliedIndex + 1]
        /\ UNCHANGED <<snapshot, logs, historyVars>>

-----------------------------------------------------------------------------
\* Make with an empty persister: the dummy entry has index 0.
Init ==
    /\ currentTerm = [i \in Server |-> 0]
    /\ voteFor = [i \in Server |-> Nil]
    /\ leaderId = [i \in Server |-> Nil]
    /\ Log = [i \in Server |-> <<[Term |-> 0, Command |-> Nil]>>]
    /\ lastAppliedIndex = [i \in Server |-> -1]
    /\ lastAppliedTerm = [i \in Server |-> 0]
    /\ commitIndex = [i \in Server |-> -1]
    /\ lastApplied = [i \in Server |-> -1]
    /\ nextIndex = [i \in Server |-> [j \in Server |-> 1]]
    /\ matchIndex = [i \in Server |-> [j \in Server |-> 0]]
    /\ raftstate = [i \in Server |-> RaftState(i)]
    /\ snapshot = [i \in Server |-> Nil]
    /\ ticker = [i \in Server |-> Idle]
    /\ call = [i \in Server |-> [j \in Server |-> Finished]]
    /\ late = {}
    /\ snapReq = [i \in Server |-> {}]
    /\ next = [i \in Server |-> 0]
    /\ logs = [i \in Server |-> [k \in {} |-> Nil]]
    /\ voted = {}
    /\ won = {}
    /\ chosen = <<>>

Handle(m) == RequestVote(m) \/ AppendEntries(m) \/ InstallSnapshot(m)

Worker(i, j) ==
    \/ electionSenderCall(i, j)
    \/ electionSenderReply(i, j)
    \/ appendRPCWorkerCall(i, j)
    \/ appendRPCWorkerReply(i, j)
    \/ InstallSnapshotSenderCall(i, j)
    \/ InstallSnapshotSenderReply(i, j)
    \/ RPCTimeout(i, j)

Peer(i) ==
    \/ startElection(i)
    \/ startElectionEnd(i)
    \/ sendAERpcs(i)
    \/ sendAERpcsEnd(i)
    \/ \E index \in lastApplied[i] + 1 .. commitIndex[i] : applyLogToRsm(i, index)
    \/ \E r \in snapReq[i] : doSnapshot(i, r)

Next ==
    \/ \E m \in Requests : Handle(m)
    \/ \E i, j \in Server : Worker(i, j)
    \/ \E i \in Server : Peer(i)
    \/ \E i \in Server, c \in Command : Start(i, c)
    \/ \E i \in Server : Restart(i)

Spec == Init /\ [][Next]_vars

-----------------------------------------------------------------------------
(* Fairness: goroutines that can go on do so, and a select on an RPC ends.  *)
(* The network may lose any message, but not every one: where a leader      *)
(* keeps calling, requests are executed and answered in time again and      *)
(* again.  Nothing is assumed of elections, commands, crashes and losses.   *)

RoundGoesOn(i) ==
    \/ startElectionEnd(i)
    \/ sendAERpcs(i)
    \/ sendAERpcsEnd(i)
    \/ \E j \in Peers(i) : \/ electionSenderCall(i, j)
                           \/ appendRPCWorkerCall(i, j)
                           \/ InstallSnapshotSenderCall(i, j)

ApplierGoesOn(i) ==
    \/ \E index \in lastApplied[i] + 1 .. commitIndex[i] : applyLogToRsm(i, index)
    \/ \E r \in snapReq[i] : doSnapshot(i, r)

Executed(i, j) == \E m \in Requests : m.from = i /\ m.to = j /\ Handle(m)

Answered(i, j) ==
    \/ electionSenderReply(i, j)
    \/ appendRPCWorkerReply(i, j)
    \/ InstallSnapshotSenderReply(i, j)

Fairness ==
    /\ \A i \in Server : WF_vars(ApplierGoesOn(i))
    /\ \A i \in Candidates :
          /\ WF_vars(RoundGoesOn(i))
          /\ \A j \in Peers(i) : /\ WF_vars(Answered(i, j) \/ RPCTimeout(i, j))
                                 /\ SF_vars(Executed(i, j))
                                 /\ SF_vars(Answered(i, j))

FairSpec == Spec /\ Fairness

-----------------------------------------------------------------------------
(* Properties.                                                             *)

Entry == [Term : Nat, Command : Command \cup {Nil}]

\* Type invariant of the peer's fields, its persister and its goroutines.
TypeOK ==
    /\ currentTerm \in [Server -> Nat]
    /\ voteFor \in [Server -> Server \cup {Nil}]
    /\ leaderId \in [Server -> Server \cup {Nil}]
    /\ Log \in [Server -> Seq(Entry)]
    /\ lastAppliedIndex \in [Server -> Nat \cup {-1}]
    /\ lastAppliedTerm \in [Server -> Nat]
    /\ commitIndex \in [Server -> Nat \cup {-1}]
    /\ lastApplied \in [Server -> Nat \cup {-1}]
    /\ nextIndex \in [Server -> [Server -> Nat]]
    /\ matchIndex \in [Server -> [Server -> Nat \cup {-1}]]
    /\ \A i \in Server :
          /\ raftstate[i].currentTerm \in Nat
          /\ raftstate[i].voteFor \in Server \cup {Nil}
          /\ raftstate[i].Log \in Seq(Entry)
          /\ ticker[i].kind \in {"idle", "election", "append"}
          /\ ticker[i].term \in Nat
          /\ ticker[i].yes \subseteq Server
          /\ \A j \in Server : call[i][j].st \in
                {"finished", "spawned", "sent", "replied", "lost"}
          /\ DOMAIN logs[i] \subseteq Nat
          /\ next[i] \in Nat

\* Votes are not given twice in a term, whatever crashes, late requests and
\* AppendEntries' overwriting of voteFor do in between: two campaigns of the
\* same term are never both won.
CampaignUnique ==
    \A e, f \in won : e.campaign = f.campaign => e.leader = f.leader

\* No step takes a peer back to an older term, a crash and restart included:
\* every term a peer acted in was saved.
TermsGrow == [][\A i \in Server : currentTerm'[i] >= currentTerm[i]]_vars

\* A vote that startElection counts, or is about to count, is remembered on
\* the voter's disk: a voter that crashes cannot vote again in that term.
VoteSurvivesCrash ==
    \A i, v \in Server :
       LET counted == v \in ticker[i].yes
           granted == /\ Waits(i, v, "RequestVote")
                      /\ call[i][v].st = "replied"
                      /\ call[i][v].reply.VoteGranted
           disk == raftstate[v]
       IN  (Campaigning(i) /\ (counted \/ granted)) =>
              \/ disk.currentTerm > ticker[i].term
              \/ disk.currentTerm = ticker[i].term /\ disk.voteFor # Nil

\* cfg.checkOneLeader: "term %d has %d (>1) leaders".
OneLeaderPerTerm ==
    \A i, j \in Server :
       leaderId[i] = i /\ leaderId[j] = j /\ currentTerm[i] = currentTerm[j] => i = j

\* ApplyMsgSender never waits for an index that applyLogToRsm has passed,
\* except while the snapshot that moves both is being installed.
NoLostDelivery ==
    \A i \in Server :
       \/ next[i] = lastApplied[i] + 1
       \/ \E r \in snapReq[i] : r.index = lastAppliedIndex[i]

\* A crash loses nothing but what InstallSnapshot left to doSnapshot.
LogDurable ==
    \A i \in Server :
       \/ raftstate[i] = RaftState(i)
       \/ \E r \in snapReq[i] : r.index = lastAppliedIndex[i]

\* cfg.checkLogs: no two services got different commands for an index.
ApplyAgree ==
    \A i, j \in Server : \A k \in DOMAIN logs[i] \cap DOMAIN logs[j] :
       logs[i][k] = logs[j][k]

\* The saved state d holds entry e at index k, or has cut it.
Holds(d, k, e) ==
    \/ k <= d.lastAppliedIndex
    \/ /\ k - d.lastAppliedIndex \in 1 .. Len(d.Log)
       /\ d.Log[k - d.lastAppliedIndex] = e

\* The indices a peer knows to be committed and still has in its log.
CommittedAt(i) == {k \in lastAppliedIndex[i] + 1 .. commitIndex[i] : k > 0}

\* What any peer takes for committed is on the disks of a majority.
CommittedIsDurable ==
    \A i \in Server : \A k \in CommittedAt(i) :
       /\ k <= LastLogIndex(i)
       /\ Majority({j \in Server : Holds(raftstate[j], k, EntryAt(i, k))})

\* A leader that nobody has outvoted has every committed entry.
LeaderCompleteness ==
    \A l, i \in Server :
       (leaderId[l] = l /\ \A j \in Server : currentTerm[j] <= currentTerm[l]) =>
          \A k \in CommittedAt(i) : Holds(RaftState(l), k, EntryAt(i, k))

\* No critical section that is about to run indexes outside its slice.
NoIndexPanic ==
    \A i \in Server :
       /\ ~ ApplierPanics(i)
       /\ \A r \in snapReq[i] : ~ doSnapshotPanics(i, r)
       /\ \A j \in Server : ~ WorkerPanics(i, j)
       /\ \A m \in Requests : ~ HandlerPanics(m)
       /\ (ticker[i].kind = "append" /\ AllFinished(i)) => ~ findMaxNPanics(i)

\* l leads, and nobody has heard of a newer term.
LeadsUnopposed(l) ==
    leaderId[l] = l /\ \A j \in Server : currentTerm[j] <= currentTerm[l]

\* Some service has not got the last command of l, which l may commit because
\* it is of its own term.
Behind(l) ==
    /\ LeadsUnopposed(l)
    /\ LastLogTerm(l) = currentTerm[l]
    /\ \E s \in Server : LastLogIndex(l) \notin DOMAIN logs[s]

\* Backing up took nextIndex into what s has cut from its log but l has not:
\* s rejects every round from there, and nextIndex never grows on a rejection.
Overshot(l, s) == nextIndex[l][s] - 1 \in lastAppliedIndex[l] .. lastAppliedIndex[s] - 1

\* A leader that stays brings every service up to its last command, through
\* rejected rounds, snapshots and lost messages; the only thing that stops it
\* is a nextIndex that BackUp has taken too far.
CatchUp ==
    []<>(\A l \in Server : Behind(l) => \E s \in Peers(l) : Overshot(l, s))

\* "Save both Raft state and K/V snapshot as a single atomic action, to help
\* avoid them getting out of sync": the service holds the entry before the one
\* it will be given next.
ServiceInStep ==
    \A i \in Server : next[i] > 1 => next[i] - 1 \in DOMAIN logs[i]
=============================================================================
