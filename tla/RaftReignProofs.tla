--------------------------- MODULE RaftReignProofs --------------------------
(***************************************************************************)
(* Proofs about the replicated log of Raft while a single peer campaigns,   *)
(* for any number of peers, commands, terms and late requests, with         *)
(* snapshots and crashes.  The reign of one leader is all that can be       *)
(* proved: once two peers campaign, a term can have two leaders (see        *)
(* OneLeaderPerTerm), and then nothing below holds.                         *)
(*                                                                          *)
(* All logs, disks and requests are slices of one history G of entries,     *)
(* which nobody keeps: the leader has cut its beginning, the followers lack *)
(* its end.  The invariant says that there is such a G, with entry n of the *)
(* code at G[n + 1].                                                        *)
(***************************************************************************)
EXTENDS RaftServiceProofs, RaftAgreement

-----------------------------------------------------------------------------
(* The inductive invariant.                                                *)

\* Nobody but l campaigns, now or ever: Candidates are the peers whose election
\* timer expires.
Reign(l) == l \in Server /\ Candidates \subseteq {l}

\* Nobody but l has a round or has won.
Alone(l) ==
    /\ \A i \in Server : ticker[i] # Idle => i = l
    /\ \A e \in won : e.leader = l

\* s holds the entries of G after index b.
Slice(s, b, G) ==
    /\ b + 1 + Len(s) <= Len(G)
    /\ \A k \in 1 .. Len(s) : s[k] = G[b + 1 + k]

\* c is the command that was committed at index k.
IsChosen(k, c) == k \in 1 .. Len(chosen) /\ c = chosen[k]

\* An index up to which a log can be cut, or the -1 of a log that was not.
CutOK(b) == b = -1 \/ b \in 1 .. Len(chosen)

\* Commands are committed in the order of the history.
HistoryOK(G) ==
    /\ \A n \in 2 .. Len(G) : G[n].Command \in Command
    /\ chosen \in Seq(Command)
    /\ Len(chosen) + 1 <= Len(G)
    /\ \A k \in 1 .. Len(chosen) : chosen[k] = G[k + 1].Command

\* What a peer has, has saved and has told its service.
LogSlices(i, G) ==
    /\ Slice(Log[i], lastAppliedIndex[i], G)
    /\ Slice(raftstate[i].Log, raftstate[i].lastAppliedIndex, G)

ServedAt(i) ==
    /\ logs[i] = [k \in DOMAIN logs[i] |-> logs[i][k]]
    /\ \A k \in DOMAIN logs[i] : IsChosen(k, logs[i][k])
    /\ \A r \in snapReq[i] : IsChosen(r.index, r.value)
    /\ commitIndex[i] <= Len(chosen)
    /\ CutOK(lastAppliedIndex[i])
    /\ CutOK(raftstate[i].lastAppliedIndex)

\* The leader has the end of the history, on its disk too, and the snapshot
\* that stands for what it has cut.
LeaderAt(l, G) ==
    /\ LastLogIndex(l) + 1 = Len(G)
    /\ raftstate[l].Log = Log[l]
    /\ raftstate[l].lastAppliedIndex = lastAppliedIndex[l]
    /\ commitIndex[l] <= LastLogIndex(l)
    /\ l \in DOMAIN snapshot
    /\ lastAppliedIndex[l] >= 0 => /\ IsChosen(lastAppliedIndex[l], snapshot[l])
                                   /\ lastAppliedIndex[l] \in DOMAIN logs[l]

\* What a request carries.
Carries(m, G) ==
    /\ m.rpc = "AppendEntries" => /\ Slice(m.Entries, m.PrevLogIndex, G)
                                  /\ m.LeaderCommit <= Len(chosen)
    /\ m.rpc = "InstallSnapshot" => IsChosen(m.LastIncludedIndex, m.Data)

ReignWith(l, G) ==
    /\ Alone(l)
    /\ HistoryOK(G)
    /\ \A i \in Server : LogSlices(i, G) /\ ServedAt(i)
    /\ LeaderAt(l, G)
    /\ \A m \in Requests : Carries(m, G)

ReignInv(l) == \E G \in Seq(Entry) : ReignWith(l, G)

-----------------------------------------------------------------------------
(* Requests.                                                               *)

\* A request is late, or its sender waits for it.
LEMMA RequestPlace ==
    \A m : m \in Requests <=>
              \/ m \in late
              \/ \E i, j \in Server : call[i][j].st = "sent" /\ m = call[i][j].args
<1>1. ASSUME NEW m \in Requests, m \notin late
      PROVE  \E i, j \in Server : call[i][j].st = "sent" /\ m = call[i][j].args
  <2>1. PICK p \in Server \X Server : call[p[1]][p[2]].st = "sent" /\ m = call[p[1]][p[2]].args
    BY <1>1 DEF Requests
  <2>2. p[1] \in Server /\ p[2] \in Server
    OBVIOUS
  <2>3. QED
    BY <2>1, <2>2
<1>2. ASSUME NEW i \in Server, NEW j \in Server, call[i][j].st = "sent"
      PROVE  call[i][j].args \in Requests
  <2>1. <<i, j>> \in {q \in Server \X Server : call[q[1]][q[2]].st = "sent"}
    BY <1>2
  <2>2. <<i, j>>[1] = i /\ <<i, j>>[2] = j
    OBVIOUS
  <2>3. QED
    BY <2>1, <2>2 DEF Requests
<1>3. late \subseteq Requests
  BY DEF Requests
<1>4. QED
  BY <1>1, <1>2, <1>3, Zenon

\* A step that lets no new request out.
LEMMA NoNewRequests ==
    ASSUME late' \subseteq Requests,
           \A i, j \in Server : call'[i][j].st = "sent" => call'[i][j] = call[i][j]
    PROVE  Requests' \subseteq Requests
<1> SUFFICES ASSUME NEW m \in Requests' PROVE m \in Requests
  OBVIOUS
<1>1. CASE m \in late'
  BY <1>1
<1>2. CASE m \notin late'
  <2>1. PICK p \in Server \X Server :
           call'[p[1]][p[2]].st = "sent" /\ m = call'[p[1]][p[2]].args
    BY <1>2 DEF Requests
  <2>2. PICK i \in Server, j \in Server : i = p[1] /\ j = p[2]
    OBVIOUS
  <2>3. call[i][j].st = "sent" /\ m = call[i][j].args
    BY <2>1, <2>2
  <2>4. QED
    BY <2>3, RequestPlace
<1>3. QED
  BY <1>1, <1>2

\* A handler answers a request and makes none.
LEMMA AnswerRequests ==
    ASSUME ElectionInv, NEW m \in Requests, NEW reply, Answer(m, reply)
    PROVE  Requests' \subseteq Requests
<1>1. m.from \in Server /\ m.to \in Server
  BY RequestOK DEF MessageOK
<1>2. late' \subseteq Requests
  BY DEF Answer, Requests
<1>3. ASSUME NEW i \in Server, NEW j \in Server, call'[i][j].st = "sent"
      PROVE  call'[i][j] = call[i][j]
  <2>1. CASE call' = call
    BY <2>1
  <2>2. CASE call' = [call EXCEPT ![m.from][m.to] = Replied(m, reply)]
    <3>1. /\ i = m.from /\ j = m.to => call'[i][j] = Replied(m, reply)
          /\ ~ (i = m.from /\ j = m.to) => call'[i][j] = call[i][j]
      BY <1>1, <2>2 DEF ElectionInv, ElectionTypeOK
    <3>2. Replied(m, reply).st # "sent"
      BY DEF Replied
    <3>3. QED
      BY <1>3, <3>1, <3>2
  <2>3. QED
    BY <2>1, <2>2 DEF Answer
<1>4. QED
  BY <1>2, <1>3, NoNewRequests

\* A sender that stops makes none.
LEMMA FinishRequests ==
    ASSUME ElectionInv, NEW i \in Server, NEW j \in Server, NEW c,
           call' = [call EXCEPT ![i][j] = c], c.st # "sent", late' \subseteq Requests
    PROVE  Requests' \subseteq Requests
<1>1. \A p, q \in Server : /\ p = i /\ q = j => call'[p][q] = c
                           /\ ~ (p = i /\ q = j) => call'[p][q] = call[p][q]
  BY DEF ElectionInv, ElectionTypeOK
<1>2. \A p, q \in Server : call'[p][q].st = "sent" => call'[p][q] = call[p][q]
  BY <1>1
<1>3. QED
  BY <1>2, NoNewRequests

\* A sender that sends makes one.
LEMMA SendRequests ==
    ASSUME ElectionInv, NEW i \in Server, NEW j \in Server, NEW m,
           call' = [call EXCEPT ![i][j] = Sent(m)], late' = late
    PROVE  Requests' \subseteq Requests \cup {m}
<1> SUFFICES ASSUME NEW x \in Requests', x \notin Requests PROVE x = m
  OBVIOUS
<1>1. x \notin late'
  BY DEF Requests
<1>2. PICK p \in Server \X Server :
         call'[p[1]][p[2]].st = "sent" /\ x = call'[p[1]][p[2]].args
  BY <1>1 DEF Requests
<1>3. PICK a \in Server, b \in Server : a = p[1] /\ b = p[2]
  OBVIOUS
<1>4. call'[a][b].st = "sent" /\ x = call'[a][b].args
  BY <1>2, <1>3
<1>5. /\ a = i /\ b = j => call'[a][b] = Sent(m)
      /\ ~ (a = i /\ b = j) => call'[a][b] = call[a][b]
  BY DEF ElectionInv, ElectionTypeOK
<1>6. ~ (a = i /\ b = j) => FALSE
  BY <1>4, <1>5, RequestPlace
<1>7. Sent(m).args = m
  BY DEF Sent
<1>8. QED
  BY <1>4, <1>5, <1>6, <1>7

\* Only the leader sends what changes logs, and not to itself.
LEMMA FromLeader ==
    ASSUME ElectionInv, NEW l, Alone(l), NEW m \in Requests, m.rpc # "RequestVote"
    PROVE  m.from = l /\ m.to \in Server /\ m.to # l
<1>1. MessageOK(m)
  BY RequestOK
<1>2. m.to \in Server \ {m.from} /\ Claimed(m.Term, m.from)
  BY <1>1 DEF MessageOK
<1>3. m.from = l
  BY <1>2 DEF Claimed, Alone
<1>4. QED
  BY <1>2, <1>3

\* Who leads is the leader.
LEMMA LeaderAlone ==
    ASSUME ElectionInv, NEW l, Alone(l), NEW i \in Server, leaderId[i] = i
    PROVE  i = l
BY DEF ElectionInv, Leads, Claimed, Alone

-----------------------------------------------------------------------------
(* Nobody else campaigns.                                                  *)

\* Rounds begin with a timer that expires or with a leader.
LEMMA AloneNext ==
    ASSUME NEW l, Reign(l), ElectionInv, Alone(l), [Next]_vars
    PROVE  Alone(l)'
<1>1. ASSUME UNCHANGED <<ticker, won>> PROVE Alone(l)'
  BY <1>1 DEF Alone
<1>2. ASSUME won' = won, NEW i \in Server, i = l,
             \A p \in Server \ {i} : ticker'[p] = ticker[p]
      PROVE  Alone(l)'
  BY <1>2 DEF Alone
<1>3. ticker \in [Server -> Round]
  BY DEF ElectionInv, ElectionTypeOK
<1>4. ASSUME NEW m \in Requests, Handle(m) PROVE Alone(l)'
  BY <1>1, <1>4 DEF Handle, RequestVote, AppendEntries, InstallSnapshot, historyVars
<1>5. ASSUME NEW i \in Server, NEW j \in Server, Worker(i, j) PROVE Alone(l)'
  <2>1. CASE electionSenderCall(i, j) \/ appendRPCWorkerCall(i, j)
             \/ InstallSnapshotSenderCall(i, j) \/ InstallSnapshotSenderReply(i, j)
             \/ RPCTimeout(i, j)
    BY <1>1, <2>1 DEF electionSenderCall, appendRPCWorkerCall, InstallSnapshotSenderCall,
       InstallSnapshotSenderReply, RPCTimeout, historyVars
  <2>2. ASSUME electionSenderReply(i, j) PROVE Alone(l)'
    <3>1. call[i][j].st \in {"sent", "replied", "lost"} /\ call[i][j].args.rpc = "RequestVote"
      BY <2>2 DEF electionSenderReply, Waits
    <3>2. Campaigning(i)
      BY <3>1, Waiting DEF WaitingOK
    <3>3. i = l
      BY <3>2 DEF Campaigning, Alone, Idle
    <3>4. won' = won /\ \A p \in Server \ {i} : ticker'[p] = ticker[p]
      BY <1>3, <2>2 DEF electionSenderReply, historyVars
    <3>5. QED
      BY <1>2, <3>3, <3>4
  <2>3. ASSUME appendRPCWorkerReply(i, j) PROVE Alone(l)'
    <3>1. /\ call[i][j].st \in {"sent", "replied", "lost"}
          /\ call[i][j].args.rpc = "AppendEntries"
      BY <2>3 DEF appendRPCWorkerReply, Waits
    <3>2. Claimed(call[i][j].args.Term, i)
      BY <3>1, Waiting DEF WaitingOK, MessageOK
    <3>3. i = l
      BY <3>2 DEF Claimed, Alone
    <3>4. won' = won /\ \A p \in Server \ {i} : ticker'[p] = ticker[p]
      BY <1>3, <2>3 DEF appendRPCWorkerReply, historyVars
    <3>5. QED
      BY <1>2, <3>3, <3>4
  <2>4. QED
    BY <1>5, <2>1, <2>2, <2>3 DEF Worker
<1>6. ASSUME NEW i \in Server, Peer(i) PROVE Alone(l)'
  <2>1. ASSUME startElection(i) PROVE Alone(l)'
    <3>1. i = l
      BY <2>1 DEF startElection, ElectionDue, Reign
    <3>2. won' = won /\ \A p \in Server \ {i} : ticker'[p] = ticker[p]
      BY <1>3, <2>1 DEF startElection
    <3>3. QED
      BY <1>2, <3>1, <3>2
  <2>2. ASSUME startElectionEnd(i) PROVE Alone(l)'
    <3>1. i = l
      BY <2>2 DEF startElectionEnd, Campaigning, Alone, Idle
    <3>2. \A p \in Server \ {i} : ticker'[p] = ticker[p]
      BY <1>3, <2>2 DEF startElectionEnd
    <3>3. \A e \in won' : e.leader = l
      BY <2>2, <3>1 DEF startElectionEnd, Alone
    <3>4. QED
      BY <3>1, <3>2, <3>3 DEF Alone
  <2>3. ASSUME sendAERpcs(i) PROVE Alone(l)'
    <3>1. i = l
      BY <2>3, LeaderAlone DEF sendAERpcs
    <3>2. won' = won /\ \A p \in Server \ {i} : ticker'[p] = ticker[p]
      BY <1>3, <2>3 DEF sendAERpcs, historyVars
    <3>3. QED
      BY <1>2, <3>1, <3>2
  <2>4. ASSUME sendAERpcsEnd(i) PROVE Alone(l)'
    <3>1. i = l
      BY <2>4 DEF sendAERpcsEnd, Alone, Idle
    <3>2. won' = won /\ \A p \in Server \ {i} : ticker'[p] = ticker[p]
      BY <1>3, <2>4 DEF sendAERpcsEnd
    <3>3. QED
      BY <1>2, <3>1, <3>2
  <2>5. ASSUME NEW index, applyLogToRsm(i, index) PROVE Alone(l)'
    BY <1>1, <2>5 DEF applyLogToRsm, historyVars
  <2>6. ASSUME NEW r, doSnapshot(i, r) PROVE Alone(l)'
    BY <1>1, <2>6 DEF doSnapshot, historyVars
  <2>7. QED
    BY <1>6, <2>1, <2>2, <2>3, <2>4, <2>5, <2>6 DEF Peer
<1>7. ASSUME NEW i \in Server, NEW c \in Command, Start(i, c) PROVE Alone(l)'
  BY <1>1, <1>7 DEF Start, historyVars
<1>8. ASSUME NEW i \in Server, Restart(i) PROVE Alone(l)'
  <2>1. ticker' = [ticker EXCEPT ![i] = Idle] /\ won' = won
    BY <1>8 DEF Restart, historyVars
  <2>2. QED
    BY <1>3, <2>1 DEF Alone
<1>9. CASE UNCHANGED vars
  BY <1>1, <1>9 DEF vars, historyVars
<1>10. QED
  BY <1>4, <1>5, <1>6, <1>7, <1>8, <1>9 DEF Next

-----------------------------------------------------------------------------
(* Steps that leave the logs alone.                                        *)

\* The disk of a peer is left alone, or written with the log as it is.
DiskKept(i) ==
    \/ raftstate'[i] = raftstate[i]
    \/ raftstate'[i].Log = Log[i] /\ raftstate'[i].lastAppliedIndex = lastAppliedIndex[i]

\* What persist() writes.
LEMMA PersistDisk ==
    ASSUME ElectionInv, NEW i \in Server, persist(i) \/ raftstate' = raftstate,
           UNCHANGED <<Log, lastAppliedIndex>>
    PROVE  \A p \in Server : DiskKept(p)
<1>1. CASE raftstate' = raftstate
  BY <1>1 DEF DiskKept
<1>2. CASE persist(i)
  <2>1. raftstate' = [raftstate EXCEPT ![i] = RaftState(i)']
    BY <1>2 DEF persist
  <2>2. /\ raftstate'[i] = RaftState(i)'
        /\ \A p \in Server \ {i} : raftstate'[p] = raftstate[p]
    BY <2>1 DEF ElectionInv, ElectionTypeOK
  <2>3. RaftState(i)'.Log = Log[i] /\ RaftState(i)'.lastAppliedIndex = lastAppliedIndex[i]
    BY DEF RaftState
  <2>4. QED
    BY <2>2, <2>3 DEF DiskKept
<1>3. QED
  BY <1>1, <1>2

\* The invariant is about logs, disks, services and requests.
LEMMA QuietStep ==
    ASSUME NEW l, l \in Server, NEW G, ReignWith(l, G), Alone(l)',
           UNCHANGED <<Log, lastAppliedIndex, logs, snapReq, commitIndex, chosen, snapshot>>,
           \A i \in Server : DiskKept(i),
           \A m \in Requests' : m \in Requests \/ Carries(m, G)
    PROVE  ReignWith(l, G)'
<1>1. HistoryOK(G)'
  BY DEF ReignWith, HistoryOK
<1>2. ASSUME NEW i \in Server PROVE LogSlices(i, G)' /\ ServedAt(i)'
  <2>1. LogSlices(i, G) /\ ServedAt(i) /\ DiskKept(i)
    BY DEF ReignWith
  <2>2. /\ Slice(Log'[i], lastAppliedIndex'[i], G)
        /\ Slice(raftstate'[i].Log, raftstate'[i].lastAppliedIndex, G)
    BY <2>1, Zenon DEF LogSlices, DiskKept
  <2>3. CutOK(lastAppliedIndex[i]) /\ CutOK(raftstate'[i].lastAppliedIndex)
    BY <2>1, Zenon DEF ServedAt, DiskKept
  <2>4. LogSlices(i, G)'
    BY <2>2 DEF LogSlices, Slice
  <2>5. ServedAt(i)'
    BY <2>1, <2>3 DEF ServedAt, IsChosen, CutOK
  <2>6. QED
    BY <2>4, <2>5
<1>3. LeaderAt(l, G)'
  <2>1. LeaderAt(l, G) /\ DiskKept(l)
    BY DEF ReignWith
  <2>2. raftstate'[l].Log = Log[l] /\ raftstate'[l].lastAppliedIndex = lastAppliedIndex[l]
    BY <2>1, Zenon DEF LeaderAt, DiskKept
  <2>3. QED
    BY <2>1, <2>2 DEF LeaderAt, LastLogIndex, IsChosen
<1>4. ASSUME NEW m \in Requests' PROVE Carries(m, G)'
  <2>1. Carries(m, G)
    BY DEF ReignWith
  <2>2. QED
    BY <2>1 DEF Carries, Slice, IsChosen
<1>5. QED
  BY <1>1, <1>2, <1>3, <1>4 DEF ReignWith

\* A step without a request, a log or a service in it.
LEMMA NothingNew ==
    ASSUME NEW l, l \in Server, NEW G, ReignWith(l, G), Alone(l)', ElectionInv,
           NEW i \in Server, persist(i) \/ raftstate' = raftstate,
           UNCHANGED <<logVars, commitIndex, snapshot, logs, snapReq, chosen>>,
           Requests' \subseteq Requests
    PROVE  ReignWith(l, G)'
<1>1. UNCHANGED <<Log, lastAppliedIndex>>
  BY DEF logVars
<1>2. \A p \in Server : DiskKept(p)
  BY <1>1, PersistDisk
<1>3. QED
  BY <1>1, <1>2, QuietStep

\* Handling a vote changes no log.
LEMMA RequestVoteReigns ==
    ASSUME NEW l, l \in Server, NEW G, ReignWith(l, G), Alone(l)', ElectionInv,
           NEW m \in Requests, RequestVote(m)
    PROVE  ReignWith(l, G)'
<1>1. m.to \in Server
  BY RequestOK DEF MessageOK
<1>2. Requests' \subseteq Requests
  BY AnswerRequests DEF RequestVote
<1>3. QED
  BY <1>1, <1>2, NothingNew DEF RequestVote, applyVars, serviceVars

\* An answer, or that none comes, lets no request out.
LEMMA RepliesRequests ==
    ASSUME ElectionInv, NEW i \in Server, NEW j \in Server,
           \/ RPCTimeout(i, j)
           \/ electionSenderReply(i, j)
           \/ appendRPCWorkerReply(i, j)
           \/ InstallSnapshotSenderReply(i, j)
    PROVE  Requests' \subseteq Requests
<1>1. Finished.st # "sent"
  BY DEF Finished
<1>2. late' \subseteq Requests
  <2>1. late \subseteq Requests
    BY DEF Requests
  <2>2. CASE RPCTimeout(i, j)
    <3>1. call[i][j].st = "sent" => call[i][j].args \in Requests
      BY RequestPlace
    <3>2. QED
      BY <2>1, <2>2, <3>1 DEF RPCTimeout
  <2>3. QED
    BY <2>1, <2>2 DEF electionSenderReply, appendRPCWorkerReply, InstallSnapshotSenderReply
<1>3. call' = [call EXCEPT ![i][j] = Finished]
  BY DEF RPCTimeout, electionSenderReply, appendRPCWorkerReply, InstallSnapshotSenderReply,
     Finish
<1>4. QED
  BY <1>1, <1>2, <1>3, FinishRequests

\* Nor does it change a log.
LEMMA RepliesReign ==
    ASSUME NEW l, l \in Server, NEW G, ReignWith(l, G), Alone(l)', ElectionInv,
           NEW i \in Server, NEW j \in Server,
           \/ RPCTimeout(i, j)
           \/ electionSenderReply(i, j)
           \/ appendRPCWorkerReply(i, j)
           \/ InstallSnapshotSenderReply(i, j)
    PROVE  ReignWith(l, G)'
<1>1. Requests' \subseteq Requests
  BY RepliesRequests
<1>2. UNCHANGED <<logVars, applyVars, snapshot, serviceVars, historyVars>>
  BY DEF RPCTimeout, electionSenderReply, appendRPCWorkerReply, InstallSnapshotSenderReply
<1>3. persist(i) \/ raftstate' = raftstate
  BY DEF RPCTimeout, electionSenderReply, appendRPCWorkerReply, InstallSnapshotSenderReply
<1>4. QED
  BY <1>1, <1>2, <1>3, NothingNew DEF applyVars, serviceVars, historyVars

\* A round that begins has sent nothing yet; an election that ends neither.
LEMMA RoundsRequests ==
    ASSUME ElectionInv, NEW i \in Server,
           startElection(i) \/ startElectionEnd(i) \/ sendAERpcs(i)
    PROVE  Requests' \subseteq Requests
<1>1. late' = late
  BY DEF startElection, startElectionEnd, sendAERpcs
<1>2. late' \subseteq Requests
  BY <1>1 DEF Requests
<1>3. \A p, q \in Server : call'[p][q].st = "sent" => call'[p][q] = call[p][q]
  <2>1. CASE startElectionEnd(i)
    BY <2>1 DEF startElectionEnd
  <2>2. CASE startElection(i)
    BY <2>2 DEF startElection, ElectionInv, ElectionTypeOK, Finished, Spawned
  <2>3. CASE sendAERpcs(i)
    BY <2>3 DEF sendAERpcs, ElectionInv, ElectionTypeOK, Finished, Spawned
  <2>4. QED
    BY <2>1, <2>2, <2>3
<1>4. QED
  BY <1>2, <1>3, NoNewRequests

\* It changes no log.
LEMMA RoundsReign ==
    ASSUME NEW l, l \in Server, NEW G, ReignWith(l, G), Alone(l)', ElectionInv,
           NEW i \in Server, startElection(i) \/ startElectionEnd(i) \/ sendAERpcs(i)
    PROVE  ReignWith(l, G)'
<1>1. Requests' \subseteq Requests
  BY RoundsRequests
<1>2. UNCHANGED <<logVars, applyVars, snapshot, serviceVars, chosen>>
  BY DEF startElection, startElectionEnd, sendAERpcs, historyVars
<1>3. persist(i) \/ raftstate' = raftstate
  BY DEF startElection, startElectionEnd, sendAERpcs
<1>4. QED
  BY <1>1, <1>2, <1>3, NothingNew DEF applyVars, serviceVars

\* Nothing happens.
LEMMA StutterReigns ==
    ASSUME NEW l, l \in Server, NEW G, ReignWith(l, G), Alone(l)', ElectionInv,
           UNCHANGED vars
    PROVE  ReignWith(l, G)'
<1>1. Requests' \subseteq Requests
  BY DEF vars, Requests
<1>2. QED
  BY <1>1, NothingNew DEF vars, applyVars, serviceVars, historyVars

-----------------------------------------------------------------------------
(* Slices of the history.                                                  *)

\* What is left of a slice whose first d entries are cut.
LEMMA SliceTail ==
    ASSUME NEW G \in Seq(Entry), NEW s \in Seq(Entry), NEW b \in Int, Slice(s, b, G),
           NEW d \in Nat, d <= Len(s)
    PROVE  /\ Slice(SubSeq(s, d + 1, Len(s)), b + d, G)
           /\ Len(SubSeq(s, d + 1, Len(s))) = Len(s) - d
<1> DEFINE t == SubSeq(s, d + 1, Len(s))
<1>1. Len(s) \in Nat /\ Len(G) \in Nat
  OBVIOUS
<1>2. \A k \in d + 1 .. Len(s) : s[k] \in Entry
  <2> SUFFICES ASSUME NEW k \in d + 1 .. Len(s) PROVE s[k] \in Entry
    OBVIOUS
  <2>1. k \in 1 .. Len(s)
    BY <1>1
  <2>2. QED
    BY <2>1
<1>3. /\ Len(t) = Len(s) - d
      /\ \A k \in 1 .. Len(s) - d : t[k] = s[d + k]
  BY <1>1, <1>2, SubSeqProperties
<1> HIDE DEF t
<1>4. ASSUME NEW k \in 1 .. Len(t) PROVE t[k] = G[b + d + 1 + k]
  <2>1. d + k \in 1 .. Len(s) /\ t[k] = s[d + k]
    BY <1>1, <1>3
  <2>2. s[d + k] = G[b + 1 + (d + k)]
    BY <2>1 DEF Slice
  <2>3. b + 1 + (d + k) = b + d + 1 + k
    BY <1>1
  <2>4. QED
    BY <2>1, <2>2, <2>3
<1>5. b + d + 1 + Len(t) <= Len(G)
  BY <1>1, <1>3 DEF Slice
<1>6. QED
  BY <1>3, <1>4, <1>5 DEF Slice, t

\* The first d entries of a slice.
LEMMA SliceHead ==
    ASSUME NEW G \in Seq(Entry), NEW s \in Seq(Entry), NEW b \in Int, Slice(s, b, G),
           NEW d \in Nat, d <= Len(s)
    PROVE  Slice(SubSeq(s, 1, d), b, G) /\ Len(SubSeq(s, 1, d)) = d
           /\ SubSeq(s, 1, d) \in Seq(Entry)
<1> DEFINE t == SubSeq(s, 1, d)
<1>1. Len(s) \in Nat /\ Len(G) \in Nat
  OBVIOUS
<1>2. \A k \in 1 .. d : k \in 1 .. Len(s) /\ s[k] \in Entry
  BY <1>1
<1>3. t \in Seq(Entry) /\ Len(t) = d /\ \A k \in 1 .. d : t[k] = s[k]
  BY <1>1, <1>2, SubSeqProperties
<1> HIDE DEF t
<1>4. QED
  BY <1>1, <1>2, <1>3 DEF Slice, t

\* A slice and the one after it.
LEMMA SliceJoin ==
    ASSUME NEW G \in Seq(Entry), NEW s \in Seq(Entry), NEW t \in Seq(Entry), NEW b \in Int,
           Slice(s, b, G), Slice(t, b + Len(s), G)
    PROVE  Slice(s \o t, b, G)
<1> DEFINE u == s \o t
<1>1. Len(s) \in Nat /\ Len(t) \in Nat /\ Len(G) \in Nat
  OBVIOUS
<1>2. /\ Len(u) = Len(s) + Len(t)
      /\ \A k \in 1 .. Len(s) : u[k] = s[k]
      /\ \A k \in Len(s) + 1 .. Len(s) + Len(t) : u[k] = t[k - Len(s)]
  <2>1. /\ Len(u) = Len(s) + Len(t)
        /\ \A k \in 1 .. Len(s) + Len(t) : u[k] = IF k <= Len(s) THEN s[k] ELSE t[k - Len(s)]
    BY ConcatProperties, Zenon
  <2> HIDE DEF u
  <2>2. QED
    BY <1>1, <2>1
<1> HIDE DEF u
<1>3. ASSUME NEW k \in 1 .. Len(u) PROVE u[k] = G[b + 1 + k]
  <2>1. CASE k <= Len(s)
    BY <1>1, <1>2, <2>1 DEF Slice
  <2>2. CASE k > Len(s)
    <3>1. k \in Len(s) + 1 .. Len(s) + Len(t) /\ k - Len(s) \in 1 .. Len(t)
      BY <1>1, <1>2, <2>2
    <3>2. t[k - Len(s)] = G[b + Len(s) + 1 + (k - Len(s))]
      BY <3>1 DEF Slice
    <3>3. b + Len(s) + 1 + (k - Len(s)) = b + 1 + k
      BY <1>1
    <3>4. u[k] = t[k - Len(s)]
      BY <1>2, <3>1
    <3>5. QED
      BY <3>2, <3>3, <3>4
  <2>3. QED
    BY <1>1, <2>1, <2>2
<1>4. b + 1 + Len(u) <= Len(G)
  BY <1>1, <1>2 DEF Slice
<1>5. QED
  BY <1>3, <1>4 DEF Slice, u

\* A longer history has the same slices.
LEMMA SliceKept ==
    ASSUME NEW G \in Seq(Entry), NEW e \in Entry, NEW s \in Seq(Entry), NEW b \in NatOrNone,
           Slice(s, b, G)
    PROVE  Slice(s, b, Append(G, e))
<1>1. Len(G) \in Nat /\ Len(s) \in Nat
  OBVIOUS
<1>2. Len(Append(G, e)) = Len(G) + 1 /\ \A k \in 1 .. Len(G) : Append(G, e)[k] = G[k]
  OBVIOUS
<1>3. \A k \in 1 .. Len(s) : b + 1 + k \in 1 .. Len(G)
  BY <1>1 DEF Slice, NatOrNone
<1>4. QED
  BY <1>1, <1>2, <1>3 DEF Slice, NatOrNone

-----------------------------------------------------------------------------
(* What the leader sends.                                                  *)

\* A sender that gives up, or sends what the history allows.
LEMMA SenderReigns ==
    ASSUME NEW l, l \in Server, NEW G, ReignWith(l, G), Alone(l)', ElectionInv,
           NEW i \in Server, NEW j \in Server, NEW c,
           call' = [call EXCEPT ![i][j] = c],
           c = Finished \/ \E m : c = Sent(m) /\ Carries(m, G),
           UNCHANGED <<logVars, applyVars, raftstate, snapshot, late, serviceVars, historyVars>>
    PROVE  ReignWith(l, G)'
<1>1. \A m \in Requests' : m \in Requests \/ Carries(m, G)
  <2>1. CASE c = Finished
    <3>1. c.st # "sent"
      BY <2>1 DEF Finished
    <3>2. late' \subseteq Requests
      BY DEF Requests
    <3>3. QED
      BY <3>1, <3>2, FinishRequests
  <2>2. CASE \E m : c = Sent(m) /\ Carries(m, G)
    <3>1. PICK m : c = Sent(m) /\ Carries(m, G)
      BY <2>2
    <3>2. Requests' \subseteq Requests \cup {m}
      BY <3>1, SendRequests
    <3>3. QED
      BY <3>1, <3>2
  <2>3. QED
    BY <2>1, <2>2
<1>2. \A p \in Server : DiskKept(p)
  BY DEF DiskKept
<1>3. QED
  BY <1>1, <1>2, QuietStep DEF logVars, applyVars, serviceVars, historyVars

\* A worker of the leader sends the end of the leader's log.
LEMMA CallsReign ==
    ASSUME NEW l, l \in Server, NEW G \in Seq(Entry), ReignWith(l, G), Alone(l)',
           ElectionInv, ServiceInv, NEW i \in Server, NEW j \in Server,
           \/ electionSenderCall(i, j)
           \/ appendRPCWorkerCall(i, j)
           \/ InstallSnapshotSenderCall(i, j)
    PROVE  ReignWith(l, G)'
<1>1. LogOK /\ IndexOK /\ BodiesOK
  BY DEF ServiceInv
<1>2. UNCHANGED <<logVars, applyVars, raftstate, snapshot, late, serviceVars, historyVars>>
  BY DEF electionSenderCall, appendRPCWorkerCall, InstallSnapshotSenderCall
<1>3. CASE electionSenderCall(i, j)
  <2>1. PICK m : m = RequestVoteArgs(i, j)
    OBVIOUS
  <2>2. Carries(m, G)
    BY <2>1 DEF RequestVoteArgs, Carries
  <2>3. PICK c : c = IF currentTerm[i] # ticker[i].term THEN Finished ELSE Sent(m)
    OBVIOUS
  <2>4. call' = [call EXCEPT ![i][j] = c]
    BY <1>3, <2>1, <2>3 DEF electionSenderCall
  <2>5. QED
    BY <1>2, <2>2, <2>3, <2>4, SenderReigns
<1>4. ASSUME SameLeader(i) PROVE i = l
  BY <1>4, LeaderAlone DEF SameLeader, ReignWith
<1>5. CASE appendRPCWorkerCall(i, j)
  <2>1. PICK m : m = AppendEntriesArgs(i, j)
    OBVIOUS
  <2>2. PICK c : c = IF IsSendSnapshot(i, j) \/ ~ SameLeader(i) THEN Finished ELSE Sent(m)
    OBVIOUS
  <2>3. call' = [call EXCEPT ![i][j] = c]
    BY <1>5, <2>1, <2>2 DEF appendRPCWorkerCall
  <2>4. ASSUME ~ IsSendSnapshot(i, j), SameLeader(i) PROVE Carries(m, G)
    <3>1. PICK prev : prev = nextIndex[i][j] - 1
      OBVIOUS
    <3>2. PICK d : d = prev - lastAppliedIndex[i]
      OBVIOUS
    <3>3. /\ m.rpc = "AppendEntries"
          /\ m.PrevLogIndex = prev
          /\ m.Entries = SubSeq(Log[i], d + 1, Len(Log[i]))
          /\ m.LeaderCommit = commitIndex[i]
      BY <2>1, <3>1, <3>2 DEF AppendEntriesArgs
    <3>4. /\ nextIndex[i][j] \in Nat /\ lastAppliedIndex[i] \in NatOrNone
          /\ Len(Log[i]) \in Nat /\ Log[i] \in Seq(Entry)
          /\ LastLogIndex(i) = Len(Log[i]) + lastAppliedIndex[i]
      BY <1>1, LogBounds DEF IndexOK, LogOK
    <3>5. prev <= LastLogIndex(i) /\ prev >= lastAppliedIndex[i]
      BY <1>5, <2>4, <3>1, <3>4 DEF appendRPCWorkerCall, WorkerPanics, IsSendSnapshot, NatOrNone
    <3>6. d \in Nat /\ d <= Len(Log[i]) /\ lastAppliedIndex[i] + d = prev
          /\ lastAppliedIndex[i] \in Int
      BY <3>1, <3>2, <3>4, <3>5 DEF NatOrNone
    <3>7. Slice(Log[i], lastAppliedIndex[i], G) /\ commitIndex[i] <= Len(chosen)
      BY DEF ReignWith, LogSlices, ServedAt
    <3>8. Slice(SubSeq(Log[i], d + 1, Len(Log[i])), prev, G)
      BY <3>4, <3>6, <3>7, SliceTail
    <3>9. QED
      BY <3>3, <3>7, <3>8 DEF Carries
  <2>5. QED
    BY <1>2, <2>2, <2>3, <2>4, SenderReigns
<1>6. CASE InstallSnapshotSenderCall(i, j)
  <2>1. PICK m : m = InstallSnapshotArgs(i, j)
    OBVIOUS
  <2>2. PICK c : c = IF SameLeader(i) THEN Sent(m) ELSE Finished
    OBVIOUS
  <2>3. call' = [call EXCEPT ![i][j] = c]
    BY <1>6, <2>1, <2>2 DEF InstallSnapshotSenderCall
  <2>4. ASSUME SameLeader(i) PROVE Carries(m, G)
    <3>1. m.rpc = "InstallSnapshot" /\ m.LastIncludedIndex = lastAppliedIndex[i]
          /\ m.Data = snapshot[i]
      BY <2>1 DEF InstallSnapshotArgs
    <3>2. lastAppliedIndex[i] >= 0
      BY <1>1, <1>6 DEF InstallSnapshotSenderCall, BodiesOK, SenderOK
    <3>3. IsChosen(lastAppliedIndex[i], snapshot[i])
      BY <1>4, <2>4, <3>2 DEF ReignWith, LeaderAt
    <3>4. QED
      BY <3>1, <3>3 DEF Carries
  <2>5. QED
    BY <1>2, <2>2, <2>3, <2>4, SenderReigns
<1>7. QED
  BY <1>3, <1>5, <1>6

\* Start appends to the history.
LEMMA StartReigns ==
    ASSUME NEW l, l \in Server, NEW G \in Seq(Entry), ReignWith(l, G), Alone(l)',
           ElectionInv, ServiceInv, NEW i \in Server, NEW c \in Command, Start(i, c)
    PROVE  \E e \in Entry : e.Term = currentTerm[i] /\ ReignWith(l, Append(G, e))'
<1>1. LogOK /\ BodiesOK /\ raftstate \in [Server -> Disk]
  BY DEF ServiceInv
<1>2. i = l
  BY LeaderAlone DEF Start, ReignWith
<1>3. PICK e : e = [Term |-> currentTerm[i], Command |-> c]
  OBVIOUS
<1>4. e \in Entry /\ e.Command = c /\ e.Term = currentTerm[i]
  BY <1>3 DEF Entry, ElectionInv, ElectionTypeOK
<1>5. PICK H : H = Append(G, e)
  OBVIOUS
<1>6. /\ H \in Seq(Entry) /\ Len(H) = Len(G) + 1 /\ H[Len(G) + 1] = e
      /\ \A k \in 1 .. Len(G) : H[k] = G[k]
      /\ Len(G) \in Nat
  BY <1>4, <1>5
<1>7. /\ Log' = [Log EXCEPT ![l] = Append(Log[l], e)]
      /\ persist(l)
      /\ UNCHANGED <<lastAppliedIndex, applyVars, snapshot, call, late, serviceVars, historyVars>>
  BY <1>2, <1>3 DEF Start
<1>8. /\ Log'[l] = Append(Log[l], e)
      /\ \A p \in Server \ {l} : Log'[p] = Log[p]
  BY <1>1, <1>7 DEF LogOK
<1>9. /\ raftstate'[l].Log = Log'[l]
      /\ raftstate'[l].lastAppliedIndex = lastAppliedIndex[l]
      /\ \A p \in Server \ {l} : raftstate'[p] = raftstate[p]
  BY <1>1, <1>7 DEF persist, RaftState
<1>10. HistoryOK(H)'
  <2>1. HistoryOK(G) /\ chosen' = chosen
    BY <1>7 DEF ReignWith, historyVars
  <2>2. \A n \in 2 .. Len(H) : H[n].Command \in Command
    BY <1>4, <1>6, <2>1 DEF HistoryOK
  <2>3. Len(chosen) \in Nat
    BY <2>1 DEF HistoryOK
  <2>4. ASSUME NEW k \in 1 .. Len(chosen) PROVE chosen[k] = H[k + 1].Command
    <3>1. k + 1 \in 1 .. Len(G)
      BY <1>6, <2>1, <2>3 DEF HistoryOK
    <3>2. H[k + 1] = G[k + 1]
      BY <1>6, <3>1
    <3>3. QED
      BY <2>1, <3>2 DEF HistoryOK
  <2>5. QED
    BY <1>6, <2>1, <2>2, <2>3, <2>4 DEF HistoryOK
<1>11. /\ Len(Log[l]) \in Nat /\ Log[l] \in Seq(Entry) /\ lastAppliedIndex[l] \in NatOrNone
       /\ LastLogIndex(l) = Len(Log[l]) + lastAppliedIndex[l]
       /\ LastLogIndex(l) + 1 = Len(G)
  BY <1>1, LogBounds DEF LogOK, ReignWith, LeaderAt
<1>12. Slice(Append(Log[l], e), lastAppliedIndex[l], H)
  <2>1. Slice(Log[l], lastAppliedIndex[l], G)
    BY DEF ReignWith, LogSlices
  <2>2. /\ Len(Append(Log[l], e)) = Len(Log[l]) + 1
        /\ Append(Log[l], e)[Len(Log[l]) + 1] = e
        /\ \A k \in 1 .. Len(Log[l]) : Append(Log[l], e)[k] = Log[l][k]
    BY <1>4, <1>11
  <2>3. \A k \in 1 .. Len(Log[l]) : lastAppliedIndex[l] + 1 + k \in 1 .. Len(G)
    BY <1>6, <1>11 DEF NatOrNone
  <2>4. \A k \in 1 .. Len(Log[l]) : Append(Log[l], e)[k] = H[lastAppliedIndex[l] + 1 + k]
    BY <1>6, <2>1, <2>2, <2>3 DEF Slice
  <2>5. Append(Log[l], e)[Len(Log[l]) + 1] = H[lastAppliedIndex[l] + 1 + (Len(Log[l]) + 1)]
    <3>1. lastAppliedIndex[l] \in Int
      BY <1>11 DEF NatOrNone
    <3>2. Len(Log[l]) + lastAppliedIndex[l] + 1 = Len(G)
      BY <1>11
    <3>3. lastAppliedIndex[l] + 1 + (Len(Log[l]) + 1) = Len(G) + 1
      BY <1>11, <3>1, <3>2
    <3>4. QED
      BY <1>6, <2>2, <3>3
  <2>6. \A k \in 1 .. Len(Log[l]) + 1 : k \in 1 .. Len(Log[l]) \/ k = Len(Log[l]) + 1
    BY <1>11
  <2>7. lastAppliedIndex[l] + 1 + Len(Append(Log[l], e)) <= Len(H)
    BY <1>6, <1>11, <2>2 DEF NatOrNone
  <2>8. QED
    BY <2>2, <2>4, <2>5, <2>6, <2>7 DEF Slice
<1>13. ASSUME NEW p \in Server PROVE LogSlices(p, H)' /\ ServedAt(p)'
  <2>1. LogSlices(p, G) /\ ServedAt(p)
    BY DEF ReignWith
  <2>2. ServedAt(p)'
    <3>1. CutOK(raftstate'[p].lastAppliedIndex)
      BY <1>9, <2>1 DEF ServedAt
    <3>2. QED
      BY <1>7, <2>1, <3>1 DEF ServedAt, IsChosen, CutOK, applyVars, serviceVars, historyVars
  <2>3. CASE p = l
    <3>1. Slice(Log'[l], lastAppliedIndex[l], H)
      BY <1>8, <1>12
    <3>2. LogSlices(l, H)'
      BY <1>7, <1>9, <3>1 DEF LogSlices, Slice
    <3>3. QED
      BY <2>2, <2>3, <3>2
  <2>4. CASE p # l
    <3>1. /\ raftstate[p].Log \in Seq(Entry) /\ raftstate[p].lastAppliedIndex \in NatOrNone
          /\ Log[p] \in Seq(Entry) /\ lastAppliedIndex[p] \in NatOrNone
      BY <1>1 DEF LogOK, Disk
    <3>2. /\ Slice(Log[p], lastAppliedIndex[p], H)
          /\ Slice(raftstate[p].Log, raftstate[p].lastAppliedIndex, H)
      BY <1>4, <1>5, <2>1, <3>1, SliceKept DEF LogSlices
    <3>3. LogSlices(p, H)'
      BY <1>7, <1>8, <1>9, <2>4, <3>2 DEF LogSlices, Slice
    <3>4. QED
      BY <2>2, <3>3
  <2>5. QED
    BY <2>3, <2>4
<1>14. LeaderAt(l, H)'
  <2>1. LeaderAt(l, G) /\ commitIndex[l] \in Int
    BY DEF ReignWith, ServiceInv, IndexOK, NatOrNone
  <2>2. LastLogIndex(l)' = LastLogIndex(l) + 1
    BY <1>4, <1>7, <1>8, <1>11 DEF LastLogIndex, NatOrNone
  <2>3. LastLogIndex(l) \in Int
    BY <1>11 DEF NatOrNone
  <2>4. LastLogIndex(l)' + 1 = Len(H) /\ commitIndex[l] <= LastLogIndex(l)'
    BY <1>6, <1>11, <2>1, <2>2, <2>3 DEF LeaderAt
  <2>5. QED
    BY <1>7, <1>9, <2>1, <2>4 DEF LeaderAt, IsChosen, applyVars, serviceVars, historyVars
<1>15. ASSUME NEW m \in Requests' PROVE Carries(m, H)'
  <2>1. m \in Requests
    BY <1>7 DEF Requests
  <2>2. Carries(m, G) /\ BodyOK(m)
    BY <1>1, <2>1, RequestBody DEF ReignWith
  <2>3. CASE m.rpc = "AppendEntries"
    <3>1. Slice(m.Entries, m.PrevLogIndex, H)
      BY <1>4, <1>5, <2>2, <2>3, SliceKept DEF Carries, BodyOK
    <3>2. QED
      BY <1>7, <2>2, <2>3, <3>1 DEF Carries, Slice, historyVars
  <2>4. CASE m.rpc # "AppendEntries"
    BY <1>7, <2>2, <2>4 DEF Carries, IsChosen, historyVars
  <2>5. QED
    BY <2>3, <2>4
<1>16. ReignWith(l, H)'
  BY <1>10, <1>13, <1>14, <1>15 DEF ReignWith
<1>17. QED
  BY <1>4, <1>5, <1>16

-----------------------------------------------------------------------------
(* What the followers make of it.                                          *)

\* A step of one peer.
LEMMA OnePeer ==
    ASSUME NEW l, l \in Server, NEW G, ReignWith(l, G), Alone(l)', NEW j \in Server,
           chosen' = chosen, Requests' \subseteq Requests,
           LogSlices(j, G)', ServedAt(j)', LeaderAt(l, G)',
           \A p \in Server \ {j} : /\ Log'[p] = Log[p]
                                   /\ lastAppliedIndex'[p] = lastAppliedIndex[p]
                                   /\ raftstate'[p] = raftstate[p]
                                   /\ commitIndex'[p] = commitIndex[p]
                                   /\ snapReq'[p] = snapReq[p]
                                   /\ logs'[p] = logs[p]
    PROVE  ReignWith(l, G)'
<1>1. HistoryOK(G)'
  BY DEF ReignWith, HistoryOK
<1>2. ASSUME NEW p \in Server \ {j} PROVE LogSlices(p, G)' /\ ServedAt(p)'
  <2>1. LogSlices(p, G) /\ ServedAt(p)
    BY DEF ReignWith
  <2>2. LogSlices(p, G)'
    BY <2>1 DEF LogSlices, Slice
  <2>3. ServedAt(p)'
    BY <2>1 DEF ServedAt, IsChosen, CutOK
  <2>4. QED
    BY <2>2, <2>3
<1>3. ASSUME NEW m \in Requests' PROVE Carries(m, G)'
  <2>1. Carries(m, G)
    BY DEF ReignWith
  <2>2. QED
    BY <2>1 DEF Carries, Slice, IsChosen
<1>4. QED
  BY <1>1, <1>2, <1>3 DEF ReignWith

\* The leader where another peer steps.
LEMMA LeaderKept ==
    ASSUME NEW l, NEW G, LeaderAt(l, G),
           Log'[l] = Log[l], lastAppliedIndex'[l] = lastAppliedIndex[l],
           raftstate'[l] = raftstate[l], commitIndex'[l] = commitIndex[l],
           snapshot'[l] = snapshot[l], DOMAIN snapshot' = DOMAIN snapshot,
           logs'[l] = logs[l], chosen' = chosen
    PROVE  LeaderAt(l, G)'
BY DEF LeaderAt, LastLogIndex, IsChosen

\* AppendEntries makes a slice of two.
LEMMA AppendedSlice ==
    ASSUME LogOK, IndexOK, NEW G \in Seq(Entry), NEW m, m.to \in Server, BodyOK(m),
           m.rpc = "AppendEntries", ~ HandlerPanics(m), Carries(m, G),
           LogSlices(m.to, G)
    PROVE  Slice(LogAfter(m), lastAppliedIndex[m.to], G)
<1> DEFINE j == m.to
<1>1. PICK k : k = m.PrevLogIndex - lastAppliedIndex[j]
  OBVIOUS
<1>2. m.PrevLogIndex \in NatOrNone /\ m.Entries \in Seq(Entry)
  BY DEF BodyOK
<1>3. /\ Len(Log[j]) \in Nat /\ Log[j] \in Seq(Entry)
      /\ lastAppliedIndex[j] \in NatOrNone /\ lastAppliedIndex[j] \in Int
      /\ LastLogIndex(j) = Len(Log[j]) + lastAppliedIndex[j]
  BY LogBounds DEF LogOK, NatOrNone
<1>4. PrevInRange(m) => /\ k \in Nat /\ k <= Len(Log[j])
                        /\ lastAppliedIndex[j] + k = m.PrevLogIndex
  BY <1>1, <1>2, <1>3 DEF PrevInRange, NatOrNone
<1>5. Slice(Log[j], lastAppliedIndex[j], G)
  BY DEF LogSlices
<1>6. Slice(m.Entries, m.PrevLogIndex, G)
  BY DEF Carries
<1>7. CASE Conflict(m)
  <2>1. LogAfter(m) = SubSeq(Log[j], 1, k - 1)
    BY <1>1, <1>7 DEF LogAfter
  <2>2. PrevInRange(m) /\ k # 0
    BY <1>1, <1>2, <1>3, <1>7 DEF Conflict, HandlerPanics, NatOrNone
  <2>3. k - 1 \in Nat /\ k - 1 <= Len(Log[j])
    BY <1>3, <1>4, <2>2
  <2>4. QED
    BY <1>3, <1>5, <2>1, <2>3, SliceHead
<1>8. CASE ~ Conflict(m) /\ Success(m) /\ m.Entries # <<>>
  <2>1. LogAfter(m) = SubSeq(Log[j], 1, k) \o m.Entries
    BY <1>1, <1>8 DEF LogAfter
  <2>2. k \in Nat /\ k <= Len(Log[j]) /\ lastAppliedIndex[j] + k = m.PrevLogIndex
    BY <1>4, <1>8 DEF Success
  <2>3. PICK s : s = SubSeq(Log[j], 1, k)
    OBVIOUS
  <2>4. Slice(s, lastAppliedIndex[j], G) /\ Len(s) = k /\ s \in Seq(Entry)
    BY <1>3, <1>5, <2>2, <2>3, SliceHead
  <2>5. Slice(m.Entries, lastAppliedIndex[j] + Len(s), G)
    BY <1>6, <2>2, <2>4
  <2>6. QED
    BY <1>2, <1>3, <2>1, <2>3, <2>4, <2>5, SliceJoin
<1>9. CASE ~ Conflict(m) /\ ~ (Success(m) /\ m.Entries # <<>>)
  BY <1>5, <1>9 DEF LogAfter
<1>10. QED
  BY <1>7, <1>8, <1>9

\* A follower's log is still a slice, and nothing is committed that is not
\* committed by the leader.
LEMMA AppendReigns ==
    ASSUME NEW l, l \in Server, NEW G \in Seq(Entry), ReignWith(l, G), Alone(l)',
           ElectionInv, ServiceInv, NEW m \in Requests, AppendEntries(m)
    PROVE  ReignWith(l, G)'
<1>1. LogOK /\ IndexOK /\ BodiesOK /\ raftstate \in [Server -> Disk]
  BY DEF ServiceInv
<1>2. PICK j : j = m.to
  OBVIOUS
<1>3. /\ m.rpc = "AppendEntries"
      /\ ~ HandlerPanics(m)
      /\ Answer(m, [Term |-> currentTerm[j], Success |-> Success(m)])
      /\ Log' = [Log EXCEPT ![j] = LogAfter(m)]
      /\ commitIndex' = [commitIndex EXCEPT ![j] = CommitAfter(m)]
      /\ UNCHANGED <<lastAppliedIndex, snapshot, serviceVars, historyVars>>
      /\ IF AppendSaves(m) THEN persist(j) ELSE UNCHANGED raftstate
  BY <1>2 DEF AppendEntries
<1>4. j \in Server /\ j # l
  BY <1>2, <1>3, FromLeader DEF ReignWith
<1>5. /\ Carries(m, G) /\ BodyOK(m) /\ LogSlices(j, G) /\ ServedAt(j)
      /\ LeaderAt(l, G) /\ HistoryOK(G)
  BY <1>1, <1>4, RequestBody DEF ReignWith
<1>6. Slice(LogAfter(m), lastAppliedIndex[j], G) /\ LogAfter(m) \in Seq(Entry)
  BY <1>1, <1>2, <1>3, <1>4, <1>5, AppendedSlice, AppendedLog
<1>7. CommitAfter(m) <= Len(chosen)
  <2>1. /\ m.LeaderCommit \in Int /\ m.LeaderCommit <= Len(chosen)
        /\ commitIndex[j] <= Len(chosen)
    BY <1>3, <1>5 DEF Carries, BodyOK, ServedAt, NatOrNone
  <2>2. lastAppliedIndex[j] \in Int /\ Len(LogAfter(m)) \in Nat /\ Len(chosen) \in Nat
    BY <1>1, <1>4, <1>5, <1>6 DEF LogOK, NatOrNone, HistoryOK
  <2>3. PICK x : x = Len(LogAfter(m)) + lastAppliedIndex[j]
    OBVIOUS
  <2>4. Minimum(m.LeaderCommit, x) <= Len(chosen)
    BY <2>1, <2>2, <2>3 DEF Minimum
  <2>5. CommitAfter(m) \in {Minimum(m.LeaderCommit, x), commitIndex[j]}
    BY <1>2, <2>3 DEF CommitAfter
  <2>6. QED
    BY <2>1, <2>4, <2>5
<1>8. /\ Log'[j] = LogAfter(m) /\ commitIndex'[j] = CommitAfter(m)
      /\ \A p \in Server \ {j} : Log'[p] = Log[p] /\ commitIndex'[p] = commitIndex[p]
  BY <1>1, <1>3, <1>4 DEF LogOK, IndexOK
<1>9. /\ \A p \in Server \ {j} : raftstate'[p] = raftstate[p]
      /\ \/ raftstate'[j] = raftstate[j]
         \/ /\ raftstate'[j].Log = Log'[j]
            /\ raftstate'[j].lastAppliedIndex = lastAppliedIndex[j]
  <2>1. CASE AppendSaves(m)
    BY <1>1, <1>3, <1>4, <2>1 DEF persist, RaftState
  <2>2. CASE ~ AppendSaves(m)
    BY <1>3, <2>2
  <2>3. QED
    BY <2>1, <2>2
<1>10. LogSlices(j, G)'
  <2>1. Slice(Log'[j], lastAppliedIndex'[j], G)
    BY <1>3, <1>6, <1>8
  <2>2. Slice(raftstate'[j].Log, raftstate'[j].lastAppliedIndex, G)
    BY <1>3, <1>5, <1>9, <2>1, Zenon DEF LogSlices
  <2>3. QED
    BY <2>1, <2>2 DEF LogSlices, Slice
<1>11. ServedAt(j)'
  <2>1. CutOK(raftstate'[j].lastAppliedIndex)
    BY <1>5, <1>9, Zenon DEF ServedAt
  <2>2. QED
    BY <1>3, <1>5, <1>7, <1>8, <2>1 DEF ServedAt, IsChosen, CutOK, serviceVars, historyVars
<1>12. LeaderAt(l, G)'
  BY <1>3, <1>4, <1>5, <1>8, <1>9, LeaderKept DEF serviceVars, historyVars
<1>13. Requests' \subseteq Requests
  BY <1>3, AnswerRequests
<1>14. QED
  BY <1>3, <1>4, <1>8, <1>9, <1>10, <1>11, <1>12, <1>13, OnePeer DEF serviceVars, historyVars

\* A snapshot that arrives stands for committed commands only.
LEMMA InstallReigns ==
    ASSUME NEW l, l \in Server, NEW G \in Seq(Entry), ReignWith(l, G), Alone(l)',
           ElectionInv, ServiceInv, NEW m \in Requests, InstallSnapshot(m)
    PROVE  ReignWith(l, G)'
<1>1. LogOK /\ IndexOK /\ BodiesOK /\ DeliveryOK /\ raftstate \in [Server -> Disk]
  BY DEF ServiceInv
<1>2. PICK j : j = m.to
  OBVIOUS
<1>3. PICK due : due = [index |-> m.LastIncludedIndex, value |-> m.Data]
  OBVIOUS
<1>4. PICK n : n = m.LastIncludedIndex
  OBVIOUS
<1>5. PICK half : half = [RaftState(j) EXCEPT !.currentTerm = m.Term, !.voteFor = m.from]
  OBVIOUS
<1>6. /\ m.rpc = "InstallSnapshot"
      /\ Answer(m, [Term |-> currentTerm[j]])
      /\ InstallLog(m)
      /\ snapReq' = [snapReq EXCEPT ![j] = IF Admitted(m) THEN @ \cup {due} ELSE @]
      /\ raftstate' = [raftstate EXCEPT ![j] = IF FollowSaves(m) THEN half ELSE @]
      /\ UNCHANGED <<commitIndex, snapshot, logs, historyVars>>
  BY <1>2, <1>3, <1>5 DEF InstallSnapshot
<1>7. j \in Server /\ j # l
  BY <1>2, <1>6, FromLeader DEF ReignWith
<1>8. /\ Carries(m, G) /\ BodyOK(m) /\ LogSlices(j, G) /\ ServedAt(j)
      /\ LeaderAt(l, G) /\ HistoryOK(G)
  BY <1>1, <1>7, RequestBody DEF ReignWith
<1>9. IsChosen(n, m.Data) /\ n \in Nat
  BY <1>4, <1>6, <1>8 DEF Carries, BodyOK
<1>10. due.index = n /\ due.value = m.Data
  BY <1>3, <1>4
<1>11. half.Log = Log[j] /\ half.lastAppliedIndex = lastAppliedIndex[j]
  BY <1>5 DEF RaftState
<1>12. /\ Log' = [Log EXCEPT ![j] =
                     IF Covers(m) THEN <<>>
                     ELSE IF Ahead(m)
                     THEN SubSeq(@, n - lastAppliedIndex[j] + 1, Len(@))
                     ELSE @]
       /\ lastAppliedIndex' = [lastAppliedIndex EXCEPT ![j] =
                                  IF Covers(m) \/ Ahead(m) THEN n ELSE @]
  BY <1>2, <1>4, <1>6 DEF InstallLog
<1>13. /\ \A p \in Server \ {j} : /\ Log'[p] = Log[p]
                                  /\ lastAppliedIndex'[p] = lastAppliedIndex[p]
                                  /\ raftstate'[p] = raftstate[p]
                                  /\ snapReq'[p] = snapReq[p]
       /\ snapReq'[j] = IF Admitted(m) THEN snapReq[j] \cup {due} ELSE snapReq[j]
       /\ raftstate'[j] = IF FollowSaves(m) THEN half ELSE raftstate[j]
       /\ lastAppliedIndex'[j] = IF Covers(m) \/ Ahead(m) THEN n ELSE lastAppliedIndex[j]
  BY <1>1, <1>6, <1>7, <1>12 DEF LogOK, DeliveryOK
<1>14. /\ Len(Log[j]) \in Nat /\ Log[j] \in Seq(Entry)
       /\ lastAppliedIndex[j] \in Int
       /\ LastLogIndex(j) = Len(Log[j]) + lastAppliedIndex[j]
  BY <1>1, <1>7, LogBounds DEF LogOK, NatOrNone
<1>15. Slice(Log'[j], lastAppliedIndex'[j], G)
  <2>1. Slice(Log[j], lastAppliedIndex[j], G)
    BY <1>8 DEF LogSlices
  <2>2. CASE Covers(m)
    <3>1. Log'[j] = <<>> /\ lastAppliedIndex'[j] = n
      BY <1>1, <1>7, <1>12, <1>13, <2>2 DEF LogOK
    <3>2. n + 1 + Len(<<>>) <= Len(G)
      BY <1>8, <1>9 DEF HistoryOK, IsChosen
    <3>3. \A k \in 1 .. Len(<<>>) : <<>>[k] = G[n + 1 + k]
      OBVIOUS
    <3>4. QED
      BY <3>1, <3>2, <3>3 DEF Slice
  <2>3. CASE ~ Covers(m) /\ Ahead(m)
    <3>1. PICK d : d = n - lastAppliedIndex[j]
      OBVIOUS
    <3>2. Log'[j] = SubSeq(Log[j], d + 1, Len(Log[j])) /\ lastAppliedIndex'[j] = n
      BY <1>1, <1>7, <1>12, <1>13, <2>3, <3>1 DEF LogOK
    <3>3. lastAppliedIndex[j] < n /\ n < LastLogIndex(j)
      BY <1>2, <1>4, <1>9, <1>14, <2>3 DEF Covers, Ahead
    <3>4. d \in Nat /\ d <= Len(Log[j]) /\ lastAppliedIndex[j] + d = n
      BY <1>9, <1>14, <3>1, <3>3
    <3>5. QED
      BY <1>14, <2>1, <3>2, <3>4, SliceTail
  <2>4. CASE ~ Covers(m) /\ ~ Ahead(m)
    <3>1. Log'[j] = Log[j] /\ lastAppliedIndex'[j] = lastAppliedIndex[j]
      BY <1>1, <1>7, <1>12, <1>13, <2>4 DEF LogOK
    <3>2. QED
      BY <2>1, <3>1
  <2>5. QED
    BY <2>2, <2>3, <2>4
<1>16. LogSlices(j, G)'
  <2>1. Slice(raftstate'[j].Log, raftstate'[j].lastAppliedIndex, G)
    BY <1>8, <1>11, <1>13, Zenon DEF LogSlices
  <2>2. QED
    BY <1>15, <2>1 DEF LogSlices, Slice
<1>17. ServedAt(j)'
  <2>1. CutOK(raftstate'[j].lastAppliedIndex)
    BY <1>8, <1>11, <1>13, Zenon DEF ServedAt
  <2>2. CutOK(lastAppliedIndex'[j])
    BY <1>8, <1>9, <1>13 DEF ServedAt, CutOK, IsChosen
  <2>3. \A r \in snapReq'[j] : IsChosen(r.index, r.value)
    BY <1>8, <1>9, <1>10, <1>13, Zenon DEF ServedAt
  <2>4. QED
    BY <1>6, <1>8, <2>1, <2>2, <2>3 DEF ServedAt, IsChosen, CutOK, historyVars
<1>18. LeaderAt(l, G)'
  BY <1>6, <1>7, <1>8, <1>13, LeaderKept DEF historyVars
<1>19. Requests' \subseteq Requests
  BY <1>6, AnswerRequests
<1>20. QED
  BY <1>6, <1>7, <1>13, <1>16, <1>17, <1>18, <1>19, OnePeer DEF historyVars

\* The entry of a peer at a committed index holds the committed command.
LEMMA CommittedEntry ==
    ASSUME NEW G \in Seq(Entry), HistoryOK(G), LogOK, NEW i \in Server, LogSlices(i, G),
           NEW k \in Nat, k > lastAppliedIndex[i], k <= LastLogIndex(i)
    PROVE  /\ k - lastAppliedIndex[i] \in 1 .. Len(Log[i])
           /\ EntryAt(i, k) = G[k + 1]
           /\ k \in 1 .. Len(chosen) => EntryAt(i, k).Command = chosen[k]
<1>1. /\ Len(Log[i]) \in Nat /\ lastAppliedIndex[i] \in Int
      /\ LastLogIndex(i) = Len(Log[i]) + lastAppliedIndex[i]
  BY LogBounds DEF NatOrNone
<1>2. PICK d : d = k - lastAppliedIndex[i]
  OBVIOUS
<1>3. d \in 1 .. Len(Log[i]) /\ lastAppliedIndex[i] + 1 + d = k + 1
  BY <1>1, <1>2
<1>4. Log[i][d] = G[lastAppliedIndex[i] + 1 + d]
  BY <1>3 DEF LogSlices, Slice
<1>5. EntryAt(i, k) = G[k + 1]
  BY <1>2, <1>3, <1>4 DEF EntryAt
<1>6. QED
  BY <1>2, <1>3, <1>5 DEF HistoryOK

\* applyLogToRsm hands over committed commands only.
LEMMA ReceivedChosen ==
    ASSUME NEW G \in Seq(Entry), HistoryOK(G), LogOK, IndexOK, DeliveryOK, NEW i \in Server,
           LogSlices(i, G), ServedAt(i),
           NEW index \in lastApplied[i] + 1 .. commitIndex[i], index <= LastLogIndex(i)
    PROVE  \A k \in Received(i, index) : IsChosen(k, EntryAt(i, k).Command)
<1> SUFFICES ASSUME NEW k \in Received(i, index) PROVE IsChosen(k, EntryAt(i, k).Command)
  OBVIOUS
<1>1. /\ lastApplied[i] \in Int /\ commitIndex[i] \in Int /\ next[i] \in Nat
      /\ lastAppliedIndex[i] \in Int /\ LastLogIndex(i) \in Int /\ Len(chosen) \in Nat
  BY LogBounds DEF IndexOK, DeliveryOK, LogOK, NatOrNone, HistoryOK
<1>2. k \in Passed(i, index) /\ k # 0
  BY DEF Received
<1>3. next[i] \in Batch(i, index) /\ k \in next[i] .. index
  BY <1>2 DEF Passed
<1>4. lastApplied[i] >= lastAppliedIndex[i] /\ next[i] >= lastApplied[i] + 1
  BY <1>1, <1>3 DEF Batch
<1>5. commitIndex[i] <= Len(chosen)
  BY DEF ServedAt
<1>6. k \in Nat /\ k > lastAppliedIndex[i] /\ k <= LastLogIndex(i) /\ k \in 1 .. Len(chosen)
  BY <1>1, <1>2, <1>3, <1>4, <1>5
<1>7. QED
  BY <1>6, CommittedEntry DEF IsChosen

\* The services get what was committed, and ask for snapshots of that.
LEMMA ApplyReigns ==
    ASSUME NEW l, l \in Server, NEW G \in Seq(Entry), ReignWith(l, G), Alone(l)',
           ElectionInv, ServiceInv, NEW i \in Server,
           NEW index \in lastApplied[i] + 1 .. commitIndex[i], applyLogToRsm(i, index)
    PROVE  ReignWith(l, G)'
<1>1. LogOK /\ IndexOK /\ DeliveryOK
  BY DEF ServiceInv
<1>2. LogSlices(i, G) /\ ServedAt(i) /\ LeaderAt(l, G) /\ HistoryOK(G)
  BY DEF ReignWith
<1>3. PICK new : new = {[index |-> k, value |-> EntryAt(i, k).Command] :
                           k \in {n \in Received(i, index) : SnapshotDue(n)}}
  OBVIOUS
<1>4. /\ index <= LastLogIndex(i)
      /\ logs' = [logs EXCEPT ![i] = checkLogs(i, index)]
      /\ snapReq' = [snapReq EXCEPT ![i] = @ \cup new]
      /\ UNCHANGED <<logVars, commitIndex, raftstate, snapshot, call, late, historyVars>>
  BY <1>3 DEF applyLogToRsm
<1>5. \A k \in Received(i, index) : IsChosen(k, EntryAt(i, k).Command)
  BY <1>1, <1>2, <1>4, ReceivedChosen
<1>6. \A r \in new : IsChosen(r.index, r.value)
  BY <1>3, <1>5
<1>7. /\ \A p \in Server \ {i} : logs'[p] = logs[p] /\ snapReq'[p] = snapReq[p]
      /\ logs'[i] = checkLogs(i, index)
      /\ snapReq'[i] = snapReq[i] \cup new
  BY <1>1, <1>4 DEF DeliveryOK
<1>8. /\ DOMAIN logs'[i] = DOMAIN logs[i] \cup Received(i, index)
      /\ logs'[i] = [k \in DOMAIN logs'[i] |-> logs'[i][k]]
      /\ \A k \in DOMAIN logs'[i] :
            logs'[i][k] = IF k \in Received(i, index) THEN EntryAt(i, k).Command ELSE logs[i][k]
  BY <1>7 DEF checkLogs
<1>9. ServedAt(i)'
  <2>1. \A k \in DOMAIN logs'[i] : IsChosen(k, logs'[i][k])
    BY <1>2, <1>5, <1>8, Zenon DEF ServedAt
  <2>2. \A r \in snapReq'[i] : IsChosen(r.index, r.value)
    BY <1>2, <1>6, <1>7 DEF ServedAt
  <2>3. QED
    BY <1>2, <1>4, <1>8, <2>1, <2>2 DEF ServedAt, IsChosen, CutOK, logVars, historyVars
<1>10. LogSlices(i, G)'
  BY <1>2, <1>4 DEF LogSlices, Slice, logVars
<1>11. LeaderAt(l, G)'
  <2>1. lastAppliedIndex[l] \in DOMAIN logs[l] => lastAppliedIndex[l] \in DOMAIN logs'[l]
    BY <1>7, <1>8, Zenon
  <2>2. QED
    BY <1>2, <1>4, <2>1 DEF LeaderAt, LastLogIndex, IsChosen, logVars, historyVars
<1>12. Requests' \subseteq Requests
  BY <1>4 DEF Requests
<1>13. QED
  BY <1>4, <1>7, <1>9, <1>10, <1>11, <1>12, OnePeer DEF logVars, historyVars

\* doSnapshot cuts a log at a committed index.
LEMMA SnapshotReigns ==
    ASSUME NEW l, l \in Server, NEW G \in Seq(Entry), ReignWith(l, G), Alone(l)',
           ElectionInv, ServiceInv, NEW i \in Server, NEW r \in snapReq[i], doSnapshot(i, r)
    PROVE  ReignWith(l, G)'
<1>1. LogOK /\ IndexOK /\ DeliveryOK /\ raftstate \in [Server -> Disk]
  BY DEF ServiceInv
<1>2. /\ LogSlices(i, G) /\ ServedAt(i) /\ LeaderAt(l, G) /\ HistoryOK(G)
      /\ IsChosen(r.index, r.value) /\ r.index \in Nat
  BY <1>1 DEF ReignWith, ServedAt, DeliveryOK
<1>3. PICK cut : cut = r.index - lastAppliedIndex[i]
  OBVIOUS
<1>4. /\ snapReq' = [snapReq EXCEPT ![i] = @ \ {r}]
      /\ ~ doSnapshotPanics(i, r)
      /\ UNCHANGED <<commitIndex, call, late, historyVars>>
  BY DEF doSnapshot
<1>5. Requests' \subseteq Requests
  BY <1>4 DEF Requests
<1>6. snapReq'[i] \subseteq snapReq[i] /\ \A p \in Server \ {i} : snapReq'[p] = snapReq[p]
  BY <1>1, <1>4 DEF DeliveryOK
<1>7. CASE cut < 0
  <2>1. UNCHANGED <<logVars, raftstate, snapshot, logs>>
    BY <1>3, <1>7 DEF doSnapshot
  <2>2. ServedAt(i)'
    BY <1>2, <1>4, <1>6, <2>1 DEF ServedAt, IsChosen, CutOK, logVars, historyVars
  <2>3. LogSlices(i, G)'
    BY <1>2, <2>1 DEF LogSlices, Slice, logVars
  <2>4. LeaderAt(l, G)'
    BY <1>2, <1>4, <2>1, LeaderKept DEF logVars, historyVars
  <2>5. QED
    BY <1>4, <1>5, <1>6, <2>1, <2>2, <2>3, <2>4, OnePeer DEF logVars, historyVars
<1>8. CASE ~ (cut < 0)
  <2>1. /\ Log' = [Log EXCEPT ![i] = SubSeq(@, cut + 1, Len(@))]
        /\ lastAppliedIndex' = [lastAppliedIndex EXCEPT ![i] = r.index]
        /\ logs' = [logs EXCEPT ![i] = [k \in {r.index} |-> r.value]]
        /\ persist(i)
        /\ snapshot' = [snapshot EXCEPT ![i] = r.value]
    BY <1>3, <1>8 DEF doSnapshot, SaveStateAndSnapshot
  <2>2. /\ Log'[i] = SubSeq(Log[i], cut + 1, Len(Log[i]))
        /\ lastAppliedIndex'[i] = r.index
        /\ logs'[i] = [k \in {r.index} |-> r.value]
        /\ raftstate'[i].Log = Log'[i] /\ raftstate'[i].lastAppliedIndex = lastAppliedIndex'[i]
    BY <1>1, <2>1 DEF LogOK, DeliveryOK, persist, RaftState
  <2>3. \A p \in Server \ {i} : /\ Log'[p] = Log[p]
                                /\ lastAppliedIndex'[p] = lastAppliedIndex[p]
                                /\ raftstate'[p] = raftstate[p]
                                /\ logs'[p] = logs[p]
    BY <1>1, <2>1 DEF LogOK, DeliveryOK, persist
  <2>4. /\ Len(Log[i]) \in Nat /\ Log[i] \in Seq(Entry)
        /\ lastAppliedIndex[i] \in Int
        /\ LastLogIndex(i) = Len(Log[i]) + lastAppliedIndex[i]
    BY <1>1, LogBounds DEF LogOK, NatOrNone
  <2>5. cut \in Nat /\ cut <= Len(Log[i]) /\ lastAppliedIndex[i] + cut = r.index
    BY <1>2, <1>3, <1>4, <1>8, <2>4 DEF doSnapshotPanics
  <2>6. Slice(Log'[i], lastAppliedIndex'[i], G)
    BY <1>2, <2>2, <2>4, <2>5, SliceTail DEF LogSlices
  <2>7. LogSlices(i, G)'
    BY <2>2, <2>6 DEF LogSlices, Slice
  <2>8. ServedAt(i)'
    <3>1. /\ CutOK(lastAppliedIndex'[i]) /\ CutOK(raftstate'[i].lastAppliedIndex)
          /\ \A k \in DOMAIN logs'[i] : IsChosen(k, logs'[i][k])
          /\ \A x \in snapReq'[i] : IsChosen(x.index, x.value)
          /\ commitIndex[i] <= Len(chosen)
      BY <1>2, <1>6, <2>2 DEF ServedAt, CutOK, IsChosen
    <3>2. logs'[i] = [k \in DOMAIN logs'[i] |-> logs'[i][k]]
      BY <2>2
    <3>3. QED
      BY <1>4, <3>1, <3>2 DEF ServedAt, IsChosen, CutOK, historyVars
  <2>9. LeaderAt(l, G)'
    <3>1. CASE i # l
      <4>1. snapshot'[l] = snapshot[l] /\ DOMAIN snapshot' = DOMAIN snapshot
        BY <2>1, <3>1
      <4>2. QED
        BY <1>2, <1>4, <2>3, <3>1, <4>1, LeaderKept DEF historyVars
    <3>2. CASE i = l
      <4>1. Len(Log'[l]) = Len(Log[l]) - cut
        BY <1>2, <2>2, <2>4, <2>5, <3>2, SliceTail DEF LogSlices
      <4>2. LastLogIndex(l)' = LastLogIndex(l)
        BY <2>2, <2>4, <2>5, <3>2, <4>1 DEF LastLogIndex
      <4>3. snapshot'[l] = r.value /\ l \in DOMAIN snapshot'
        BY <1>2, <2>1, <3>2 DEF LeaderAt
      <4>4. lastAppliedIndex'[l] \in DOMAIN logs'[l]
        BY <2>2, <3>2
      <4>5. /\ LastLogIndex(l)' + 1 = Len(G) /\ commitIndex'[l] <= LastLogIndex(l)'
            /\ raftstate'[l].Log = Log'[l]
            /\ raftstate'[l].lastAppliedIndex = lastAppliedIndex'[l]
        BY <1>2, <1>4, <2>2, <3>2, <4>2 DEF LeaderAt
      <4>6. IsChosen(lastAppliedIndex'[l], snapshot'[l])
        BY <1>2, <2>2, <3>2, <4>3
      <4>7. IsChosen(lastAppliedIndex[l], snapshot[l])'
        BY <1>4, <4>6 DEF IsChosen, historyVars
      <4>8. QED
        BY <4>3, <4>4, <4>5, <4>7 DEF LeaderAt
    <3>3. QED
      BY <3>1, <3>2
  <2>10. QED
    BY <1>4, <1>5, <1>6, <2>3, <2>7, <2>8, <2>9, OnePeer DEF historyVars
<1>9. QED
  BY <1>7, <1>8

-----------------------------------------------------------------------------
(* The leader commits.                                                     *)

\* ChosenBy extends what was committed, along the history.
LEMMA ChosenGrows ==
    ASSUME NEW l, l \in Server, NEW G \in Seq(Entry), LogOK, HistoryOK(G), LogSlices(l, G),
           ServedAt(l), LeaderAt(l, G), NEW N \in NatOrNone, N <= LastLogIndex(l)
    PROVE  /\ ChosenBy(l, N) \in Seq(Command)
           /\ Len(ChosenBy(l, N)) >= Len(chosen)
           /\ Len(ChosenBy(l, N)) >= N
           /\ Len(ChosenBy(l, N)) + 1 <= Len(G)
           /\ \A k \in 1 .. Len(ChosenBy(l, N)) : ChosenBy(l, N)[k] = G[k + 1].Command
           /\ \A k \in 1 .. Len(chosen) : ChosenBy(l, N)[k] = chosen[k]
<1>1. /\ lastAppliedIndex[l] \in Int /\ LastLogIndex(l) \in Int
      /\ Len(chosen) \in Nat /\ Len(G) \in Nat
      /\ LastLogIndex(l) + 1 = Len(G) /\ Len(chosen) + 1 <= Len(G)
      /\ N \in Int
  BY LogBounds DEF HistoryOK, LeaderAt, NatOrNone
<1>2. PICK n : n = IF N > Len(chosen) THEN N ELSE Len(chosen)
  OBVIOUS
<1>3. n \in Nat /\ n >= N /\ n >= Len(chosen) /\ n + 1 <= Len(G)
  BY <1>1, <1>2 DEF NatOrNone
<1>4. PICK s : s = ChosenBy(l, N)
  OBVIOUS
<1>5. s = [k \in 1 .. n |-> IF k \in lastAppliedIndex[l] + 1 .. N
                            THEN EntryAt(l, k).Command ELSE chosen[k]]
  BY <1>2, <1>4 DEF ChosenBy
<1>6. ASSUME NEW k \in 1 .. n PROVE s[k] = G[k + 1].Command /\ s[k] \in Command
  <2>1. G[k + 1].Command \in Command
    <3>1. k + 1 \in 2 .. Len(G)
      BY <1>1, <1>3
    <3>2. QED
      BY <3>1 DEF HistoryOK
  <2>2. CASE k \in lastAppliedIndex[l] + 1 .. N
    <3>1. k \in Nat /\ k > lastAppliedIndex[l] /\ k <= LastLogIndex(l)
      BY <1>1, <2>2
    <3>2. EntryAt(l, k) = G[k + 1]
      BY <3>1, CommittedEntry
    <3>3. s[k] = EntryAt(l, k).Command
      BY <1>5, <2>2
    <3>4. QED
      BY <2>1, <3>2, <3>3
  <2>3. CASE k \notin lastAppliedIndex[l] + 1 .. N
    <3>1. lastAppliedIndex[l] = -1 \/ lastAppliedIndex[l] \in 1 .. Len(chosen)
      BY DEF ServedAt, CutOK
    <3>2. k \in 1 .. Len(chosen)
      BY <1>1, <1>2, <2>3, <3>1
    <3>3. chosen[k] = G[k + 1].Command
      BY <3>2 DEF HistoryOK
    <3>4. s[k] = chosen[k]
      BY <1>5, <2>3
    <3>5. QED
      BY <2>1, <3>3, <3>4
  <2>4. QED
    BY <2>2, <2>3
<1>7. s \in [1 .. n -> Command]
  BY <1>5, <1>6
<1>8. s \in Seq(Command) /\ Len(s) = n
  BY <1>3, <1>7
<1>9. ASSUME NEW k \in 1 .. Len(chosen) PROVE s[k] = chosen[k]
  <2>1. k \in 1 .. n
    BY <1>1, <1>3
  <2>2. chosen[k] = G[k + 1].Command
    BY DEF HistoryOK
  <2>3. QED
    BY <1>6, <2>1, <2>2
<1>10. QED
  BY <1>3, <1>4, <1>6, <1>8, <1>9

\* What was committed stays committed.
LEMMA ChosenKept ==
    ASSUME Len(chosen) \in Nat, Len(chosen') \in Nat, Len(chosen') >= Len(chosen),
           \A k \in 1 .. Len(chosen) : chosen'[k] = chosen[k]
    PROVE  /\ \A k, c : IsChosen(k, c) => k \in 1 .. Len(chosen') /\ c = chosen'[k]
           /\ \A b : CutOK(b) => b = -1 \/ b \in 1 .. Len(chosen')
BY DEF IsChosen, CutOK

\* What the end of a round of the leader does to commitIndex and to chosen.
LEMMA RoundEnds ==
    ASSUME NEW l, l \in Server, NEW G \in Seq(Entry), ReignWith(l, G),
           ServiceInv, sendAERpcsEnd(l)
    PROVE  /\ commitIndex'[l] \in NatOrNone
           /\ commitIndex'[l] <= LastLogIndex(l)
           /\ \A p \in Server \ {l} : commitIndex'[p] = commitIndex[p]
           /\ chosen' = ChosenBy(l, commitIndex'[l])
<1>1. LogOK /\ IndexOK
  BY DEF ServiceInv
<1>2. /\ commitIndex' = [commitIndex EXCEPT ![l] =
                           IF Majority(ticker[l].yes) THEN findMaxN(l) ELSE @]
      /\ chosen' = ChosenBy(l, commitIndex'[l])
  BY DEF sendAERpcsEnd
<1>3. commitIndex'[l] \in {findMaxN(l), commitIndex[l]}
      /\ \A p \in Server \ {l} : commitIndex'[p] = commitIndex[p]
  BY <1>1, <1>2 DEF IndexOK
<1>4. commitIndex[l] \in NatOrNone /\ commitIndex[l] <= LastLogIndex(l)
  BY <1>1 DEF IndexOK, ReignWith, LeaderAt
<1>5. findMaxN(l) \in NatOrNone /\ findMaxN(l) <= LastLogIndex(l)
  BY <1>1, <1>4, MaxNType
<1>6. QED
  BY <1>2, <1>3, <1>4, <1>5

\* Only the leader ends a round of sendAERpcs.
LEMMA RoundOfLeader ==
    ASSUME NEW l, NEW G, ReignWith(l, G), NEW i \in Server, sendAERpcsEnd(i)
    PROVE  i = l
BY DEF sendAERpcsEnd, ReignWith, Alone, Idle

\* The leader commits entries of the history, and nobody loses anything.
LEMMA CommitReigns ==
    ASSUME NEW l, l \in Server, NEW G \in Seq(Entry), ReignWith(l, G), Alone(l)',
           ElectionInv, ServiceInv, sendAERpcsEnd(l)
    PROVE  ReignWith(l, G)'
<1>1. LogOK /\ IndexOK
  BY DEF ServiceInv
<1>2. LogSlices(l, G) /\ ServedAt(l) /\ LeaderAt(l, G) /\ HistoryOK(G)
  BY DEF ReignWith
<1>3. UNCHANGED <<logVars, raftstate, snapshot, call, late, serviceVars>>
  BY DEF sendAERpcsEnd
<1>4. /\ commitIndex'[l] \in NatOrNone
      /\ commitIndex'[l] <= LastLogIndex(l)
      /\ \A p \in Server \ {l} : commitIndex'[p] = commitIndex[p]
      /\ chosen' = ChosenBy(l, commitIndex'[l])
  BY RoundEnds
<1>5. /\ chosen' \in Seq(Command)
      /\ Len(chosen') >= Len(chosen) /\ Len(chosen') >= commitIndex'[l]
      /\ Len(chosen') + 1 <= Len(G)
      /\ \A k \in 1 .. Len(chosen') : chosen'[k] = G[k + 1].Command
      /\ \A k \in 1 .. Len(chosen) : chosen'[k] = chosen[k]
  BY <1>1, <1>2, <1>4, ChosenGrows
<1>6. Len(chosen) \in Nat /\ Len(chosen') \in Nat
  BY <1>2, <1>5 DEF HistoryOK
<1>7. /\ \A k, c : IsChosen(k, c) => k \in 1 .. Len(chosen') /\ c = chosen'[k]
      /\ \A b : CutOK(b) => b = -1 \/ b \in 1 .. Len(chosen')
  BY <1>5, <1>6, ChosenKept
<1>8. HistoryOK(G)'
  BY <1>2, <1>5 DEF HistoryOK
<1>9. ASSUME NEW p \in Server PROVE LogSlices(p, G)' /\ ServedAt(p)'
  <2>1. LogSlices(p, G) /\ ServedAt(p)
    BY DEF ReignWith
  <2>2. LogSlices(p, G)'
    BY <1>3, <2>1 DEF LogSlices, Slice, logVars
  <2>3. commitIndex'[p] <= Len(chosen')
    <3>1. commitIndex[p] \in Int /\ commitIndex[p] <= Len(chosen)
      BY <1>1, <2>1 DEF IndexOK, ServedAt, NatOrNone
    <3>2. QED
      BY <1>4, <1>5, <1>6, <3>1
  <2>4. /\ \A k \in DOMAIN logs[p] : k \in 1 .. Len(chosen') /\ logs[p][k] = chosen'[k]
        /\ \A r \in snapReq[p] : r.index \in 1 .. Len(chosen') /\ r.value = chosen'[r.index]
    BY <1>7, <2>1 DEF ServedAt
  <2>5. /\ lastAppliedIndex[p] = -1 \/ lastAppliedIndex[p] \in 1 .. Len(chosen')
        /\ \/ raftstate[p].lastAppliedIndex = -1
           \/ raftstate[p].lastAppliedIndex \in 1 .. Len(chosen')
    BY <1>7, <2>1 DEF ServedAt
  <2>6. logs[p] = [k \in DOMAIN logs[p] |-> logs[p][k]]
    BY <2>1 DEF ServedAt
  <2>7. ServedAt(p)'
    BY <1>3, <2>3, <2>4, <2>5, <2>6 DEF ServedAt, IsChosen, CutOK, logVars, serviceVars
  <2>8. QED
    BY <2>2, <2>7
<1>10. LeaderAt(l, G)'
  <2>1. lastAppliedIndex[l] >= 0 => /\ lastAppliedIndex[l] \in 1 .. Len(chosen')
                                    /\ snapshot[l] = chosen'[lastAppliedIndex[l]]
    BY <1>2, <1>7 DEF LeaderAt
  <2>2. QED
    BY <1>2, <1>3, <1>4, <2>1 DEF LeaderAt, LastLogIndex, IsChosen, logVars, serviceVars
<1>11. ASSUME NEW m \in Requests' PROVE Carries(m, G)'
  <2>1. m \in Requests
    BY <1>3 DEF Requests
  <2>2. Carries(m, G) /\ BodyOK(m)
    BY <2>1, RequestBody DEF ReignWith, ServiceInv
  <2>3. m.rpc = "AppendEntries" => m.LeaderCommit <= Len(chosen')
    BY <1>5, <1>6, <2>2 DEF Carries, BodyOK, NatOrNone
  <2>4. m.rpc = "InstallSnapshot" => /\ m.LastIncludedIndex \in 1 .. Len(chosen')
                                     /\ m.Data = chosen'[m.LastIncludedIndex]
    BY <1>7, <2>2 DEF Carries
  <2>5. QED
    BY <2>2, <2>3, <2>4 DEF Carries, Slice, IsChosen
<1>12. QED
  BY <1>8, <1>9, <1>10, <1>11 DEF ReignWith

-----------------------------------------------------------------------------
(* Crash and restart.                                                      *)

\* The log on disk after a crash is the saved one or the one in memory.
LEMMA DiskLog ==
    ASSUME NEW i \in Server, NEW disk \in {raftstate[i]} \cup HalfSaved(i)
    PROVE  \/ disk = raftstate[i]
           \/ /\ disk.Log = Log[i]
              /\ disk.lastAppliedIndex = lastAppliedIndex[i]
              /\ disk.lastAppliedTerm = lastAppliedTerm[i]
<1>1. CASE disk \in HalfSaved(i)
  <2>1. \E t, v : disk = [RaftState(i) EXCEPT !.currentTerm = t, !.voteFor = v]
    BY <1>1 DEF HalfSaved
  <2>2. PICK t, v : disk = [RaftState(i) EXCEPT !.currentTerm = t, !.voteFor = v]
    BY <2>1
  <2>3. QED
    BY <2>2 DEF RaftState
<1>2. QED
  BY <1>1

\* A crash lets no request out.
LEMMA CrashRequests ==
    ASSUME NEW i \in Server,
           NEW S \in SUBSET {call[i][j].args : j \in {k \in Server : call[i][k].st = "sent"}},
           crash1(i, S)
    PROVE  Requests' \subseteq Requests
<1>1. S \subseteq Requests
  BY RequestPlace
<1>2. late' \subseteq Requests
  BY <1>1 DEF crash1, Requests
<1>3. \A p, q \in Server : call'[p][q].st = "sent" => call'[p][q] = call[p][q]
  BY DEF crash1, Finished, Lost
<1>4. QED
  BY <1>2, <1>3, NoNewRequests

\* Who restarts comes back with a slice of the history, the leader with its end.
LEMMA RestartReigns ==
    ASSUME NEW l, l \in Server, NEW G \in Seq(Entry), ReignWith(l, G), Alone(l)',
           ElectionInv, ServiceInv, NEW i \in Server, Restart(i)
    PROVE  ReignWith(l, G)'
<1>1. LogOK /\ IndexOK /\ DeliveryOK /\ raftstate \in [Server -> Disk]
  BY DEF ServiceInv
<1>2. PICK disk \in {raftstate[i]} \cup HalfSaved(i),
           S \in SUBSET {call[i][j].args : j \in {k \in Server : call[i][k].st = "sent"}} :
        /\ crash1(i, S)
        /\ Restore(i, disk)
        /\ raftstate' = [raftstate EXCEPT ![i] = disk]
        /\ commitIndex' = [commitIndex EXCEPT ![i] = disk.lastAppliedIndex]
        /\ snapReq' = [snapReq EXCEPT ![i] = {}]
        /\ UNCHANGED <<snapshot, logs, historyVars>>
  BY DEF Restart
<1>3. LogSlices(i, G) /\ ServedAt(i) /\ LeaderAt(l, G) /\ HistoryOK(G)
  BY DEF ReignWith
<1>4. disk = raftstate[i] \/ (disk.Log = Log[i] /\ disk.lastAppliedIndex = lastAppliedIndex[i])
  BY DiskLog
<1>5. Slice(disk.Log, disk.lastAppliedIndex, G) /\ CutOK(disk.lastAppliedIndex)
  BY <1>3, <1>4, Zenon DEF LogSlices, ServedAt
<1>6. disk.Log \in Seq(Entry) /\ disk.lastAppliedIndex \in NatOrNone
  BY DiskTyped DEF Disk
<1>7. /\ Log'[i] = disk.Log /\ lastAppliedIndex'[i] = disk.lastAppliedIndex
      /\ raftstate'[i] = disk /\ commitIndex'[i] = disk.lastAppliedIndex /\ snapReq'[i] = {}
      /\ \A p \in Server \ {i} : /\ Log'[p] = Log[p]
                                 /\ lastAppliedIndex'[p] = lastAppliedIndex[p]
                                 /\ raftstate'[p] = raftstate[p]
                                 /\ commitIndex'[p] = commitIndex[p]
                                 /\ snapReq'[p] = snapReq[p]
  BY <1>1, <1>2 DEF LogOK, IndexOK, DeliveryOK, Restore
<1>8. LogSlices(i, G)'
  BY <1>5, <1>7 DEF LogSlices, Slice
<1>9. ServedAt(i)'
  <2>1. disk.lastAppliedIndex <= Len(chosen)
    BY <1>3, <1>5 DEF CutOK, HistoryOK
  <2>2. QED
    BY <1>2, <1>3, <1>5, <1>7, <2>1 DEF ServedAt, IsChosen, CutOK, historyVars
<1>10. LeaderAt(l, G)'
  <2>1. CASE i # l
    BY <1>2, <1>3, <1>7, <2>1, LeaderKept DEF historyVars
  <2>2. CASE i = l
    <3>1. disk.Log = Log[l] /\ disk.lastAppliedIndex = lastAppliedIndex[l]
      BY <1>3, <1>4, <2>2 DEF LeaderAt
    <3>2. lastAppliedIndex[l] <= LastLogIndex(l)
      BY <1>1, LogBounds
    <3>3. QED
      BY <1>2, <1>3, <1>7, <2>2, <3>1, <3>2 DEF LeaderAt, LastLogIndex, IsChosen, historyVars
  <2>3. QED
    BY <2>1, <2>2
<1>11. Requests' \subseteq Requests
  BY <1>2, CrashRequests
<1>12. QED
  BY <1>2, <1>7, <1>8, <1>9, <1>10, <1>11, OnePeer DEF historyVars

-----------------------------------------------------------------------------
(* The invariant, and what it is for.                                      *)

\* At first the history is the dummy entry of Make.
LEMMA ReignInit == ASSUME NEW l, Reign(l), Init PROVE ReignInv(l)
<1>1. PICK e : e = [Term |-> 0, Command |-> Nil]
  OBVIOUS
<1>2. PICK G : G = <<e>>
  OBVIOUS
<1>3. e \in Entry
  BY <1>1 DEF Entry
<1>4. G \in Seq(Entry) /\ Len(G) = 1 /\ G[1] = e
  BY <1>2, <1>3
<1>5. /\ Log = [i \in Server |-> G]
      /\ lastAppliedIndex = [i \in Server |-> -1]
      /\ commitIndex = [i \in Server |-> -1]
      /\ raftstate = [i \in Server |-> RaftState(i)]
      /\ snapshot = [i \in Server |-> Nil]
      /\ ticker = [i \in Server |-> Idle]
      /\ call = [i \in Server |-> [j \in Server |-> Finished]]
      /\ late = {} /\ won = {} /\ chosen = <<>>
      /\ snapReq = [i \in Server |-> {}]
      /\ logs = [i \in Server |-> [k \in {} |-> Nil]]
  BY <1>1, <1>2 DEF Init
<1>6. Alone(l)
  BY <1>5 DEF Alone
<1>7. chosen \in Seq(Command) /\ Len(chosen) = 0
  BY <1>5
<1>8. HistoryOK(G)
  BY <1>4, <1>7 DEF HistoryOK
<1>9. Slice(G, -1, G)
  BY <1>4 DEF Slice
<1>10. ASSUME NEW i \in Server PROVE LogSlices(i, G) /\ ServedAt(i)
  <2>1. /\ Log[i] = G /\ lastAppliedIndex[i] = -1
        /\ raftstate[i].Log = G /\ raftstate[i].lastAppliedIndex = -1
    BY <1>5 DEF RaftState
  <2>2. LogSlices(i, G)
    BY <1>9, <2>1 DEF LogSlices
  <2>3. /\ logs[i] = [k \in {} |-> Nil] /\ snapReq[i] = {} /\ commitIndex[i] = -1
    BY <1>5
  <2>4. DOMAIN logs[i] = {} /\ logs[i] = [k \in DOMAIN logs[i] |-> logs[i][k]]
    BY <2>3
  <2>5. ServedAt(i)
    BY <1>7, <2>1, <2>3, <2>4 DEF ServedAt, CutOK
  <2>6. QED
    BY <2>2, <2>5
<1>11. LeaderAt(l, G)
  <2>1. /\ Log[l] = G /\ lastAppliedIndex[l] = -1 /\ commitIndex[l] = -1
        /\ raftstate[l].Log = G /\ raftstate[l].lastAppliedIndex = -1
        /\ l \in DOMAIN snapshot
    BY <1>5 DEF RaftState, Reign
  <2>2. QED
    BY <1>4, <2>1 DEF LeaderAt, LastLogIndex
<1>12. Requests = {}
  <2>1. \A m : m \notin Requests
    BY <1>5, RequestPlace DEF Finished
  <2>2. QED
    BY <2>1
<1>13. ReignWith(l, G)
  BY <1>6, <1>8, <1>10, <1>11, <1>12 DEF ReignWith
<1>14. QED
  BY <1>4, <1>13 DEF ReignInv

\* Only Start adds to the history.
LEMMA HistoryKept ==
    ASSUME NEW l, Reign(l), ElectionInv, ServiceInv, NEW G \in Seq(Entry), ReignWith(l, G),
           [Next]_vars, ~ \E i \in Server, c \in Command : Start(i, c)
    PROVE  ReignWith(l, G)'
<1>1. l \in Server /\ Alone(l)'
  BY AloneNext DEF Reign, ReignWith
<1>2. ASSUME NEW m \in Requests, Handle(m) PROVE ReignWith(l, G)'
  BY <1>1, <1>2, RequestVoteReigns, AppendReigns, InstallReigns DEF Handle
<1>3. ASSUME NEW i \in Server, NEW j \in Server, Worker(i, j) PROVE ReignWith(l, G)'
  BY <1>1, <1>3, CallsReign, RepliesReign DEF Worker
<1>4. ASSUME NEW i \in Server, Peer(i) PROVE ReignWith(l, G)'
  <2>1. ASSUME sendAERpcsEnd(i) PROVE ReignWith(l, G)'
    BY <1>1, <2>1, RoundOfLeader, CommitReigns
  <2>2. QED
    BY <1>1, <1>4, <2>1, RoundsReign, ApplyReigns, SnapshotReigns DEF Peer
<1>5. ASSUME NEW i \in Server, Restart(i) PROVE ReignWith(l, G)'
  BY <1>1, <1>5, RestartReigns
<1>6. CASE UNCHANGED vars
  BY <1>1, <1>6, StutterReigns
<1>7. QED
  BY <1>2, <1>3, <1>4, <1>5, <1>6 DEF Next

\* Every step keeps the history or adds to it.
LEMMA ReignNext ==
    ASSUME NEW l, Reign(l), ElectionInv, ServiceInv, ReignInv(l), [Next]_vars
    PROVE  ReignInv(l)'
<1>1. PICK G \in Seq(Entry) : ReignWith(l, G)
  BY DEF ReignInv
<1>2. ASSUME NEW i \in Server, NEW c \in Command, Start(i, c) PROVE ReignInv(l)'
  <2>1. l \in Server /\ Alone(l)'
    BY <1>1, AloneNext DEF Reign, ReignWith
  <2>2. PICK e \in Entry : ReignWith(l, Append(G, e))'
    BY <1>1, <1>2, <2>1, StartReigns
  <2>3. Append(G, e) \in Seq(Entry)
    BY <1>1, <2>2
  <2>4. QED
    BY <2>2, <2>3, Zenon DEF ReignInv
<1>3. QED
  BY <1>1, <1>2, HistoryKept DEF ReignInv

\* While one peer campaigns, all logs, disks and requests are slices of one
\* history and services have only what was committed, whoever crashes and
\* whatever is lost or late.
THEOREM ReignInvariant == ASSUME NEW l, Reign(l) PROVE Spec => []ReignInv(l)
<1>1. Init => ReignInv(l)
  BY ReignInit
<1>2. ElectionInv /\ ServiceInv /\ ReignInv(l) /\ [Next]_vars => ReignInv(l)'
  BY ReignNext
<1>3. QED
  BY <1>1, <1>2, ElectionInvariant, ServiceInvariant, PTL DEF Spec

\* cfg.checkLogs: while one peer campaigns, no two services ever get different
\* commands for an index, for any number of peers and terms, with crashes of
\* any of them, late and repeated requests, and snapshots.
THEOREM ServicesAgree == ASSUME NEW l, Reign(l) PROVE Spec => []ApplyAgree
<1>1. ReignInv(l) => ApplyAgree
  <2>1. ASSUME ReignInv(l), NEW i \in Server, NEW k \in DOMAIN logs[i]
        PROVE  logs[i][k] = chosen[k]
    <3>1. ServedAt(i)
      BY <2>1 DEF ReignInv, ReignWith
    <3>2. QED
      BY <2>1, <3>1 DEF ServedAt, IsChosen
  <2>2. QED
    BY <2>1, Zenon DEF ApplyAgree
<1>2. QED
  BY <1>1, ReignInvariant, PTL

-----------------------------------------------------------------------------
(* The refinement of AgreedLog.                                            *)

\* Every peer has a service.
Services == logs = [i \in Server |-> logs[i]]

\* No step adds or removes a service.
LEMMA ServicesNext == ASSUME Services, [Next]_vars PROVE Services'
<1>1. ASSUME logs' = logs PROVE Services'
  BY <1>1 DEF Services
<1>2. ASSUME NEW i, NEW f, logs' = [logs EXCEPT ![i] = f] PROVE Services'
  BY <1>2 DEF Services
<1>3. ASSUME NEW m \in Requests, Handle(m) PROVE Services'
  BY <1>1, <1>3 DEF Handle, RequestVote, AppendEntries, InstallSnapshot, serviceVars
<1>4. ASSUME NEW i \in Server, NEW j \in Server, Worker(i, j) PROVE Services'
  BY <1>1, <1>4 DEF Worker, electionSenderCall, electionSenderReply, appendRPCWorkerCall,
     appendRPCWorkerReply, InstallSnapshotSenderCall, InstallSnapshotSenderReply, RPCTimeout,
     serviceVars
<1>5. ASSUME NEW i \in Server, Peer(i) PROVE Services'
  <2>1. CASE startElection(i) \/ startElectionEnd(i) \/ sendAERpcs(i) \/ sendAERpcsEnd(i)
    BY <1>1, <2>1 DEF startElection, startElectionEnd, sendAERpcs, sendAERpcsEnd, serviceVars
  <2>2. ASSUME NEW index, applyLogToRsm(i, index) PROVE Services'
    BY <1>2, <2>2 DEF applyLogToRsm
  <2>3. ASSUME NEW r, doSnapshot(i, r) PROVE Services'
    BY <1>1, <1>2, <2>3 DEF doSnapshot
  <2>4. QED
    BY <1>5, <2>1, <2>2, <2>3 DEF Peer
<1>6. ASSUME NEW i \in Server, NEW c \in Command, Start(i, c) PROVE Services'
  BY <1>1, <1>6 DEF Start, serviceVars
<1>7. ASSUME NEW i \in Server, Restart(i) PROVE Services'
  BY <1>1, <1>7 DEF Restart
<1>8. CASE UNCHANGED vars
  BY <1>1, <1>8 DEF vars, serviceVars
<1>9. QED
  BY <1>3, <1>4, <1>5, <1>6, <1>7, <1>8 DEF Next

\* A round that ends extends the agreed log, or leaves it as it is.
LEMMA CommitChooses ==
    ASSUME NEW l, l \in Server, NEW G \in Seq(Entry), ReignWith(l, G), ServiceInv,
           sendAERpcsEnd(l)
    PROVE  Agreed!Choose \/ UNCHANGED <<chosen, logs, next>>
<1>1. LogSlices(l, G) /\ ServedAt(l) /\ LeaderAt(l, G) /\ HistoryOK(G) /\ LogOK
  BY DEF ReignWith, ServiceInv
<1>2. UNCHANGED <<logs, next>>
  BY DEF sendAERpcsEnd, serviceVars
<1>3. /\ commitIndex'[l] \in NatOrNone
      /\ commitIndex'[l] <= LastLogIndex(l)
      /\ chosen' = ChosenBy(l, commitIndex'[l])
  BY RoundEnds
<1>4. /\ chosen' \in Seq(Command)
      /\ Len(chosen') >= Len(chosen)
      /\ \A k \in 1 .. Len(chosen) : chosen'[k] = chosen[k]
  BY <1>1, <1>3, ChosenGrows
<1>5. chosen \in Seq(Command) /\ Len(chosen) \in Nat /\ Len(chosen') \in Nat
  BY <1>1, <1>4 DEF HistoryOK
<1>6. CASE Len(chosen') = Len(chosen)
  <2>1. chosen' = chosen
    BY <1>4, <1>5, <1>6, SeqEqual
  <2>2. QED
    BY <1>2, <2>1
<1>7. CASE Len(chosen') # Len(chosen)
  <2>1. Len(chosen') > Len(chosen)
    BY <1>4, <1>5, <1>7
  <2>2. SubSeq(chosen', 1, Len(chosen)) = chosen
    <3>1. PICK s : s = SubSeq(chosen', 1, Len(chosen))
      OBVIOUS
    <3>2. \A k \in 1 .. Len(chosen) : k \in 1 .. Len(chosen') /\ chosen'[k] \in Command
      BY <1>4, <1>5
    <3>3. /\ s \in Seq(Command) /\ Len(s) = Len(chosen)
          /\ \A k \in 1 .. Len(chosen) : s[k] = chosen'[k]
      BY <1>5, <3>1, <3>2, SubSeqProperties
    <3>4. s = chosen
      BY <1>4, <1>5, <3>3, SeqEqual
    <3>5. QED
      BY <3>1, <3>4
  <2>3. QED
    BY <1>2, <1>4, <2>1, <2>2 DEF Agreed!Choose
<1>8. QED
  BY <1>6, <1>7

\* ApplyMsgSender passes on the next commands of the agreed log, or nothing.
LEMMA ApplyDelivers ==
    ASSUME NEW l, l \in Server, NEW G \in Seq(Entry), ReignWith(l, G), ServiceInv, Services,
           NEW i \in Server, NEW index \in lastApplied[i] + 1 .. commitIndex[i],
           applyLogToRsm(i, index)
    PROVE  Agreed!Deliver(i) \/ UNCHANGED <<chosen, logs, next>>
<1>1. LogSlices(i, G) /\ ServedAt(i) /\ HistoryOK(G) /\ LogOK /\ IndexOK /\ DeliveryOK
  BY DEF ReignWith, ServiceInv
<1>2. /\ index <= LastLogIndex(i)
      /\ logs' = [logs EXCEPT ![i] = checkLogs(i, index)]
      /\ next' = [next EXCEPT ![i] = @ + Cardinality(Passed(i, index))]
      /\ chosen' = chosen
  BY DEF applyLogToRsm, historyVars
<1>3. \A k \in Received(i, index) : EntryAt(i, k).Command = chosen[k]
  BY <1>1, <1>2, ReceivedChosen DEF IsChosen
<1>4. /\ next[i] \in Nat /\ lastApplied[i] \in Int /\ commitIndex[i] \in Int
      /\ commitIndex[i] <= Len(chosen) /\ Len(chosen) \in Nat
  BY <1>1 DEF DeliveryOK, IndexOK, NatOrNone, ServedAt, HistoryOK
<1>5. CASE next[i] \in Batch(i, index)
  <2>1. Passed(i, index) = next[i] .. index /\ next[i] <= index /\ index \in Int
    BY <1>4, <1>5 DEF Passed, Batch
  <2>2. Cardinality(Passed(i, index)) = index - next[i] + 1
    BY <1>4, <2>1, FS_Interval
  <2>3. PICK new : new = (next[i] .. index) \ {0}
    OBVIOUS
  <2>4. new = Received(i, index)
    BY <2>1, <2>3 DEF Received
  <2>5. checkLogs(i, index) = [k \in DOMAIN logs[i] \cup new |->
                                 IF k \in new THEN chosen[k] ELSE logs[i][k]]
    BY <1>3, <2>4 DEF checkLogs
  <2>6. next[i] + Cardinality(Passed(i, index)) = index + 1
    BY <1>4, <2>1, <2>2
  <2>7. next' = [next EXCEPT ![i] = index + 1]
    BY <1>2, <2>6
  <2>8. index \in next[i] .. Len(chosen)
    BY <1>4, <2>1
  <2>9. logs' = [logs EXCEPT ![i] = [k \in DOMAIN @ \cup new |->
                                       IF k \in new THEN chosen[k] ELSE @[k]]]
    BY <1>2, <2>5
  <2>10. QED
    BY <1>2, <2>3, <2>7, <2>8, <2>9 DEF Agreed!Deliver
<1>6. CASE next[i] \notin Batch(i, index)
  <2>1. Passed(i, index) = {}
    BY <1>6 DEF Passed
  <2>2. Cardinality(Passed(i, index)) = 0 /\ Received(i, index) = {}
    BY <2>1, FS_EmptySet DEF Received
  <2>3. next' = next
    BY <1>1, <1>2, <1>4, <2>2 DEF DeliveryOK
  <2>4. checkLogs(i, index) = [k \in DOMAIN logs[i] |-> logs[i][k]]
    BY <2>2 DEF checkLogs
  <2>5. checkLogs(i, index) = logs[i]
    BY <1>1, <2>4, Zenon DEF ServedAt
  <2>6. logs' = logs
    BY <1>2, <2>5 DEF Services
  <2>7. QED
    BY <1>2, <2>3, <2>6
<1>7. QED
  BY <1>5, <1>6

\* doSnapshot installs a snapshot of the agreed log, or does nothing.
LEMMA SnapshotInstalls ==
    ASSUME NEW l, NEW G, ReignWith(l, G), NEW i \in Server, NEW r \in snapReq[i],
           doSnapshot(i, r)
    PROVE  Agreed!Install(i) \/ UNCHANGED <<chosen, logs, next>>
<1>1. IsChosen(r.index, r.value) /\ chosen' = chosen
  BY DEF ReignWith, ServedAt, doSnapshot, historyVars
<1>2. CASE r.index - lastAppliedIndex[i] < 0
  BY <1>1, <1>2 DEF doSnapshot
<1>3. CASE ~ (r.index - lastAppliedIndex[i] < 0)
  <2>1. /\ logs' = [logs EXCEPT ![i] = [k \in {r.index} |-> r.value]]
        /\ next' = [next EXCEPT ![i] = r.index + 1]
    BY <1>3 DEF doSnapshot, NextAfter
  <2>2. r.index \in 1 .. Len(chosen) /\ r.value = chosen[r.index]
    BY <1>1 DEF IsChosen
  <2>3. QED
    BY <1>1, <2>1, <2>2 DEF Agreed!Install
<1>4. QED
  BY <1>2, <1>3

\* The leader's service is given again what follows the snapshot it has.
LEMMA RestartRewinds ==
    ASSUME NEW l, l \in Server, NEW G, ReignWith(l, G), LogOK, Restart(l)
    PROVE  Agreed!Rewind(l)
<1>1. PICK disk \in {raftstate[l]} \cup HalfSaved(l) :
         /\ next' = [next EXCEPT ![l] = disk.lastAppliedIndex + 1]
         /\ UNCHANGED <<logs, chosen>>
  BY DEF Restart, historyVars
<1>2. disk.lastAppliedIndex = lastAppliedIndex[l]
  BY DiskLog DEF ReignWith, LeaderAt
<1>3. lastAppliedIndex[l] \in DOMAIN logs[l] \cup {-1}
  BY DEF LogOK, NatOrNone, ReignWith, LeaderAt
<1>4. QED
  BY <1>1, <1>2, <1>3 DEF Agreed!Rewind

\* Without snapshots no log is ever cut.
Uncut ==
    /\ \A i \in Server : /\ snapReq[i] = {}
                         /\ lastAppliedIndex[i] = -1
                         /\ raftstate[i].lastAppliedIndex = -1
    /\ \A m \in Requests : m.rpc # "InstallSnapshot"

\* A step that cuts nothing.
LEMMA UncutKept ==
    ASSUME Uncut, ServiceInv, NEW i \in Server, persist(i) \/ raftstate' = raftstate,
           UNCHANGED <<snapReq, lastAppliedIndex>>,
           \A m \in Requests' : m \in Requests \/ m.rpc # "InstallSnapshot"
    PROVE  Uncut'
<1>1. ASSUME NEW p \in Server PROVE raftstate'[p].lastAppliedIndex = -1
  <2>1. CASE raftstate' = raftstate
    BY <2>1 DEF Uncut
  <2>2. CASE persist(i)
    BY <2>2 DEF Uncut, persist, RaftState, ServiceInv
  <2>3. QED
    BY <2>1, <2>2
<1>2. QED
  BY <1>1 DEF Uncut

\* Nothing is due for a snapshot when the service asks for none.
LEMMA UncutNext ==
    ASSUME SnapShotInterval = 0, ElectionInv, ServiceInv, Uncut, [Next]_vars
    PROVE  Uncut'
<1>1. ASSUME NEW m \in Requests, Handle(m) PROVE Uncut'
  <2>1. m.to \in Server /\ m.rpc # "InstallSnapshot"
    BY <1>1, RequestOK DEF MessageOK, Uncut
  <2>2. Requests' \subseteq Requests
    BY <1>1, AnswerRequests DEF Handle, RequestVote, AppendEntries, InstallSnapshot
  <2>3. /\ UNCHANGED <<snapReq, lastAppliedIndex>>
        /\ persist(m.to) \/ raftstate' = raftstate
    BY <1>1, <2>1 DEF Handle, RequestVote, AppendEntries, InstallSnapshot, logVars, serviceVars
  <2>4. QED
    BY <2>1, <2>2, <2>3, UncutKept
<1>2. ASSUME NEW i \in Server, NEW j \in Server, Worker(i, j) PROVE Uncut'
  <2>1. /\ UNCHANGED <<snapReq, lastAppliedIndex>>
        /\ persist(i) \/ raftstate' = raftstate
    BY <1>2 DEF Worker, electionSenderCall, electionSenderReply, appendRPCWorkerCall,
       appendRPCWorkerReply, InstallSnapshotSenderCall, InstallSnapshotSenderReply, RPCTimeout,
       logVars, serviceVars
  <2>2. ASSUME NEW m, m.rpc # "InstallSnapshot", late' = late,
               \/ call' = [call EXCEPT ![i][j] = Finished]
               \/ call' = [call EXCEPT ![i][j] = Sent(m)]
        PROVE  Uncut'
    <3>1. Finished.st # "sent" /\ late' \subseteq Requests
      BY <2>2 DEF Finished, Requests
    <3>2. Requests' \subseteq Requests \cup {m}
      BY <2>2, <3>1, FinishRequests, SendRequests
    <3>3. QED
      BY <2>1, <2>2, <3>2, UncutKept
  <2>3. CASE electionSenderCall(i, j)
    <3>1. RequestVoteArgs(i, j).rpc # "InstallSnapshot"
      BY DEF RequestVoteArgs
    <3>2. QED
      BY <2>2, <2>3, <3>1 DEF electionSenderCall
  <2>4. CASE appendRPCWorkerCall(i, j)
    <3>1. AppendEntriesArgs(i, j).rpc # "InstallSnapshot"
      BY DEF AppendEntriesArgs
    <3>2. QED
      BY <2>2, <2>4, <3>1 DEF appendRPCWorkerCall
  <2>5. ASSUME InstallSnapshotSenderCall(i, j) PROVE FALSE
    <3>1. lastAppliedIndex[i] >= 0
      BY <2>5 DEF InstallSnapshotSenderCall, ServiceInv, BodiesOK, SenderOK
    <3>2. QED
      BY <3>1 DEF Uncut
  <2>6. CASE \/ RPCTimeout(i, j)
             \/ electionSenderReply(i, j)
             \/ appendRPCWorkerReply(i, j)
             \/ InstallSnapshotSenderReply(i, j)
    BY <2>1, <2>6, RepliesRequests, UncutKept
  <2>7. QED
    BY <1>2, <2>3, <2>4, <2>5, <2>6 DEF Worker
<1>3. ASSUME NEW i \in Server, Peer(i) PROVE Uncut'
  <2>1. CASE startElection(i) \/ startElectionEnd(i) \/ sendAERpcs(i)
    <3>1. /\ UNCHANGED <<snapReq, lastAppliedIndex>>
          /\ persist(i) \/ raftstate' = raftstate
      BY <2>1 DEF startElection, startElectionEnd, sendAERpcs, logVars, serviceVars
    <3>2. QED
      BY <2>1, <3>1, RoundsRequests, UncutKept
  <2>2. CASE sendAERpcsEnd(i)
    <3>1. UNCHANGED <<snapReq, lastAppliedIndex, raftstate, call, late>>
      BY <2>2 DEF sendAERpcsEnd, logVars, serviceVars
    <3>2. Requests' = Requests
      BY <3>1 DEF Requests
    <3>3. QED
      BY <3>1, <3>2, UncutKept
  <2>3. ASSUME NEW index, applyLogToRsm(i, index) PROVE Uncut'
    <3>1. \A n : ~ SnapshotDue(n)
      BY DEF SnapshotDue
    <3>2. {n \in Received(i, index) : SnapshotDue(n)} = {}
      BY <3>1
    <3>3. snapReq' = [snapReq EXCEPT ![i] = @ \cup {}]
      BY <2>3, <3>2 DEF applyLogToRsm
    <3>4. /\ \A p \in Server : snapReq'[p] = {}
          /\ UNCHANGED <<lastAppliedIndex, raftstate, call, late>>
      BY <2>3, <3>3 DEF applyLogToRsm, logVars, Uncut, ServiceInv, DeliveryOK
    <3>5. Requests' = Requests
      BY <3>4 DEF Requests
    <3>6. QED
      BY <3>4, <3>5 DEF Uncut
  <2>4. ASSUME NEW r \in snapReq[i] PROVE FALSE
    BY DEF Uncut
  <2>5. QED
    BY <1>3, <2>1, <2>2, <2>3, <2>4 DEF Peer
<1>4. ASSUME NEW i \in Server, NEW c \in Command, Start(i, c) PROVE Uncut'
  <2>1. UNCHANGED <<snapReq, lastAppliedIndex, call, late>> /\ persist(i)
    BY <1>4 DEF Start, serviceVars
  <2>2. Requests' = Requests
    BY <2>1 DEF Requests
  <2>3. QED
    BY <2>1, <2>2, UncutKept
<1>5. ASSUME NEW i \in Server, Restart(i) PROVE Uncut'
  <2>1. PICK disk \in {raftstate[i]} \cup HalfSaved(i),
             S \in SUBSET {call[i][j].args : j \in {k \in Server : call[i][k].st = "sent"}} :
          /\ crash1(i, S)
          /\ Restore(i, disk)
          /\ raftstate' = [raftstate EXCEPT ![i] = disk]
          /\ snapReq' = [snapReq EXCEPT ![i] = {}]
    BY <1>5 DEF Restart
  <2>2. disk.lastAppliedIndex = -1
    BY DiskLog DEF Uncut
  <2>3. Requests' \subseteq Requests
    BY <2>1, CrashRequests
  <2>4. \A p \in Server : /\ snapReq'[p] = {}
                          /\ lastAppliedIndex'[p] = -1
                          /\ raftstate'[p].lastAppliedIndex = -1
    BY <2>1, <2>2 DEF Uncut, ServiceInv, LogOK, DeliveryOK, Restore
  <2>5. QED
    BY <2>3, <2>4 DEF Uncut
<1>6. CASE UNCHANGED vars
  <2>1. UNCHANGED <<snapReq, lastAppliedIndex, raftstate>> /\ Requests' = Requests
    BY <1>6 DEF vars, logVars, serviceVars, Requests
  <2>2. QED
    BY <2>1 DEF Uncut
<1>7. QED
  BY <1>1, <1>2, <1>3, <1>4, <1>5, <1>6 DEF Next

\* A service without a snapshot is given everything again.
LEMMA RestartStartsOver ==
    ASSUME Uncut, NEW i \in Server, Restart(i)
    PROVE  Agreed!Rewind(i)
<1>1. PICK disk \in {raftstate[i]} \cup HalfSaved(i) :
         /\ next' = [next EXCEPT ![i] = disk.lastAppliedIndex + 1]
         /\ UNCHANGED <<logs, chosen>>
  BY DEF Restart, historyVars
<1>2. disk.lastAppliedIndex = -1
  BY DiskLog DEF Uncut
<1>3. QED
  BY <1>1, <1>2 DEF Agreed!Rewind

\* Every other step leaves the agreed log alone.
LEMMA OthersStutter ==
    ASSUME \/ \E m \in Requests : Handle(m)
           \/ \E i, j \in Server : Worker(i, j)
           \/ \E i \in Server : startElection(i) \/ startElectionEnd(i) \/ sendAERpcs(i)
           \/ \E i \in Server, c \in Command : Start(i, c)
           \/ UNCHANGED vars
    PROVE  UNCHANGED <<chosen, logs, next>>
<1>1. ASSUME NEW m, Handle(m) PROVE UNCHANGED <<chosen, logs, next>>
  BY <1>1 DEF Handle, RequestVote, AppendEntries, InstallSnapshot, serviceVars, historyVars
<1>2. ASSUME NEW i, NEW j, Worker(i, j) PROVE UNCHANGED <<chosen, logs, next>>
  BY <1>2 DEF Worker, electionSenderCall, electionSenderReply, appendRPCWorkerCall,
     appendRPCWorkerReply, InstallSnapshotSenderCall, InstallSnapshotSenderReply, RPCTimeout,
     serviceVars, historyVars
<1>3. ASSUME NEW i, startElection(i) \/ startElectionEnd(i) \/ sendAERpcs(i)
      PROVE  UNCHANGED <<chosen, logs, next>>
  BY <1>3 DEF startElection, startElectionEnd, sendAERpcs, serviceVars, historyVars
<1>4. ASSUME NEW i, NEW c, Start(i, c) PROVE UNCHANGED <<chosen, logs, next>>
  BY <1>4 DEF Start, serviceVars, historyVars
<1>5. CASE UNCHANGED vars
  BY <1>5 DEF vars, serviceVars, historyVars
<1>6. QED
  BY <1>1, <1>2, <1>3, <1>4, <1>5

\* Nothing is committed or delivered at first.
LEMMA AgreedInit == Init => Agreed!Init
<1> SUFFICES ASSUME Init PROVE Agreed!Init
  OBVIOUS
<1>1. /\ logs = [i \in Server |-> [k \in {} |-> Nil]]
      /\ next = [i \in Server |-> 0]
      /\ chosen = <<>>
  BY DEF Init
<1>2. PICK f : f = [k \in {} |-> Nil]
  OBVIOUS
<1>3. f = <<>>
  <2>1. f \in [1 .. 0 -> {Nil}]
    BY <1>2
  <2>2. f \in Seq({Nil}) /\ Len(f) = 0
    BY <2>1
  <2>3. QED
    BY <2>2
<1>4. logs = [i \in Server |-> <<>>]
  BY <1>1, <1>2, <1>3
<1>5. QED
  BY <1>1, <1>4 DEF Agreed!Init

\* Every step is a step of AgreedLog or none at all.
LEMMA AgreedNext ==
    ASSUME NEW l, Reign(l), Crashable \subseteq {l} \/ Uncut,
           ServiceInv, ReignInv(l), Services, [Next]_vars
    PROVE  Agreed!Next \/ UNCHANGED <<chosen, logs, next>>
<1>1. PICK G \in Seq(Entry) : ReignWith(l, G)
  BY DEF ReignInv
<1>2. l \in Server
  BY DEF Reign
<1>3. CASE \/ \E m \in Requests : Handle(m)
           \/ \E i, j \in Server : Worker(i, j)
           \/ \E i \in Server : startElection(i) \/ startElectionEnd(i) \/ sendAERpcs(i)
           \/ \E i \in Server, c \in Command : Start(i, c)
           \/ UNCHANGED vars
  BY <1>3, OthersStutter
<1>4. ASSUME NEW i \in Server, sendAERpcsEnd(i)
      PROVE  Agreed!Next \/ UNCHANGED <<chosen, logs, next>>
  <2>1. i = l
    BY <1>1, <1>4, RoundOfLeader
  <2>2. QED
    BY <1>1, <1>2, <1>4, <2>1, CommitChooses DEF Agreed!Next
<1>5. ASSUME NEW i \in Server, NEW index \in lastApplied[i] + 1 .. commitIndex[i],
             applyLogToRsm(i, index)
      PROVE  Agreed!Next \/ UNCHANGED <<chosen, logs, next>>
  BY <1>1, <1>2, <1>5, ApplyDelivers DEF Agreed!Next
<1>6. ASSUME NEW i \in Server, NEW r \in snapReq[i], doSnapshot(i, r)
      PROVE  Agreed!Next \/ UNCHANGED <<chosen, logs, next>>
  BY <1>1, <1>6, SnapshotInstalls DEF Agreed!Next
<1>7. ASSUME NEW i \in Server, Restart(i)
      PROVE  Agreed!Next \/ UNCHANGED <<chosen, logs, next>>
  <2>1. i \in Crashable
    BY <1>7 DEF Restart
  <2>2. Agreed!Rewind(i)
    BY <1>1, <1>2, <1>7, <2>1, RestartRewinds, RestartStartsOver DEF ServiceInv
  <2>3. QED
    BY <2>2 DEF Agreed!Next
<1>8. QED
  BY <1>3, <1>4, <1>5, <1>6, <1>7 DEF Next, Peer

\* The comments of Start and ApplyMsg: while one peer campaigns, the peers
\* implement AgreedLog, step by step, for any number of peers, terms, commands,
\* late and lost requests; with snapshots where only the leader crashes (a
\* follower that dies after InstallSnapshot loses the snapshot, see
\* ServiceInStep), without them where anybody does.
THEOREM OneReignImplements ==
    ASSUME NEW l, Reign(l), Crashable \subseteq {l} \/ SnapShotInterval = 0
    PROVE  Spec => ImplementsAgreedLog
<1> DEFINE Cut == Crashable \subseteq {l} \/ Uncut
<1>1. Init => Agreed!Init /\ Services /\ Cut
  <2> SUFFICES ASSUME Init PROVE Services /\ Cut
    BY AgreedInit
  <2>1. Services
    BY DEF Init, Services
  <2>2. Uncut
    <3>1. \A m : m \notin Requests
      BY RequestPlace DEF Init, Finished
    <3>2. QED
      BY <3>1 DEF Init, Uncut, RaftState
  <2>3. QED
    BY <2>1, <2>2
<1>2. ElectionInv /\ ServiceInv /\ Services /\ Cut /\ [Next]_vars => Services' /\ Cut'
  BY ServicesNext, UncutNext
<1>3. ServiceInv /\ ReignInv(l) /\ Services /\ Cut /\ [Next]_vars
         => [Agreed!Next]_(Agreed!vars)
  BY AgreedNext DEF Agreed!vars
<1> HIDE DEF Cut
<1>4. QED
  BY <1>1, <1>2, <1>3, ElectionInvariant, ServiceInvariant, ReignInvariant, PTL
     DEF Spec, ImplementsAgreedLog, Agreed!Spec

-----------------------------------------------------------------------------
(* What AgreedLog promises.                                                *)

\* A service has only commands of the agreed log, each at its index.
AgreedInv ==
    /\ chosen \in Seq(Command)
    /\ next \in [Server -> Nat]
    /\ DOMAIN logs = Server
    /\ \A s \in Server : \A k \in DOMAIN logs[s] : IsChosen(k, logs[s][k])

\* A step of AgreedLog at one service.
LEMMA AgreedService ==
    ASSUME AgreedInv, NEW s \in Server, NEW n \in Nat, chosen' = chosen,
           DOMAIN logs' = Server, \A p \in Server \ {s} : logs'[p] = logs[p],
           next' = [next EXCEPT ![s] = n],
           \A k \in DOMAIN logs'[s] : IsChosen(k, logs'[s][k])
    PROVE  AgreedInv'
<1>1. next' \in [Server -> Nat]
  BY DEF AgreedInv
<1>2. \A p \in Server : \A k \in DOMAIN logs'[p] : IsChosen(k, logs'[p][k])
  BY DEF AgreedInv
<1>3. QED
  BY <1>1, <1>2 DEF AgreedInv, IsChosen

\* The abstract specification is enough for cfg.checkLogs: whoever implements
\* AgreedLog never gives two services different commands for an index.
THEOREM AgreedLogAgrees == ImplementsAgreedLog => []ApplyAgree
<1>1. Agreed!Init => AgreedInv
  BY DEF Agreed!Init, AgreedInv
<1>2. AgreedInv /\ [Agreed!Next]_(Agreed!vars) => AgreedInv'
  <2> SUFFICES ASSUME AgreedInv, [Agreed!Next]_(Agreed!vars) PROVE AgreedInv'
    OBVIOUS
  <2>1. Len(chosen) \in Nat
    BY DEF AgreedInv
  <2>2. CASE UNCHANGED Agreed!vars
    BY <2>2 DEF Agreed!vars, AgreedInv, IsChosen
  <2>3. CASE Agreed!Choose
    <3>1. /\ chosen' \in Seq(Command) /\ Len(chosen') > Len(chosen)
          /\ SubSeq(chosen', 1, Len(chosen)) = chosen
          /\ UNCHANGED <<logs, next>>
      BY <2>3 DEF Agreed!Choose
    <3>2. Len(chosen') \in Nat /\ chosen \in Seq(Command)
      BY <3>1 DEF AgreedInv
    <3>3. \A k \in 1 .. Len(chosen) : k \in 1 .. Len(chosen') /\ chosen'[k] \in Command
      BY <2>1, <3>1, <3>2
    <3>4. \A k \in 1 .. Len(chosen) : SubSeq(chosen', 1, Len(chosen))[k] = chosen'[k]
      BY <2>1, <3>3, SubSeqProperties
    <3>5. \A k \in 1 .. Len(chosen) : chosen'[k] = chosen[k]
      BY <3>1, <3>4
    <3>6. \A s \in Server : \A k \in DOMAIN logs[s] :
             k \in 1 .. Len(chosen') /\ logs[s][k] = chosen'[k]
      BY <3>3, <3>5 DEF AgreedInv, IsChosen
    <3>7. QED
      BY <3>1, <3>6 DEF AgreedInv, IsChosen
  <2>4. ASSUME NEW s \in Server, Agreed!Deliver(s) PROVE AgreedInv'
    <3>1. PICK last \in next[s] .. Len(chosen) :
            /\ logs' = [logs EXCEPT ![s] =
                          [k \in DOMAIN @ \cup ((next[s] .. last) \ {0}) |->
                             IF k \in (next[s] .. last) \ {0} THEN chosen[k] ELSE @[k]]]
            /\ next' = [next EXCEPT ![s] = last + 1]
            /\ UNCHANGED chosen
      BY <2>4 DEF Agreed!Deliver
    <3>2. PICK new : new = (next[s] .. last) \ {0}
      OBVIOUS
    <3>3. PICK f : f = [k \in DOMAIN logs[s] \cup new |->
                          IF k \in new THEN chosen[k] ELSE logs[s][k]]
      OBVIOUS
    <3>4. next[s] \in Nat
      BY DEF AgreedInv
    <3>5. new \subseteq 1 .. Len(chosen) /\ last + 1 \in Nat
      BY <2>1, <3>2, <3>4
    <3>6. logs' = [logs EXCEPT ![s] = f]
      BY <3>1, <3>2, <3>3
    <3>7. \A k \in DOMAIN f : IsChosen(k, f[k])
      <4>1. /\ DOMAIN f = DOMAIN logs[s] \cup new
            /\ \A k \in DOMAIN f : f[k] = IF k \in new THEN chosen[k] ELSE logs[s][k]
        BY <3>3
      <4>2. \A k \in DOMAIN logs[s] : IsChosen(k, logs[s][k])
        BY DEF AgreedInv
      <4>3. \A k \in new : IsChosen(k, chosen[k])
        BY <3>5 DEF IsChosen
      <4>4. QED
        BY <4>1, <4>2, <4>3, Zenon
    <3>8. PICK n \in Nat : n = last + 1
      BY <3>5
    <3>9. next' = [next EXCEPT ![s] = n] /\ chosen' = chosen
      BY <3>1, <3>8
    <3>10. /\ DOMAIN logs' = Server /\ logs'[s] = f
           /\ \A p \in Server \ {s} : logs'[p] = logs[p]
      BY <3>6 DEF AgreedInv
    <3>11. QED
      BY <3>7, <3>9, <3>10, AgreedService
  <2>5. ASSUME NEW s \in Server, Agreed!Install(s) PROVE AgreedInv'
    <3>1. PICK k \in 1 .. Len(chosen) :
            /\ logs' = [logs EXCEPT ![s] = [n \in {k} |-> chosen[k]]]
            /\ next' = [next EXCEPT ![s] = k + 1]
            /\ UNCHANGED chosen
      BY <2>5 DEF Agreed!Install
    <3>2. PICK f : f = [n \in {k} |-> chosen[k]]
      OBVIOUS
    <3>3. \A n \in DOMAIN f : IsChosen(n, f[n])
      BY <3>1, <3>2 DEF IsChosen
    <3>4. PICK n \in Nat : n = k + 1
      BY <2>1
    <3>5. /\ logs' = [logs EXCEPT ![s] = f] /\ next' = [next EXCEPT ![s] = n]
          /\ chosen' = chosen
      BY <3>1, <3>2, <3>4
    <3>6. /\ DOMAIN logs' = Server /\ logs'[s] = f
          /\ \A p \in Server \ {s} : logs'[p] = logs[p]
      BY <3>5 DEF AgreedInv
    <3>7. QED
      BY <3>3, <3>5, <3>6, AgreedService
  <2>6. ASSUME NEW s \in Server, Agreed!Rewind(s) PROVE AgreedInv'
    <3>1. PICK k \in DOMAIN logs[s] \cup {-1} :
            /\ next' = [next EXCEPT ![s] = k + 1]
            /\ UNCHANGED <<chosen, logs>>
      BY <2>6 DEF Agreed!Rewind
    <3>2. k + 1 \in Nat /\ \A n \in DOMAIN logs[s] : IsChosen(n, logs[s][n])
      BY <2>1, <3>1 DEF AgreedInv, IsChosen
    <3>3. DOMAIN logs' = Server /\ \A p \in Server \ {s} : logs'[p] = logs[p]
      BY <3>1 DEF AgreedInv
    <3>4. QED
      BY <3>1, <3>2, <3>3, AgreedService
  <2>7. QED
    BY <2>2, <2>3, <2>4, <2>5, <2>6 DEF Agreed!Next
<1>3. AgreedInv => ApplyAgree
  <2>1. ASSUME AgreedInv, NEW i \in Server, NEW k \in DOMAIN logs[i]
        PROVE  logs[i][k] = chosen[k]
    BY <2>1 DEF AgreedInv, IsChosen
  <2>2. QED
    BY <2>1, Zenon DEF ApplyAgree
<1>4. QED
  BY <1>1, <1>2, <1>3, PTL DEF ImplementsAgreedLog, Agreed!Spec
=============================================================================
