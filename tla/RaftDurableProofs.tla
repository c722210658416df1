-------------------------- MODULE RaftDurableProofs -------------------------
(***************************************************************************)
(* Proofs about what Raft's peers have on their disks while a single peer   *)
(* campaigns and every request is answered, lost or given up before the     *)
(* next one is sent (MaxLate = 0): what is committed stays on a majority of *)
(* disks, the leader has all of it, and no critical section indexes outside *)
(* its slice of the log.  A late request breaks all three (see              *)
(* RaftLateAppend.cfg): AppendEntries cuts what it does not carry.          *)
(*                                                                          *)
(* A follower has one request under way, which reaches at least to the end  *)
(* of its log, so that its log and its disk only grow, but for a restart    *)
(* between InstallSnapshot and doSnapshot.                                  *)
(***************************************************************************)
EXTENDS RaftReignProofs

-----------------------------------------------------------------------------
(* The inductive invariant.                                                *)

\* The last index on the disk of a peer.
DiskLast(i) == Len(raftstate[i].Log) + raftstate[i].lastAppliedIndex

\* The term that entry n has in the history, or that Make gives an empty log.
TermAt(n, G) == IF n = -1 THEN 0 ELSE G[n + 1].Term

\* The last index that an AppendEntries request carries or checks.
RequestEnd(m) == m.PrevLogIndex + Len(m.Entries)

\* Nobody but l calls, and each of its requests has a goroutine that waits.
Quiet(l) == late = {} /\ \A i \in Server \ {l} : \A j \in Server : call[i][j] = Finished

\* The term of the last entry that was cut is remembered.
TermsAt(i, G) ==
    /\ lastAppliedTerm[i] = TermAt(lastAppliedIndex[i], G)
    /\ raftstate[i].lastAppliedTerm = TermAt(raftstate[i].lastAppliedIndex, G)

\* What is committed and what is to be cut is in the log, and so is what is on
\* disk; what is not on disk is in a snapshot that the leader has.
EndsAt(l, i) ==
    /\ commitIndex[i] <= LastLogIndex(i)
    /\ \A r \in snapReq[i] : r.index <= LastLogIndex(i)
    /\ DiskLast(i) <= LastLogIndex(i)
    /\ LastLogIndex(i) <= DiskLast(i) \/ LastLogIndex(i) <= lastAppliedIndex[l]

\* A round in which l does not lead is of a term that no entry has.
FreshAt(l, G) ==
    /\ \A n \in 1 .. Len(G) : G[n].Term <= currentTerm[l]
    /\ leaderId[l] # l /\ ticker[l] # Idle =>
          \A n \in 1 .. Len(G) : G[n].Term < currentTerm[l]

LeaderEnds(l) ==
    /\ lastAppliedIndex[l] <= commitIndex[l]
    /\ \A r \in snapReq[l] : r.index <= commitIndex[l]
    /\ \A j \in Peers(l) : /\ nextIndex[l][j] <= LastLogIndex(l) + 1
                           /\ matchIndex[l][j] <= LastLogIndex(l)

\* matchIndex is right about the entries of the leader's term.  About older ones
\* startElection only guesses.
MatchAt(l, j, G) ==
    leaderId[l] = l =>
       \A N \in lastAppliedIndex[l] + 1 .. LastLogIndex(l) :
          N <= matchIndex[l][j] /\ G[N + 1].Term = currentTerm[l] => N <= DiskLast(j)

\* A request reaches at least as far as its receiver, and one that succeeded no
\* further than the receiver's disk or the leader's snapshot.
AppendAt(l, j, G) ==
    LET c == call[l][j]
        m == c.args
    IN  /\ m.PrevLogIndex = nextIndex[l][j] - 1
        /\ m.PrevLogTerm = TermAt(m.PrevLogIndex, G)
        /\ RequestEnd(m) <= LastLogIndex(l)
        /\ c.st = "sent" => LastLogIndex(j) <= RequestEnd(m)
        /\ c.st = "replied" /\ c.reply.Success =>
              RequestEnd(m) <= DiskLast(j) \/ RequestEnd(m) <= lastAppliedIndex[l]

InstallAt(l, j, G) ==
    LET m == call[l][j].args
    IN  /\ m.LastIncludedIndex <= lastAppliedIndex[l]
        /\ m.LastIncludedTerm = TermAt(m.LastIncludedIndex, G)

CallAt(l, j, G) ==
    /\ Waits(l, j, "AppendEntries") => AppendAt(l, j, G)
    /\ Waits(l, j, "InstallSnapshot") => InstallAt(l, j, G)

\* What was committed is on the disks of a majority.
ChosenDurable ==
    \A k \in 1 .. Len(chosen) : Majority({j \in Server : DiskLast(j) >= k})

KeptWith(l, G) ==
    /\ Quiet(l)
    /\ \A i \in Server : TermsAt(i, G) /\ EndsAt(l, i)
    /\ FreshAt(l, G)
    /\ LeaderEnds(l)
    /\ \A j \in Peers(l) : MatchAt(l, j, G) /\ CallAt(l, j, G)
    /\ ChosenDurable

DurableInv(l) == \E G \in Seq(Entry) : ReignWith(l, G) /\ KeptWith(l, G)

-----------------------------------------------------------------------------
(* Indexes, majorities and disks.                                          *)

\* Ends of logs and disks are numbers.
LEMMA Numbers ==
    ASSUME ServiceInv, NEW i \in Server
    PROVE  /\ Log[i] \in Seq(Entry) /\ Len(Log[i]) \in Nat
           /\ lastAppliedIndex[i] \in Int /\ lastAppliedIndex[i] >= -1
           /\ commitIndex[i] \in Int /\ lastApplied[i] \in Int
           /\ LastLogIndex(i) \in Int
           /\ LastLogIndex(i) = Len(Log[i]) + lastAppliedIndex[i]
           /\ DiskLast(i) \in Int
           /\ raftstate[i].Log \in Seq(Entry) /\ Len(raftstate[i].Log) \in Nat
           /\ raftstate[i].lastAppliedIndex \in Int /\ raftstate[i].lastAppliedIndex >= -1
           /\ DiskLast(i) = Len(raftstate[i].Log) + raftstate[i].lastAppliedIndex
<1>1. Log[i] \in Seq(Entry) /\ lastAppliedIndex[i] \in NatOrNone
  BY DEF ServiceInv, LogOK
<1>2. commitIndex[i] \in NatOrNone /\ lastApplied[i] \in NatOrNone
  BY DEF ServiceInv, IndexOK
<1>3. raftstate[i].Log \in Seq(Entry) /\ raftstate[i].lastAppliedIndex \in NatOrNone
  BY DEF ServiceInv, Disk
<1>4. Len(Log[i]) \in Nat /\ Len(raftstate[i].Log) \in Nat
  BY <1>1, <1>3
<1>5. QED
  BY <1>1, <1>2, <1>3, <1>4 DEF NatOrNone, LastLogIndex, DiskLast

\* They are after a step, too.
LEMMA NumbersNext ==
    ASSUME ServiceInv', NEW i \in Server
    PROVE  /\ Log'[i] \in Seq(Entry) /\ Len(Log'[i]) \in Nat
           /\ lastAppliedIndex'[i] \in Int /\ lastAppliedIndex'[i] >= -1
           /\ commitIndex'[i] \in Int
           /\ LastLogIndex(i)' \in Int
           /\ LastLogIndex(i)' = Len(Log'[i]) + lastAppliedIndex'[i]
           /\ DiskLast(i)' \in Int
<1>1. Log'[i] \in Seq(Entry) /\ lastAppliedIndex'[i] \in NatOrNone
  BY DEF ServiceInv, LogOK
<1>2. commitIndex'[i] \in NatOrNone
  BY DEF ServiceInv, IndexOK
<1>3. raftstate'[i].Log \in Seq(Entry) /\ raftstate'[i].lastAppliedIndex \in NatOrNone
  BY DEF ServiceInv, Disk
<1>4. Len(Log'[i]) \in Nat /\ Len(raftstate'[i].Log) \in Nat
  BY <1>1, <1>3
<1>5. QED
  BY <1>1, <1>2, <1>3, <1>4 DEF NatOrNone, LastLogIndex, DiskLast

\* The end of a request is a number.
LEMMA EndNumber ==
    ASSUME ServiceInv, NEW i \in Server, NEW j \in Server, Waits(i, j, "AppendEntries")
    PROVE  /\ call[i][j].args.PrevLogIndex \in Int
           /\ Len(call[i][j].args.Entries) \in Nat
           /\ RequestEnd(call[i][j].args) \in Int
<1>1. /\ call[i][j].args.PrevLogIndex \in NatOrNone
      /\ call[i][j].args.Entries \in Seq(Entry)
  BY DEF ServiceInv, BodiesOK, SenderOK, BodyOK, Waits
<1>2. call[i][j].args.PrevLogIndex \in Int /\ Len(call[i][j].args.Entries) \in Nat
  BY <1>1 DEF NatOrNone
<1>3. QED
  BY <1>2 DEF RequestEnd

\* More peers than a majority are a majority.
LEMMA MajorityGrows ==
    ASSUME NEW Q \in SUBSET Server, NEW R \in SUBSET Server, Q \subseteq R, Majority(Q)
    PROVE  Majority(R)
<1>1. IsFiniteSet(Server) /\ IsFiniteSet(Q) /\ IsFiniteSet(R)
  BY ServerAssumption, FS_Subset
<1>2. /\ Cardinality(Server) \in Nat
      /\ Cardinality(Q) \in Nat
      /\ Cardinality(R) \in Nat
      /\ Cardinality(Q) <= Cardinality(R)
  BY <1>1, FS_CardinalityType, FS_Subset
<1>3. QED
  BY <1>2 DEF Majority

\* persist() leaves the disk with the log of the critical section.
LEMMA PersistEnds ==
    ASSUME ElectionInv, NEW i \in Server, persist(i)
    PROVE  /\ raftstate'[i].Log = Log'[i]
           /\ raftstate'[i].lastAppliedIndex = lastAppliedIndex'[i]
           /\ raftstate'[i].lastAppliedTerm = lastAppliedTerm'[i]
           /\ DiskLast(i)' = LastLogIndex(i)'
           /\ \A p \in Server \ {i} : raftstate'[p] = raftstate[p]
BY DEF persist, RaftState, DiskLast, LastLogIndex, ElectionInv, ElectionTypeOK

\* Disks that only grow keep what was committed.
LEMMA DurableKept ==
    ASSUME ServiceInv, ServiceInv', ChosenDurable, chosen' = chosen,
           \A p \in Server : DiskLast(p) <= DiskLast(p)',
           chosen \in Seq(Command)
    PROVE  ChosenDurable'
<1> SUFFICES ASSUME NEW k \in 1 .. Len(chosen)
             PROVE  Majority({j \in Server : DiskLast(j)' >= k})
  BY DEF ChosenDurable, Majority
<1>1. Majority({j \in Server : DiskLast(j) >= k})
  BY DEF ChosenDurable
<1>2. ASSUME NEW j \in Server, DiskLast(j) >= k PROVE DiskLast(j)' >= k
  <2>1. DiskLast(j) \in Int
    BY Numbers
  <2>2. DiskLast(j)' \in Int
    BY NumbersNext
  <2>3. k \in Int
    OBVIOUS
  <2>4. QED
    BY <1>2, <2>1, <2>2, <2>3
<1>3. {j \in Server : DiskLast(j) >= k} \subseteq {j \in Server : DiskLast(j)' >= k}
  BY <1>2
<1>4. QED
  BY <1>1, <1>3, MajorityGrows

\* What a peer has and has saved stays as it is.
SamePeer(p) ==
    /\ Log'[p] = Log[p]
    /\ lastAppliedIndex'[p] = lastAppliedIndex[p]
    /\ lastAppliedTerm'[p] = lastAppliedTerm[p]
    /\ raftstate'[p] = raftstate[p]
    /\ commitIndex'[p] = commitIndex[p]
    /\ snapReq'[p] = snapReq[p]

\* A follower's step: its log and its disk grow, or stay, and the request that
\* it has under way keeps reaching as far as it does.
LEMMA FollowerStep ==
    ASSUME NEW l \in Server, NEW G \in Seq(Entry), KeptWith(l, G), chosen \in Seq(Command),
           ServiceInv, ServiceInv', NEW j \in Peers(l),
           late' = {}, chosen' = chosen,
           \A p, q \in Server : p # l \/ q # j => call'[p][q] = call[p][q],
           nextIndex'[l] = nextIndex[l], matchIndex'[l] = matchIndex[l],
           ticker'[l] = ticker[l], currentTerm'[l] = currentTerm[l], leaderId'[l] = leaderId[l],
           \A p \in Server \ {j} : SamePeer(p),
           TermsAt(j, G)', EndsAt(l, j)', CallAt(l, j, G)', DiskLast(j) <= DiskLast(j)'
    PROVE  KeptWith(l, G)'
<1>1. j \in Server /\ j # l
  BY DEF Peers
<1>2. SamePeer(l)
  BY <1>1
<1>3. \A p \in Server : DiskLast(p) \in Int /\ DiskLast(p)' \in Int
  BY Numbers, NumbersNext
<1>4. \A p \in Server \ {j} : DiskLast(p)' = DiskLast(p) /\ LastLogIndex(p)' = LastLogIndex(p)
  BY DEF SamePeer, DiskLast, LastLogIndex
<1>5. \A p \in Server : DiskLast(p) <= DiskLast(p)'
  BY <1>3, <1>4
<1>6. Quiet(l)'
  BY DEF KeptWith, Quiet
<1>7. ASSUME NEW p \in Server PROVE TermsAt(p, G)' /\ EndsAt(l, p)'
  <2>1. CASE p # j
    <3>1. TermsAt(p, G) /\ EndsAt(l, p) /\ SamePeer(p)
      BY <2>1 DEF KeptWith
    <3>2. TermsAt(p, G)'
      BY <3>1 DEF TermsAt, SamePeer
    <3>3. EndsAt(l, p)'
      BY <1>2, <1>4, <2>1, <3>1 DEF EndsAt, SamePeer
    <3>4. QED
      BY <3>2, <3>3
  <2>2. QED
    BY <2>1
<1>8. FreshAt(l, G)'
  BY DEF KeptWith, FreshAt
<1>9. LeaderEnds(l)'
  BY <1>1, <1>2, <1>4 DEF KeptWith, LeaderEnds, SamePeer
<1>10. ASSUME NEW p \in Peers(l) PROVE MatchAt(l, p, G)' /\ CallAt(l, p, G)'
  <2>1. p \in Server /\ p # l /\ MatchAt(l, p, G) /\ CallAt(l, p, G)
    BY DEF KeptWith, Peers
  <2>2. lastAppliedIndex'[l] = lastAppliedIndex[l] /\ LastLogIndex(l)' = LastLogIndex(l)
    BY <1>1, <1>2, <1>4 DEF SamePeer
  <2>3. MatchAt(l, p, G)'
    <3>1. SUFFICES ASSUME leaderId[l] = l,
                          NEW N \in lastAppliedIndex[l] + 1 .. LastLogIndex(l),
                          N <= matchIndex[l][p], G[N + 1].Term = currentTerm[l]
                   PROVE  N <= DiskLast(p)'
      BY <2>2 DEF MatchAt
    <3>2. N <= DiskLast(p)
      BY <2>1, <3>1 DEF MatchAt
    <3>3. DiskLast(p) \in Int /\ DiskLast(p)' \in Int /\ DiskLast(p) <= DiskLast(p)'
      BY <1>3, <1>5, <2>1
    <3>4. QED
      BY <3>2, <3>3
  <2>4. CASE p # j
    <3>1. call'[l][p] = call[l][p] /\ DiskLast(p)' = DiskLast(p)
          /\ LastLogIndex(p)' = LastLogIndex(p)
      BY <1>4, <2>1, <2>4
    <3>2. AppendAt(l, p, G) => AppendAt(l, p, G)'
      BY <2>2, <3>1 DEF AppendAt
    <3>3. InstallAt(l, p, G) => InstallAt(l, p, G)'
      BY <2>2, <3>1 DEF InstallAt
    <3>4. CallAt(l, p, G)'
      BY <2>1, <3>1, <3>2, <3>3 DEF CallAt, Waits
    <3>5. QED
      BY <2>3, <3>4
  <2>5. QED
    BY <2>3, <2>4
<1>11. ChosenDurable'
  BY <1>5, DurableKept DEF KeptWith
<1>12. QED
  BY <1>6, <1>7, <1>8, <1>9, <1>10, <1>11 DEF KeptWith

\* A step of the leader's rounds: logs stay, and what the leader knows of its
\* followers stays right.
LEMMA LeaderStep ==
    ASSUME NEW l \in Server, NEW G \in Seq(Entry), KeptWith(l, G), chosen \in Seq(Command),
           ElectionInv, ServiceInv, ServiceInv', Quiet(l)',
           UNCHANGED <<logVars, commitIndex, snapReq, chosen>>,
           persist(l) \/ raftstate' = raftstate,
           FreshAt(l, G)',
           \A j \in Peers(l) : /\ nextIndex'[l][j] <= LastLogIndex(l) + 1
                               /\ matchIndex'[l][j] <= LastLogIndex(l),
           \A j \in Peers(l) : MatchAt(l, j, G)' /\ CallAt(l, j, G)'
    PROVE  KeptWith(l, G)'
<1>1. ASSUME NEW p \in Server PROVE LastLogIndex(p)' = LastLogIndex(p)
  BY DEF logVars, LastLogIndex
<1>2. ASSUME NEW p \in Server
      PROVE  /\ DiskLast(p)' = DiskLast(p) \/ DiskLast(p)' = LastLogIndex(p)
             /\ TermsAt(p, G)'
  <2>1. TermsAt(p, G)
    BY DEF KeptWith
  <2>2. CASE persist(l) /\ p = l
    BY <1>1, <2>1, <2>2, PersistEnds DEF TermsAt, logVars
  <2>3. CASE raftstate'[p] = raftstate[p]
    BY <2>1, <2>3 DEF TermsAt, logVars, DiskLast
  <2>4. QED
    BY <2>2, <2>3, PersistEnds
<1>3. ASSUME NEW p \in Server PROVE EndsAt(l, p)' /\ DiskLast(p) <= DiskLast(p)'
  <2>1. EndsAt(l, p)
    BY DEF KeptWith
  <2>2. /\ LastLogIndex(p) \in Int /\ DiskLast(p) \in Int
        /\ DiskLast(p)' = DiskLast(p) \/ DiskLast(p)' = LastLogIndex(p)
        /\ LastLogIndex(p)' = LastLogIndex(p)
    BY <1>1, <1>2, Numbers
  <2>3. DiskLast(p)' <= LastLogIndex(p) /\ DiskLast(p) <= DiskLast(p)'
    BY <2>1, <2>2 DEF EndsAt
  <2>4. LastLogIndex(p) <= DiskLast(p)' \/ LastLogIndex(p) <= lastAppliedIndex[l]
    BY <2>1, <2>2 DEF EndsAt
  <2>5. QED
    BY <2>1, <2>2, <2>3, <2>4 DEF EndsAt, logVars
<1>4. LeaderEnds(l)'
  BY <1>1 DEF KeptWith, LeaderEnds, logVars
<1>5. ChosenDurable'
  BY <1>3, DurableKept DEF KeptWith
<1>6. QED
  BY <1>2, <1>3, <1>4, <1>5 DEF KeptWith

-----------------------------------------------------------------------------
(* Only the leader calls.                                                  *)

\* A request is what the leader's goroutine for its receiver waits for.
LEMMA RequestOfLeader ==
    ASSUME NEW l \in Server, ElectionInv, Quiet(l), NEW m \in Requests
    PROVE  /\ m.from = l /\ m.to \in Peers(l) /\ m.to \in Server /\ m.to # l
           /\ call[l][m.to].st = "sent" /\ call[l][m.to].args = m
<1>1. m \notin late
  BY DEF Quiet
<1>2. PICK i \in Server, j \in Server : call[i][j].st = "sent" /\ m = call[i][j].args
  BY <1>1, RequestPlace
<1>3. i = l
  BY <1>2 DEF Quiet, Finished
<1>4. m.from = i /\ m.to = j /\ j # i
  <2>1. WaitingOK(i, j, m)
    BY <1>2, Waiting
  <2>2. QED
    BY <2>1 DEF WaitingOK, MessageOK
<1>5. QED
  BY <1>2, <1>3, <1>4 DEF Peers

\* A goroutine that is not finished is the leader's.
LEMMA WorkerOfLeader ==
    ASSUME NEW l \in Server, ElectionInv, Quiet(l), NEW i \in Server, NEW j \in Server,
           Worker(i, j)
    PROVE  i = l /\ j \in Peers(l)
<1>1. call[i][j] # Finished
  BY DEF Worker, electionSenderCall, electionSenderReply, appendRPCWorkerCall,
         appendRPCWorkerReply, InstallSnapshotSenderCall, InstallSnapshotSenderReply,
         RPCTimeout, Finished, Spawned
<1>2. i = l
  BY <1>1 DEF Quiet
<1>3. SlotOK(i, j)
  BY DEF ElectionInv, CallsOK
<1>4. i # j
  BY <1>1, <1>3 DEF SlotOK, WaitingOK, MessageOK
<1>5. QED
  BY <1>2, <1>4 DEF Peers

\* With MaxLate = 0 no request outlives its sender.
LEMMA NoneLate ==
    ASSUME MaxLate = 0, late = {}
    PROVE  /\ \A i, j \in Server : RPCTimeout(i, j) => late' = {}
           /\ \A i \in Server :
                 \A S \in SUBSET {call[i][j].args : j \in {k \in Server : call[i][k].st = "sent"}} :
                    crash1(i, S) => late' = {}
<1>1. Cardinality({}) = 0
  BY FS_EmptySet
<1>2. ASSUME NEW i \in Server, NEW j \in Server, RPCTimeout(i, j) PROVE late' = {}
  BY <1>1, <1>2 DEF RPCTimeout
<1>3. ASSUME NEW i \in Server,
             NEW S \in SUBSET {call[i][j].args : j \in {k \in Server : call[i][k].st = "sent"}},
             crash1(i, S)
      PROVE  late' = {}
  <2>1. late' = S
    BY <1>3 DEF crash1
  <2>2. IsFiniteSet({k \in Server : call[i][k].st = "sent"})
    BY ServerAssumption, FS_Subset
  <2>3. IsFiniteSet({call[i][j].args : j \in {k \in Server : call[i][k].st = "sent"}})
    <3> DEFINE K == {k \in Server : call[i][k].st = "sent"}
               T == {call[i][j].args : j \in K}
               f == [j \in K |-> call[i][j].args]
    <3>1. f \in Surjection(K, T)
      BY DEF Surjection
    <3> HIDE DEF f
    <3>2. QED
      BY <2>2, <3>1, FS_Surjection
  <2>4. IsFiniteSet(S) /\ Cardinality(S) \in Nat
    BY <2>3, FS_Subset, FS_CardinalityType
  <2>5. Cardinality(S) <= 0
    BY <1>3, <2>1 DEF crash1
  <2>6. QED
    BY <2>1, <2>4, <2>5, FS_EmptySet
<1>4. QED
  BY <1>2, <1>3

\* So it stays: who is not l does not campaign, does not lead and has nothing
\* to send.
LEMMA QuietNext ==
    ASSUME NEW l \in Server, Reign(l), MaxLate = 0, ElectionInv, Alone(l), Quiet(l), [Next]_vars
    PROVE  Quiet(l)'
<1>1. ASSUME NEW m \in Requests, Handle(m) PROVE Quiet(l)'
  <2>1. PICK reply : Answer(m, reply)
    BY <1>1 DEF Handle, RequestVote, AppendEntries, InstallSnapshot
  <2>2. m.from = l /\ m.to \in Server /\ m \notin late
    BY RequestOfLeader DEF Quiet
  <2>3. late' = late /\ call' = [call EXCEPT ![l][m.to] = Replied(m, reply)]
    BY <2>1, <2>2 DEF Answer
  <2>4. QED
    BY <2>3 DEF Quiet, ElectionInv, ElectionTypeOK
<1>2. ASSUME NEW i \in Server, NEW j \in Server, Worker(i, j) PROVE Quiet(l)'
  <2>1. i = l
    BY <1>2, WorkerOfLeader
  <2>2. late' = {}
    <3>1. CASE RPCTimeout(i, j)
      BY <3>1, NoneLate DEF Quiet
    <3>2. CASE ~ RPCTimeout(i, j)
      BY <1>2, <3>2 DEF Quiet, Worker, electionSenderCall, electionSenderReply,
         appendRPCWorkerCall, appendRPCWorkerReply, InstallSnapshotSenderCall,
         InstallSnapshotSenderReply
    <3>3. QED
      BY <3>1, <3>2
  <2>3. \A p \in Server \ {l} : \A q \in Server : call'[p][q] = call[p][q]
    BY <1>2, <2>1 DEF Worker, electionSenderCall, electionSenderReply,
         appendRPCWorkerCall, appendRPCWorkerReply, InstallSnapshotSenderCall,
         InstallSnapshotSenderReply, RPCTimeout, Finish, ElectionInv, ElectionTypeOK
  <2>4. QED
    BY <2>2, <2>3 DEF Quiet
<1>3. ASSUME NEW i \in Server, Peer(i) PROVE Quiet(l)'
  <2>1. CASE startElection(i)
    <3>1. i = l
      BY <2>1 DEF startElection, ElectionDue, Reign
    <3>2. QED
      BY <2>1, <3>1 DEF startElection, Quiet
  <2>2. CASE sendAERpcs(i)
    <3>1. i = l
      BY <2>2, LeaderAlone DEF sendAERpcs
    <3>2. QED
      BY <2>2, <3>1 DEF sendAERpcs, Quiet
  <2>3. CASE UNCHANGED <<call, late>>
    BY <2>3 DEF Quiet
  <2>4. QED
    BY <1>3, <2>1, <2>2, <2>3 DEF Peer, startElectionEnd, sendAERpcsEnd, applyLogToRsm, doSnapshot
<1>4. ASSUME NEW i \in Server, NEW c \in Command, Start(i, c) PROVE Quiet(l)'
  BY <1>4 DEF Start, Quiet
<1>5. ASSUME NEW i \in Server, Restart(i) PROVE Quiet(l)'
  <2>1. PICK S \in SUBSET {call[i][j].args : j \in {k \in Server : call[i][k].st = "sent"}} :
           crash1(i, S)
    BY <1>5 DEF Restart
  <2>2. late' = {}
    BY <2>1, NoneLate DEF Quiet
  <2>3. ASSUME NEW p \in Server \ {l}, NEW q \in Server PROVE call'[p][q] = Finished
    <3>1. call[p][q] = Finished
      BY DEF Quiet
    <3>2. QED
      BY <2>1, <3>1 DEF crash1, Finished
  <2>4. QED
    BY <2>2, <2>3 DEF Quiet
<1>6. CASE UNCHANGED vars
  BY <1>6 DEF Quiet, vars
<1>7. QED
  BY <1>1, <1>2, <1>3, <1>4, <1>5, <1>6 DEF Next

-----------------------------------------------------------------------------
(* The rounds of the leader.                                               *)

\* A goroutine that waits for no answer to a request of the log.
LEMMA NothingSent ==
    ASSUME NEW l, NEW j, NEW G,
           \/ call'[l][j] = Finished
           \/ \E r \in Rpc : call'[l][j] = Spawned(r)
           \/ call'[l][j].args.rpc = "RequestVote"
    PROVE  CallAt(l, j, G)'
<1>1. ~ Waits(l, j, "AppendEntries")' /\ ~ Waits(l, j, "InstallSnapshot")'
  <2>1. CASE call'[l][j] = Finished
    BY <2>1 DEF Waits, Finished
  <2>2. CASE \E r \in Rpc : call'[l][j] = Spawned(r)
    BY <2>2 DEF Waits, Spawned
  <2>3. CASE call'[l][j].args.rpc = "RequestVote"
    BY <2>3 DEF Waits
  <2>4. QED
    BY <2>1, <2>2, <2>3
<1>2. QED
  BY <1>1 DEF CallAt

\* What the leader knows of a follower that a step of its round leaves alone.
LEMMA OtherFollower ==
    ASSUME NEW l \in Server, NEW G, ElectionInv, NEW p \in Peers(l),
           MatchAt(l, p, G), CallAt(l, p, G),
           logVars' = logVars, persist(l) \/ raftstate' = raftstate,
           nextIndex'[l][p] = nextIndex[l][p], matchIndex'[l][p] = matchIndex[l][p],
           leaderId'[l] = l => leaderId[l] = l /\ currentTerm'[l] = currentTerm[l]
    PROVE  /\ MatchAt(l, p, G)'
           /\ call'[l][p] = call[l][p] => CallAt(l, p, G)'
<1>1. p \in Server /\ p # l
  BY DEF Peers
<1>2. raftstate'[p] = raftstate[p]
  BY <1>1, PersistEnds
<1>3. /\ DiskLast(p)' = DiskLast(p) /\ LastLogIndex(p)' = LastLogIndex(p)
      /\ LastLogIndex(l)' = LastLogIndex(l) /\ lastAppliedIndex' = lastAppliedIndex
  BY <1>1, <1>2 DEF DiskLast, LastLogIndex, logVars
<1>4. MatchAt(l, p, G)'
  BY <1>3 DEF MatchAt
<1>5. ASSUME call'[l][p] = call[l][p] PROVE CallAt(l, p, G)'
  <2>1. AppendAt(l, p, G) => AppendAt(l, p, G)'
    BY <1>3, <1>5 DEF AppendAt
  <2>2. InstallAt(l, p, G) => InstallAt(l, p, G)'
    BY <1>3, <1>5 DEF InstallAt
  <2>3. QED
    BY <1>5, <2>1, <2>2 DEF CallAt, Waits
<1>6. QED
  BY <1>4, <1>5

\* The goroutine for j goes on: the other followers are as before.
LEMMA WorkerStep ==
    ASSUME NEW l \in Server, NEW G \in Seq(Entry), KeptWith(l, G), chosen \in Seq(Command),
           ElectionInv, ServiceInv, ServiceInv', Quiet(l)',
           UNCHANGED <<logVars, commitIndex, snapReq, chosen>>,
           persist(l) \/ raftstate' = raftstate,
           FreshAt(l, G)',
           leaderId'[l] = l => leaderId[l] = l /\ currentTerm'[l] = currentTerm[l],
           NEW j \in Peers(l), NEW c, call' = [call EXCEPT ![l][j] = c],
           \A p \in Peers(l) \ {j} : /\ nextIndex'[l][p] = nextIndex[l][p]
                                     /\ matchIndex'[l][p] = matchIndex[l][p],
           nextIndex'[l][j] <= LastLogIndex(l) + 1, matchIndex'[l][j] <= LastLogIndex(l),
           MatchAt(l, j, G)', CallAt(l, j, G)'
    PROVE  KeptWith(l, G)'
<1>1. ASSUME NEW p \in Peers(l), p # j PROVE MatchAt(l, p, G)' /\ CallAt(l, p, G)'
  <2>1. call'[l][p] = call[l][p]
    BY <1>1 DEF Peers, ElectionInv, ElectionTypeOK
  <2>2. MatchAt(l, p, G) /\ CallAt(l, p, G)
    BY DEF KeptWith
  <2>3. QED
    BY <1>1, <2>1, <2>2, OtherFollower
<1>2. \A p \in Peers(l) : MatchAt(l, p, G)' /\ CallAt(l, p, G)'
  BY <1>1
<1>3. \A p \in Peers(l) : /\ nextIndex'[l][p] <= LastLogIndex(l) + 1
                          /\ matchIndex'[l][p] <= LastLogIndex(l)
  BY DEF KeptWith, LeaderEnds
<1>4. QED
  BY <1>2, <1>3, LeaderStep

\* Entries have terms.
LEMMA HistoryTerm ==
    ASSUME NEW G \in Seq(Entry), NEW n \in 1 .. Len(G)
    PROVE  G[n] \in Entry /\ G[n].Term \in Nat
<1>1. G[n] \in Entry
  OBVIOUS
<1>2. QED
  BY <1>1 DEF Entry

\* A term that l enters is newer than every entry.
LEMMA FreshRaised ==
    ASSUME NEW l \in Server, NEW G \in Seq(Entry), FreshAt(l, G), currentTerm[l] \in Nat,
           currentTerm'[l] \in Nat, currentTerm'[l] > currentTerm[l]
    PROVE  FreshAt(l, G)'
<1>1. ASSUME NEW n \in 1 .. Len(G) PROVE G[n].Term < currentTerm'[l]
  <2>1. G[n] \in Entry
    OBVIOUS
  <2>2. G[n].Term \in Nat
    BY <2>1 DEF Entry
  <2>3. G[n].Term <= currentTerm[l]
    BY DEF FreshAt
  <2>4. QED
    BY <2>2, <2>3
<1>2. ASSUME NEW n \in 1 .. Len(G) PROVE G[n].Term <= currentTerm'[l]
  <2>1. G[n] \in Entry
    OBVIOUS
  <2>2. G[n].Term \in Nat
    BY <2>1 DEF Entry
  <2>3. QED
    BY <1>1, <2>2
<1>3. QED
  BY <1>1, <1>2 DEF FreshAt

\* Where the term stays, so does what is known of the entries' terms.
LEMMA FreshKept ==
    ASSUME NEW l, NEW G, FreshAt(l, G), currentTerm'[l] = currentTerm[l],
           leaderId'[l] # l /\ ticker'[l] # Idle => leaderId[l] # l /\ ticker[l] # Idle
    PROVE  FreshAt(l, G)'
BY DEF FreshAt

\* What all steps of the leader's rounds rest on.
LEMMA LeaderFacts ==
    ASSUME NEW l \in Server, NEW G \in Seq(Entry), ReignWith(l, G), KeptWith(l, G), ServiceInv
    PROVE  /\ chosen \in Seq(Command)
           /\ FreshAt(l, G)
           /\ LastLogIndex(l) \in Int /\ LastLogIndex(l) + 1 = Len(G)
           /\ lastAppliedIndex[l] \in Int /\ lastAppliedIndex[l] >= -1
           /\ lastAppliedIndex[l] <= LastLogIndex(l)
           /\ \A j \in Peers(l) : /\ nextIndex[l][j] \in Nat
                                  /\ nextIndex[l][j] <= LastLogIndex(l) + 1
                                  /\ matchIndex[l][j] \in Int
                                  /\ matchIndex[l][j] <= LastLogIndex(l)
                                  /\ MatchAt(l, j, G) /\ CallAt(l, j, G)
<1>1. chosen \in Seq(Command)
  BY DEF ReignWith, HistoryOK
<1>2. LastLogIndex(l) + 1 = Len(G)
  BY DEF ReignWith, LeaderAt
<1>3. \A j \in Server : nextIndex[l][j] \in Nat /\ matchIndex[l][j] \in Int
  BY DEF ServiceInv, IndexOK, NatOrNone
<1>4. LastLogIndex(l) \in Int /\ lastAppliedIndex[l] \in Int /\ lastAppliedIndex[l] >= -1
      /\ lastAppliedIndex[l] <= LastLogIndex(l)
  BY Numbers
<1>5. QED
  BY <1>1, <1>2, <1>3, <1>4 DEF KeptWith, LeaderEnds, Peers

\* The sender gives up.
LEMMA TimeoutLasts ==
    ASSUME NEW l \in Server, NEW G \in Seq(Entry), ReignWith(l, G), KeptWith(l, G),
           ElectionInv, ServiceInv, ServiceInv', Quiet(l)',
           NEW j \in Peers(l), RPCTimeout(l, j)
    PROVE  KeptWith(l, G)'
<1>1. /\ call' = [call EXCEPT ![l][j] = Finished]
      /\ UNCHANGED <<electionVars, logVars, applyVars, leaderVars, raftstate, ticker,
                     serviceVars, historyVars>>
  <2>1. Finish(l, j)
    BY DEF RPCTimeout
  <2>2. UNCHANGED <<electionVars, logVars, applyVars, leaderVars, raftstate,
                    snapshot, ticker, serviceVars, historyVars>>
    BY DEF RPCTimeout
  <2>3. QED
    BY <2>1, <2>2 DEF Finish
<1>2. call'[l][j] = Finished
  BY <1>1 DEF Peers, ElectionInv, ElectionTypeOK
<1>3. CallAt(l, j, G)'
  BY <1>2, NothingSent
<1>4. MatchAt(l, j, G)'
  BY <1>1, LeaderFacts, OtherFollower DEF electionVars, leaderVars
<1>5. FreshAt(l, G)'
  BY <1>1, LeaderFacts, FreshKept DEF electionVars
<1>6. PICK c : c = Finished /\ call' = [call EXCEPT ![l][j] = c]
  BY <1>1
<1>7. /\ \A p \in Peers(l) \ {j} : /\ nextIndex'[l][p] = nextIndex[l][p]
                                    /\ matchIndex'[l][p] = matchIndex[l][p]
      /\ nextIndex'[l][j] <= LastLogIndex(l) + 1 /\ matchIndex'[l][j] <= LastLogIndex(l)
      /\ leaderId'[l] = leaderId[l] /\ currentTerm'[l] = currentTerm[l]
      /\ UNCHANGED <<logVars, commitIndex, snapReq, chosen, raftstate>>
  BY <1>1, LeaderFacts DEF electionVars, leaderVars, applyVars, serviceVars, historyVars
<1>8. QED
  BY <1>3, <1>4, <1>5, <1>6, <1>7, LeaderFacts, WorkerStep

\* electionSender asks for a vote.
LEMMA VoteCallLasts ==
    ASSUME NEW l \in Server, NEW G \in Seq(Entry), ReignWith(l, G), KeptWith(l, G),
           ElectionInv, ServiceInv, ServiceInv', Quiet(l)',
           NEW j \in Peers(l), electionSenderCall(l, j)
    PROVE  KeptWith(l, G)'
<1>1. PICK c : /\ call' = [call EXCEPT ![l][j] = c]
               /\ c = Finished \/ c = Sent(RequestVoteArgs(l, j))
               /\ UNCHANGED <<electionVars, logVars, applyVars, leaderVars, raftstate, ticker,
                              serviceVars, historyVars>>
  BY DEF electionSenderCall
<1>2. call'[l][j] = c
  BY <1>1 DEF Peers, ElectionInv, ElectionTypeOK
<1>3. c = Finished \/ c.args.rpc = "RequestVote"
  BY <1>1 DEF Sent, RequestVoteArgs
<1>4. CallAt(l, j, G)'
  BY <1>2, <1>3, NothingSent
<1>5. MatchAt(l, j, G)'
  BY <1>1, LeaderFacts, OtherFollower DEF electionVars, leaderVars
<1>6. FreshAt(l, G)'
  BY <1>1, LeaderFacts, FreshKept DEF electionVars
<1>7. QED
  BY <1>1, <1>4, <1>5, <1>6, LeaderFacts, WorkerStep
     DEF electionVars, leaderVars, applyVars, serviceVars, historyVars

\* electionSender counts a vote or enters a newer term.
LEMMA VoteReplyLasts ==
    ASSUME NEW l \in Server, NEW G \in Seq(Entry), ReignWith(l, G), KeptWith(l, G),
           ElectionInv, ServiceInv, ServiceInv', ElectionInv', Quiet(l)',
           NEW j \in Peers(l), electionSenderReply(l, j)
    PROVE  KeptWith(l, G)'
<1>1. /\ call' = [call EXCEPT ![l][j] = Finished]
      /\ UNCHANGED <<leaderId, logVars, applyVars, leaderVars, serviceVars, historyVars>>
      /\ persist(l) \/ raftstate' = raftstate
  BY DEF electionSenderReply, Finish
<1>2. call'[l][j] = Finished
  BY <1>1 DEF Peers, ElectionInv, ElectionTypeOK
<1>3. CallAt(l, j, G)'
  BY <1>2, NothingSent
<1>4. Campaigning(l) /\ leaderId[l] # l /\ ticker[l] # Idle
  <2>1. WaitingOK(l, j, call[l][j].args) /\ call[l][j].args.rpc = "RequestVote"
    BY Waiting DEF electionSenderReply, Waits, Peers
  <2>2. Campaigning(l)
    BY <2>1 DEF WaitingOK
  <2>3. QED
    BY <2>2 DEF ElectionInv, Leads, Campaigning, Idle
<1>5. MatchAt(l, j, G)'
  BY <1>1, <1>4 DEF MatchAt
<1>6. FreshAt(l, G)'
  <2>1. currentTerm[l] \in Nat /\ currentTerm'[l] \in Nat
    BY DEF ElectionInv, ElectionTypeOK
  <2>2. currentTerm'[l] = currentTerm[l] \/ currentTerm'[l] > currentTerm[l]
    BY DEF electionSenderReply, ElectionInv, ElectionTypeOK
  <2>3. QED
    BY <1>4, <2>1, <2>2, LeaderFacts, FreshKept, FreshRaised
<1>7. QED
  BY <1>1, <1>3, <1>4, <1>5, <1>6, LeaderFacts, WorkerStep
     DEF leaderVars, applyVars, serviceVars, historyVars

\* The request that appendRPCWorker builds reaches to the end of the leader's log,
\* beyond which nobody has anything.
LEMMA AppendArgs ==
    ASSUME NEW l \in Server, NEW G \in Seq(Entry), ReignWith(l, G), KeptWith(l, G), ServiceInv,
           NEW j \in Peers(l), ~ IsSendSnapshot(l, j), NEW m, m = AppendEntriesArgs(l, j)
    PROVE  /\ m.rpc = "AppendEntries"
           /\ m.PrevLogIndex = nextIndex[l][j] - 1
           /\ m.PrevLogTerm = TermAt(m.PrevLogIndex, G)
           /\ RequestEnd(m) = LastLogIndex(l)
           /\ LastLogIndex(j) <= RequestEnd(m)
<1>1. PICK prev \in Int : prev = nextIndex[l][j] - 1
  BY LeaderFacts
<1>2. lastAppliedIndex[l] <= prev /\ prev <= LastLogIndex(l)
  BY <1>1, LeaderFacts DEF IsSendSnapshot
<1>3. /\ Log[l] \in Seq(Entry) /\ Len(Log[l]) \in Nat
      /\ LastLogIndex(l) = Len(Log[l]) + lastAppliedIndex[l]
      /\ lastAppliedIndex[l] \in Int /\ lastAppliedIndex[l] >= -1 /\ LastLogIndex(l) \in Int
  BY Numbers
<1>4. PICK d \in Nat : d = prev - lastAppliedIndex[l]
  BY <1>2, <1>3
<1>5. d <= Len(Log[l])
  BY <1>2, <1>3, <1>4
<1>6. /\ m.rpc = "AppendEntries" /\ m.PrevLogIndex = prev
      /\ m.Entries = SubSeq(Log[l], d + 1, Len(Log[l]))
      /\ m.PrevLogTerm = IF prev = lastAppliedIndex[l] THEN lastAppliedTerm[l]
                         ELSE EntryAt(l, prev).Term
  <2>1. prev - lastAppliedIndex[l] + 1 = d + 1
    BY <1>3, <1>4
  <2>2. /\ m.rpc = "AppendEntries" /\ m.PrevLogIndex = prev
        /\ m.Entries = SubSeq(Log[l], prev - lastAppliedIndex[l] + 1, Len(Log[l]))
        /\ m.PrevLogTerm = IF prev = lastAppliedIndex[l] THEN lastAppliedTerm[l]
                           ELSE EntryAt(l, prev).Term
    BY <1>1 DEF AppendEntriesArgs
  <2>3. QED
    BY <2>1, <2>2
<1>7. Len(m.Entries) = Len(Log[l]) - d
  <2>1. Slice(Log[l], lastAppliedIndex[l], G)
    BY DEF ReignWith, LogSlices
  <2>2. QED
    BY <1>3, <1>5, <1>6, <2>1, SliceTail
<1>8. RequestEnd(m) = LastLogIndex(l)
  <2>1. PICK n \in Nat : n = Len(Log[l])
    BY <1>3
  <2>2. RequestEnd(m) = prev + (n - d)
    BY <1>6, <1>7, <2>1, Zenon DEF RequestEnd
  <2>3. prev + (n - d) = n + lastAppliedIndex[l]
    BY <1>3, <1>4, <2>1
  <2>4. QED
    BY <1>3, <2>1, <2>2, <2>3, Zenon
<1>9. m.PrevLogTerm = TermAt(prev, G)
  <2>1. CASE prev = lastAppliedIndex[l]
    BY <1>6, <2>1 DEF KeptWith, TermsAt
  <2>2. CASE prev # lastAppliedIndex[l]
    <3>1. prev \in Nat /\ prev > lastAppliedIndex[l]
      BY <1>2, <1>3, <2>2
    <3>2. EntryAt(l, prev) = G[prev + 1]
      BY <1>2, <3>1, CommittedEntry DEF ReignWith, ServiceInv
    <3>3. QED
      BY <1>6, <2>2, <3>1, <3>2 DEF TermAt
  <2>3. QED
    BY <2>1, <2>2
<1>10. LastLogIndex(j) <= LastLogIndex(l)
  <2>1. j \in Server
    BY DEF Peers
  <2>2. Slice(Log[j], lastAppliedIndex[j], G)
    BY <2>1 DEF ReignWith, LogSlices
  <2>3. /\ LastLogIndex(j) = Len(Log[j]) + lastAppliedIndex[j]
        /\ Len(Log[j]) \in Nat /\ lastAppliedIndex[j] \in Int
    BY <2>1, Numbers
  <2>4. lastAppliedIndex[j] + 1 + Len(Log[j]) <= Len(G)
    BY <2>2 DEF Slice
  <2>5. LastLogIndex(l) + 1 = Len(G)
    BY DEF ReignWith, LeaderAt
  <2>6. QED
    BY <1>3, <2>3, <2>4, <2>5
<1>11. QED
  BY <1>1, <1>6, <1>8, <1>9, <1>10

\* appendRPCWorker sends its request.
LEMMA AppendCallLasts ==
    ASSUME NEW l \in Server, NEW G \in Seq(Entry), ReignWith(l, G), KeptWith(l, G),
           ElectionInv, ServiceInv, ServiceInv', Quiet(l)',
           NEW j \in Peers(l), appendRPCWorkerCall(l, j)
    PROVE  KeptWith(l, G)'
<1>1. PICK c : /\ call' = [call EXCEPT ![l][j] = c]
               /\ c = Finished \/ (~ IsSendSnapshot(l, j) /\ c = Sent(AppendEntriesArgs(l, j)))
               /\ UNCHANGED <<electionVars, logVars, applyVars, leaderVars, raftstate, ticker,
                              serviceVars, historyVars>>
  BY DEF appendRPCWorkerCall
<1>2. call'[l][j] = c
  BY <1>1 DEF Peers, ElectionInv, ElectionTypeOK
<1>3. CallAt(l, j, G)'
  <2>1. CASE c = Finished
    BY <1>2, <2>1, NothingSent
  <2>2. CASE ~ IsSendSnapshot(l, j) /\ c = Sent(AppendEntriesArgs(l, j))
    <3>1. PICK m : m = AppendEntriesArgs(l, j)
      OBVIOUS
    <3>2. /\ m.rpc = "AppendEntries"
          /\ m.PrevLogIndex = nextIndex[l][j] - 1
          /\ m.PrevLogTerm = TermAt(m.PrevLogIndex, G)
          /\ RequestEnd(m) = LastLogIndex(l)
          /\ LastLogIndex(j) <= RequestEnd(m)
      BY <2>2, <3>1, AppendArgs
    <3>3. c.st = "sent" /\ c.args = m
      BY <2>2, <3>1 DEF Sent
    <3>4. /\ nextIndex' = nextIndex /\ LastLogIndex(l)' = LastLogIndex(l)
          /\ LastLogIndex(j)' = LastLogIndex(j) /\ LastLogIndex(l) \in Int
      BY <1>1, Numbers DEF leaderVars, logVars, LastLogIndex
    <3>5. AppendAt(l, j, G)'
      BY <1>2, <3>2, <3>3, <3>4 DEF AppendAt
    <3>6. QED
      BY <1>2, <3>2, <3>3, <3>5 DEF CallAt, Waits
  <2>3. QED
    BY <1>1, <2>1, <2>2
<1>4. MatchAt(l, j, G)'
  BY <1>1, LeaderFacts, OtherFollower DEF electionVars, leaderVars
<1>5. FreshAt(l, G)'
  BY <1>1, LeaderFacts, FreshKept DEF electionVars
<1>6. QED
  BY <1>1, <1>3, <1>4, <1>5, LeaderFacts, WorkerStep
     DEF electionVars, leaderVars, applyVars, serviceVars, historyVars

\* InstallSnapshotSender sends the snapshot that stands for what was cut.
LEMMA InstallCallLasts ==
    ASSUME NEW l \in Server, NEW G \in Seq(Entry), ReignWith(l, G), KeptWith(l, G),
           ElectionInv, ServiceInv, ServiceInv', Quiet(l)',
           NEW j \in Peers(l), InstallSnapshotSenderCall(l, j)
    PROVE  KeptWith(l, G)'
<1>1. PICK c : /\ call' = [call EXCEPT ![l][j] = c]
               /\ c = Finished \/ c = Sent(InstallSnapshotArgs(l, j))
               /\ UNCHANGED <<electionVars, logVars, applyVars, leaderVars, raftstate, ticker,
                              serviceVars, historyVars>>
  BY DEF InstallSnapshotSenderCall
<1>2. call'[l][j] = c
  BY <1>1 DEF Peers, ElectionInv, ElectionTypeOK
<1>3. CallAt(l, j, G)'
  <2>1. CASE c = Finished
    BY <1>2, <2>1, NothingSent
  <2>2. CASE c = Sent(InstallSnapshotArgs(l, j))
    <3>1. /\ c.args.rpc = "InstallSnapshot" /\ c.st = "sent"
          /\ c.args.LastIncludedIndex = lastAppliedIndex[l]
          /\ c.args.LastIncludedTerm = lastAppliedTerm[l]
      BY <2>2 DEF Sent, InstallSnapshotArgs
    <3>2. lastAppliedTerm[l] = TermAt(lastAppliedIndex[l], G)
      BY DEF KeptWith, TermsAt
    <3>3. InstallAt(l, j, G)'
      BY <1>1, <1>2, <3>1, <3>2, LeaderFacts DEF InstallAt, logVars
    <3>4. QED
      BY <1>2, <3>1, <3>3 DEF CallAt, Waits
  <2>3. QED
    BY <1>1, <2>1, <2>2
<1>4. MatchAt(l, j, G)'
  BY <1>1, LeaderFacts, OtherFollower DEF electionVars, leaderVars
<1>5. FreshAt(l, G)'
  BY <1>1, LeaderFacts, FreshKept DEF electionVars
<1>6. QED
  BY <1>1, <1>3, <1>4, <1>5, LeaderFacts, WorkerStep
     DEF electionVars, leaderVars, applyVars, serviceVars, historyVars

\* A leader's goroutine uses its reply: it moves nextIndex and matchIndex of its
\* peer, or steps down into a newer term.
LEMMA ReplyLasts ==
    ASSUME NEW l \in Server, NEW G \in Seq(Entry), ReignWith(l, G), KeptWith(l, G),
           ElectionInv, ServiceInv, ServiceInv', Quiet(l)',
           NEW j \in Peers(l), Finish(l, j),
           UNCHANGED <<logVars, applyVars, serviceVars, historyVars>>,
           NEW x \in Int, NEW y \in Int, x <= LastLogIndex(l) + 1, y <= LastLogIndex(l),
           nextIndex' = [nextIndex EXCEPT ![l][j] = x],
           matchIndex' = [matchIndex EXCEPT ![l][j] = y],
           \/ \E t \in Nat : t > currentTerm[l] /\ StepDown(l, t) /\ persist(l)
           \/ /\ UNCHANGED <<electionVars, raftstate>>
              /\ ticker'[l] = ticker[l] \/ leaderId[l] = l
              /\ leaderId[l] = l =>
                    \A N \in lastAppliedIndex[l] + 1 .. LastLogIndex(l) :
                       N <= y /\ G[N + 1].Term = currentTerm[l] => N <= DiskLast(j)
    PROVE  KeptWith(l, G)'
<1>1. j \in Server /\ j # l
  BY DEF Peers
<1>2. PICK c : c = Finished /\ call' = [call EXCEPT ![l][j] = c]
  BY DEF Finish
<1>3. call'[l][j] = Finished
  BY <1>1, <1>2 DEF ElectionInv, ElectionTypeOK
<1>4. CallAt(l, j, G)'
  BY <1>3, NothingSent
<1>5. /\ nextIndex'[l][j] = x /\ matchIndex'[l][j] = y
      /\ \A p \in Peers(l) \ {j} : /\ nextIndex'[l][p] = nextIndex[l][p]
                                   /\ matchIndex'[l][p] = matchIndex[l][p]
  BY <1>1 DEF ServiceInv, IndexOK, Peers
<1>6. currentTerm \in [Server -> Nat] /\ leaderId \in [Server -> Vote] /\ Nil \notin Server
  BY ServerAssumption DEF ElectionInv, ElectionTypeOK
<1>7. CASE \E t \in Nat : t > currentTerm[l] /\ StepDown(l, t) /\ persist(l)
  <2>1. leaderId'[l] # l /\ currentTerm'[l] \in Nat /\ currentTerm'[l] > currentTerm[l]
        /\ currentTerm[l] \in Nat /\ persist(l)
    BY <1>6, <1>7 DEF StepDown
  <2>2. FreshAt(l, G)'
    BY <2>1, LeaderFacts, FreshRaised
  <2>3. MatchAt(l, j, G)'
    BY <2>1 DEF MatchAt
  <2>4. QED
    BY <1>2, <1>4, <1>5, <2>1, <2>2, <2>3, LeaderFacts, WorkerStep
       DEF applyVars, serviceVars, historyVars
<1>8. CASE /\ UNCHANGED <<electionVars, raftstate>>
           /\ ticker'[l] = ticker[l] \/ leaderId[l] = l
           /\ leaderId[l] = l =>
                 \A N \in lastAppliedIndex[l] + 1 .. LastLogIndex(l) :
                    N <= y /\ G[N + 1].Term = currentTerm[l] => N <= DiskLast(j)
  <2>1. /\ leaderId' = leaderId /\ currentTerm' = currentTerm /\ raftstate' = raftstate
        /\ DiskLast(j)' = DiskLast(j) /\ LastLogIndex(l)' = LastLogIndex(l)
        /\ lastAppliedIndex' = lastAppliedIndex
    BY <1>8 DEF electionVars, logVars, DiskLast, LastLogIndex
  <2>2. FreshAt(l, G)'
    BY <1>8, <2>1, LeaderFacts, FreshKept
  <2>3. MatchAt(l, j, G)'
    BY <1>5, <1>8, <2>1 DEF MatchAt
  <2>4. QED
    BY <1>2, <1>4, <1>5, <2>1, <2>2, <2>3, LeaderFacts, WorkerStep
       DEF applyVars, serviceVars, historyVars
<1>9. QED
  BY <1>7, <1>8

\* appendRPCWorker uses its reply: matchIndex becomes the end of the request.
LEMMA AppendReplyLasts ==
    ASSUME NEW l \in Server, NEW G \in Seq(Entry), ReignWith(l, G), KeptWith(l, G),
           ElectionInv, ServiceInv, ServiceInv', Quiet(l)',
           NEW j \in Peers(l), appendRPCWorkerReply(l, j)
    PROVE  KeptWith(l, G)'
<1> DEFINE r == call[l][j].reply
           m == call[l][j].args
           use == SameLeader(l) /\ r.Term <= currentTerm[l]
           x == IF ~ use THEN nextIndex[l][j]
                ELSE IF r.Success THEN Advance(l, j) ELSE BackUp(l, j)
           y == IF use /\ r.Success THEN Advance(l, j) - 1 ELSE matchIndex[l][j]
<1>1. /\ UNCHANGED <<logVars, applyVars, serviceVars, historyVars>>
      /\ Finish(l, j)
      /\ nextIndex' = [nextIndex EXCEPT ![l][j] =
                         IF ~ use THEN @
                         ELSE IF r.Success THEN Advance(l, j) ELSE BackUp(l, j)]
      /\ matchIndex' = [matchIndex EXCEPT ![l][j] =
                          IF use /\ r.Success THEN Advance(l, j) - 1 ELSE @]
      /\ ticker' = [ticker EXCEPT ![l].yes = IF use /\ r.Success THEN @ \cup {j} ELSE @]
      /\ IF SameLeader(l) /\ ~ use
         THEN StepDown(l, r.Term) /\ persist(l)
         ELSE UNCHANGED <<electionVars, raftstate>>
      /\ Waits(l, j, "AppendEntries")
      /\ call[l][j].st = "replied"
  BY DEF appendRPCWorkerReply
<1>2. j \in Server /\ j # l
  BY DEF Peers
<1>3. AppendAt(l, j, G)
  BY <1>1, LeaderFacts DEF CallAt
<1>4. r.Term \in Nat
  <2>1. SlotOK(l, j)
    BY <1>2 DEF ElectionInv, CallsOK
  <2>2. call[l][j] # Finished /\ \A q : call[l][j] # Spawned(q)
    BY <1>1 DEF Finished, Spawned
  <2>3. call[l][j].st \notin {"sent", "lost"}
    BY <1>1
  <2>4. QED
    BY <2>1, <2>2, <2>3, Zenon DEF SlotOK
<1>5. PICK e \in Nat : e = Len(m.Entries)
  <2>1. m.Entries \in Seq(Entry)
    BY <1>1, <1>2 DEF ServiceInv, BodiesOK, SenderOK, BodyOK, Waits
  <2>2. QED
    BY <2>1
<1>6. /\ nextIndex[l][j] \in Nat /\ nextIndex[l][j] <= LastLogIndex(l) + 1
      /\ matchIndex[l][j] \in Int /\ matchIndex[l][j] <= LastLogIndex(l)
      /\ LastLogIndex(l) \in Int /\ MatchAt(l, j, G)
      /\ lastAppliedIndex[l] \in Int
  BY LeaderFacts
<1>7. Advance(l, j) = nextIndex[l][j] + e /\ RequestEnd(m) = nextIndex[l][j] - 1 + e
      /\ RequestEnd(m) <= LastLogIndex(l)
  BY <1>3, <1>5 DEF AppendAt, Advance, RequestEnd
<1>8. BackUp(l, j) \in Int /\ BackUp(l, j) <= nextIndex[l][j]
  <2>1. lastApplied[l] \in Int
    BY Numbers
  <2>2. nextIndex[l][j] \div 2 \in Int /\ nextIndex[l][j] \div 2 <= nextIndex[l][j]
    BY <1>6
  <2>3. QED
    BY <1>6, <2>1, <2>2 DEF BackUp, Minimum
<1> HIDE DEF r, m
<1>9. x \in Int /\ y \in Int /\ x <= LastLogIndex(l) + 1 /\ y <= LastLogIndex(l)
  <2>1. Advance(l, j) \in Int /\ Advance(l, j) <= LastLogIndex(l) + 1
    BY <1>6, <1>7
  <2>2. Advance(l, j) - 1 \in Int /\ Advance(l, j) - 1 <= LastLogIndex(l)
    BY <1>6, <2>1
  <2>3. BackUp(l, j) <= LastLogIndex(l) + 1
    BY <1>6, <1>8
  <2>4. x \in Int /\ x <= LastLogIndex(l) + 1
    BY <1>6, <1>8, <2>1, <2>3
  <2>5. y \in Int /\ y <= LastLogIndex(l)
    BY <1>6, <2>2
  <2>6. QED
    BY <2>4, <2>5
<1>10. /\ nextIndex' = [nextIndex EXCEPT ![l][j] = x]
       /\ matchIndex' = [matchIndex EXCEPT ![l][j] = y]
  BY <1>1, <1>2 DEF ServiceInv, IndexOK
<1>11. CASE SameLeader(l) /\ ~ use
  <2>1. r.Term > currentTerm[l]
    BY <1>4, <1>11 DEF ElectionInv, ElectionTypeOK
  <2>2. \E t \in Nat : t > currentTerm[l] /\ StepDown(l, t) /\ persist(l)
    BY <1>1, <1>4, <1>11, <2>1
  <2>3. QED
    BY <1>1, <1>9, <1>10, <2>2, ReplyLasts
<1>12. CASE ~ (SameLeader(l) /\ ~ use)
  <2>1. UNCHANGED <<electionVars, raftstate>>
    BY <1>1, <1>12
  <2>2. ticker'[l] = ticker[l] \/ leaderId[l] = l
    <3>1. CASE use
      BY <3>1 DEF SameLeader
    <3>2. CASE ~ use
      <4>1. ticker' = [ticker EXCEPT ![l].yes = @]
        BY <1>1, <3>2
      <4>2. ticker \in [Server -> Round]
        BY DEF ElectionInv, ElectionTypeOK
      <4>3. ticker'[l] = [ticker[l] EXCEPT !.yes = ticker[l].yes] /\ ticker[l] \in Round
        BY <4>1, <4>2
      <4>4. QED
        BY <4>3 DEF Round
    <3>3. QED
      BY <3>1, <3>2
  <2>3. ASSUME leaderId[l] = l, NEW N \in lastAppliedIndex[l] + 1 .. LastLogIndex(l),
               N <= y, G[N + 1].Term = currentTerm[l]
        PROVE  N <= DiskLast(j)
    <3>1. DiskLast(j) \in Int /\ N \in Int /\ N > lastAppliedIndex[l]
      BY <1>2, <1>6, Numbers
    <3>2. CASE use /\ r.Success
      <4>1. RequestEnd(m) <= DiskLast(j) \/ RequestEnd(m) <= lastAppliedIndex[l]
        BY <1>1, <1>3, <3>2 DEF AppendAt, r, m
      <4>2. N <= RequestEnd(m) /\ RequestEnd(m) \in Int
        BY <1>6, <1>7, <2>3, <3>1, <3>2
      <4>3. QED
        BY <1>6, <3>1, <4>1, <4>2
    <3>3. CASE ~ (use /\ r.Success)
      BY <1>6, <2>3, <3>3 DEF MatchAt
    <3>4. QED
      BY <3>2, <3>3
  <2>4. leaderId[l] = l => \A N \in lastAppliedIndex[l] + 1 .. LastLogIndex(l) :
                              N <= y /\ G[N + 1].Term = currentTerm[l] => N <= DiskLast(j)
    BY <2>3
  <2> HIDE DEF x, y
  <2>5. QED
    BY <1>1, <1>9, <1>10, <2>1, <2>2, <2>4, ReplyLasts
<1>13. QED
  BY <1>11, <1>12

\* InstallSnapshotSender uses its reply: matchIndex becomes what the leader has cut.
LEMMA InstallReplyLasts ==
    ASSUME NEW l \in Server, NEW G \in Seq(Entry), ReignWith(l, G), KeptWith(l, G),
           ElectionInv, ServiceInv, ServiceInv', Quiet(l)',
           NEW j \in Peers(l), InstallSnapshotSenderReply(l, j)
    PROVE  KeptWith(l, G)'
<1> DEFINE t == call[l][j].reply.Term
           newer == t > currentTerm[l]
           x == IF newer THEN nextIndex[l][j] ELSE lastAppliedIndex[l] + 1
           y == IF newer THEN matchIndex[l][j] ELSE lastAppliedIndex[l]
<1>1. /\ UNCHANGED <<logVars, applyVars, ticker, serviceVars, historyVars>>
      /\ Finish(l, j)
      /\ nextIndex' = [nextIndex EXCEPT ![l][j] = IF newer THEN @ ELSE lastAppliedIndex[l] + 1]
      /\ matchIndex' = [matchIndex EXCEPT ![l][j] = IF newer THEN @ ELSE lastAppliedIndex[l]]
      /\ IF newer THEN StepDown(l, t) /\ persist(l) ELSE UNCHANGED <<electionVars, raftstate>>
      /\ call[l][j].st = "replied"
  BY DEF InstallSnapshotSenderReply
<1>2. j \in Server /\ j # l
  BY DEF Peers
<1>3. t \in Nat
  <2>1. SlotOK(l, j)
    BY <1>2 DEF ElectionInv, CallsOK
  <2>2. call[l][j] # Finished /\ \A q : call[l][j] # Spawned(q)
    BY <1>1 DEF Finished, Spawned
  <2>3. call[l][j].st \notin {"sent", "lost"}
    BY <1>1
  <2>4. QED
    BY <2>1, <2>2, <2>3, Zenon DEF SlotOK
<1> HIDE DEF t
<1>4. /\ nextIndex[l][j] \in Nat /\ nextIndex[l][j] <= LastLogIndex(l) + 1
      /\ matchIndex[l][j] \in Int /\ matchIndex[l][j] <= LastLogIndex(l)
      /\ LastLogIndex(l) \in Int /\ lastAppliedIndex[l] <= LastLogIndex(l)
      /\ lastAppliedIndex[l] \in Int
  BY LeaderFacts
<1>5. x \in Int /\ y \in Int /\ x <= LastLogIndex(l) + 1 /\ y <= LastLogIndex(l)
  BY <1>4
<1>6. /\ nextIndex' = [nextIndex EXCEPT ![l][j] = x]
      /\ matchIndex' = [matchIndex EXCEPT ![l][j] = y]
  BY <1>1, <1>2 DEF ServiceInv, IndexOK
<1>7. CASE newer
  <2>1. \E u \in Nat : u > currentTerm[l] /\ StepDown(l, u) /\ persist(l)
    BY <1>1, <1>3, <1>7
  <2> HIDE DEF x, y
  <2>2. QED
    BY <1>1, <1>5, <1>6, <2>1, ReplyLasts
<1>8. CASE ~ newer
  <2>1. UNCHANGED <<electionVars, raftstate>> /\ ticker'[l] = ticker[l]
    BY <1>1, <1>8
  <2>2. \A N \in lastAppliedIndex[l] + 1 .. LastLogIndex(l) : ~ (N <= y)
    BY <1>4, <1>8
  <2> HIDE DEF x, y
  <2>3. QED
    BY <1>1, <1>5, <1>6, <2>1, <2>2, ReplyLasts
<1>9. QED
  BY <1>7, <1>8

\* startElection enters a term of which there is no entry.
LEMMA StartElectionLasts ==
    ASSUME NEW l \in Server, NEW G \in Seq(Entry), ReignWith(l, G), KeptWith(l, G),
           ElectionInv, ServiceInv, ServiceInv', Quiet(l)', startElection(l)
    PROVE  KeptWith(l, G)'
<1>1. /\ UNCHANGED <<logVars, applyVars, leaderVars, serviceVars, chosen>>
      /\ persist(l)
      /\ currentTerm' = [currentTerm EXCEPT ![l] = @ + 1]
      /\ leaderId' = [leaderId EXCEPT ![l] = Nil]
      /\ call' = [call EXCEPT ![l] =
                    [j \in Server |-> IF j = l THEN Finished ELSE Spawned("RequestVote")]]
  BY DEF startElection
<1>2. currentTerm \in [Server -> Nat] /\ DOMAIN leaderId = Server /\ DOMAIN call = Server
      /\ Nil # l
  BY ServerAssumption DEF ElectionInv, ElectionTypeOK
<1>3. currentTerm[l] \in Nat /\ currentTerm'[l] \in Nat /\ currentTerm'[l] > currentTerm[l]
      /\ leaderId'[l] # l
  BY <1>1, <1>2
<1>4. FreshAt(l, G)'
  BY <1>3, LeaderFacts, FreshRaised
<1>5. ASSUME NEW j \in Peers(l) PROVE MatchAt(l, j, G)' /\ CallAt(l, j, G)'
  <2>1. call'[l][j] = Spawned("RequestVote")
    BY <1>1, <1>2 DEF Peers
  <2>2. CallAt(l, j, G)'
    BY <2>1, NothingSent DEF Rpc
  <2>3. QED
    BY <1>3, <2>2 DEF MatchAt
<1>6. QED
  BY <1>1, <1>4, <1>5, LeaderFacts, LeaderStep DEF applyVars, leaderVars, serviceVars

\* startElection ends: what the new leader guesses of its peers is about entries
\* of older terms.
LEMMA ElectionEndLasts ==
    ASSUME NEW l \in Server, NEW G \in Seq(Entry), ReignWith(l, G), KeptWith(l, G),
           ElectionInv, ServiceInv, ServiceInv', Quiet(l)', startElectionEnd(l)
    PROVE  KeptWith(l, G)'
<1>1. /\ UNCHANGED <<currentTerm, logVars, applyVars, raftstate, call, serviceVars, chosen>>
      /\ AllFinished(l) /\ Campaigning(l)
      /\ ticker' = [ticker EXCEPT ![l] = Idle]
      /\ nextIndex'[l] \in {NextIndexes(l), nextIndex[l]}
      /\ matchIndex'[l] \in {MatchIndexes(l), matchIndex[l]}
  BY DEF startElectionEnd, ServiceInv, IndexOK
<1>2. ticker'[l] = Idle /\ ticker[l] # Idle /\ leaderId[l] # l
  <2>1. ticker'[l] = Idle
    BY <1>1 DEF ElectionInv, ElectionTypeOK
  <2>2. QED
    BY <1>1, <2>1 DEF ElectionInv, Leads, Campaigning, Idle
<1>3. FreshAt(l, G)'
  BY <1>1, <1>2, LeaderFacts, FreshKept
<1>4. \A n \in 1 .. Len(G) : G[n].Term < currentTerm[l]
  BY <1>2, LeaderFacts DEF FreshAt
<1>5. ASSUME NEW j \in Peers(l) PROVE MatchAt(l, j, G)' /\ CallAt(l, j, G)'
  <2>1. CallAt(l, j, G)'
    BY <1>1, NothingSent DEF AllFinished
  <2>2. /\ LastLogIndex(l)' = LastLogIndex(l) /\ lastAppliedIndex' = lastAppliedIndex
        /\ currentTerm' = currentTerm
    BY <1>1 DEF LastLogIndex, logVars
  <2>3. ASSUME NEW N \in lastAppliedIndex[l] + 1 .. LastLogIndex(l)
        PROVE  G[N + 1].Term # currentTerm[l]
    <3>1. N + 1 \in 1 .. Len(G)
      BY LeaderFacts
    <3>2. G[N + 1].Term < currentTerm[l] /\ G[N + 1].Term \in Nat /\ currentTerm[l] \in Nat
      BY <1>4, <3>1, HistoryTerm DEF ElectionInv, ElectionTypeOK
    <3>3. QED
      BY <3>2
  <2>4. MatchAt(l, j, G)'
    BY <2>2, <2>3 DEF MatchAt
  <2>5. QED
    BY <2>1, <2>4
<1>6. ASSUME NEW j \in Peers(l)
      PROVE  nextIndex'[l][j] <= LastLogIndex(l) + 1 /\ matchIndex'[l][j] <= LastLogIndex(l)
  <2>1. /\ nextIndex[l][j] <= LastLogIndex(l) + 1 /\ matchIndex[l][j] <= LastLogIndex(l)
        /\ LastLogIndex(l) \in Int
    BY LeaderFacts
  <2>2. NextIndexes(l)[j] = LastLogIndex(l) + 1 /\ MatchIndexes(l)[j] = LastLogIndex(l)
    BY DEF NextIndexes, MatchIndexes, Peers
  <2>3. QED
    BY <1>1, <2>1, <2>2
<1>7. QED
  BY <1>1, <1>3, <1>5, <1>6, LeaderFacts, LeaderStep DEF applyVars, serviceVars

\* sendAERpcs starts its goroutines.
LEMMA SendLasts ==
    ASSUME NEW l \in Server, NEW G \in Seq(Entry), ReignWith(l, G), KeptWith(l, G),
           ElectionInv, ServiceInv, ServiceInv', Quiet(l)', sendAERpcs(l)
    PROVE  KeptWith(l, G)'
<1>1. /\ UNCHANGED <<electionVars, logVars, applyVars, leaderVars, raftstate, serviceVars,
                     historyVars>>
      /\ leaderId[l] = l
      /\ call' = [call EXCEPT ![l] =
                  [j \in Server |->
                     IF j = l THEN Finished
                     ELSE IF IsSendSnapshot(l, j) THEN Spawned("InstallSnapshot")
                     ELSE Spawned("AppendEntries")]]
  BY DEF sendAERpcs
<1>2. FreshAt(l, G)'
  BY <1>1, LeaderFacts, FreshKept DEF electionVars
<1>3. ASSUME NEW j \in Peers(l) PROVE MatchAt(l, j, G)' /\ CallAt(l, j, G)'
  <2>1. call'[l][j] = Spawned("InstallSnapshot") \/ call'[l][j] = Spawned("AppendEntries")
    BY <1>1 DEF Peers, ElectionInv, ElectionTypeOK
  <2>2. CallAt(l, j, G)'
    BY <2>1, NothingSent DEF Rpc
  <2>3. MatchAt(l, j, G)'
    BY <1>1, LeaderFacts, OtherFollower DEF electionVars, leaderVars
  <2>4. QED
    BY <2>2, <2>3
<1>4. QED
  BY <1>1, <1>2, <1>3, LeaderFacts, LeaderStep
     DEF applyVars, leaderVars, serviceVars, historyVars

\* What findMaxN returns is the old commitIndex or a newer index that it counted a
\* majority for.
LEMMA CountedMajority ==
    ASSUME ServiceInv, NEW i \in Server, findMaxN(i) # commitIndex[i]
    PROVE  /\ findMaxN(i) > commitIndex[i]
           /\ findMaxN(i) \in lastAppliedIndex[i] + 1 .. LastLogIndex(i)
           /\ Replicated(i, findMaxN(i))
<1>1. Committable(i) # {}
  BY DEF findMaxN
<1>2. LastLogIndex(i) \in Int /\ lastAppliedIndex[i] \in Int
  BY Numbers
<1>3. Committable(i) \in SUBSET Int /\ \A m \in Committable(i) : m <= LastLogIndex(i)
  BY <1>2 DEF Committable
<1>4. \E n \in Committable(i) : \A m \in Committable(i) : m <= n
  BY <1>1, <1>2, <1>3, GreatestInt
<1>5. findMaxN(i) \in Committable(i)
  BY <1>1, <1>4 DEF findMaxN
<1>6. QED
  BY <1>5 DEF Committable

\* The peers that findMaxN counts for N have N on their disks.
LEMMA CountedDisks ==
    ASSUME NEW l \in Server, NEW G \in Seq(Entry), ReignWith(l, G), KeptWith(l, G),
           ElectionInv, ServiceInv, ticker[l] # Idle, NEW N \in Nat,
           N \in lastAppliedIndex[l] + 1 .. LastLogIndex(l), Replicated(l, N)
    PROVE  Majority({j \in Server : DiskLast(j) >= N})
<1> DEFINE Q == {l} \cup {j \in Peers(l) : matchIndex[l][j] >= N
                                            /\ EntryAt(l, N).Term = currentTerm[l]}
<1>1. Majority(Q) /\ Q \in SUBSET Server
  BY DEF Replicated, Peers
<1>2. /\ LastLogIndex(l) \in Int /\ lastAppliedIndex[l] \in Int
      /\ N > lastAppliedIndex[l] /\ N <= LastLogIndex(l) /\ N + 1 \in 1 .. Len(G)
  BY LeaderFacts
<1>3. DiskLast(l) = LastLogIndex(l)
  BY DEF ReignWith, LeaderAt, DiskLast, LastLogIndex
<1>4. EntryAt(l, N) = G[N + 1]
  BY <1>2, CommittedEntry DEF ReignWith, ServiceInv
<1>5. ASSUME NEW j \in Peers(l), matchIndex[l][j] >= N, EntryAt(l, N).Term = currentTerm[l]
      PROVE  DiskLast(j) >= N
  <2>1. G[N + 1].Term = currentTerm[l] /\ G[N + 1].Term \in Nat
    BY <1>2, <1>4, <1>5, HistoryTerm
  <2>2. leaderId[l] = l
    <3>1. G[N + 1].Term < currentTerm[l] => FALSE
      BY <2>1
    <3>2. QED
      BY <1>2, <3>1 DEF KeptWith, FreshAt
  <2>3. N <= matchIndex[l][j]
    BY <1>5, LeaderFacts
  <2>4. N <= DiskLast(j)
    BY <2>1, <2>2, <2>3 DEF KeptWith, MatchAt
  <2>5. DiskLast(j) \in Int
    BY Numbers DEF Peers
  <2>6. QED
    BY <2>4, <2>5
<1>6. Q \subseteq {j \in Server : DiskLast(j) >= N}
  <2>1. DiskLast(l) >= N
    BY <1>2, <1>3
  <2>2. QED
    BY <1>1, <1>5, <2>1
<1> HIDE DEF Q
<1>7. QED
  BY <1>1, <1>6, MajorityGrows

\* sendAERpcs ends: what the leader commits is on the disks of a majority.
LEMMA SendEndLasts ==
    ASSUME NEW l \in Server, NEW G \in Seq(Entry), ReignWith(l, G), KeptWith(l, G),
           ElectionInv, ServiceInv, ServiceInv', Quiet(l)', sendAERpcsEnd(l)
    PROVE  KeptWith(l, G)'
<1>1. /\ UNCHANGED <<electionVars, logVars, leaderVars, raftstate, call, serviceVars>>
      /\ AllFinished(l)
      /\ ticker[l].kind = "append"
      /\ ticker' = [ticker EXCEPT ![l] = Idle]
      /\ commitIndex' = [commitIndex EXCEPT ![l] =
                           IF Majority(ticker[l].yes) THEN findMaxN(l) ELSE @]
      /\ chosen' = ChosenBy(l, commitIndex'[l])
  BY DEF sendAERpcsEnd
<1>2. ticker'[l] = Idle /\ ticker[l] # Idle
  BY <1>1 DEF ElectionInv, ElectionTypeOK, Idle
<1>3. /\ commitIndex'[l] \in Int /\ commitIndex'[l] <= LastLogIndex(l)
      /\ \A p \in Server \ {l} : commitIndex'[p] = commitIndex[p]
  BY RoundEnds DEF NatOrNone
<1>4. \/ commitIndex'[l] = commitIndex[l]
      \/ /\ commitIndex'[l] > commitIndex[l]
         /\ commitIndex'[l] \in lastAppliedIndex[l] + 1 .. LastLogIndex(l)
         /\ Replicated(l, commitIndex'[l])
  <2>1. commitIndex'[l] = commitIndex[l] \/ commitIndex'[l] = findMaxN(l)
    BY <1>1 DEF ServiceInv, IndexOK
  <2>2. QED
    BY <2>1, CountedMajority
<1>5. /\ \A p \in Server : DiskLast(p)' = DiskLast(p) /\ LastLogIndex(p)' = LastLogIndex(p)
      /\ lastAppliedIndex' = lastAppliedIndex /\ lastAppliedTerm' = lastAppliedTerm
      /\ raftstate' = raftstate /\ snapReq' = snapReq
  BY <1>1 DEF DiskLast, LastLogIndex, logVars, serviceVars
<1>6. commitIndex[l] \in Int /\ commitIndex[l] <= commitIndex'[l]
  BY <1>3, <1>4, Numbers
<1>7. ASSUME NEW p \in Server PROVE TermsAt(p, G)' /\ EndsAt(l, p)'
  <2>1. TermsAt(p, G) /\ EndsAt(l, p)
    BY DEF KeptWith
  <2>2. commitIndex'[p] <= LastLogIndex(p)
    BY <1>3, <2>1 DEF EndsAt
  <2>3. QED
    BY <1>5, <2>1, <2>2 DEF TermsAt, EndsAt
<1>8. FreshAt(l, G)'
  BY <1>1, <1>2, LeaderFacts, FreshKept DEF electionVars
<1>9. LeaderEnds(l)'
  <2>1. LeaderEnds(l)
    BY DEF KeptWith
  <2>2. lastAppliedIndex[l] <= commitIndex'[l]
    BY <1>3, <1>6, <2>1, Numbers DEF LeaderEnds
  <2>3. ASSUME NEW r \in snapReq[l] PROVE r.index <= commitIndex'[l]
    <3>1. r.index \in Int
      BY DEF ServiceInv, DeliveryOK
    <3>2. QED
      BY <1>3, <1>6, <2>1, <3>1 DEF LeaderEnds
  <2>4. nextIndex' = nextIndex /\ matchIndex' = matchIndex
    BY <1>1 DEF leaderVars
  <2>5. QED
    BY <1>5, <2>1, <2>2, <2>3, <2>4 DEF LeaderEnds
<1>10. ASSUME NEW j \in Peers(l) PROVE MatchAt(l, j, G)' /\ CallAt(l, j, G)'
  <2>1. CallAt(l, j, G)'
    BY <1>1, NothingSent DEF AllFinished
  <2>2. MatchAt(l, j, G)'
    BY <1>1, LeaderFacts, OtherFollower DEF electionVars, leaderVars
  <2>3. QED
    BY <2>1, <2>2
<1>11. ASSUME NEW k \in 1 .. Len(chosen') PROVE Majority({j \in Server : DiskLast(j) >= k})
  <2>1. PICK c \in Nat : c = Len(chosen)
    BY LeaderFacts
  <2>2. CASE k <= c
    BY <2>1, <2>2 DEF KeptWith, ChosenDurable
  <2>3. CASE k > c
    <3>1. Len(chosen') = IF commitIndex'[l] > c THEN commitIndex'[l] ELSE c
      <4>1. PICK n \in Int : n = commitIndex'[l]
        BY <1>3
      <4>2. (IF n > c THEN n ELSE c) \in Nat
        OBVIOUS
      <4>3. Len(ChosenBy(l, n)) = IF n > c THEN n ELSE c
        BY <2>1, <4>2 DEF ChosenBy
      <4>4. QED
        BY <1>1, <4>1, <4>3
    <3>2. k \in Nat /\ commitIndex'[l] > c /\ k <= commitIndex'[l]
      BY <1>3, <2>3, <3>1
    <3>3. commitIndex[l] <= c
      BY <2>1 DEF ReignWith, ServedAt
    <3>4. PICK N \in Nat : N = commitIndex'[l]
      BY <1>3, <3>2
    <3>5. N \in lastAppliedIndex[l] + 1 .. LastLogIndex(l) /\ Replicated(l, N)
      BY <1>4, <1>6, <3>2, <3>3, <3>4
    <3>6. Majority({j \in Server : DiskLast(j) >= N})
      BY <1>2, <3>5, CountedDisks
    <3>7. ASSUME NEW j \in Server, DiskLast(j) >= N PROVE DiskLast(j) >= k
      BY <3>2, <3>4, <3>7, Numbers
    <3>8. {j \in Server : DiskLast(j) >= N} \subseteq {j \in Server : DiskLast(j) >= k}
      BY <3>7
    <3>9. QED
      BY <3>6, <3>8, MajorityGrows
  <2>4. QED
    BY <2>1, <2>2, <2>3
<1>12. ChosenDurable'
  BY <1>5, <1>11 DEF ChosenDurable, Majority
<1>13. QED
  BY <1>7, <1>8, <1>9, <1>10, <1>12 DEF KeptWith

-----------------------------------------------------------------------------
(* The leader's log grows.                                                 *)

\* A new entry leaves the terms of the old ones as they are.
LEMMA TermAppended ==
    ASSUME NEW G \in Seq(Entry), NEW e \in Entry, NEW n \in Int, n >= -1, n < Len(G)
    PROVE  TermAt(n, Append(G, e)) = TermAt(n, G)
<1>1. CASE n = -1
  BY <1>1 DEF TermAt
<1>2. CASE n # -1
  <2>1. n + 1 \in 1 .. Len(G)
    BY <1>2
  <2>2. Append(G, e)[n + 1] = G[n + 1]
    BY <2>1
  <2>3. QED
    BY <1>2, <2>2 DEF TermAt
<1>3. QED
  BY <1>1, <1>2

\* Where a peer's log and its disk begin.
LEMMA CutsInside ==
    ASSUME NEW l \in Server, NEW G \in Seq(Entry), ReignWith(l, G), ServiceInv, NEW i \in Server
    PROVE  /\ lastAppliedIndex[i] < Len(G)
           /\ raftstate[i].lastAppliedIndex < Len(G)
<1>1. /\ lastAppliedIndex[i] + 1 + Len(Log[i]) <= Len(G)
      /\ raftstate[i].lastAppliedIndex + 1 + Len(raftstate[i].Log) <= Len(G)
  BY DEF ReignWith, LogSlices, Slice
<1>2. /\ Len(Log[i]) \in Nat /\ lastAppliedIndex[i] \in Int
      /\ Len(raftstate[i].Log) \in Nat /\ raftstate[i].lastAppliedIndex \in Int
  BY Numbers
<1>3. Len(G) \in Nat
  OBVIOUS
<1>4. QED
  BY <1>1, <1>2, <1>3

\* Start: an entry of the leader's term, of which no peer has told anything yet.
LEMMA StartLasts ==
    ASSUME NEW l \in Server, NEW G \in Seq(Entry), ReignWith(l, G), KeptWith(l, G),
           ElectionInv, ServiceInv, ServiceInv', Quiet(l)',
           NEW c, Start(l, c), NEW e \in Entry, e.Term = currentTerm[l]
    PROVE  KeptWith(l, Append(G, e))'
<1>1. /\ UNCHANGED <<electionVars, lastAppliedIndex, lastAppliedTerm, applyVars, leaderVars,
                     ticker, call, serviceVars, historyVars>>
      /\ persist(l) /\ leaderId[l] = l /\ Unlocked(l)
      /\ Log' = [Log EXCEPT ![l] = Append(@, [Term |-> currentTerm[l], Command |-> c])]
  BY DEF Start
<1>2. PICK H : H = Append(G, e)
  OBVIOUS
<1>3. \A n \in Int : n >= -1 /\ n < Len(G) => TermAt(n, H) = TermAt(n, G)
  BY <1>2, TermAppended
<1>4. /\ chosen \in Seq(Command) /\ FreshAt(l, G)
      /\ LastLogIndex(l) \in Int /\ LastLogIndex(l) + 1 = Len(G)
      /\ lastAppliedIndex[l] \in Int /\ lastAppliedIndex[l] >= -1
  BY LeaderFacts
<1>5. LastLogIndex(l)' = LastLogIndex(l) + 1
  <2>1. Log'[l] = Append(Log[l], [Term |-> currentTerm[l], Command |-> c]) /\ Log[l] \in Seq(Entry)
    BY <1>1 DEF ServiceInv, LogOK
  <2>2. Len(Log'[l]) = Len(Log[l]) + 1
    BY <2>1
  <2>3. QED
    BY <1>1, <2>2, Numbers DEF LastLogIndex
<1>6. DiskLast(l)' = LastLogIndex(l) + 1
  BY <1>1, <1>5, PersistEnds
<1>7. \A p \in Server \ {l} : /\ raftstate'[p] = raftstate[p] /\ Log'[p] = Log[p]
                              /\ DiskLast(p)' = DiskLast(p)
                              /\ LastLogIndex(p)' = LastLogIndex(p)
  BY <1>1, PersistEnds DEF DiskLast, LastLogIndex, ServiceInv, LogOK
<1>8. ASSUME NEW p \in Server PROVE TermsAt(p, H)'
  <2>1. TermsAt(p, G)
    BY DEF KeptWith
  <2>2. /\ lastAppliedIndex[p] \in Int /\ lastAppliedIndex[p] >= -1
        /\ lastAppliedIndex[p] < Len(G)
        /\ raftstate[p].lastAppliedIndex \in Int /\ raftstate[p].lastAppliedIndex >= -1
        /\ raftstate[p].lastAppliedIndex < Len(G)
    BY Numbers, CutsInside
  <2>3. /\ TermAt(lastAppliedIndex[p], H) = TermAt(lastAppliedIndex[p], G)
        /\ TermAt(raftstate[p].lastAppliedIndex, H) = TermAt(raftstate[p].lastAppliedIndex, G)
    BY <1>3, <2>2
  <2>4. CASE p = l
    BY <1>1, <2>1, <2>3, <2>4, PersistEnds DEF TermsAt
  <2>5. CASE p # l
    BY <1>1, <1>7, <2>1, <2>3, <2>5 DEF TermsAt
  <2>6. QED
    BY <2>4, <2>5
<1>9. ASSUME NEW p \in Server PROVE EndsAt(l, p)'
  <2>1. EndsAt(l, p) /\ commitIndex[p] \in Int
    BY Numbers DEF KeptWith
  <2>2. commitIndex' = commitIndex /\ snapReq' = snapReq /\ lastAppliedIndex' = lastAppliedIndex
    BY <1>1 DEF applyVars, serviceVars
  <2>3. CASE p = l
    <3>1. commitIndex[l] <= LastLogIndex(l) + 1
      BY <1>4, <2>1, <2>3 DEF EndsAt
    <3>2. ASSUME NEW r \in snapReq[l] PROVE r.index <= LastLogIndex(l) + 1
      <4>1. r.index \in Int
        BY DEF ServiceInv, DeliveryOK
      <4>2. QED
        BY <1>4, <2>1, <2>3, <4>1 DEF EndsAt
    <3>3. QED
      BY <1>4, <1>5, <1>6, <2>2, <2>3, <3>1, <3>2 DEF EndsAt
  <2>4. CASE p # l
    BY <1>7, <2>1, <2>2, <2>4 DEF EndsAt
  <2>5. QED
    BY <2>3, <2>4
<1>10. FreshAt(l, H)'
  <2>1. ASSUME NEW n \in 1 .. Len(H) PROVE H[n].Term <= currentTerm[l]
    <3>1. CASE n \in 1 .. Len(G)
      BY <1>2, <1>4, <3>1 DEF FreshAt
    <3>2. CASE n \notin 1 .. Len(G)
      <4>1. H[n] = e
        BY <1>2, <3>2
      <4>2. QED
        BY <4>1 DEF ElectionInv, ElectionTypeOK
    <3>3. QED
      BY <3>1, <3>2
  <2>2. leaderId'[l] = l /\ currentTerm' = currentTerm
    BY <1>1 DEF electionVars
  <2>3. QED
    BY <2>1, <2>2 DEF FreshAt
<1>11. LeaderEnds(l)'
  <2>1. LeaderEnds(l)
    BY DEF KeptWith
  <2>2. ASSUME NEW j \in Peers(l)
        PROVE  nextIndex[l][j] <= LastLogIndex(l) + 1 + 1 /\ matchIndex[l][j] <= LastLogIndex(l) + 1
    BY LeaderFacts
  <2>3. QED
    BY <1>1, <1>5, <2>1, <2>2 DEF LeaderEnds, applyVars, leaderVars, serviceVars
<1>12. ASSUME NEW j \in Peers(l) PROVE MatchAt(l, j, H)' /\ CallAt(l, j, H)'
  <2>1. j \in Server /\ j # l
    BY DEF Peers
  <2>2. /\ nextIndex[l][j] \in Nat /\ nextIndex[l][j] <= LastLogIndex(l) + 1
        /\ matchIndex[l][j] \in Int /\ matchIndex[l][j] <= LastLogIndex(l)
        /\ MatchAt(l, j, G) /\ CallAt(l, j, G)
    BY LeaderFacts
  <2>3. /\ leaderId' = leaderId /\ currentTerm' = currentTerm /\ call' = call
        /\ nextIndex' = nextIndex /\ matchIndex' = matchIndex
        /\ lastAppliedIndex' = lastAppliedIndex
        /\ DiskLast(j)' = DiskLast(j) /\ LastLogIndex(j)' = LastLogIndex(j)
    BY <1>1, <1>7, <2>1 DEF electionVars, leaderVars
  <2>4. ASSUME NEW N \in lastAppliedIndex[l] + 1 .. LastLogIndex(l) + 1,
               N <= matchIndex[l][j], H[N + 1].Term = currentTerm[l]
        PROVE  N <= DiskLast(j)
    <3>1. N \in lastAppliedIndex[l] + 1 .. LastLogIndex(l) /\ N + 1 \in 1 .. Len(G)
      BY <1>4, <2>2, <2>4
    <3>2. H[N + 1] = G[N + 1]
      BY <1>2, <3>1
    <3>3. QED
      BY <1>1, <2>2, <2>4, <3>1, <3>2 DEF MatchAt
  <2>5. MatchAt(l, j, H)'
    BY <1>5, <2>3, <2>4 DEF MatchAt
  <2>6. ~ Waits(l, j, "InstallSnapshot")
    BY <1>1, <2>1 DEF Unlocked
  <2>7. ASSUME Waits(l, j, "AppendEntries") PROVE AppendAt(l, j, H)'
    <3>1. AppendAt(l, j, G)
      BY <2>2, <2>7 DEF CallAt
    <3>2. PICK m : m = call[l][j].args
      OBVIOUS
    <3>3. TermAt(m.PrevLogIndex, H) = TermAt(m.PrevLogIndex, G)
      <4>1. PICK n \in Int : n = nextIndex[l][j] - 1
        BY <2>2
      <4>2. n >= -1 /\ n < Len(G)
        BY <1>4, <2>2, <4>1
      <4>3. m.PrevLogIndex = n
        BY <3>1, <3>2, <4>1 DEF AppendAt
      <4>4. QED
        BY <1>3, <4>2, <4>3
    <3>4. RequestEnd(m) <= LastLogIndex(l) + 1
      <4>1. RequestEnd(m) \in Int
        BY <2>1, <2>7, <3>2, EndNumber
      <4>2. RequestEnd(m) <= LastLogIndex(l)
        BY <3>1, <3>2 DEF AppendAt
      <4>3. QED
        BY <1>4, <4>1, <4>2
    <3>5. QED
      BY <1>5, <2>3, <3>1, <3>2, <3>3, <3>4 DEF AppendAt
  <2>8. CallAt(l, j, H)'
    BY <2>3, <2>6, <2>7 DEF CallAt, Waits
  <2>9. QED
    BY <2>5, <2>8
<1>13. ChosenDurable'
  <2>1. ASSUME NEW p \in Server PROVE DiskLast(p) <= DiskLast(p)'
    <3>1. DiskLast(p) \in Int /\ LastLogIndex(p) \in Int /\ DiskLast(p) <= LastLogIndex(p)
      BY Numbers DEF KeptWith, EndsAt
    <3>2. QED
      BY <1>6, <1>7, <3>1
  <2>2. QED
    BY <1>1, <1>4, <2>1, DurableKept DEF KeptWith, historyVars
<1>14. KeptWith(l, H)'
  BY <1>8, <1>9, <1>10, <1>11, <1>12, <1>13 DEF KeptWith
<1>15. QED
  BY <1>2, <1>14

-----------------------------------------------------------------------------
(* The applier and doSnapshot.                                             *)

\* A step that at most asks for snapshots of what is committed.
LEMMA ServiceStep ==
    ASSUME NEW l \in Server, NEW G, KeptWith(l, G), ServiceInv,
           UNCHANGED <<electionVars, logVars, commitIndex, leaderVars, raftstate,
                       ticker, call, late, historyVars>>,
           \A p \in Server : \A r \in snapReq'[p] :
              r \in snapReq[p] \/ (r.index \in Int /\ r.index <= commitIndex[p])
    PROVE  KeptWith(l, G)'
<1>1. /\ \A p \in Server : DiskLast(p)' = DiskLast(p) /\ LastLogIndex(p)' = LastLogIndex(p)
      /\ lastAppliedIndex' = lastAppliedIndex /\ lastAppliedTerm' = lastAppliedTerm
      /\ leaderId' = leaderId /\ currentTerm' = currentTerm /\ chosen' = chosen
      /\ nextIndex' = nextIndex /\ matchIndex' = matchIndex /\ commitIndex' = commitIndex
      /\ raftstate' = raftstate /\ call' = call /\ ticker' = ticker /\ late' = late
  BY DEF DiskLast, LastLogIndex, logVars, electionVars, leaderVars, historyVars
<1>2. Quiet(l)'
  BY <1>1 DEF KeptWith, Quiet
<1>3. ASSUME NEW p \in Server PROVE TermsAt(p, G)' /\ EndsAt(l, p)'
  <2>1. TermsAt(p, G) /\ EndsAt(l, p)
    BY DEF KeptWith
  <2>2. ASSUME NEW r \in snapReq'[p] PROVE r.index <= LastLogIndex(p)
    <3>1. CASE r \in snapReq[p]
      BY <2>1, <3>1 DEF EndsAt
    <3>2. CASE r.index \in Int /\ r.index <= commitIndex[p]
      BY <2>1, <3>2, Numbers DEF EndsAt
    <3>3. QED
      BY <3>1, <3>2
  <2>3. QED
    BY <1>1, <2>1, <2>2 DEF TermsAt, EndsAt
<1>4. FreshAt(l, G)'
  BY <1>1 DEF KeptWith, FreshAt
<1>5. LeaderEnds(l)'
  BY <1>1 DEF KeptWith, LeaderEnds
<1>6. ASSUME NEW j \in Peers(l) PROVE MatchAt(l, j, G)' /\ CallAt(l, j, G)'
  <2>1. MatchAt(l, j, G) /\ CallAt(l, j, G) /\ j \in Server
    BY DEF KeptWith, Peers
  <2>2. MatchAt(l, j, G)'
    BY <1>1, <2>1 DEF MatchAt
  <2>3. CallAt(l, j, G)'
    BY <1>1, <2>1 DEF CallAt, Waits, AppendAt, InstallAt
  <2>4. QED
    BY <2>2, <2>3
<1>7. ChosenDurable'
  BY <1>1 DEF KeptWith, ChosenDurable, Majority
<1>8. QED
  BY <1>2, <1>3, <1>4, <1>5, <1>6, <1>7 DEF KeptWith

\* applyLogToRsm: the service asks for snapshots of what it was given.
LEMMA ApplyLasts ==
    ASSUME NEW l \in Server, NEW G, KeptWith(l, G), ServiceInv, NEW i \in Server,
           NEW index \in lastApplied[i] + 1 .. commitIndex[i], applyLogToRsm(i, index)
    PROVE  KeptWith(l, G)'
<1>1. /\ UNCHANGED <<electionVars, logVars, commitIndex, leaderVars, raftstate, ticker, call,
                     late, historyVars>>
      /\ snapReq' = [snapReq EXCEPT ![i] =
                     @ \cup {[index |-> k, value |-> EntryAt(i, k).Command] :
                                k \in {n \in Received(i, index) : SnapshotDue(n)}}]
  BY DEF applyLogToRsm
<1>2. index \in Int /\ index <= commitIndex[i] /\ next[i] \in Int /\ commitIndex[i] \in Int
      /\ lastApplied[i] \in Int
  BY Numbers DEF ServiceInv, DeliveryOK
<1>3. ASSUME NEW k \in Received(i, index) PROVE k \in Int /\ k <= commitIndex[i]
  BY <1>2, <1>3 DEF Received, Passed, Batch
<1>4. ASSUME NEW p \in Server, NEW r \in snapReq'[p], r \notin snapReq[p]
      PROVE  r.index \in Int /\ r.index <= commitIndex[p]
  <2>1. p = i /\ \E k \in Received(i, index) :
                    r = [index |-> k, value |-> EntryAt(i, k).Command]
    BY <1>1, <1>4 DEF ServiceInv, DeliveryOK
  <2>2. \E k \in Received(i, index) : r.index = k
    BY <2>1
  <2>3. QED
    BY <1>3, <2>1, <2>2
<1>5. QED
  BY <1>1, <1>4, ServiceStep

\* doSnapshot cuts the log and saves it: both end where the log did.
LEMMA SnapshotCuts ==
    ASSUME NEW l \in Server, NEW G \in Seq(Entry), ReignWith(l, G), KeptWith(l, G),
           ElectionInv, ServiceInv, NEW i \in Server, NEW r \in snapReq[i], doSnapshot(i, r),
           ~ (r.index < lastAppliedIndex[i])
    PROVE  /\ LastLogIndex(i)' = LastLogIndex(i) /\ DiskLast(i)' = LastLogIndex(i)
           /\ lastAppliedIndex'[i] = r.index /\ r.index >= lastAppliedIndex[i]
           /\ TermsAt(i, G)'
           /\ snapReq'[i] \subseteq snapReq[i]
           /\ \A p \in Server \ {i} : SamePeer(p)
<1>1. r.index \in Nat /\ DOMAIN snapReq = Server
  BY DEF ServiceInv, DeliveryOK
<1>2. /\ Log[i] \in Seq(Entry) /\ Len(Log[i]) \in Nat
      /\ lastAppliedIndex[i] \in Int /\ lastAppliedIndex[i] >= -1
      /\ LastLogIndex(i) = Len(Log[i]) + lastAppliedIndex[i]
  BY Numbers
<1>3. PICK cut \in Nat : cut = r.index - lastAppliedIndex[i]
  BY <1>1, <1>2
<1>4. /\ Log' = [Log EXCEPT ![i] = SubSeq(@, cut + 1, Len(@))]
      /\ lastAppliedIndex' = [lastAppliedIndex EXCEPT ![i] = r.index]
      /\ lastAppliedTerm' = [lastAppliedTerm EXCEPT ![i] =
                               IF cut = 0 THEN @ ELSE Log[i][cut].Term]
      /\ persist(i)
  BY <1>3 DEF doSnapshot, SaveStateAndSnapshot
<1>5. /\ snapReq' = [snapReq EXCEPT ![i] = @ \ {r}]
      /\ ~ doSnapshotPanics(i, r) /\ commitIndex' = commitIndex
  BY DEF doSnapshot
<1>6. cut <= Len(Log[i]) /\ lastAppliedIndex[i] + cut = r.index
  BY <1>1, <1>2, <1>3, <1>5 DEF doSnapshotPanics
<1>7. /\ Log'[i] = SubSeq(Log[i], cut + 1, Len(Log[i])) /\ lastAppliedIndex'[i] = r.index
      /\ lastAppliedTerm'[i] = IF cut = 0 THEN lastAppliedTerm[i] ELSE Log[i][cut].Term
      /\ \A p \in Server \ {i} : /\ Log'[p] = Log[p]
                                 /\ lastAppliedIndex'[p] = lastAppliedIndex[p]
                                 /\ lastAppliedTerm'[p] = lastAppliedTerm[p]
                                 /\ raftstate'[p] = raftstate[p]
                                 /\ snapReq'[p] = snapReq[p]
  BY <1>1, <1>4, <1>5, PersistEnds DEF ServiceInv, LogOK
<1>8. Slice(Log[i], lastAppliedIndex[i], G)
  BY DEF ReignWith, LogSlices
<1>9. Len(Log'[i]) = Len(Log[i]) - cut
  BY <1>2, <1>6, <1>7, <1>8, SliceTail
<1>10. LastLogIndex(i)' = LastLogIndex(i)
  BY <1>2, <1>3, <1>6, <1>7, <1>9 DEF LastLogIndex
<1>11. DiskLast(i)' = LastLogIndex(i)
  BY <1>4, <1>10, PersistEnds
<1>12. lastAppliedTerm'[i] = TermAt(r.index, G)
  <2>1. CASE cut = 0
    <3>1. r.index = lastAppliedIndex[i]
      BY <1>2, <1>6, <2>1
    <3>2. QED
      BY <1>7, <2>1, <3>1 DEF KeptWith, TermsAt
  <2>2. CASE cut # 0
    <3>1. cut \in 1 .. Len(Log[i]) /\ lastAppliedIndex[i] + 1 + cut = r.index + 1
      BY <1>1, <1>2, <1>6, <2>2
    <3>2. Log[i][cut] = G[lastAppliedIndex[i] + 1 + cut]
      BY <1>8, <3>1 DEF Slice
    <3>3. Log[i][cut] = G[r.index + 1]
      BY <3>1, <3>2
    <3>4. QED
      BY <1>1, <1>7, <2>2, <3>3 DEF TermAt
  <2>3. QED
    BY <2>1, <2>2
<1>13. TermsAt(i, G)'
  BY <1>4, <1>7, <1>12, PersistEnds DEF TermsAt
<1>14. snapReq'[i] \subseteq snapReq[i] /\ r.index >= lastAppliedIndex[i]
  BY <1>1, <1>2, <1>5
<1>15. QED
  BY <1>5, <1>7, <1>10, <1>11, <1>13, <1>14 DEF SamePeer

\* doSnapshot of any peer.
LEMMA SnapshotLasts ==
    ASSUME NEW l \in Server, NEW G \in Seq(Entry), ReignWith(l, G), KeptWith(l, G),
           ElectionInv, ServiceInv, ServiceInv', Quiet(l)',
           NEW i \in Server, NEW r \in snapReq[i], doSnapshot(i, r)
    PROVE  KeptWith(l, G)'
<1>1. UNCHANGED <<electionVars, commitIndex, leaderVars, ticker, call, late, historyVars>>
  BY DEF doSnapshot
<1>2. CASE r.index < lastAppliedIndex[i]
  <2>1. r.index - lastAppliedIndex[i] < 0
    <3>1. r.index \in Int /\ lastAppliedIndex[i] \in Int
      BY Numbers DEF ServiceInv, DeliveryOK
    <3>2. QED
      BY <1>2, <3>1
  <2>2. UNCHANGED <<logVars, raftstate>> /\ snapReq' = [snapReq EXCEPT ![i] = @ \ {r}]
    BY <2>1 DEF doSnapshot
  <2>3. \A p \in Server : \A x \in snapReq'[p] : x \in snapReq[p]
    BY <2>2 DEF ServiceInv, DeliveryOK
  <2>4. QED
    BY <1>1, <2>2, <2>3, ServiceStep
<1>3. CASE ~ (r.index < lastAppliedIndex[i])
  <2>1. /\ LastLogIndex(i)' = LastLogIndex(i) /\ DiskLast(i)' = LastLogIndex(i)
        /\ lastAppliedIndex'[i] = r.index /\ r.index >= lastAppliedIndex[i]
        /\ TermsAt(i, G)'
        /\ snapReq'[i] \subseteq snapReq[i]
        /\ \A p \in Server \ {i} : SamePeer(p)
    BY <1>3, SnapshotCuts
  <2>2. /\ LastLogIndex(i) \in Int /\ DiskLast(i) \in Int /\ lastAppliedIndex[i] \in Int
        /\ r.index \in Int
    <3>1. r.index \in Nat
      BY DEF ServiceInv, DeliveryOK
    <3>2. QED
      BY <3>1, Numbers
  <2>3. EndsAt(l, i)
    BY DEF KeptWith
  <2>4. DiskLast(i) <= DiskLast(i)'
    BY <2>1, <2>3 DEF EndsAt
  <2>5. EndsAt(l, i)'
    <3>1. /\ commitIndex'[i] <= LastLogIndex(i)'
          /\ \A x \in snapReq'[i] : x.index <= LastLogIndex(i)'
      BY <1>1, <2>1, <2>3 DEF EndsAt
    <3>2. DiskLast(i)' <= LastLogIndex(i)' /\ LastLogIndex(i)' <= DiskLast(i)'
      BY <2>1, <2>2
    <3>3. QED
      BY <3>1, <3>2 DEF EndsAt
  <2>6. CASE i # l
    <3>1. i \in Peers(l)
      BY <2>6 DEF Peers
    <3>2. CallAt(l, i, G) /\ call' = call /\ nextIndex' = nextIndex
      BY <1>1, <3>1 DEF KeptWith, leaderVars
    <3>3. SamePeer(l)
      BY <2>1, <2>6
    <3>4. LastLogIndex(l)' = LastLogIndex(l) /\ lastAppliedIndex'[l] = lastAppliedIndex[l]
      BY <3>3 DEF SamePeer, LastLogIndex
    <3>5. ASSUME Waits(l, i, "AppendEntries") PROVE AppendAt(l, i, G)'
      <4>1. AppendAt(l, i, G)
        BY <3>2, <3>5 DEF CallAt
      <4>2. PICK m : m = call[l][i].args
        OBVIOUS
      <4>3. RequestEnd(m) \in Int
        BY <3>5, <4>2, EndNumber
      <4>4. RequestEnd(m) <= DiskLast(i) => RequestEnd(m) <= DiskLast(i)'
        BY <2>1, <2>2, <2>4, <4>3
      <4>5. QED
        BY <2>1, <3>2, <3>4, <4>1, <4>2, <4>4 DEF AppendAt
    <3>6. Waits(l, i, "InstallSnapshot") => InstallAt(l, i, G)'
      BY <3>2, <3>4 DEF CallAt, InstallAt
    <3>7. CallAt(l, i, G)'
      BY <3>2, <3>5, <3>6 DEF CallAt, Waits
    <3>8. QED
      BY <1>1, <2>1, <2>4, <2>5, <3>1, <3>7, LeaderFacts, FollowerStep
         DEF electionVars, leaderVars, historyVars, Quiet
  <2>7. CASE i = l
    <3>1. LeaderEnds(l) /\ r.index <= commitIndex[l]
      BY <2>7 DEF KeptWith, LeaderEnds
    <3>2. \A p \in Server \ {l} : DiskLast(p)' = DiskLast(p) /\ LastLogIndex(p)' = LastLogIndex(p)
      BY <2>1, <2>7 DEF SamePeer, DiskLast, LastLogIndex
    <3>3. lastAppliedIndex[l] <= lastAppliedIndex'[l] /\ lastAppliedIndex'[l] \in Int
          /\ lastAppliedIndex[l] \in Int
      BY <2>1, <2>2, <2>7
    <3>4. ASSUME NEW p \in Server PROVE TermsAt(p, G)' /\ EndsAt(l, p)'
      <4>1. CASE p = l
        BY <2>1, <2>5, <2>7, <4>1
      <4>2. CASE p # l
        <5>1. TermsAt(p, G) /\ EndsAt(l, p) /\ SamePeer(p)
          BY <2>1, <2>7, <4>2 DEF KeptWith
        <5>2. LastLogIndex(p) <= lastAppliedIndex[l] => LastLogIndex(p) <= lastAppliedIndex'[l]
          BY <3>3, Numbers
        <5>3. EndsAt(l, p)'
          BY <3>2, <4>2, <5>1, <5>2 DEF EndsAt, SamePeer
        <5>4. TermsAt(p, G)'
          BY <5>1 DEF TermsAt, SamePeer
        <5>5. QED
          BY <5>3, <5>4
      <4>3. QED
        BY <4>1, <4>2
    <3>5. FreshAt(l, G)'
      BY <1>1, LeaderFacts, FreshKept DEF electionVars
    <3>6. LeaderEnds(l)'
      BY <1>1, <2>1, <2>7, <3>1 DEF LeaderEnds, leaderVars
    <3>7. ASSUME NEW j \in Peers(l) PROVE MatchAt(l, j, G)' /\ CallAt(l, j, G)'
      <4>1. MatchAt(l, j, G) /\ CallAt(l, j, G) /\ j \in Server /\ j # l
        BY DEF KeptWith, Peers
      <4>2. /\ leaderId' = leaderId /\ currentTerm' = currentTerm /\ call' = call
            /\ nextIndex' = nextIndex /\ matchIndex' = matchIndex
            /\ DiskLast(j)' = DiskLast(j) /\ LastLogIndex(j)' = LastLogIndex(j)
        BY <1>1, <3>2, <4>1 DEF electionVars, leaderVars
      <4>3. \A N \in lastAppliedIndex'[l] + 1 .. LastLogIndex(l)' :
               N \in lastAppliedIndex[l] + 1 .. LastLogIndex(l)
        BY <2>1, <2>2, <2>7, <3>3
      <4>4. MatchAt(l, j, G)'
        BY <4>1, <4>2, <4>3 DEF MatchAt
      <4>5. ~ Waits(l, j, "InstallSnapshot")
        BY <2>7, <4>1 DEF doSnapshot, Unlocked
      <4>6. ASSUME Waits(l, j, "AppendEntries") PROVE AppendAt(l, j, G)'
        <5>1. AppendAt(l, j, G)
          BY <4>1, <4>6 DEF CallAt
        <5>2. PICK m : m = call[l][j].args
          OBVIOUS
        <5>3. RequestEnd(m) \in Int
          BY <4>1, <4>6, <5>2, EndNumber
        <5>4. RequestEnd(m) <= lastAppliedIndex[l] => RequestEnd(m) <= lastAppliedIndex'[l]
          BY <3>3, <5>3
        <5>5. QED
          BY <2>1, <2>7, <4>2, <5>1, <5>2, <5>4 DEF AppendAt
      <4>7. CallAt(l, j, G)'
        BY <4>2, <4>5, <4>6 DEF CallAt, Waits
      <4>8. QED
        BY <4>4, <4>7
    <3>8. ChosenDurable'
      <4>1. \A p \in Server : DiskLast(p) <= DiskLast(p)'
        BY <2>4, <2>7, <3>2, Numbers
      <4>2. QED
        BY <1>1, <4>1, LeaderFacts, DurableKept DEF KeptWith, historyVars
    <3>9. QED
      BY <3>4, <3>5, <3>6, <3>7, <3>8 DEF KeptWith
  <2>8. QED
    BY <2>6, <2>7
<1>4. QED
  BY <1>2, <1>3

-----------------------------------------------------------------------------
(* Crash and restart.                                                      *)

\* Who restarts has the log of its disk, which is as long as the saved one or as
\* the one that it had.
LEMMA Restored ==
    ASSUME NEW l \in Server, NEW G, KeptWith(l, G), ElectionInv, ServiceInv, ServiceInv',
           NEW i \in Server, Restart(i)
    PROVE  /\ LastLogIndex(i)' = DiskLast(i)'
           /\ DiskLast(i)' = DiskLast(i) \/ DiskLast(i)' = LastLogIndex(i)
           /\ lastAppliedIndex'[i] = raftstate[i].lastAppliedIndex
              \/ lastAppliedIndex'[i] = lastAppliedIndex[i]
           /\ commitIndex'[i] = lastAppliedIndex'[i] /\ snapReq'[i] = {}
           /\ TermsAt(i, G)'
           /\ \A p \in Server \ {i} : SamePeer(p)
<1>1. LogOK /\ IndexOK /\ DeliveryOK /\ DOMAIN raftstate = Server
  BY DEF ServiceInv, ElectionInv, ElectionTypeOK
<1>2. PICK disk \in {raftstate[i]} \cup HalfSaved(i) :
        /\ Restore(i, disk)
        /\ raftstate' = [raftstate EXCEPT ![i] = disk]
        /\ commitIndex' = [commitIndex EXCEPT ![i] = disk.lastAppliedIndex]
        /\ snapReq' = [snapReq EXCEPT ![i] = {}]
  BY DEF Restart
<1>3. /\ Log'[i] = disk.Log /\ lastAppliedIndex'[i] = disk.lastAppliedIndex
      /\ lastAppliedTerm'[i] = disk.lastAppliedTerm
      /\ raftstate'[i] = disk /\ commitIndex'[i] = disk.lastAppliedIndex /\ snapReq'[i] = {}
      /\ \A p \in Server \ {i} : /\ Log'[p] = Log[p]
                                 /\ lastAppliedIndex'[p] = lastAppliedIndex[p]
                                 /\ lastAppliedTerm'[p] = lastAppliedTerm[p]
                                 /\ raftstate'[p] = raftstate[p]
                                 /\ commitIndex'[p] = commitIndex[p]
                                 /\ snapReq'[p] = snapReq[p]
  BY <1>1, <1>2 DEF LogOK, IndexOK, DeliveryOK, Restore
<1>4. TermsAt(i, G)
  BY DEF KeptWith
<1>5. CASE disk = raftstate[i]
  BY <1>3, <1>4, <1>5 DEF TermsAt, SamePeer, DiskLast, LastLogIndex
<1>6. CASE /\ disk.Log = Log[i]
           /\ disk.lastAppliedIndex = lastAppliedIndex[i]
           /\ disk.lastAppliedTerm = lastAppliedTerm[i]
  BY <1>3, <1>4, <1>6 DEF TermsAt, SamePeer, DiskLast, LastLogIndex
<1>7. QED
  BY <1>5, <1>6, DiskLog

\* A follower restarts: its disk has not shrunk.
LEMMA FollowerRestartLasts ==
    ASSUME NEW l \in Server, NEW G \in Seq(Entry), ReignWith(l, G), KeptWith(l, G),
           ElectionInv, ServiceInv, ServiceInv', Quiet(l)', NEW j \in Peers(l), Restart(j)
    PROVE  KeptWith(l, G)'
<1>1. j \in Server /\ j # l
  BY DEF Peers
<1>2. /\ LastLogIndex(j)' = DiskLast(j)'
      /\ DiskLast(j)' = DiskLast(j) \/ DiskLast(j)' = LastLogIndex(j)
      /\ commitIndex'[j] = lastAppliedIndex'[j] /\ snapReq'[j] = {}
      /\ TermsAt(j, G)'
      /\ \A p \in Server \ {j} : SamePeer(p)
  BY <1>1, Restored
<1>3. EndsAt(l, j) /\ LastLogIndex(j) \in Int /\ DiskLast(j) \in Int
  BY <1>1, Numbers DEF KeptWith
<1>4. DiskLast(j) <= DiskLast(j)' /\ DiskLast(j)' \in Int
  BY <1>2, <1>3 DEF EndsAt
<1>5. EndsAt(l, j)'
  <2>1. commitIndex'[j] <= LastLogIndex(j)'
    BY <1>1, <1>2, NumbersNext
  <2>2. DiskLast(j)' <= LastLogIndex(j)' /\ LastLogIndex(j)' <= DiskLast(j)'
    BY <1>2, <1>4
  <2>3. QED
    BY <1>2, <2>1, <2>2 DEF EndsAt
<1>6. PICK S : crash1(j, S)
  BY DEF Restart
<1>7. call' = [p \in Server |-> [q \in Server |->
                  IF p = j THEN Finished
                  ELSE IF q = j /\ call[p][q].st = "sent" THEN Lost(call[p][q].args)
                  ELSE call[p][q]]]
  BY <1>6 DEF crash1
<1>8. ASSUME NEW p \in Server, NEW q \in Server, p # l \/ q # j PROVE call'[p][q] = call[p][q]
  <2>1. CASE p = l
    BY <1>1, <1>7, <1>8, <2>1
  <2>2. CASE p # l
    <3>1. call[p][q] = Finished /\ call'[p][q] = Finished
      BY <2>2 DEF KeptWith, Quiet
    <3>2. QED
      BY <3>1
  <2>3. QED
    BY <2>1, <2>2
<1>9. \/ call'[l][j] = call[l][j] /\ call[l][j].st # "sent"
      \/ call[l][j].st = "sent" /\ call'[l][j] = Lost(call[l][j].args)
  BY <1>1, <1>7
<1>10. /\ currentTerm'[l] = currentTerm[l] /\ leaderId'[l] = leaderId[l]
       /\ ticker'[l] = ticker[l] /\ chosen' = chosen
       /\ nextIndex'[l] = nextIndex[l] /\ matchIndex'[l] = matchIndex[l]
  BY <1>1 DEF Restart, Restore, historyVars, ElectionInv, ElectionTypeOK, ServiceInv, IndexOK
<1>11. SamePeer(l)
  BY <1>1, <1>2
<1>12. LastLogIndex(l)' = LastLogIndex(l) /\ lastAppliedIndex'[l] = lastAppliedIndex[l]
  BY <1>11 DEF SamePeer, LastLogIndex
<1>13. CallAt(l, j, G)'
  <2>1. CallAt(l, j, G)
    BY DEF KeptWith
  <2>2. CASE call[l][j].st = "sent" /\ call'[l][j] = Lost(call[l][j].args)
    <3>1. call'[l][j].st = "lost" /\ call'[l][j].args = call[l][j].args
      BY <2>2 DEF Lost
    <3>2. \A rpc : Waits(l, j, rpc)' => Waits(l, j, rpc)
      BY <2>2, <3>1 DEF Waits
    <3>3. AppendAt(l, j, G) => AppendAt(l, j, G)'
      BY <1>10, <1>12, <3>1 DEF AppendAt
    <3>4. InstallAt(l, j, G) => InstallAt(l, j, G)'
      BY <1>12, <3>1 DEF InstallAt
    <3>5. QED
      BY <2>1, <3>2, <3>3, <3>4 DEF CallAt
  <2>3. CASE call'[l][j] = call[l][j] /\ call[l][j].st # "sent"
    <3>1. \A rpc : Waits(l, j, rpc)' => Waits(l, j, rpc)
      BY <2>3 DEF Waits
    <3>2. ASSUME Waits(l, j, "AppendEntries") PROVE AppendAt(l, j, G)'
      <4>1. AppendAt(l, j, G)
        BY <2>1, <3>2 DEF CallAt
      <4>2. PICK m : m = call[l][j].args
        OBVIOUS
      <4>3. RequestEnd(m) \in Int
        BY <1>1, <3>2, <4>2, EndNumber
      <4>4. RequestEnd(m) <= DiskLast(j) => RequestEnd(m) <= DiskLast(j)'
        BY <1>3, <1>4, <4>3
      <4>5. QED
        BY <1>10, <1>12, <2>3, <4>1, <4>2, <4>4 DEF AppendAt
    <3>3. InstallAt(l, j, G) => InstallAt(l, j, G)'
      BY <1>12, <2>3 DEF InstallAt
    <3>4. QED
      BY <2>1, <3>1, <3>2, <3>3 DEF CallAt
  <2>4. QED
    BY <1>9, <2>2, <2>3
<1>14. QED
  BY <1>2, <1>4, <1>5, <1>8, <1>10, <1>13, LeaderFacts, FollowerStep DEF Quiet

\* The leader restarts, as a follower with the whole history.
LEMMA LeaderRestartLasts ==
    ASSUME NEW l \in Server, NEW G \in Seq(Entry), ReignWith(l, G), KeptWith(l, G),
           ElectionInv, ElectionInv', ServiceInv, ServiceInv', Quiet(l)', Restart(l)
    PROVE  KeptWith(l, G)'
<1>1. /\ LastLogIndex(l)' = DiskLast(l)'
      /\ DiskLast(l)' = DiskLast(l) \/ DiskLast(l)' = LastLogIndex(l)
      /\ lastAppliedIndex'[l] = raftstate[l].lastAppliedIndex
         \/ lastAppliedIndex'[l] = lastAppliedIndex[l]
      /\ commitIndex'[l] = lastAppliedIndex'[l] /\ snapReq'[l] = {}
      /\ TermsAt(l, G)'
      /\ \A p \in Server \ {l} : SamePeer(p)
  BY Restored
<1>2. DiskLast(l) = LastLogIndex(l) /\ raftstate[l].lastAppliedIndex = lastAppliedIndex[l]
  BY DEF ReignWith, LeaderAt, DiskLast, LastLogIndex
<1>3. /\ LastLogIndex(l)' = LastLogIndex(l) /\ DiskLast(l)' = LastLogIndex(l)
      /\ lastAppliedIndex'[l] = lastAppliedIndex[l] /\ commitIndex'[l] = lastAppliedIndex[l]
      /\ LastLogIndex(l) \in Int /\ lastAppliedIndex[l] \in Int
      /\ lastAppliedIndex[l] <= LastLogIndex(l)
  BY <1>1, <1>2, LeaderFacts
<1>4. \A p \in Server \ {l} : DiskLast(p)' = DiskLast(p) /\ LastLogIndex(p)' = LastLogIndex(p)
  BY <1>1 DEF SamePeer, DiskLast, LastLogIndex
<1>5. /\ leaderId'[l] # l /\ ticker'[l] = Idle /\ chosen' = chosen
      /\ nextIndex'[l] = NextIndexes(l)' /\ matchIndex'[l] = MatchIndexes(l)'
  BY ServerAssumption DEF Restart, historyVars, ElectionInv, ElectionTypeOK, ServiceInv, IndexOK
<1>6. ASSUME NEW p \in Server PROVE TermsAt(p, G)' /\ EndsAt(l, p)'
  <2>1. CASE p = l
    BY <1>1, <1>3, <2>1 DEF EndsAt
  <2>2. CASE p # l
    <3>1. TermsAt(p, G) /\ EndsAt(l, p) /\ SamePeer(p)
      BY <1>1, <2>2 DEF KeptWith
    <3>2. EndsAt(l, p)'
      BY <1>3, <1>4, <2>2, <3>1 DEF EndsAt, SamePeer
    <3>3. TermsAt(p, G)'
      BY <3>1 DEF TermsAt, SamePeer
    <3>4. QED
      BY <3>2, <3>3
  <2>3. QED
    BY <2>1, <2>2
<1>7. FreshAt(l, G)'
  <2>1. currentTerm[l] \in Nat /\ currentTerm'[l] \in Nat
    BY DEF ElectionInv, ElectionTypeOK
  <2>2. currentTerm'[l] >= currentTerm[l]
    BY TermsStep DEF Next
  <2>3. ASSUME NEW n \in 1 .. Len(G) PROVE G[n].Term <= currentTerm'[l]
    <3>1. G[n].Term \in Nat /\ G[n].Term <= currentTerm[l]
      BY HistoryTerm DEF KeptWith, FreshAt
    <3>2. QED
      BY <2>1, <2>2, <3>1
  <2>4. QED
    BY <1>5, <2>3 DEF FreshAt
<1>8. LeaderEnds(l)'
  <2>1. ASSUME NEW j \in Peers(l)
        PROVE  nextIndex'[l][j] = LastLogIndex(l) + 1 /\ matchIndex'[l][j] = LastLogIndex(l)
    BY <1>3, <1>5 DEF NextIndexes, MatchIndexes, Peers
  <2>2. QED
    BY <1>1, <1>3, <2>1 DEF LeaderEnds
<1>9. ASSUME NEW j \in Peers(l) PROVE MatchAt(l, j, G)' /\ CallAt(l, j, G)'
  <2>1. MatchAt(l, j, G)'
    BY <1>5 DEF MatchAt
  <2>2. PICK S : crash1(l, S)
    BY DEF Restart
  <2>3. call'[l][j] = Finished
    BY <2>2 DEF crash1, Peers
  <2>4. QED
    BY <2>1, <2>3, NothingSent
<1>10. ChosenDurable'
  <2>1. \A p \in Server : DiskLast(p) <= DiskLast(p)'
    BY <1>2, <1>3, <1>4, Numbers
  <2>2. QED
    BY <1>5, <2>1, LeaderFacts, DurableKept DEF KeptWith
<1>11. QED
  BY <1>6, <1>7, <1>8, <1>9, <1>10 DEF KeptWith

-----------------------------------------------------------------------------
(* The handlers of the followers.                                          *)

\* A handler runs at a follower, which the leader waits for.
LEMMA Handled ==
    ASSUME NEW l \in Server, ElectionInv, Quiet(l), NEW m \in Requests,
           NEW reply, Answer(m, reply)
    PROVE  /\ m.to \in Peers(l) /\ m.to \in Server /\ m.to # l /\ m.from = l
           /\ call[l][m.to].st = "sent" /\ call[l][m.to].args = m
           /\ late' = {}
           /\ call'[l][m.to] = Replied(m, reply)
           /\ \A p, q \in Server : p # l \/ q # m.to => call'[p][q] = call[p][q]
<1>1. /\ m.from = l /\ m.to \in Peers(l) /\ m.to \in Server /\ m.to # l
      /\ call[l][m.to].st = "sent" /\ call[l][m.to].args = m
  BY RequestOfLeader
<1>2. late' = late /\ call' = [call EXCEPT ![l][m.to] = Replied(m, reply)]
  BY <1>1 DEF Answer, Quiet
<1>3. QED
  BY <1>1, <1>2 DEF Quiet, ElectionInv, ElectionTypeOK

\* A peer that saves its log as it is, or saves nothing.
LEMMA SavedAsItIs ==
    ASSUME NEW l \in Server, NEW G, KeptWith(l, G), ElectionInv, ServiceInv, NEW j \in Server,
           UNCHANGED <<logVars, commitIndex, snapReq>>, persist(j) \/ raftstate' = raftstate
    PROVE  /\ TermsAt(j, G)' /\ EndsAt(l, j)' /\ DiskLast(j) <= DiskLast(j)'
           /\ \A p \in Server \ {j} : SamePeer(p)
<1>1. TermsAt(j, G) /\ EndsAt(l, j) /\ DiskLast(j) \in Int /\ LastLogIndex(j) \in Int
  BY Numbers DEF KeptWith
<1>2. LastLogIndex(j)' = LastLogIndex(j)
  BY DEF LastLogIndex, logVars
<1>3. \A p \in Server \ {j} : SamePeer(p)
  BY PersistEnds DEF SamePeer, logVars
<1>4. CASE persist(j)
  <2>1. TermsAt(j, G)' /\ DiskLast(j)' = LastLogIndex(j)
    BY <1>1, <1>2, <1>4, PersistEnds DEF TermsAt, logVars
  <2>2. DiskLast(j) <= DiskLast(j)' /\ LastLogIndex(j) <= DiskLast(j)'
    BY <1>1, <2>1 DEF EndsAt
  <2>3. QED
    BY <1>1, <1>2, <1>3, <2>1, <2>2 DEF EndsAt
<1>5. CASE raftstate' = raftstate
  <2>1. DiskLast(j)' = DiskLast(j)
    BY <1>5 DEF DiskLast
  <2>2. QED
    BY <1>1, <1>2, <1>3, <1>5, <2>1 DEF TermsAt, EndsAt, logVars
<1>6. QED
  BY <1>4, <1>5

\* RequestVote leaves the log alone.
LEMMA VoteLasts ==
    ASSUME NEW l \in Server, NEW G \in Seq(Entry), ReignWith(l, G), KeptWith(l, G),
           ElectionInv, ServiceInv, ServiceInv', NEW m \in Requests, RequestVote(m)
    PROVE  KeptWith(l, G)'
<1>1. PICK reply : Answer(m, reply)
  BY DEF RequestVote
<1>2. PICK j \in Peers(l) :
         /\ j = m.to /\ j \in Server /\ j # l /\ late' = {}
         /\ call'[l][j] = Replied(m, reply)
         /\ \A p, q \in Server : p # l \/ q # j => call'[p][q] = call[p][q]
  BY <1>1, Handled DEF KeptWith
<1>3. /\ UNCHANGED <<logVars, commitIndex, snapReq, leaderVars, ticker, chosen>>
      /\ persist(j) \/ raftstate' = raftstate
      /\ currentTerm'[l] = currentTerm[l] /\ leaderId'[l] = leaderId[l]
      /\ m.rpc = "RequestVote"
  BY <1>2 DEF RequestVote, applyVars, serviceVars, ElectionInv, ElectionTypeOK
<1>4. /\ TermsAt(j, G)' /\ EndsAt(l, j)' /\ DiskLast(j) <= DiskLast(j)'
      /\ \A p \in Server \ {j} : SamePeer(p)
  BY <1>2, <1>3, SavedAsItIs
<1>5. call'[l][j].args.rpc = "RequestVote"
  BY <1>2, <1>3 DEF Replied
<1>6. CallAt(l, j, G)'
  BY <1>5, NothingSent
<1>7. nextIndex'[l] = nextIndex[l] /\ matchIndex'[l] = matchIndex[l] /\ ticker'[l] = ticker[l]
      /\ chosen' = chosen /\ chosen \in Seq(Command)
  BY <1>3, LeaderFacts DEF leaderVars
<1>8. QED
  BY <1>2, <1>3, <1>4, <1>6, <1>7, FollowerStep

\* The leader's entry before the request is the follower's, too: AppendEntries
\* never finds a conflict.
LEMMA NoConflict ==
    ASSUME NEW l \in Server, NEW G \in Seq(Entry), ReignWith(l, G), KeptWith(l, G), ServiceInv,
           NEW m, m.rpc = "AppendEntries", m.to \in Server, BodyOK(m),
           m.PrevLogTerm = TermAt(m.PrevLogIndex, G)
    PROVE  ~ Conflict(m)
<1>1. PICK j \in Server : j = m.to
  OBVIOUS
<1>2. PICK n \in NatOrNone : n = m.PrevLogIndex
  BY DEF BodyOK
<1>3. /\ lastAppliedIndex[j] \in Int /\ lastAppliedIndex[j] >= -1 /\ LastLogIndex(j) \in Int
  BY Numbers
<1>4. ASSUME PrevInRange(m) PROVE PrevMatches(m)
  <2>1. n \in lastAppliedIndex[j] .. LastLogIndex(j)
    BY <1>1, <1>2, <1>4 DEF PrevInRange
  <2>2. CASE n = lastAppliedIndex[j]
    BY <1>1, <1>2, <2>2 DEF PrevMatches, KeptWith, TermsAt
  <2>3. CASE n # lastAppliedIndex[j]
    <3>1. n \in Nat /\ n > lastAppliedIndex[j] /\ n <= LastLogIndex(j)
      BY <1>2, <1>3, <2>1, <2>3 DEF NatOrNone
    <3>2. EntryAt(j, n) = G[n + 1]
      BY <3>1, CommittedEntry DEF ReignWith, ServiceInv
    <3>3. TermAt(n, G) = G[n + 1].Term
      BY <3>1 DEF TermAt
    <3>4. QED
      BY <1>1, <1>2, <2>3, <3>2, <3>3 DEF PrevMatches
  <2>4. QED
    BY <2>2, <2>3
<1>5. QED
  BY <1>4 DEF Conflict

\* A request that succeeds leaves the follower's log as long as the request
\* reaches; one that does not leaves it alone.
LEMMA AppendedEnd ==
    ASSUME NEW G \in Seq(Entry), ServiceInv, NEW m, m.rpc = "AppendEntries",
           m.to \in Server, BodyOK(m), ~ Conflict(m), LogSlices(m.to, G),
           LastLogIndex(m.to) <= RequestEnd(m)
    PROVE  /\ Success(m) => Len(LogAfter(m)) + lastAppliedIndex[m.to] = RequestEnd(m)
           /\ ~ (Success(m) /\ m.Entries # <<>>) => LogAfter(m) = Log[m.to]
<1>1. PICK j \in Server : j = m.to
  OBVIOUS
<1>2. PICK n \in Int : n = m.PrevLogIndex
  BY DEF BodyOK, NatOrNone
<1>3. PICK s \in Seq(Entry) : s = m.Entries
  BY DEF BodyOK
<1>4. /\ Log[j] \in Seq(Entry) /\ Len(Log[j]) \in Nat /\ lastAppliedIndex[j] \in Int
      /\ LastLogIndex(j) = Len(Log[j]) + lastAppliedIndex[j]
  BY Numbers
<1>5. RequestEnd(m) = n + Len(s) /\ Len(s) \in Nat
  BY <1>2, <1>3 DEF RequestEnd
<1>6. ~ (Success(m) /\ m.Entries # <<>>) => LogAfter(m) = Log[j]
  BY <1>1 DEF LogAfter
<1>7. ASSUME Success(m) PROVE Len(LogAfter(m)) + lastAppliedIndex[j] = RequestEnd(m)
  <2>1. n >= lastAppliedIndex[j] /\ n <= LastLogIndex(j)
    BY <1>1, <1>2, <1>4, <1>7 DEF Success, PrevInRange
  <2>2. CASE s = <<>>
    <3>1. Len(s) = 0 /\ LogAfter(m) = Log[j]
      BY <1>3, <1>6, <2>2
    <3>2. LastLogIndex(j) <= n + Len(s)
      BY <1>1, <1>5
    <3>3. Len(Log[j]) + lastAppliedIndex[j] = n + Len(s)
      BY <1>2, <1>4, <2>1, <3>1, <3>2
    <3>4. QED
      BY <1>5, <3>1, <3>3
  <2>3. CASE s # <<>>
    <3>1. PICK k \in Nat : k = n - lastAppliedIndex[j]
      BY <1>2, <1>4, <2>1
    <3>2. k <= Len(Log[j])
      BY <1>2, <1>4, <2>1, <3>1
    <3>3. LogAfter(m) = SubSeq(Log[j], 1, k) \o s
      BY <1>1, <1>2, <1>3, <1>7, <2>3, <3>1 DEF LogAfter
    <3>4. Len(SubSeq(Log[j], 1, k)) = k /\ SubSeq(Log[j], 1, k) \in Seq(Entry)
      BY <1>1, <1>4, <3>2, SliceHead DEF LogSlices
    <3>5. Len(LogAfter(m)) = k + Len(s)
      BY <3>3, <3>4
    <3>6. k + Len(s) + lastAppliedIndex[j] = n + Len(s)
      BY <1>4, <1>5, <3>1
    <3>7. QED
      BY <1>5, <3>5, <3>6
  <2>4. QED
    BY <2>2, <2>3
<1>8. QED
  BY <1>1, <1>6, <1>7

\* AppendEntries: the log becomes as long as the request reaches, and is saved.
LEMMA AppendLasts ==
    ASSUME NEW l \in Server, NEW G \in Seq(Entry), ReignWith(l, G), KeptWith(l, G),
           ElectionInv, ServiceInv, ServiceInv', NEW m \in Requests, AppendEntries(m)
    PROVE  KeptWith(l, G)'
<1>1. PICK reply : Answer(m, reply) /\ reply = [Term |-> currentTerm[m.to], Success |-> Success(m)]
  BY DEF AppendEntries
<1>2. PICK j \in Peers(l) :
         /\ j = m.to /\ j \in Server /\ j # l /\ late' = {}
         /\ call[l][j].st = "sent" /\ call[l][j].args = m
         /\ call'[l][j] = Replied(m, reply)
         /\ \A p, q \in Server : p # l \/ q # j => call'[p][q] = call[p][q]
  BY <1>1, Handled DEF KeptWith
<1>3. /\ m.rpc = "AppendEntries"
      /\ FollowLeader(m)
      /\ Log' = [Log EXCEPT ![j] = LogAfter(m)]
      /\ commitIndex' = [commitIndex EXCEPT ![j] = CommitAfter(m)]
      /\ UNCHANGED <<lastAppliedIndex, lastAppliedTerm, leaderVars, ticker, serviceVars, historyVars>>
      /\ IF AppendSaves(m) THEN persist(j) ELSE UNCHANGED raftstate
  BY <1>2 DEF AppendEntries
<1>4. BodyOK(m)
  BY RequestBody DEF ServiceInv
<1>5. AppendAt(l, j, G) /\ Waits(l, j, "AppendEntries")
  BY <1>2, <1>3 DEF KeptWith, CallAt, Waits
<1>6. /\ m.PrevLogTerm = TermAt(m.PrevLogIndex, G) /\ m.PrevLogIndex = nextIndex[l][j] - 1
      /\ RequestEnd(m) <= LastLogIndex(l) /\ LastLogIndex(j) <= RequestEnd(m)
      /\ RequestEnd(m) \in Int
  BY <1>2, <1>5, EndNumber DEF AppendAt
<1>7. ~ Conflict(m)
  BY <1>2, <1>3, <1>4, <1>6, NoConflict
<1>8. /\ Success(m) => Len(LogAfter(m)) + lastAppliedIndex[j] = RequestEnd(m)
      /\ ~ (Success(m) /\ m.Entries # <<>>) => LogAfter(m) = Log[j]
  BY <1>2, <1>3, <1>4, <1>6, <1>7, AppendedEnd DEF ReignWith
<1>9. /\ Log'[j] = LogAfter(m) /\ commitIndex'[j] = CommitAfter(m)
      /\ \A p \in Server \ {j} : Log'[p] = Log[p] /\ commitIndex'[p] = commitIndex[p]
  BY <1>2, <1>3 DEF ServiceInv, LogOK, IndexOK
<1>10. /\ LastLogIndex(j)' = Len(LogAfter(m)) + lastAppliedIndex[j]
       /\ Success(m) => LastLogIndex(j)' = RequestEnd(m)
       /\ ~ (Success(m) /\ m.Entries # <<>>) => LastLogIndex(j)' = LastLogIndex(j)
  BY <1>3, <1>8, <1>9 DEF LastLogIndex
<1>11. /\ LastLogIndex(j) \in Int /\ LastLogIndex(j)' \in Int /\ DiskLast(j) \in Int
       /\ LastLogIndex(j) <= LastLogIndex(j)'
  BY <1>2, <1>6, <1>10, Numbers
<1>12. EndsAt(l, j) /\ TermsAt(j, G)
  BY <1>2 DEF KeptWith
<1>13. /\ \/ DiskLast(j)' = LastLogIndex(j)'
          \/ DiskLast(j)' = DiskLast(j) /\ LastLogIndex(j)' = LastLogIndex(j)
       /\ TermsAt(j, G)'
       /\ \A p \in Server \ {j} : raftstate'[p] = raftstate[p]
  <2>1. CASE AppendSaves(m)
    <3>1. persist(j)
      BY <1>3, <2>1
    <3>2. /\ raftstate'[j].lastAppliedIndex = lastAppliedIndex'[j]
          /\ raftstate'[j].lastAppliedTerm = lastAppliedTerm'[j]
          /\ DiskLast(j)' = LastLogIndex(j)'
          /\ \A p \in Server \ {j} : raftstate'[p] = raftstate[p]
      BY <1>2, <3>1, PersistEnds
    <3>3. lastAppliedIndex' = lastAppliedIndex /\ lastAppliedTerm' = lastAppliedTerm
      BY <1>3
    <3>4. TermsAt(j, G)'
      BY <1>12, <3>2, <3>3 DEF TermsAt
    <3>5. QED
      BY <3>2, <3>4, Zenon
  <2>2. CASE ~ AppendSaves(m)
    <3>1. raftstate' = raftstate /\ LastLogIndex(j)' = LastLogIndex(j)
      BY <1>3, <1>10, <2>2 DEF AppendSaves
    <3>2. QED
      BY <1>3, <1>12, <3>1 DEF TermsAt, DiskLast
  <2>3. QED
    BY <2>1, <2>2
<1>14. \A p \in Server \ {j} : SamePeer(p)
  BY <1>3, <1>9, <1>13 DEF SamePeer, serviceVars
<1>15. commitIndex'[j] <= LastLogIndex(j)'
  <2>1. PICK n \in Int : n = m.LeaderCommit
    BY <1>3, <1>4 DEF BodyOK, NatOrNone
  <2>2. CASE Success(m) /\ n > commitIndex[j]
    <3>1. commitIndex'[j] = Minimum(n, LastLogIndex(j)')
      BY <1>2, <1>9, <1>10, <2>1, <2>2 DEF CommitAfter
    <3>2. QED
      BY <1>11, <3>1 DEF Minimum
  <2>3. CASE ~ (Success(m) /\ n > commitIndex[j])
    <3>1. commitIndex'[j] = commitIndex[j] /\ commitIndex[j] \in Int
      BY <1>2, <1>9, <2>1, <2>3, Numbers DEF CommitAfter
    <3>2. QED
      BY <1>11, <1>12, <3>1 DEF EndsAt
  <2>4. QED
    BY <2>2, <2>3
<1>16. ASSUME NEW r \in snapReq[j] PROVE r.index <= LastLogIndex(j)'
  <2>1. r.index \in Int
    BY <1>2 DEF ServiceInv, DeliveryOK
  <2>2. QED
    BY <1>11, <1>12, <2>1 DEF EndsAt
<1>17. DiskLast(j) <= DiskLast(j)' /\ DiskLast(j)' <= LastLogIndex(j)'
  BY <1>11, <1>12, <1>13 DEF EndsAt
<1>18. LastLogIndex(j)' <= DiskLast(j)' \/ LastLogIndex(j)' <= lastAppliedIndex[l]
  BY <1>11, <1>12, <1>13 DEF EndsAt
<1>19. EndsAt(l, j)'
  BY <1>3, <1>15, <1>16, <1>17, <1>18 DEF EndsAt, serviceVars
<1>20. SamePeer(l)
  BY <1>2, <1>14
<1>21. LastLogIndex(l)' = LastLogIndex(l)
  BY <1>20 DEF SamePeer, LastLogIndex
<1>22. CallAt(l, j, G)'
  <2>1. call'[l][j].st = "replied" /\ call'[l][j].args = m /\ call'[l][j].reply.Success = Success(m)
    BY <1>1, <1>2 DEF Replied
  <2>2. Success(m) => RequestEnd(m) <= DiskLast(j)' \/ RequestEnd(m) <= lastAppliedIndex[l]
    BY <1>10, <1>18
  <2>3. nextIndex' = nextIndex /\ lastAppliedIndex' = lastAppliedIndex
    BY <1>3 DEF leaderVars
  <2>4. AppendAt(l, j, G)'
    BY <1>6, <1>21, <2>1, <2>2, <2>3 DEF AppendAt
  <2>5. QED
    BY <1>3, <2>1, <2>4 DEF CallAt, Waits
<1>23. /\ currentTerm'[l] = currentTerm[l] /\ leaderId'[l] = leaderId[l]
       /\ nextIndex'[l] = nextIndex[l] /\ matchIndex'[l] = matchIndex[l]
       /\ ticker'[l] = ticker[l] /\ chosen' = chosen /\ chosen \in Seq(Command)
  BY <1>2, <1>3, LeaderFacts
     DEF FollowLeader, electionVars, leaderVars, historyVars, ElectionInv, ElectionTypeOK
<1>24. QED
  BY <1>2, <1>13, <1>14, <1>17, <1>19, <1>22, <1>23, FollowerStep

\* InstallSnapshot: the log is cut where the leader's is, or replaced by a snapshot
\* that the leader has.
LEMMA InstallLasts ==
    ASSUME NEW l \in Server, NEW G \in Seq(Entry), ReignWith(l, G), KeptWith(l, G),
           ElectionInv, ServiceInv, ServiceInv', NEW m \in Requests, InstallSnapshot(m)
    PROVE  KeptWith(l, G)'
<1>1. PICK reply : Answer(m, reply)
  BY DEF InstallSnapshot
<1>2. PICK j \in Peers(l) :
         /\ j = m.to /\ j \in Server /\ j # l /\ late' = {}
         /\ call[l][j].st = "sent" /\ call[l][j].args = m
         /\ call'[l][j] = Replied(m, reply)
         /\ \A p, q \in Server : p # l \/ q # j => call'[p][q] = call[p][q]
  BY <1>1, Handled DEF KeptWith
<1>3. PICK b, t, due, half :
         /\ b = m.LastIncludedIndex /\ t = m.LastIncludedTerm
         /\ due = [index |-> m.LastIncludedIndex, value |-> m.Data]
         /\ half = [RaftState(j) EXCEPT !.currentTerm = m.Term, !.voteFor = m.from]
  OBVIOUS
<1>4. /\ m.rpc = "InstallSnapshot"
      /\ FollowLeader(m)
      /\ snapReq' = [snapReq EXCEPT ![j] = IF Admitted(m) THEN @ \cup {due} ELSE @]
      /\ raftstate' = [raftstate EXCEPT ![j] = IF FollowSaves(m) THEN half ELSE @]
      /\ UNCHANGED <<commitIndex, leaderVars, ticker, historyVars>>
  BY <1>2, <1>3 DEF InstallSnapshot
<1>5. /\ Log' = [Log EXCEPT ![j] =
                   IF Covers(m) THEN <<>>
                   ELSE IF Ahead(m) THEN SubSeq(@, b - lastAppliedIndex[j] + 1, Len(@))
                   ELSE @]
      /\ lastAppliedIndex' = [lastAppliedIndex EXCEPT ![j] =
                                IF Covers(m) \/ Ahead(m) THEN b ELSE @]
      /\ lastAppliedTerm' = [lastAppliedTerm EXCEPT ![j] =
                               IF Covers(m) \/ Ahead(m) THEN t ELSE @]
  BY <1>2, <1>3 DEF InstallSnapshot, InstallLog
<1>6. b \in Nat /\ due.index = b
  BY <1>3, <1>4, RequestBody DEF ServiceInv, BodyOK
<1>7. InstallAt(l, j, G)
  BY <1>2, <1>4 DEF KeptWith, CallAt, Waits
<1>8. b <= lastAppliedIndex[l] /\ t = TermAt(b, G)
  BY <1>2, <1>3, <1>7 DEF InstallAt
<1>9. /\ half.Log = Log[j] /\ half.lastAppliedIndex = lastAppliedIndex[j]
      /\ half.lastAppliedTerm = lastAppliedTerm[j]
  BY <1>3 DEF RaftState
<1>10. /\ Log[j] \in Seq(Entry) /\ Len(Log[j]) \in Nat /\ lastAppliedIndex[j] \in Int
       /\ LastLogIndex(j) = Len(Log[j]) + lastAppliedIndex[j]
       /\ LastLogIndex(j) \in Int /\ DiskLast(j) \in Int /\ lastAppliedIndex[l] \in Int
       /\ commitIndex[j] \in Int
  BY <1>2, Numbers
<1>11. EndsAt(l, j) /\ TermsAt(j, G)
  BY <1>2 DEF KeptWith
<1>12. \A p \in Server \ {j} : SamePeer(p)
  BY <1>2, <1>4, <1>5 DEF SamePeer, ServiceInv, LogOK, DeliveryOK
<1>13. /\ raftstate'[j] = IF FollowSaves(m) THEN half ELSE raftstate[j]
       /\ snapReq'[j] = IF Admitted(m) THEN snapReq[j] \cup {due} ELSE snapReq[j]
       /\ lastAppliedIndex'[j] = IF Covers(m) \/ Ahead(m) THEN b ELSE lastAppliedIndex[j]
       /\ lastAppliedTerm'[j] = IF Covers(m) \/ Ahead(m) THEN t ELSE lastAppliedTerm[j]
       /\ Log'[j] = IF Covers(m) THEN <<>>
                    ELSE IF Ahead(m) THEN SubSeq(Log[j], b - lastAppliedIndex[j] + 1, Len(Log[j]))
                    ELSE Log[j]
  BY <1>2, <1>4, <1>5 DEF ServiceInv, LogOK, DeliveryOK
<1>14. /\ DiskLast(j)' = LastLogIndex(j) \/ DiskLast(j)' = DiskLast(j)
       /\ TermsAt(j, G)'
  <2>1. lastAppliedTerm'[j] = TermAt(lastAppliedIndex'[j], G)
    BY <1>8, <1>11, <1>13 DEF TermsAt
  <2>2. CASE FollowSaves(m)
    BY <1>9, <1>11, <1>13, <2>1, <2>2 DEF TermsAt, DiskLast, LastLogIndex
  <2>3. CASE ~ FollowSaves(m)
    BY <1>11, <1>13, <2>1, <2>3 DEF TermsAt, DiskLast
  <2>4. QED
    BY <2>2, <2>3
<1>15. DiskLast(j) <= DiskLast(j)' /\ DiskLast(j)' <= LastLogIndex(j) /\ DiskLast(j)' \in Int
  BY <1>10, <1>11, <1>14 DEF EndsAt
<1>16. \/ LastLogIndex(j)' = b /\ LastLogIndex(j) <= b
       \/ LastLogIndex(j)' = LastLogIndex(j) /\ (Admitted(m) => b <= LastLogIndex(j))
  <2>1. CASE Covers(m)
    <3>1. Len(Log'[j]) = 0 /\ lastAppliedIndex'[j] = b
      BY <1>13, <2>1
    <3>2. LastLogIndex(j)' = b
      BY <1>6, <3>1 DEF LastLogIndex
    <3>3. QED
      BY <1>2, <1>3, <2>1, <3>2 DEF Covers
  <2>2. CASE ~ Covers(m) /\ Ahead(m)
    <3>1. Admitted(m) /\ lastAppliedIndex[j] < b /\ ~ (LastLogIndex(j) <= b)
      BY <1>2, <1>3, <2>2 DEF Covers, Ahead
    <3>2. PICK d \in Nat : d = b - lastAppliedIndex[j]
      BY <1>6, <1>10, <3>1
    <3>3. d <= Len(Log[j])
      BY <1>6, <1>10, <3>1, <3>2
    <3>4. Log'[j] = SubSeq(Log[j], d + 1, Len(Log[j])) /\ lastAppliedIndex'[j] = b
      BY <1>13, <2>2, <3>2
    <3>5. Slice(Log[j], lastAppliedIndex[j], G)
      BY <1>2 DEF ReignWith, LogSlices
    <3>6. Len(Log'[j]) = Len(Log[j]) - d
      BY <1>10, <3>3, <3>4, <3>5, SliceTail
    <3>7. LastLogIndex(j)' = LastLogIndex(j)
      <4>1. LastLogIndex(j)' = (Len(Log[j]) - d) + b
        BY <3>4, <3>6 DEF LastLogIndex
      <4>2. QED
        BY <1>6, <1>10, <3>2, <4>1
    <3>8. QED
      BY <1>6, <1>10, <3>1, <3>7
  <2>3. CASE ~ Covers(m) /\ ~ Ahead(m)
    <3>1. LastLogIndex(j)' = LastLogIndex(j)
      BY <1>13, <2>3 DEF LastLogIndex
    <3>2. Admitted(m) => ~ (LastLogIndex(j) <= b)
      BY <1>2, <1>3, <2>3 DEF Covers
    <3>3. QED
      BY <1>6, <1>10, <3>1, <3>2
  <2>4. QED
    BY <2>1, <2>2, <2>3
<1>17. LastLogIndex(j) <= LastLogIndex(j)' /\ LastLogIndex(j)' \in Int
       /\ (Admitted(m) => b <= LastLogIndex(j)')
  BY <1>6, <1>10, <1>16
<1>18. EndsAt(l, j)'
  <2>1. commitIndex'[j] <= LastLogIndex(j)'
    BY <1>4, <1>10, <1>11, <1>17 DEF EndsAt
  <2>2. ASSUME NEW r \in snapReq'[j] PROVE r.index <= LastLogIndex(j)'
    <3>1. CASE r \in snapReq[j]
      <4>1. r.index \in Int
        BY <1>2, <3>1 DEF ServiceInv, DeliveryOK
      <4>2. QED
        BY <1>10, <1>11, <1>17, <3>1, <4>1 DEF EndsAt
    <3>2. CASE r = due /\ Admitted(m)
      BY <1>6, <1>17, <3>2
    <3>3. QED
      BY <1>13, <2>2, <3>1, <3>2
  <2>3. DiskLast(j)' <= LastLogIndex(j)'
    BY <1>10, <1>15, <1>17
  <2>4. LastLogIndex(j)' <= DiskLast(j)' \/ LastLogIndex(j)' <= lastAppliedIndex[l]
    <3>1. CASE LastLogIndex(j)' = b
      BY <1>8, <3>1
    <3>2. CASE LastLogIndex(j)' = LastLogIndex(j)
      BY <1>10, <1>11, <1>15, <3>2 DEF EndsAt
    <3>3. QED
      BY <1>16, <3>1, <3>2
  <2>5. lastAppliedIndex'[l] = lastAppliedIndex[l]
    BY <1>2, <1>12 DEF SamePeer
  <2>6. QED
    BY <2>1, <2>2, <2>3, <2>4, <2>5 DEF EndsAt
<1>19. CallAt(l, j, G)'
  <2>1. call'[l][j].args = m
    BY <1>2 DEF Replied
  <2>2. lastAppliedIndex'[l] = lastAppliedIndex[l]
    BY <1>2, <1>12 DEF SamePeer
  <2>3. InstallAt(l, j, G)'
    BY <1>2, <1>7, <2>1, <2>2 DEF InstallAt
  <2>4. QED
    BY <1>4, <2>1, <2>3 DEF CallAt, Waits
<1>20. /\ currentTerm'[l] = currentTerm[l] /\ leaderId'[l] = leaderId[l]
       /\ nextIndex'[l] = nextIndex[l] /\ matchIndex'[l] = matchIndex[l]
       /\ ticker'[l] = ticker[l] /\ chosen' = chosen /\ chosen \in Seq(Command)
  BY <1>2, <1>4, LeaderFacts
     DEF FollowLeader, electionVars, leaderVars, historyVars, ElectionInv, ElectionTypeOK
<1>21. QED
  BY <1>2, <1>12, <1>14, <1>15, <1>18, <1>19, <1>20, FollowerStep

-----------------------------------------------------------------------------
(* The invariant, and what it is for.                                      *)

\* At first everybody has the dummy entry of Make, on disk too.
LEMMA DurableInit == ASSUME NEW l, Reign(l), Init PROVE DurableInv(l)
<1>1. l \in Server /\ Nil # l
  BY ServerAssumption DEF Reign
<1>2. PICK G \in Seq(Entry) : ReignWith(l, G)
  BY ReignInit DEF ReignInv
<1>3. PICK s : s = <<[Term |-> 0, Command |-> Nil]>>
  OBVIOUS
<1>4. Len(s) = 1 /\ s[1].Term = 0
  BY <1>3
<1>5. ASSUME NEW i \in Server
      PROVE  /\ Log[i] = s /\ lastAppliedIndex[i] = -1 /\ lastAppliedTerm[i] = 0
             /\ raftstate[i].Log = s /\ raftstate[i].lastAppliedIndex = -1
             /\ raftstate[i].lastAppliedTerm = 0
             /\ commitIndex[i] = -1 /\ snapReq[i] = {} /\ currentTerm[i] = 0
             /\ leaderId[i] = Nil /\ ticker[i] = Idle
             /\ \A j \in Server : /\ nextIndex[i][j] = 1 /\ matchIndex[i][j] = 0
                                  /\ call[i][j] = Finished
  BY <1>3 DEF Init, RaftState
<1>6. ASSUME NEW i \in Server PROVE LastLogIndex(i) = 0 /\ DiskLast(i) = 0
  <2>1. Len(Log[i]) = 1 /\ lastAppliedIndex[i] = -1
    BY <1>4, <1>5
  <2>2. Len(raftstate[i].Log) = 1 /\ raftstate[i].lastAppliedIndex = -1
    BY <1>4, <1>5
  <2>3. QED
    BY <2>1, <2>2 DEF LastLogIndex, DiskLast
<1>7. Len(G) = 1 /\ G[1].Term = 0
  <2>1. LastLogIndex(l) + 1 = Len(G) /\ Slice(Log[l], lastAppliedIndex[l], G)
    BY <1>1, <1>2 DEF ReignWith, LeaderAt, LogSlices
  <2>2. Len(G) = 1 /\ s[1] = G[-1 + 1 + 1]
    BY <1>1, <1>4, <1>5, <1>6, <2>1 DEF Slice
  <2>3. QED
    BY <1>4, <2>2
<1>8. late = {} /\ Len(chosen) = 0
  BY DEF Init
<1>9. Quiet(l)
  BY <1>5, <1>8 DEF Quiet
<1>10. \A i \in Server : TermsAt(i, G) /\ EndsAt(l, i)
  BY <1>5, <1>6 DEF TermsAt, EndsAt, TermAt
<1>11. FreshAt(l, G)
  BY <1>1, <1>5, <1>7 DEF FreshAt
<1>12. LeaderEnds(l)
  BY <1>1, <1>5, <1>6 DEF LeaderEnds, Peers
<1>13. ASSUME NEW j \in Peers(l) PROVE MatchAt(l, j, G) /\ CallAt(l, j, G)
  <2>1. j \in Server
    BY DEF Peers
  <2>2. MatchAt(l, j, G)
    BY <1>1, <1>5 DEF MatchAt
  <2>3. call[l][j].st = "finished"
    BY <1>1, <1>5, <2>1 DEF Finished
  <2>4. CallAt(l, j, G)
    BY <2>3 DEF CallAt, Waits
  <2>5. QED
    BY <2>2, <2>4
<1>14. ChosenDurable
  BY <1>8 DEF ChosenDurable
<1>15. KeptWith(l, G)
  BY <1>9, <1>10, <1>11, <1>12, <1>13, <1>14 DEF KeptWith
<1>16. QED
  BY <1>2, <1>15 DEF DurableInv

\* Every step but Start keeps what is durable, for the same history.
LEMMA KeptNext ==
    ASSUME NEW l \in Server, Reign(l), MaxLate = 0, ElectionInv, ServiceInv,
           ElectionInv', ServiceInv', NEW G \in Seq(Entry), ReignWith(l, G), KeptWith(l, G),
           [Next]_vars, ~ \E i \in Server, c \in Command : Start(i, c)
    PROVE  KeptWith(l, G)'
<1>1. Quiet(l) /\ Alone(l) /\ Quiet(l)'
  BY QuietNext DEF KeptWith, ReignWith
<1>2. ASSUME NEW m \in Requests, Handle(m) PROVE KeptWith(l, G)'
  BY <1>2, VoteLasts, AppendLasts, InstallLasts DEF Handle
<1>3. ASSUME NEW i \in Server, NEW j \in Server, Worker(i, j) PROVE KeptWith(l, G)'
  <2>1. i = l /\ j \in Peers(l)
    BY <1>1, <1>3, WorkerOfLeader
  <2>2. QED
    BY <1>1, <1>3, <2>1, VoteCallLasts, VoteReplyLasts, AppendCallLasts, AppendReplyLasts,
       InstallCallLasts, InstallReplyLasts, TimeoutLasts DEF Worker
<1>4. ASSUME NEW i \in Server, Peer(i) PROVE KeptWith(l, G)'
  <2>1. ASSUME startElection(i) PROVE KeptWith(l, G)'
    <3>1. i = l
      BY <2>1 DEF startElection, ElectionDue, Reign
    <3>2. QED
      BY <1>1, <2>1, <3>1, StartElectionLasts
  <2>2. ASSUME startElectionEnd(i) PROVE KeptWith(l, G)'
    <3>1. i = l
      BY <1>1, <2>2 DEF startElectionEnd, Campaigning, Alone, Idle
    <3>2. QED
      BY <1>1, <2>2, <3>1, ElectionEndLasts
  <2>3. ASSUME sendAERpcs(i) PROVE KeptWith(l, G)'
    <3>1. i = l
      BY <1>1, <2>3, LeaderAlone DEF sendAERpcs
    <3>2. QED
      BY <1>1, <2>3, <3>1, SendLasts
  <2>4. ASSUME sendAERpcsEnd(i) PROVE KeptWith(l, G)'
    <3>1. i = l
      BY <2>4, RoundOfLeader
    <3>2. QED
      BY <1>1, <2>4, <3>1, SendEndLasts
  <2>5. ASSUME NEW index \in lastApplied[i] + 1 .. commitIndex[i], applyLogToRsm(i, index)
        PROVE  KeptWith(l, G)'
    BY <2>5, ApplyLasts
  <2>6. ASSUME NEW r \in snapReq[i], doSnapshot(i, r) PROVE KeptWith(l, G)'
    BY <1>1, <2>6, SnapshotLasts
  <2>7. QED
    BY <1>4, <2>1, <2>2, <2>3, <2>4, <2>5, <2>6 DEF Peer
<1>5. ASSUME NEW i \in Server, Restart(i) PROVE KeptWith(l, G)'
  <2>1. CASE i = l
    BY <1>1, <1>5, <2>1, LeaderRestartLasts
  <2>2. CASE i # l
    <3>1. i \in Peers(l)
      BY <2>2 DEF Peers
    <3>2. QED
      BY <1>1, <1>5, <3>1, FollowerRestartLasts
  <2>3. QED
    BY <2>1, <2>2
<1>6. CASE UNCHANGED vars
  <2>1. /\ UNCHANGED <<electionVars, logVars, commitIndex, leaderVars, raftstate, ticker, call,
                       late, historyVars>>
        /\ snapReq' = snapReq
    BY <1>6 DEF vars, applyVars, serviceVars
  <2>2. QED
    BY <2>1, ServiceStep
<1>7. QED
  BY <1>2, <1>3, <1>4, <1>5, <1>6 DEF Next

\* Every step keeps what is durable.
LEMMA DurableNext ==
    ASSUME NEW l, Reign(l), MaxLate = 0, ElectionInv, ServiceInv, ElectionInv', ServiceInv',
           DurableInv(l), [Next]_vars
    PROVE  DurableInv(l)'
<1>1. PICK G \in Seq(Entry) : ReignWith(l, G) /\ KeptWith(l, G)
  BY DEF DurableInv
<1>2. l \in Server /\ Alone(l) /\ Alone(l)' /\ Quiet(l)'
  BY <1>1, AloneNext, QuietNext DEF Reign, ReignWith, KeptWith
<1>3. ASSUME NEW i \in Server, NEW c \in Command, Start(i, c) PROVE DurableInv(l)'
  <2>1. PICK e \in Entry : e.Term = currentTerm[i] /\ ReignWith(l, Append(G, e))'
    BY <1>1, <1>2, <1>3, StartReigns
  <2>2. i = l
    BY <1>2, <1>3, LeaderAlone DEF Start
  <2>3. KeptWith(l, Append(G, e))'
    BY <1>1, <1>2, <1>3, <2>1, <2>2, StartLasts
  <2>4. Append(G, e) \in Seq(Entry)
    BY <1>1, <2>1
  <2>5. QED
    BY <2>1, <2>3, <2>4, Zenon DEF DurableInv
<1>4. CASE ~ \E i \in Server, c \in Command : Start(i, c)
  <2>1. ReignWith(l, G)'
    BY <1>1, <1>4, HistoryKept
  <2>2. KeptWith(l, G)'
    BY <1>1, <1>2, <1>4, KeptNext
  <2>3. QED
    BY <1>1, <2>1, <2>2, Zenon DEF DurableInv
<1>5. QED
  BY <1>3, <1>4

\* While one peer campaigns and no request is late, logs and disks end where the
\* leader takes them to end, whoever crashes.
THEOREM DurableInvariant ==
    ASSUME NEW l, Reign(l), MaxLate = 0 PROVE Spec => []DurableInv(l)
<1>1. Init => DurableInv(l)
  BY DurableInit
<1>2. ElectionInv /\ ServiceInv /\ ElectionInv' /\ ServiceInv' /\ DurableInv(l) /\ [Next]_vars
      => DurableInv(l)'
  BY DurableNext
<1>3. QED
  BY <1>1, <1>2, ElectionInvariant, ServiceInvariant, PTL DEF Spec

\* What a peer takes for committed is committed, in its log and in the history.
LEMMA CommittedPlace ==
    ASSUME NEW l \in Server, NEW G \in Seq(Entry), ReignWith(l, G), KeptWith(l, G), ServiceInv,
           NEW i \in Server, NEW k \in CommittedAt(i)
    PROVE  /\ k \in Nat /\ k <= LastLogIndex(i) /\ k \in 1 .. Len(chosen)
           /\ EntryAt(i, k) = G[k + 1]
<1>1. lastAppliedIndex[i] \in Int /\ commitIndex[i] \in Int /\ LastLogIndex(i) \in Int
  BY Numbers
<1>2. k \in Int /\ k > 0 /\ k > lastAppliedIndex[i] /\ k <= commitIndex[i]
  BY <1>1 DEF CommittedAt
<1>3. commitIndex[i] <= LastLogIndex(i) /\ commitIndex[i] <= Len(chosen)
  BY DEF KeptWith, EndsAt, ReignWith, ServedAt
<1>4. Len(chosen) \in Nat
  BY DEF ReignWith, HistoryOK
<1>5. k \in Nat /\ k <= LastLogIndex(i) /\ k \in 1 .. Len(chosen)
  BY <1>1, <1>2, <1>3, <1>4
<1>6. EntryAt(i, k) = G[k + 1]
  BY <1>2, <1>5, CommittedEntry DEF ReignWith, ServiceInv
<1>7. QED
  BY <1>5, <1>6

\* A disk that reaches to an index has its entry or has cut it.
LEMMA DiskHolds ==
    ASSUME NEW G \in Seq(Entry), ServiceInv, NEW j \in Server, LogSlices(j, G),
           NEW k \in Nat, DiskLast(j) >= k
    PROVE  Holds(raftstate[j], k, G[k + 1])
<1>1. /\ raftstate[j].lastAppliedIndex \in Int /\ Len(raftstate[j].Log) \in Nat
      /\ DiskLast(j) = Len(raftstate[j].Log) + raftstate[j].lastAppliedIndex
  BY Numbers
<1>2. CASE k <= raftstate[j].lastAppliedIndex
  BY <1>2 DEF Holds
<1>3. CASE ~ (k <= raftstate[j].lastAppliedIndex)
  <2>1. PICK n : n = k - raftstate[j].lastAppliedIndex
    OBVIOUS
  <2>2. n \in 1 .. Len(raftstate[j].Log) /\ raftstate[j].lastAppliedIndex + 1 + n = k + 1
    BY <1>1, <1>3, <2>1
  <2>3. raftstate[j].Log[n] = G[raftstate[j].lastAppliedIndex + 1 + n]
    BY <2>2 DEF LogSlices, Slice
  <2>4. QED
    BY <2>1, <2>2, <2>3 DEF Holds
<1>4. QED
  BY <1>2, <1>3

\* While one peer campaigns and no request is late, what a peer takes for
\* committed is on the disks of a majority, whoever crashes: AppendEntries saves
\* before it answers, and findMaxN counts entries of the leader's term only.
THEOREM CommittedStaysDurable ==
    ASSUME NEW l, Reign(l), MaxLate = 0 PROVE Spec => []CommittedIsDurable
<1>1. ASSUME ServiceInv, DurableInv(l) PROVE CommittedIsDurable
  <2>1. PICK G \in Seq(Entry) : ReignWith(l, G) /\ KeptWith(l, G)
    BY <1>1 DEF DurableInv
  <2>2. l \in Server
    BY DEF Reign
  <2>3. ASSUME NEW i \in Server, NEW k \in CommittedAt(i)
        PROVE  /\ k <= LastLogIndex(i)
               /\ Majority({j \in Server : Holds(raftstate[j], k, EntryAt(i, k))})
    <3>1. /\ k \in Nat /\ k <= LastLogIndex(i) /\ k \in 1 .. Len(chosen)
          /\ EntryAt(i, k) = G[k + 1]
      BY <1>1, <2>1, <2>2, CommittedPlace
    <3>2. Majority({j \in Server : DiskLast(j) >= k})
      BY <2>1, <3>1 DEF KeptWith, ChosenDurable
    <3>3. ASSUME NEW j \in Server, DiskLast(j) >= k
          PROVE  Holds(raftstate[j], k, EntryAt(i, k))
      BY <1>1, <2>1, <3>1, <3>3, DiskHolds DEF ReignWith
    <3>4. {j \in Server : DiskLast(j) >= k}
            \subseteq {j \in Server : Holds(raftstate[j], k, EntryAt(i, k))}
      BY <3>3
    <3>5. QED
      BY <3>1, <3>2, <3>4, MajorityGrows
  <2>4. QED
    BY <2>3 DEF CommittedIsDurable
<1>2. QED
  BY <1>1, DurableInvariant, ServiceInvariant, PTL

\* Under the same conditions a leader has what anybody takes for committed: its
\* log, which Start extends and a restart reads back, is the longest there is.
THEOREM LeadersComplete ==
    ASSUME NEW l, Reign(l), MaxLate = 0 PROVE Spec => []LeaderCompleteness
<1>1. ASSUME ElectionInv, ServiceInv, DurableInv(l) PROVE LeaderCompleteness
  <2>1. PICK G \in Seq(Entry) : ReignWith(l, G) /\ KeptWith(l, G)
    BY <1>1 DEF DurableInv
  <2>2. l \in Server
    BY DEF Reign
  <2>3. ASSUME NEW p \in Server, leaderId[p] = p PROVE p = l
    BY <1>1, <2>1, <2>3, LeaderAlone DEF ReignWith
  <2>4. ASSUME NEW i \in Server, NEW k \in CommittedAt(i)
        PROVE  Holds(RaftState(l), k, EntryAt(i, k))
    <3>1. k \in Nat /\ k \in 1 .. Len(chosen) /\ EntryAt(i, k) = G[k + 1]
      BY <1>1, <2>1, <2>2, CommittedPlace
    <3>2. /\ Len(chosen) \in Nat /\ Len(chosen) + 1 <= Len(G)
          /\ LastLogIndex(l) + 1 = Len(G)
      BY <2>1 DEF ReignWith, HistoryOK, LeaderAt
    <3>3. LastLogIndex(l) \in Int /\ lastAppliedIndex[l] \in Int
      BY <1>1, <2>2, Numbers
    <3>4. k <= LastLogIndex(l)
      BY <3>1, <3>2, <3>3
    <3>5. RaftState(l).Log = Log[l] /\ RaftState(l).lastAppliedIndex = lastAppliedIndex[l]
      BY DEF RaftState
    <3>6. CASE k <= lastAppliedIndex[l]
      BY <3>5, <3>6 DEF Holds
    <3>7. CASE ~ (k <= lastAppliedIndex[l])
      <4>1. k > lastAppliedIndex[l]
        BY <3>1, <3>3, <3>7
      <4>2. /\ k - lastAppliedIndex[l] \in 1 .. Len(Log[l])
            /\ EntryAt(l, k) = G[k + 1]
        BY <1>1, <2>1, <2>2, <3>1, <3>4, <4>1, CommittedEntry DEF ReignWith, ServiceInv
      <4>3. QED
        BY <3>1, <3>5, <4>2 DEF Holds, EntryAt
    <3>8. QED
      BY <3>6, <3>7
  <2>5. QED
    BY <2>3, <2>4 DEF LeaderCompleteness
<1>2. QED
  BY <1>1, DurableInvariant, ServiceInvariant, ElectionInvariant, PTL

\* Under the same conditions nothing indexes outside a slice of the log: not the
\* applier, doSnapshot, appendRPCWorker, AppendEntries or findMaxN.
THEOREM NoPanics ==
    ASSUME NEW l, Reign(l), MaxLate = 0 PROVE Spec => []NoIndexPanic
<1>1. ASSUME ElectionInv, ServiceInv, DurableInv(l) PROVE NoIndexPanic
  <2>1. PICK G \in Seq(Entry) : ReignWith(l, G) /\ KeptWith(l, G)
    BY <1>1 DEF DurableInv
  <2>2. l \in Server
    BY DEF Reign
  <2>3. ASSUME NEW i \in Server
        PROVE  /\ lastAppliedIndex[i] \in Int /\ commitIndex[i] \in Int
               /\ lastApplied[i] \in Int /\ LastLogIndex(i) \in Int
    BY <1>1, Numbers
  <2>4. ASSUME NEW i \in Server PROVE ~ ApplierPanics(i)
    <3>1. commitIndex[i] <= LastLogIndex(i)
      BY <2>1 DEF KeptWith, EndsAt
    <3>2. QED
      BY <2>3, <3>1 DEF ApplierPanics, Batch
  <2>5. ASSUME NEW i \in Server, NEW r \in snapReq[i] PROVE ~ doSnapshotPanics(i, r)
    <3>1. r.index <= LastLogIndex(i) /\ r.index \in Nat
      BY <1>1, <2>1 DEF KeptWith, EndsAt, ServiceInv, DeliveryOK
    <3>2. QED
      BY <2>3, <3>1 DEF doSnapshotPanics
  <2>6. ASSUME NEW i \in Server, NEW j \in Server PROVE ~ WorkerPanics(i, j)
    <3>1. SUFFICES ASSUME WorkerPanics(i, j) PROVE FALSE
      OBVIOUS
    <3>2. i = l
      BY <1>1, <2>1, <3>1, LeaderAlone DEF ReignWith, WorkerPanics, SameLeader
    <3>3. "AppendEntries" \in Rpc /\ call[i][j] = Spawned("AppendEntries")
      BY <3>1 DEF Rpc, WorkerPanics
    <3>4. j \in Peers(l)
      BY <1>1, <3>2, <3>3, NotYetSent DEF Peers
    <3>5. nextIndex[l][j] <= LastLogIndex(l) + 1
      BY <2>1, <3>4 DEF KeptWith, LeaderEnds
    <3>6. nextIndex[l][j] \in Nat /\ LastLogIndex(l) \in Int
      BY <1>1, <2>2, <2>3 DEF ServiceInv, IndexOK
    <3>7. QED
      BY <3>1, <3>2, <3>5, <3>6 DEF WorkerPanics
  <2>7. ASSUME NEW m \in Requests PROVE ~ HandlerPanics(m)
    <3>1. SUFFICES ASSUME m.rpc = "AppendEntries" PROVE ~ Conflict(m)
      BY DEF HandlerPanics
    <3>2. /\ m.to \in Server /\ m.to \in Peers(l)
          /\ call[l][m.to].st = "sent" /\ call[l][m.to].args = m
      BY <1>1, <2>1, <2>2, RequestOfLeader DEF KeptWith
    <3>3. Waits(l, m.to, "AppendEntries")
      BY <3>1, <3>2 DEF Waits
    <3>4. AppendAt(l, m.to, G)
      BY <2>1, <3>2, <3>3 DEF KeptWith, CallAt
    <3>5. m.PrevLogTerm = TermAt(m.PrevLogIndex, G)
      BY <3>2, <3>4 DEF AppendAt
    <3>6. BodyOK(m)
      BY <1>1, RequestBody DEF ServiceInv
    <3>7. QED
      BY <1>1, <2>1, <2>2, <3>1, <3>2, <3>5, <3>6, NoConflict
  <2>8. ASSUME NEW i \in Server, ticker[i].kind = "append" PROVE ~ findMaxNPanics(i)
    <3>1. ticker[i] # Idle
      BY <2>8 DEF Idle
    <3>2. i = l
      BY <2>1, <3>1 DEF ReignWith, Alone
    <3>3. lastAppliedIndex[l] <= commitIndex[l]
      BY <2>1 DEF KeptWith, LeaderEnds
    <3>4. commitIndex[l] + 1 .. lastAppliedIndex[l] = {}
      BY <2>2, <2>3, <3>3
    <3>5. QED
      BY <3>2, <3>4 DEF findMaxNPanics
  <2>9. QED
    BY <2>4, <2>5, <2>6, <2>7, <2>8 DEF NoIndexPanic
<1>2. QED
  BY <1>1, DurableInvariant, ServiceInvariant, ElectionInvariant, PTL
=============================================================================
