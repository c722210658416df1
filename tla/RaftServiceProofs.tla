------------------------- MODULE RaftServiceProofs --------------------------
(***************************************************************************)
(* Proofs about the log, the persister and the delivery to the service of   *)
(* Raft, for any number of peers and with overlapping rounds, late          *)
(* requests, snapshots and crashes: every field keeps its type, what a      *)
(* crash can lose is only what InstallSnapshot left to doSnapshot, and      *)
(* ApplyMsgSender waits for no index that the applier has passed.           *)
(***************************************************************************)
EXTENDS RaftElectionProofs, SequenceTheorems

-----------------------------------------------------------------------------
(* The inductive invariant.                                                *)

\* An index, or the -1 of an empty log and of a peer that committed nothing.
NatOrNone == Nat \cup {-1}

Disk == [currentTerm : Nat, voteFor : Vote, Log : Seq(Entry),
         lastAppliedIndex : NatOrNone, lastAppliedTerm : Nat]

LogOK ==
    /\ Log \in [Server -> Seq(Entry)]
    /\ lastAppliedIndex \in [Server -> NatOrNone]
    /\ lastAppliedTerm \in [Server -> Nat]

IndexOK ==
    /\ commitIndex \in [Server -> NatOrNone]
    /\ lastApplied \in [Server -> NatOrNone]
    /\ nextIndex \in [Server -> [Server -> Nat]]
    /\ matchIndex \in [Server -> [Server -> NatOrNone]]

\* The goroutines of Snapshot never wait with the -1 of an empty log.
DeliveryOK ==
    /\ next \in [Server -> Nat]
    /\ DOMAIN logs = Server
    /\ DOMAIN snapReq = Server
    /\ \A i \in Server : /\ DOMAIN logs[i] \subseteq Nat
                         /\ \A r \in snapReq[i] : r.index \in Nat

BodyOK(m) ==
    /\ m.rpc = "AppendEntries" => /\ m.PrevLogIndex \in NatOrNone
                                  /\ m.Entries \in Seq(Entry)
                                  /\ m.LeaderCommit \in NatOrNone
    /\ m.rpc = "InstallSnapshot" => /\ m.LastIncludedIndex \in Nat
                                    /\ m.LastIncludedTerm \in Nat

\* Who is about to send a snapshot has cut its log, so it has one.
SenderOK(i, j) ==
    /\ call[i][j].st \in {"sent", "replied", "lost"} => BodyOK(call[i][j].args)
    /\ call[i][j] = Spawned("InstallSnapshot") => lastAppliedIndex[i] >= 0

BodiesOK ==
    /\ \A m \in late : BodyOK(m)
    /\ \A i, j \in Server : SenderOK(i, j)

\* The snapshot that moved lastAppliedIndex still waits for doSnapshot.
Installing(i) == \E r \in snapReq[i] : r.index = lastAppliedIndex[i]

DurableAt(i) == raftstate[i] = RaftState(i) \/ Installing(i)
InStepAt(i) == next[i] = lastApplied[i] + 1 \/ Installing(i)

ServiceInv ==
    /\ LogOK
    /\ IndexOK
    /\ raftstate \in [Server -> Disk]
    /\ DeliveryOK
    /\ BodiesOK
    /\ \A i \in Server : DurableAt(i) /\ InStepAt(i)

-----------------------------------------------------------------------------
(* Numbers and sequences.                                                  *)

\* Natural numbers are well ordered.
LEMMA LeastNat ==
    ASSUME NEW T \in SUBSET Nat, T # {}
    PROVE  \E n \in T : \A m \in T : n <= m
<1>1. IsWellFoundedOn(OpToRel(<, Nat), Nat)
  BY NatLessThanWellFounded
<1>2. \A x, y \in Nat : <<x, y>> \in OpToRel(<, Nat) <=> x < y
  BY DEF OpToRel
<1>3. \E R : IsWellFoundedOn(R, Nat) /\ \A x, y \in Nat : <<x, y>> \in R <=> x < y
  BY <1>1, <1>2, Zenon
<1>4. PICK R : IsWellFoundedOn(R, Nat) /\ \A x, y \in Nat : <<x, y>> \in R <=> x < y
  BY <1>3
<1>5. IsWellFoundedOn(R, Nat)
  BY <1>4
<1>6. PICK n \in T : \A m \in T : ~ (<<m, n>> \in R)
  BY <1>5, WFMin, Zenon
<1>7. ASSUME NEW m \in T PROVE n <= m
  <2>1. n \in Nat /\ m \in Nat
    OBVIOUS
  <2>2. ~ (m < n)
    BY <1>4, <1>6, <2>1, Zenon
  <2>3. QED
    BY <2>1, <2>2
<1>8. QED
  BY <1>7

\* A set of indices that is bounded has a greatest one (findMaxN counts down
\* to it).
LEMMA GreatestInt ==
    ASSUME NEW b \in Int, NEW T \in SUBSET Int, T # {}, \A m \in T : m <= b
    PROVE  \E n \in T : \A m \in T : m <= n
<1> DEFINE D == {d \in Nat : \E m \in T : d = b - m}
<1>1. \A m \in T : b - m \in Nat
  OBVIOUS
<1>2. D \in SUBSET Nat /\ D # {}
  BY <1>1
<1> HIDE DEF D
<1>3. PICK d \in D : \A e \in D : d <= e
  BY <1>2, LeastNat
<1>4. PICK n \in T : d = b - n
  BY DEF D
<1>5. \A m \in T : b - n <= b - m
  BY <1>1, <1>3, <1>4 DEF D
<1>6. n \in Int /\ \A m \in T : m \in Int
  OBVIOUS
<1>7. \A m \in T : m <= n
  BY <1>5, <1>6
<1>8. QED
  BY <1>7

\* A slice of a log is a log.
LEMMA SliceType ==
    ASSUME NEW s \in Seq(Entry), NEW m \in Int, NEW n \in Int, m >= 1, n <= Len(s)
    PROVE  SubSeq(s, m, n) \in Seq(Entry)
<1>1. \A k \in m .. n : s[k] \in Entry
  <2> SUFFICES ASSUME NEW k \in m .. n PROVE s[k] \in Entry
    OBVIOUS
  <2>1. k \in 1 .. Len(s)
    OBVIOUS
  <2>2. QED
    BY <2>1
<1>2. QED
  BY <1>1, SubSeqProperties

\* The last index of a log, and what was cut from it.
LEMMA LogBounds ==
    ASSUME LogOK, NEW i \in Server
    PROVE  /\ Len(Log[i]) \in Nat
           /\ lastAppliedIndex[i] \in NatOrNone
           /\ LastLogIndex(i) \in NatOrNone
           /\ LastLogIndex(i) = Len(Log[i]) + lastAppliedIndex[i]
           /\ lastAppliedIndex[i] <= LastLogIndex(i)
           /\ \A k \in 1 .. Len(Log[i]) : Log[i][k] \in Entry
<1>1. Log[i] \in Seq(Entry) /\ lastAppliedIndex[i] \in NatOrNone
  BY DEF LogOK
<1>2. Len(Log[i]) \in Nat /\ \A k \in 1 .. Len(Log[i]) : Log[i][k] \in Entry
  BY <1>1
<1>3. QED
  BY <1>1, <1>2 DEF LastLogIndex, NatOrNone

-----------------------------------------------------------------------------
(* What a step has to keep, part by part.                                  *)

\* A saved state is its five fields.
LEMMA DiskFields ==
    ASSUME NEW d \in Disk
    PROVE  d = [currentTerm |-> d.currentTerm, voteFor |-> d.voteFor, Log |-> d.Log,
                lastAppliedIndex |-> d.lastAppliedIndex,
                lastAppliedTerm |-> d.lastAppliedTerm]
BY DEF Disk

\* What the persister holds after persist(i).
LEMMA PersistTyped ==
    ASSUME NEW i \in Server, persist(i), raftstate \in [Server -> Disk],
           ElectionTypeOK', LogOK'
    PROVE  /\ raftstate' \in [Server -> Disk]
           /\ raftstate'[i] = RaftState(i)'
           /\ \A p \in Server \ {i} : raftstate'[p] = raftstate[p]
<1>1. RaftState(i)' \in Disk
  BY DEF RaftState, Disk, ElectionTypeOK, LogOK
<1>2. raftstate' = [raftstate EXCEPT ![i] = RaftState(i)']
  BY DEF persist
<1> HIDE DEF RaftState
<1>3. QED
  BY <1>1, <1>2

\* A peer whose fields a step leaves alone.
LEMMA PeerKept ==
    ASSUME NEW p \in Server, DurableAt(p), InStepAt(p),
           currentTerm'[p] = currentTerm[p], voteFor'[p] = voteFor[p],
           Log'[p] = Log[p], lastAppliedIndex'[p] = lastAppliedIndex[p],
           lastAppliedTerm'[p] = lastAppliedTerm[p], lastApplied'[p] = lastApplied[p],
           raftstate'[p] = raftstate[p], next'[p] = next[p], snapReq[p] \subseteq snapReq'[p]
    PROVE  DurableAt(p)' /\ InStepAt(p)'
<1>1. RaftState(p)' = RaftState(p)
  BY DEF RaftState
<1>2. Installing(p) => Installing(p)'
  BY DEF Installing
<1>3. QED
  BY <1>1, <1>2 DEF DurableAt, InStepAt

\* A step that changes the log, the term or the vote of i alone, and saves
\* them when it does.
LEMMA SavedStep ==
    ASSUME ServiceInv, NEW i \in Server, ElectionTypeOK',
           UNCHANGED <<lastAppliedIndex, lastAppliedTerm, serviceVars>>,
           LogOK', IndexOK', BodiesOK', lastApplied' = lastApplied,
           \A p \in Server \ {i} : /\ currentTerm'[p] = currentTerm[p]
                                   /\ voteFor'[p] = voteFor[p]
                                   /\ Log'[p] = Log[p],
           \/ persist(i)
           \/ /\ raftstate' = raftstate
              /\ currentTerm'[i] = currentTerm[i]
              /\ voteFor'[i] = voteFor[i]
              /\ Log'[i] = Log[i]
    PROVE  ServiceInv'
<1>1. DeliveryOK'
  BY DEF ServiceInv, DeliveryOK, serviceVars
<1>2. CASE persist(i)
  <2>1. /\ raftstate' \in [Server -> Disk]
        /\ raftstate'[i] = RaftState(i)'
        /\ \A p \in Server \ {i} : raftstate'[p] = raftstate[p]
    BY <1>2, PersistTyped DEF ServiceInv
  <2>2. ASSUME NEW p \in Server PROVE DurableAt(p)' /\ InStepAt(p)'
    <3>1. CASE p = i
      BY <2>1, <3>1 DEF ServiceInv, DurableAt, InStepAt, Installing, serviceVars
    <3>2. CASE p # i
      BY <2>1, <3>2, PeerKept DEF ServiceInv, serviceVars
    <3>3. QED
      BY <3>1, <3>2
  <2>3. QED
    BY <1>1, <2>1, <2>2 DEF ServiceInv
<1>3. CASE /\ raftstate' = raftstate
           /\ currentTerm'[i] = currentTerm[i]
           /\ voteFor'[i] = voteFor[i]
           /\ Log'[i] = Log[i]
  <2>1. ASSUME NEW p \in Server PROVE DurableAt(p)' /\ InStepAt(p)'
    BY <1>3, PeerKept DEF ServiceInv, serviceVars
  <2>2. QED
    BY <1>1, <1>3, <2>1 DEF ServiceInv
<1>4. QED
  BY <1>2, <1>3

\* A step that moves one goroutine, or only late requests.
LEMMA OneSender ==
    ASSUME ElectionInv, BodiesOK, NEW i \in Server, NEW j \in Server,
           NEW c, call' = [call EXCEPT ![i][j] = c],
           lastAppliedIndex' = lastAppliedIndex,
           SenderOK(i, j)', \A m \in late' : BodyOK(m)
    PROVE  BodiesOK'
<1>1. \A p, q \in Server : p # i \/ q # j => call'[p][q] = call[p][q]
  BY DEF ElectionInv, ElectionTypeOK
<1>2. ASSUME NEW p \in Server, NEW q \in Server PROVE SenderOK(p, q)'
  BY <1>1 DEF BodiesOK, SenderOK
<1>3. QED
  BY <1>2 DEF BodiesOK, BodyOK

\* A goroutine that a step finishes.
LEMMA FinishedSender ==
    ASSUME ElectionInv, BodiesOK, NEW i \in Server, NEW j \in Server,
           Finish(i, j), lastAppliedIndex' = lastAppliedIndex,
           \A m \in late' : BodyOK(m)
    PROVE  BodiesOK'
<1>1. call'[i][j] = Finished
  BY DEF ElectionInv, ElectionTypeOK, Finish
<1>2. SenderOK(i, j)'
  BY <1>1 DEF SenderOK, Finished, Spawned
<1>3. QED
  BY <1>2, OneSender DEF Finish

\* A goroutine that sends its request, or finds that it is too late for it.
LEMMA SendingSender ==
    ASSUME ElectionInv, BodiesOK, NEW i \in Server, NEW j \in Server, NEW c,
           call' = [call EXCEPT ![i][j] = c],
           c = Finished \/ \E m : c = Sent(m) /\ BodyOK(m),
           lastAppliedIndex' = lastAppliedIndex, late' = late
    PROVE  BodiesOK'
<1>1. call'[i][j] = c
  BY DEF ElectionInv, ElectionTypeOK
<1>2. SenderOK(i, j)'
  <2>1. CASE c = Finished
    BY <1>1, <2>1 DEF SenderOK, Finished, Spawned
  <2>2. CASE \E m : c = Sent(m) /\ BodyOK(m)
    <3>1. PICK m : c = Sent(m) /\ BodyOK(m)
      BY <2>2
    <3>2. c.args = m /\ c.st = "sent" /\ c # Spawned("InstallSnapshot")
      BY <3>1 DEF Sent, Spawned
    <3>3. BodyOK(call'[i][j].args)
      BY <1>1, <3>1, <3>2
    <3>4. QED
      BY <1>1, <3>2, <3>3 DEF SenderOK, BodyOK
  <2>3. QED
    BY <2>1, <2>2
<1>3. QED
  BY <1>2, OneSender DEF BodiesOK

\* The requests that a peer may still execute have well-formed bodies.
LEMMA RequestBody ==
    ASSUME BodiesOK, NEW m \in Requests
    PROVE  BodyOK(m)
<1>1. CASE m \in late
  BY <1>1 DEF BodiesOK
<1>2. CASE m \notin late
  <2>1. PICK p \in Server \X Server : call[p[1]][p[2]].st = "sent" /\ m = call[p[1]][p[2]].args
    BY <1>2 DEF Requests
  <2>2. SenderOK(p[1], p[2])
    BY DEF BodiesOK
  <2>3. QED
    BY <2>1, <2>2 DEF SenderOK
<1>3. QED
  BY <1>1, <1>2

\* A handler answers its request; what peers have cut only grows.
LEMMA AnsweredSender ==
    ASSUME ElectionInv, BodiesOK, NEW m \in Requests, NEW reply, Answer(m, reply),
           LogOK, LogOK', \A p \in Server : lastAppliedIndex'[p] >= lastAppliedIndex[p]
    PROVE  BodiesOK'
<1>1. \A x \in late' : BodyOK(x)
  BY DEF BodiesOK, Answer
<1>2. m.from \in Server /\ m.to \in Server
  BY RequestOK DEF MessageOK
<1>3. ASSUME NEW p \in Server, NEW q \in Server, call'[p][q] = call[p][q]
      PROVE  SenderOK(p, q)'
  <2>1. SenderOK(p, q)
    BY DEF BodiesOK
  <2>2. lastAppliedIndex[p] >= 0 => lastAppliedIndex'[p] >= 0
    <3>1. lastAppliedIndex[p] \in NatOrNone /\ lastAppliedIndex'[p] \in NatOrNone
      BY DEF LogOK
    <3>2. lastAppliedIndex'[p] >= lastAppliedIndex[p]
      OBVIOUS
    <3>3. QED
      BY <3>1, <3>2 DEF NatOrNone
  <2>3. QED
    BY <1>3, <2>1, <2>2 DEF SenderOK, BodyOK
<1>4. CASE call' = call
  BY <1>1, <1>3, <1>4 DEF BodiesOK, BodyOK
<1>5. CASE call' = [call EXCEPT ![m.from][m.to] = Replied(m, reply)]
  <2>1. /\ call'[m.from][m.to] = Replied(m, reply)
        /\ \A p, q \in Server : p # m.from \/ q # m.to => call'[p][q] = call[p][q]
    BY <1>2, <1>5 DEF ElectionInv, ElectionTypeOK
  <2>2. call'[m.from][m.to].args = m /\ call'[m.from][m.to].st = "replied"
    BY <2>1 DEF Replied
  <2>3. call'[m.from][m.to] # Spawned("InstallSnapshot")
    BY <2>2 DEF Spawned
  <2>4. SenderOK(m.from, m.to)'
    BY <2>2, <2>3, RequestBody DEF SenderOK, BodyOK
  <2>5. QED
    BY <1>1, <1>3, <2>1, <2>4 DEF BodiesOK, BodyOK
<1>6. QED
  BY <1>4, <1>5 DEF Answer

-----------------------------------------------------------------------------
(* Rounds and their goroutines.                                            *)

\* A sender gives up; its request may stay behind as a late one.
LEMMA TimeoutKeeps ==
    ASSUME ElectionInv, ElectionInv', ServiceInv,
           NEW i \in Server, NEW j \in Server, RPCTimeout(i, j)
    PROVE  ServiceInv'
<1>1. BodyOK(call[i][j].args)
  BY DEF ServiceInv, BodiesOK, SenderOK, RPCTimeout
<1>2. \A m \in late' : BodyOK(m)
  BY <1>1 DEF RPCTimeout, ServiceInv, BodiesOK
<1>3. BodiesOK'
  BY <1>2, FinishedSender DEF RPCTimeout, ServiceInv, logVars
<1>4. LogOK' /\ IndexOK'
  BY DEF ServiceInv, LogOK, IndexOK, RPCTimeout, logVars, applyVars, leaderVars
<1>5. QED
  BY <1>3, <1>4, SavedStep
     DEF RPCTimeout, electionVars, logVars, applyVars, ElectionInv

\* The sender goroutines up to their Call.
LEMMA CallKeeps ==
    ASSUME ElectionInv, ElectionInv', ServiceInv, NEW i \in Server, NEW j \in Server,
           \/ electionSenderCall(i, j)
           \/ appendRPCWorkerCall(i, j)
           \/ InstallSnapshotSenderCall(i, j)
    PROVE  ServiceInv'
<1>1. LogOK /\ IndexOK /\ BodiesOK
  BY DEF ServiceInv
<1>2. BodiesOK'
  <2>1. CASE electionSenderCall(i, j)
    <3> DEFINE m == RequestVoteArgs(i, j)
    <3>1. m.rpc = "RequestVote"
      BY DEF RequestVoteArgs
    <3>2. BodyOK(m)
      BY <3>1 DEF BodyOK
    <3> HIDE DEF m
    <3>3. QED
      BY <1>1, <2>1, <3>2, SendingSender DEF electionSenderCall, logVars, m
  <2>2. CASE appendRPCWorkerCall(i, j)
    <3> DEFINE m == AppendEntriesArgs(i, j)
               prev == nextIndex[i][j] - 1
    <3>1. CASE IsSendSnapshot(i, j) \/ ~ SameLeader(i)
      BY <1>1, <2>2, <3>1, SendingSender DEF appendRPCWorkerCall, logVars
    <3>2. CASE ~ IsSendSnapshot(i, j) /\ SameLeader(i)
      <4>1. prev \in NatOrNone /\ nextIndex[i][j] \in Nat
        BY <1>1 DEF IndexOK, NatOrNone
      <4>2. prev >= lastAppliedIndex[i]
        BY <1>1, <3>2, <4>1, LogBounds DEF IsSendSnapshot, NatOrNone
      <4>3. /\ m.rpc = "AppendEntries"
            /\ m.PrevLogIndex = prev
            /\ m.Entries = SubSeq(Log[i], prev - lastAppliedIndex[i] + 1, Len(Log[i]))
            /\ m.LeaderCommit = commitIndex[i]
        BY DEF AppendEntriesArgs
      <4>4. /\ prev - lastAppliedIndex[i] + 1 \in Int
            /\ prev - lastAppliedIndex[i] + 1 >= 1
            /\ Len(Log[i]) \in Nat
        BY <1>1, <4>1, <4>2, LogBounds DEF NatOrNone
      <4>5. m.Entries \in Seq(Entry)
        BY <1>1, <4>3, <4>4, SliceType DEF LogOK
      <4>6. commitIndex[i] \in NatOrNone
        BY <1>1 DEF IndexOK
      <4>7. BodyOK(m)
        BY <4>1, <4>3, <4>5, <4>6 DEF BodyOK
      <4> HIDE DEF m
      <4>8. QED
        BY <1>1, <2>2, <3>2, <4>7, SendingSender DEF appendRPCWorkerCall, logVars, m
    <3>3. QED
      BY <3>1, <3>2
  <2>3. CASE InstallSnapshotSenderCall(i, j)
    <3> DEFINE m == InstallSnapshotArgs(i, j)
    <3>1. m.rpc = "InstallSnapshot" /\ m.LastIncludedIndex = lastAppliedIndex[i]
          /\ m.LastIncludedTerm = lastAppliedTerm[i]
      BY DEF InstallSnapshotArgs
    <3>2. lastAppliedIndex[i] >= 0
      BY <1>1, <2>3 DEF InstallSnapshotSenderCall, BodiesOK, SenderOK
    <3>3. lastAppliedIndex[i] \in Nat /\ lastAppliedTerm[i] \in Nat
      BY <1>1, <3>2 DEF LogOK, NatOrNone
    <3>4. BodyOK(m)
      BY <3>1, <3>3 DEF BodyOK
    <3> HIDE DEF m
    <3>5. QED
      BY <1>1, <2>3, <3>4, SendingSender DEF InstallSnapshotSenderCall, logVars, m
  <2>4. QED
    BY <2>1, <2>2, <2>3
<1>3. UNCHANGED <<electionVars, logVars, applyVars, leaderVars, raftstate, serviceVars>>
  BY DEF electionSenderCall, appendRPCWorkerCall, InstallSnapshotSenderCall
<1>4. LogOK' /\ IndexOK'
  BY <1>1, <1>3 DEF LogOK, IndexOK, logVars, applyVars, leaderVars
<1>5. QED
  BY <1>2, <1>3, <1>4, SavedStep DEF electionVars, logVars, applyVars, ElectionInv

\* A new round: every goroutine is spawned, with InstallSnapshot only where
\* the log was cut.
LEMMA SpawnKeeps ==
    ASSUME ElectionInv, BodiesOK, NEW i \in Server, NEW f,
           call' = [call EXCEPT ![i] = [j \in Server |-> f[j]]],
           \A j \in Server : \/ f[j] = Finished
                             \/ \E r \in Rpc : /\ f[j] = Spawned(r)
                                               /\ r = "InstallSnapshot" => lastAppliedIndex[i] >= 0,
           lastAppliedIndex' = lastAppliedIndex, late' = late
    PROVE  BodiesOK'
<1>1. /\ \A p \in Server \ {i}, q \in Server : call'[p][q] = call[p][q]
      /\ \A q \in Server : call'[i][q] = f[q]
  BY DEF ElectionInv, ElectionTypeOK
<1>2. ASSUME NEW q \in Server PROVE SenderOK(i, q)'
  <2>1. CASE f[q] = Finished
    BY <1>1, <2>1 DEF SenderOK, Finished, Spawned
  <2>2. CASE \E r \in Rpc : /\ f[q] = Spawned(r)
                            /\ r = "InstallSnapshot" => lastAppliedIndex[i] >= 0
    <3>1. PICK r \in Rpc : /\ f[q] = Spawned(r)
                           /\ r = "InstallSnapshot" => lastAppliedIndex[i] >= 0
      BY <2>2
    <3>2. f[q].st = "spawned" /\ (f[q] = Spawned("InstallSnapshot") => r = "InstallSnapshot")
      BY <3>1 DEF Spawned
    <3>3. QED
      BY <1>1, <3>1, <3>2 DEF SenderOK
  <2>3. QED
    BY <2>1, <2>2
<1>3. ASSUME NEW p \in Server \ {i}, NEW q \in Server PROVE SenderOK(p, q)'
  BY <1>1 DEF BodiesOK, SenderOK
<1>4. QED
  BY <1>2, <1>3 DEF BodiesOK, BodyOK

\* startElection saves the new term with the vote for itself.
LEMMA StartElectionKeeps ==
    ASSUME ElectionInv, ElectionInv', ServiceInv, NEW i \in Server, startElection(i)
    PROVE  ServiceInv'
<1> DEFINE f == [j \in Server |-> IF j = i THEN Finished ELSE Spawned("RequestVote")]
<1>1. call' = [call EXCEPT ![i] = [j \in Server |-> f[j]]]
  BY DEF startElection
<1>2. ASSUME NEW j \in Server
      PROVE  \/ f[j] = Finished
             \/ \E r \in Rpc : /\ f[j] = Spawned(r)
                               /\ r = "InstallSnapshot" => lastAppliedIndex[i] >= 0
  BY DEF Rpc
<1> HIDE DEF f
<1>3. BodiesOK'
  BY <1>1, <1>2, SpawnKeeps DEF ServiceInv, startElection, logVars
<1>4. LogOK' /\ IndexOK'
  BY DEF ServiceInv, LogOK, IndexOK, startElection, logVars, applyVars, leaderVars
<1>5. \A p \in Server \ {i} : currentTerm'[p] = currentTerm[p] /\ voteFor'[p] = voteFor[p]
  BY DEF startElection, ElectionInv, ElectionTypeOK
<1>6. QED
  BY <1>3, <1>4, <1>5, SavedStep DEF startElection, logVars, applyVars, ElectionInv

\* sendAERpcs spawns InstallSnapshotSender where nextIndex is in what was cut.
LEMMA SendKeeps ==
    ASSUME ElectionInv, ElectionInv', ServiceInv, NEW i \in Server, sendAERpcs(i)
    PROVE  ServiceInv'
<1> DEFINE f == [j \in Server |-> IF j = i THEN Finished
                                  ELSE IF IsSendSnapshot(i, j) THEN Spawned("InstallSnapshot")
                                  ELSE Spawned("AppendEntries")]
<1>1. call' = [call EXCEPT ![i] = [j \in Server |-> f[j]]]
  BY DEF sendAERpcs
<1>2. LogOK /\ IndexOK
  BY DEF ServiceInv
<1>3. ASSUME NEW j \in Server
      PROVE  \/ f[j] = Finished
             \/ \E r \in Rpc : /\ f[j] = Spawned(r)
                               /\ r = "InstallSnapshot" => lastAppliedIndex[i] >= 0
  <2>1. IsSendSnapshot(i, j) => lastAppliedIndex[i] >= 0
    <3>1. nextIndex[i][j] \in Nat /\ lastAppliedIndex[i] \in NatOrNone
      BY <1>2 DEF IndexOK, LogOK
    <3>2. QED
      BY <3>1 DEF IsSendSnapshot, NatOrNone
  <2>2. QED
    BY <2>1 DEF Rpc
<1> HIDE DEF f
<1>4. BodiesOK'
  BY <1>1, <1>3, SpawnKeeps DEF ServiceInv, sendAERpcs, logVars
<1>5. LogOK' /\ IndexOK'
  BY <1>2 DEF LogOK, IndexOK, sendAERpcs, logVars, applyVars, leaderVars
<1>6. QED
  BY <1>4, <1>5, SavedStep DEF sendAERpcs, electionVars, logVars, applyVars, ElectionInv

\* A step that leaves the goroutines and what was cut alone.
LEMMA SendersKept ==
    ASSUME BodiesOK, UNCHANGED <<call, late, lastAppliedIndex>>
    PROVE  BodiesOK'
BY DEF BodiesOK, SenderOK, BodyOK

\* startElection ends: a new leader starts with nextIndex after its log.
LEMMA ElectionEndKeeps ==
    ASSUME ElectionInv, ElectionInv', ServiceInv, NEW i \in Server, startElectionEnd(i)
    PROVE  ServiceInv'
<1>1. LogOK /\ IndexOK /\ BodiesOK
  BY DEF ServiceInv
<1>2. UNCHANGED <<currentTerm, voteFor, logVars, applyVars, raftstate, call, late, serviceVars>>
  BY DEF startElectionEnd
<1>3. LogOK'
  BY <1>1, <1>2 DEF LogOK, logVars
<1>4. IndexOK'
  <2>1. LastLogIndex(i) + 1 \in Nat /\ LastLogIndex(i) \in NatOrNone
    BY <1>1, LogBounds DEF NatOrNone
  <2>2. NextIndexes(i) \in [Server -> Nat] /\ MatchIndexes(i) \in [Server -> NatOrNone]
    BY <2>1 DEF NextIndexes, MatchIndexes
  <2>3. /\ nextIndex' \in [Server -> [Server -> Nat]]
        /\ matchIndex' \in [Server -> [Server -> NatOrNone]]
    <3>1. CASE Majority(ticker[i].yes)
      BY <1>1, <2>2, <3>1 DEF startElectionEnd, IndexOK
    <3>2. CASE ~ Majority(ticker[i].yes)
      BY <1>1, <3>2 DEF startElectionEnd, IndexOK
    <3>3. QED
      BY <3>1, <3>2
  <2>4. QED
    BY <1>1, <1>2, <2>3 DEF IndexOK, applyVars
<1>5. BodiesOK'
  BY <1>1, <1>2, SendersKept DEF logVars
<1>6. QED
  BY <1>2, <1>3, <1>4, <1>5, SavedStep DEF logVars, applyVars, ElectionInv

\* What findMaxN returns is an index of the log, or commitIndex as it was.
LEMMA MaxNType ==
    ASSUME LogOK, IndexOK, NEW i \in Server
    PROVE  /\ findMaxN(i) \in NatOrNone
           /\ findMaxN(i) = commitIndex[i] \/ findMaxN(i) <= LastLogIndex(i)
<1>1. CASE Committable(i) = {}
  BY <1>1 DEF findMaxN, IndexOK
<1>2. CASE Committable(i) # {}
  <2>1. LastLogIndex(i) \in Int /\ lastAppliedIndex[i] \in NatOrNone
    BY LogBounds DEF NatOrNone
  <2>2. Committable(i) \in SUBSET Int
    BY <2>1 DEF Committable
  <2>3. \A m \in Committable(i) : m <= LastLogIndex(i) /\ m \in NatOrNone
    BY <2>1 DEF Committable, NatOrNone
  <2>4. \E n \in Committable(i) : \A m \in Committable(i) : m <= n
    BY <1>2, <2>1, <2>2, <2>3, GreatestInt
  <2>5. findMaxN(i) \in Committable(i)
    BY <1>2, <2>4 DEF findMaxN
  <2>6. QED
    BY <2>3, <2>5
<1>3. QED
  BY <1>1, <1>2

\* sendAERpcs ends: commitIndex becomes what findMaxN returns.
LEMMA SendEndKeeps ==
    ASSUME ElectionInv, ElectionInv', ServiceInv, NEW i \in Server, sendAERpcsEnd(i)
    PROVE  ServiceInv'
<1>1. LogOK /\ IndexOK /\ BodiesOK
  BY DEF ServiceInv
<1>2. UNCHANGED <<electionVars, logVars, lastApplied, leaderVars, raftstate, call, late,
                  serviceVars>>
  BY DEF sendAERpcsEnd
<1>3. LogOK'
  BY <1>1, <1>2 DEF LogOK, logVars
<1>4. IndexOK'
  <2>1. findMaxN(i) \in NatOrNone
    BY <1>1, MaxNType
  <2>2. commitIndex' \in [Server -> NatOrNone]
    <3>1. CASE Majority(ticker[i].yes)
      BY <1>1, <2>1, <3>1 DEF sendAERpcsEnd, IndexOK
    <3>2. CASE ~ Majority(ticker[i].yes)
      BY <1>1, <3>2 DEF sendAERpcsEnd, IndexOK
    <3>3. QED
      BY <3>1, <3>2
  <2>3. QED
    BY <1>1, <1>2, <2>2 DEF IndexOK, leaderVars
<1>5. BodiesOK'
  BY <1>1, <1>2, SendersKept DEF logVars
<1>6. QED
  BY <1>2, <1>3, <1>4, <1>5, SavedStep DEF electionVars, logVars, ElectionInv

\* electionSender reads its reply: a newer term is saved at once.
LEMMA ElectionReplyKeeps ==
    ASSUME ElectionInv, ElectionInv', ServiceInv, NEW i \in Server, NEW j \in Server,
           electionSenderReply(i, j)
    PROVE  ServiceInv'
<1> DEFINE r == call[i][j].reply
           newer == currentTerm[i] = ticker[i].term /\ r.Term > currentTerm[i]
<1>1. LogOK /\ IndexOK /\ BodiesOK
  BY DEF ServiceInv
<1>2. /\ UNCHANGED <<logVars, applyVars, leaderVars, late, serviceVars>>
      /\ Finish(i, j)
      /\ currentTerm' = [currentTerm EXCEPT ![i] = IF newer THEN r.Term ELSE @]
      /\ voteFor' = [voteFor EXCEPT ![i] = IF newer THEN Nil ELSE @]
      /\ IF newer THEN persist(i) ELSE UNCHANGED raftstate
  BY DEF electionSenderReply
<1> HIDE DEF r, newer
<1>3. LogOK' /\ IndexOK'
  BY <1>1, <1>2 DEF LogOK, IndexOK, logVars, applyVars, leaderVars
<1>4. BodiesOK'
  BY <1>1, <1>2, FinishedSender DEF logVars, BodiesOK
<1>5. /\ \A p \in Server \ {i} : currentTerm'[p] = currentTerm[p] /\ voteFor'[p] = voteFor[p]
      /\ ~ newer => currentTerm'[i] = currentTerm[i] /\ voteFor'[i] = voteFor[i]
  BY <1>2 DEF ElectionInv, ElectionTypeOK
<1>6. QED
  BY <1>2, <1>3, <1>4, <1>5, SavedStep DEF logVars, applyVars, ElectionInv

\* A leader reads a reply: it steps down and saves the newer term, or keeps
\* term and vote.
LEMMA LeaderReplyKeeps ==
    ASSUME ElectionInv, ElectionInv', ServiceInv, NEW i \in Server, NEW j \in Server,
           NEW term,
           UNCHANGED <<logVars, applyVars, late, serviceVars>>, Finish(i, j), IndexOK',
           \/ StepDown(i, term) /\ persist(i)
           \/ UNCHANGED <<electionVars, raftstate>>
    PROVE  ServiceInv'
<1>1. LogOK /\ IndexOK /\ BodiesOK
  BY DEF ServiceInv
<1>2. LogOK'
  BY <1>1 DEF LogOK, logVars
<1>3. BodiesOK'
  BY <1>1, FinishedSender DEF logVars, BodiesOK
<1>4. /\ \A p \in Server \ {i} : currentTerm'[p] = currentTerm[p] /\ voteFor'[p] = voteFor[p]
      /\ \/ persist(i)
         \/ UNCHANGED <<currentTerm, voteFor, raftstate>>
  BY DEF StepDown, electionVars, ElectionInv, ElectionTypeOK
<1>5. QED
  BY <1>2, <1>3, <1>4, SavedStep DEF logVars, applyVars, ElectionInv

\* appendRPCWorker reads its reply: nextIndex advances by what was sent, or is
\* taken back, and never below 0.
LEMMA AppendReplyKeeps ==
    ASSUME ElectionInv, ElectionInv', ServiceInv, NEW i \in Server, NEW j \in Server,
           appendRPCWorkerReply(i, j)
    PROVE  ServiceInv'
<1> DEFINE r == call[i][j].reply
           use == SameLeader(i) /\ r.Term <= currentTerm[i]
<1>1. LogOK /\ IndexOK /\ BodiesOK
  BY DEF ServiceInv
<1>2. /\ UNCHANGED <<logVars, applyVars, late, serviceVars>>
      /\ Finish(i, j)
      /\ nextIndex' = [nextIndex EXCEPT ![i][j] =
                         IF ~ use THEN @
                         ELSE IF r.Success THEN Advance(i, j) ELSE BackUp(i, j)]
      /\ matchIndex' = [matchIndex EXCEPT ![i][j] =
                          IF use /\ r.Success THEN Advance(i, j) - 1 ELSE @]
      /\ IF SameLeader(i) /\ ~ use
         THEN StepDown(i, r.Term) /\ persist(i)
         ELSE UNCHANGED <<electionVars, raftstate>>
      /\ call[i][j].args.rpc = "AppendEntries"
      /\ call[i][j].st = "replied"
  BY DEF appendRPCWorkerReply, Waits
<1>3. nextIndex[i][j] \in Nat /\ lastApplied[i] \in NatOrNone /\ matchIndex[i][j] \in NatOrNone
  BY <1>1 DEF IndexOK
<1>4. Advance(i, j) \in Nat /\ Advance(i, j) - 1 \in NatOrNone
  <2>1. call[i][j].args.Entries \in Seq(Entry)
    BY <1>1, <1>2 DEF BodiesOK, SenderOK, BodyOK
  <2>2. Len(call[i][j].args.Entries) \in Nat
    BY <2>1
  <2>3. Advance(i, j) \in Nat
    BY <1>3, <2>2 DEF Advance
  <2>4. QED
    BY <2>3 DEF NatOrNone
<1>5. BackUp(i, j) \in Nat
  <2>1. lastApplied[i] + 1 \in Nat /\ nextIndex[i][j] \div 2 \in Nat
    BY <1>3 DEF NatOrNone
  <2>2. QED
    BY <2>1 DEF BackUp, Minimum
<1> HIDE DEF r, use
<1>6. IndexOK'
  <2>1. nextIndex' \in [Server -> [Server -> Nat]]
    BY <1>1, <1>2, <1>3, <1>4, <1>5 DEF IndexOK
  <2>2. matchIndex' \in [Server -> [Server -> NatOrNone]]
    BY <1>1, <1>2, <1>3, <1>4 DEF IndexOK
  <2>3. QED
    BY <1>1, <1>2, <2>1, <2>2 DEF IndexOK, applyVars
<1>7. QED
  <2>1. \/ StepDown(i, r.Term) /\ persist(i)
        \/ UNCHANGED <<electionVars, raftstate>>
    BY <1>2, Zenon
  <2>2. QED
    BY <1>2, <1>6, <2>1, LeaderReplyKeeps

\* InstallSnapshotSender reads its reply.
LEMMA SnapshotReplyKeeps ==
    ASSUME ElectionInv, ElectionInv', ServiceInv, NEW i \in Server, NEW j \in Server,
           InstallSnapshotSenderReply(i, j)
    PROVE  ServiceInv'
<1> DEFINE newer == call[i][j].reply.Term > currentTerm[i]
<1>1. LogOK /\ IndexOK
  BY DEF ServiceInv
<1>2. /\ UNCHANGED <<logVars, applyVars, late, serviceVars>>
      /\ Finish(i, j)
      /\ nextIndex' = [nextIndex EXCEPT ![i][j] =
                         IF newer THEN @ ELSE lastAppliedIndex[i] + 1]
      /\ matchIndex' = [matchIndex EXCEPT ![i][j] =
                          IF newer THEN @ ELSE lastAppliedIndex[i]]
      /\ IF newer THEN StepDown(i, call[i][j].reply.Term) /\ persist(i)
         ELSE UNCHANGED <<electionVars, raftstate>>
  BY DEF InstallSnapshotSenderReply
<1>3. lastAppliedIndex[i] \in NatOrNone /\ lastAppliedIndex[i] + 1 \in Nat
  BY <1>1 DEF LogOK, NatOrNone
<1> HIDE DEF newer
<1>4. IndexOK'
  <2>1. nextIndex' \in [Server -> [Server -> Nat]]
    BY <1>1, <1>2, <1>3 DEF IndexOK
  <2>2. matchIndex' \in [Server -> [Server -> NatOrNone]]
    BY <1>1, <1>2, <1>3 DEF IndexOK
  <2>3. QED
    BY <1>1, <1>2, <2>1, <2>2 DEF IndexOK, applyVars
<1>5. QED
  BY <1>2, <1>4, LeaderReplyKeeps

-----------------------------------------------------------------------------
(* Handlers and Start.                                                     *)

\* What was cut stays cut.
LEMMA CutKept ==
    ASSUME LogOK, lastAppliedIndex' = lastAppliedIndex
    PROVE  \A p \in Server : lastAppliedIndex'[p] >= lastAppliedIndex[p]
<1> SUFFICES ASSUME NEW p \in Server PROVE lastAppliedIndex[p] >= lastAppliedIndex[p]
  OBVIOUS
<1>1. lastAppliedIndex[p] \in NatOrNone
  BY DEF LogOK
<1>2. QED
  BY <1>1 DEF NatOrNone

\* RequestVote saves a new term and a new vote.
LEMMA RequestVoteKeeps ==
    ASSUME ElectionInv, ElectionInv', ServiceInv, NEW m \in Requests, RequestVote(m)
    PROVE  ServiceInv'
<1> DEFINE j == m.to
           newer == m.Term > currentTerm[j]
<1>1. LogOK /\ IndexOK /\ BodiesOK
  BY DEF ServiceInv
<1>2. j \in Server
  BY RequestOK DEF MessageOK
<1>3. /\ UNCHANGED <<logVars, applyVars, leaderVars, serviceVars>>
      /\ Answer(m, [Term |-> currentTerm[j], VoteGranted |-> VoteGranted(m)])
      /\ currentTerm' = [currentTerm EXCEPT ![j] = IF newer THEN m.Term ELSE @]
      /\ voteFor' = [voteFor EXCEPT ![j] = IF VoteGranted(m) THEN m.from ELSE VoteBefore(m)]
      /\ IF VoteSaves(m) THEN persist(j) ELSE UNCHANGED raftstate
  BY DEF RequestVote
<1>4. LogOK' /\ IndexOK'
  BY <1>1, <1>3 DEF LogOK, IndexOK, logVars, applyVars, leaderVars
<1>5. \A p \in Server : lastAppliedIndex'[p] >= lastAppliedIndex[p]
  BY <1>1, <1>3, CutKept DEF logVars
<1>6. BodiesOK'
  BY <1>1, <1>3, <1>4, <1>5, AnsweredSender
<1>7. \A p \in Server \ {j} : currentTerm'[p] = currentTerm[p] /\ voteFor'[p] = voteFor[p]
  BY <1>2, <1>3 DEF ElectionInv, ElectionTypeOK
<1>8. CASE VoteSaves(m)
  BY <1>2, <1>3, <1>4, <1>6, <1>7, <1>8, SavedStep DEF logVars, applyVars, ElectionInv
<1>9. CASE ~ VoteSaves(m)
  <2>1. ~ newer /\ ~ VoteGranted(m) /\ VoteBefore(m) = voteFor[j]
    BY <1>9 DEF VoteSaves, VoteBefore
  <2>2. currentTerm'[j] = currentTerm[j] /\ voteFor'[j] = voteFor[j] /\ raftstate' = raftstate
    BY <1>2, <1>3, <1>9, <2>1 DEF ElectionInv, ElectionTypeOK
  <2>3. QED
    BY <1>2, <1>3, <1>4, <1>6, <1>7, <2>2, SavedStep DEF logVars, applyVars, ElectionInv
<1>10. QED
  BY <1>8, <1>9

\* The start of AppendEntries and InstallSnapshot touches only the peer that
\* runs the handler, and where it does not save there is nothing to save.
LEMMA FollowKeeps ==
    ASSUME ElectionInv, NEW m \in Requests, FollowLeader(m)
    PROVE  /\ m.to \in Server
           /\ \A p \in Server \ {m.to} :
                 currentTerm'[p] = currentTerm[p] /\ voteFor'[p] = voteFor[p]
           /\ FollowSaves(m) =>
                 currentTerm'[m.to] = m.Term /\ voteFor'[m.to] = m.from
           /\ ~ FollowSaves(m) =>
                 currentTerm'[m.to] = currentTerm[m.to] /\ voteFor'[m.to] = voteFor[m.to]
<1>1. m.to \in Server /\ m.Term \in Nat
  BY RequestOK DEF MessageOK
<1>2. currentTerm[m.to] \in Nat /\ ElectionTypeOK
  BY <1>1 DEF ElectionInv, ElectionTypeOK
<1>3. CASE Admitted(m)
  <2>1. /\ currentTerm' = [currentTerm EXCEPT ![m.to] = m.Term]
        /\ voteFor' = [voteFor EXCEPT ![m.to] = m.from]
    BY <1>3 DEF FollowLeader
  <2>2. ~ FollowSaves(m) => m.Term = currentTerm[m.to] /\ m.from = voteFor[m.to]
    BY <1>1, <1>2, <1>3 DEF FollowSaves, Admitted
  <2>3. QED
    BY <1>1, <1>2, <2>1, <2>2 DEF ElectionTypeOK
<1>4. CASE ~ Admitted(m)
  BY <1>1, <1>4 DEF FollowLeader, FollowSaves, electionVars
<1>5. QED
  BY <1>3, <1>4

\* What AppendEntries makes of the log and of commitIndex.
LEMMA AppendedLog ==
    ASSUME LogOK, IndexOK, NEW m, m.to \in Server, BodyOK(m), m.rpc = "AppendEntries",
           ~ HandlerPanics(m)
    PROVE  LogAfter(m) \in Seq(Entry) /\ CommitAfter(m) \in NatOrNone
<1> DEFINE j == m.to
           k == m.PrevLogIndex - lastAppliedIndex[j]
<1>1. /\ m.PrevLogIndex \in NatOrNone /\ m.Entries \in Seq(Entry)
      /\ m.LeaderCommit \in NatOrNone
  BY DEF BodyOK
<1>2. /\ Len(Log[j]) \in Nat /\ Log[j] \in Seq(Entry)
      /\ lastAppliedIndex[j] \in NatOrNone /\ commitIndex[j] \in NatOrNone
      /\ LastLogIndex(j) = Len(Log[j]) + lastAppliedIndex[j]
  BY LogBounds DEF LogOK, IndexOK
<1>3. PrevInRange(m) => k \in 0 .. Len(Log[j])
  BY <1>1, <1>2 DEF PrevInRange, NatOrNone
<1>4. k \in Int
  BY <1>1, <1>2 DEF NatOrNone
<1>5. LogAfter(m) \in Seq(Entry)
  <2>1. CASE Conflict(m)
    <3>1. LogAfter(m) = SubSeq(Log[j], 1, k - 1)
      BY <2>1 DEF LogAfter
    <3>2. k \in 0 .. Len(Log[j])
      BY <1>3, <2>1 DEF Conflict
    <3>3. QED
      BY <1>2, <3>1, <3>2, SliceType
  <2>2. CASE ~ Conflict(m) /\ Success(m) /\ m.Entries # <<>>
    <3>1. LogAfter(m) = SubSeq(Log[j], 1, k) \o m.Entries
      BY <2>2 DEF LogAfter
    <3>2. k \in 0 .. Len(Log[j])
      BY <1>3, <2>2 DEF Success
    <3>3. SubSeq(Log[j], 1, k) \in Seq(Entry)
      BY <1>2, <3>2, SliceType
    <3>4. QED
      BY <1>1, <3>1, <3>3, ConcatProperties
  <2>3. CASE ~ Conflict(m) /\ ~ (Success(m) /\ m.Entries # <<>>)
    BY <1>2, <2>3 DEF LogAfter
  <2>4. QED
    BY <2>1, <2>2, <2>3
<1>6. CommitAfter(m) \in NatOrNone
  <2>1. Len(LogAfter(m)) \in Nat
    BY <1>5
  <2>2. Len(LogAfter(m)) + lastAppliedIndex[j] \in NatOrNone
    BY <1>2, <2>1 DEF NatOrNone
  <2>3. QED
    BY <1>1, <1>2, <2>2 DEF CommitAfter, Minimum
<1>7. QED
  BY <1>5, <1>6

\* AppendEntries saves a new term, vote or log.
LEMMA AppendEntriesKeeps ==
    ASSUME ElectionInv, ElectionInv', ServiceInv, NEW m \in Requests, AppendEntries(m)
    PROVE  ServiceInv'
<1> DEFINE j == m.to
<1>1. LogOK /\ IndexOK /\ BodiesOK
  BY DEF ServiceInv
<1>2. j \in Server
  BY RequestOK DEF MessageOK
<1>3. /\ UNCHANGED <<lastAppliedIndex, lastAppliedTerm, lastApplied, leaderVars, serviceVars>>
      /\ m.rpc = "AppendEntries"
      /\ ~ HandlerPanics(m)
      /\ Answer(m, [Term |-> currentTerm[j], Success |-> Success(m)])
      /\ FollowLeader(m)
      /\ Log' = [Log EXCEPT ![j] = LogAfter(m)]
      /\ commitIndex' = [commitIndex EXCEPT ![j] = CommitAfter(m)]
      /\ IF AppendSaves(m) THEN persist(j) ELSE UNCHANGED raftstate
  BY DEF AppendEntries
<1>4. LogAfter(m) \in Seq(Entry) /\ CommitAfter(m) \in NatOrNone
  BY <1>1, <1>2, <1>3, RequestBody, AppendedLog
<1>5. LogOK' /\ IndexOK'
  BY <1>1, <1>2, <1>3, <1>4 DEF LogOK, IndexOK, leaderVars
<1>6. \A p \in Server : lastAppliedIndex'[p] >= lastAppliedIndex[p]
  BY <1>1, <1>3, CutKept
<1>7. BodiesOK'
  BY <1>1, <1>3, <1>5, <1>6, AnsweredSender
<1>8. \A p \in Server \ {j} : /\ currentTerm'[p] = currentTerm[p]
                              /\ voteFor'[p] = voteFor[p]
                              /\ Log'[p] = Log[p]
  BY <1>1, <1>2, <1>3, FollowKeeps DEF LogOK
<1>9. CASE AppendSaves(m)
  BY <1>2, <1>3, <1>5, <1>7, <1>8, <1>9, SavedStep DEF ElectionInv
<1>10. CASE ~ AppendSaves(m)
  <2>1. ~ FollowSaves(m) /\ LogAfter(m) = Log[j]
    BY <1>10 DEF AppendSaves, LogAfter
  <2>2. /\ currentTerm'[j] = currentTerm[j] /\ voteFor'[j] = voteFor[j]
        /\ Log'[j] = Log[j] /\ raftstate' = raftstate
    BY <1>1, <1>2, <1>3, <1>10, <2>1, FollowKeeps DEF LogOK
  <2>3. QED
    BY <1>2, <1>3, <1>5, <1>7, <1>8, <2>2, SavedStep DEF ElectionInv
<1>11. QED
  BY <1>9, <1>10

\* Start saves the log with the new entry.
LEMMA StartKeeps ==
    ASSUME ElectionInv, ElectionInv', ServiceInv, NEW i \in Server, NEW c \in Command,
           Start(i, c)
    PROVE  ServiceInv'
<1> DEFINE e == [Term |-> currentTerm[i], Command |-> c]
<1>1. LogOK /\ IndexOK /\ BodiesOK
  BY DEF ServiceInv
<1>2. e \in Entry
  BY DEF Entry, ElectionInv, ElectionTypeOK
<1> HIDE DEF e
<1>3. Append(Log[i], e) \in Seq(Entry)
  BY <1>1, <1>2 DEF LogOK
<1>4. /\ Log' = [Log EXCEPT ![i] = Append(Log[i], e)]
      /\ UNCHANGED <<electionVars, lastAppliedIndex, lastAppliedTerm, applyVars, leaderVars,
                     call, late, serviceVars>>
      /\ persist(i)
  BY DEF Start, e
<1>5. LogOK' /\ IndexOK'
  BY <1>1, <1>3, <1>4 DEF LogOK, IndexOK, applyVars, leaderVars
<1>6. BodiesOK'
  BY <1>1, <1>4, SendersKept
<1>7. \A p \in Server \ {i} : Log'[p] = Log[p]
  BY <1>1, <1>4 DEF LogOK
<1>8. QED
  BY <1>4, <1>5, <1>6, <1>7, SavedStep DEF electionVars, applyVars, ElectionInv

-----------------------------------------------------------------------------
(* Snapshots and the service.                                              *)

\* What InstallSnapshot makes of the log: it moves lastAppliedIndex forward to
\* the snapshot, or changes nothing.
LEMMA InstalledLog ==
    ASSUME ElectionInv, LogOK, IndexOK, NEW m \in Requests, BodyOK(m),
           m.rpc = "InstallSnapshot", InstallLog(m)
    PROVE  /\ LogOK'
           /\ lastApplied' \in [Server -> NatOrNone]
           /\ \A p \in Server : lastAppliedIndex'[p] >= lastAppliedIndex[p]
           /\ \A p \in Server \ {m.to} : /\ Log'[p] = Log[p]
                                         /\ lastAppliedIndex'[p] = lastAppliedIndex[p]
                                         /\ lastAppliedTerm'[p] = lastAppliedTerm[p]
                                         /\ lastApplied'[p] = lastApplied[p]
           /\ Covers(m) \/ Ahead(m) => lastAppliedIndex'[m.to] = m.LastIncludedIndex
           /\ ~ (Covers(m) \/ Ahead(m)) =>
                 UNCHANGED <<Log, lastAppliedIndex, lastAppliedTerm, lastApplied>>
<1> DEFINE j == m.to
           n == m.LastIncludedIndex
<1>1. j \in Server /\ n \in Nat /\ m.LastIncludedTerm \in Nat /\ n \in NatOrNone
  BY RequestOK DEF MessageOK, BodyOK, NatOrNone
<1>2. /\ Len(Log[j]) \in Nat /\ Log[j] \in Seq(Entry)
      /\ lastAppliedIndex[j] \in NatOrNone
      /\ LastLogIndex(j) = Len(Log[j]) + lastAppliedIndex[j]
      /\ lastAppliedIndex[j] <= LastLogIndex(j)
  BY <1>1, LogBounds DEF LogOK
<1>3. \A p \in Server : lastAppliedIndex[p] \in Int
  BY DEF LogOK, NatOrNone
<1>4. CASE Covers(m)
  <2>1. /\ Log' = [Log EXCEPT ![j] = <<>>]
        /\ lastAppliedIndex' = [lastAppliedIndex EXCEPT ![j] = n]
        /\ lastAppliedTerm' = [lastAppliedTerm EXCEPT ![j] = m.LastIncludedTerm]
        /\ lastApplied' = [lastApplied EXCEPT ![j] = @]
    BY <1>4 DEF InstallLog
  <2>2. n >= lastAppliedIndex[j]
    BY <1>1, <1>2, <1>4 DEF Covers, NatOrNone
  <2>3. <<>> \in Seq(Entry)
    OBVIOUS
  <2>4. LogOK'
    BY <1>1, <2>1, <2>3 DEF LogOK
  <2>5. /\ lastApplied' \in [Server -> NatOrNone]
        /\ \A p \in Server \ {j} : lastApplied'[p] = lastApplied[p]
    BY <1>1, <2>1 DEF IndexOK
  <2>6. /\ \A p \in Server \ {j} : /\ Log'[p] = Log[p]
                                   /\ lastAppliedIndex'[p] = lastAppliedIndex[p]
                                   /\ lastAppliedTerm'[p] = lastAppliedTerm[p]
        /\ lastAppliedIndex'[j] = n
    BY <1>1, <2>1 DEF LogOK
  <2>7. \A p \in Server : lastAppliedIndex'[p] >= lastAppliedIndex[p]
    BY <1>3, <2>2, <2>6
  <2>8. QED
    BY <1>4, <2>4, <2>5, <2>6, <2>7
<1>5. CASE ~ Covers(m) /\ Ahead(m)
  <2> DEFINE rest == SubSeq(Log[j], n - lastAppliedIndex[j] + 1, Len(Log[j]))
  <2>1. /\ Log' = [Log EXCEPT ![j] = rest]
        /\ lastAppliedIndex' = [lastAppliedIndex EXCEPT ![j] = n]
        /\ lastAppliedTerm' = [lastAppliedTerm EXCEPT ![j] = m.LastIncludedTerm]
        /\ lastApplied' = [lastApplied EXCEPT ![j] = n]
    BY <1>5 DEF InstallLog
  <2>2. n > lastAppliedIndex[j]
    BY <1>5 DEF Ahead
  <2>3. rest \in Seq(Entry)
    <3>1. n - lastAppliedIndex[j] + 1 \in Int /\ n - lastAppliedIndex[j] + 1 >= 1
      BY <1>1, <1>2, <2>2 DEF NatOrNone
    <3>2. QED
      BY <1>2, <3>1, SliceType
  <2> HIDE DEF rest
  <2>4. LogOK'
    BY <1>1, <2>1, <2>3 DEF LogOK
  <2>5. /\ lastApplied' \in [Server -> NatOrNone]
        /\ \A p \in Server \ {j} : lastApplied'[p] = lastApplied[p]
    BY <1>1, <2>1 DEF IndexOK
  <2>6. /\ \A p \in Server \ {j} : /\ Log'[p] = Log[p]
                                   /\ lastAppliedIndex'[p] = lastAppliedIndex[p]
                                   /\ lastAppliedTerm'[p] = lastAppliedTerm[p]
        /\ lastAppliedIndex'[j] = n
    BY <1>1, <2>1 DEF LogOK
  <2>7. \A p \in Server : lastAppliedIndex'[p] >= lastAppliedIndex[p]
    BY <1>1, <1>3, <2>2, <2>6
  <2>8. QED
    BY <1>5, <2>4, <2>5, <2>6, <2>7
<1>6. CASE ~ (Covers(m) \/ Ahead(m))
  <2>1. UNCHANGED <<Log, lastAppliedIndex, lastAppliedTerm, lastApplied>>
    BY <1>1, <1>6 DEF InstallLog, LogOK, IndexOK
  <2>2. LogOK' /\ lastApplied' \in [Server -> NatOrNone]
    BY <2>1 DEF LogOK, IndexOK
  <2>3. QED
    BY <1>6, <2>1, <2>2, CutKept
<1>7. QED
  BY <1>4, <1>5, <1>6

\* InstallSnapshot leaves the log it changed unsaved, but with a doSnapshot
\* that is due for it.
LEMMA InstallSnapshotKeeps ==
    ASSUME ElectionInv, ElectionInv', ServiceInv, NEW m \in Requests, InstallSnapshot(m)
    PROVE  ServiceInv'
<1> DEFINE j == m.to
           due == [index |-> m.LastIncludedIndex, value |-> m.Data]
           half == [RaftState(j) EXCEPT !.currentTerm = m.Term, !.voteFor = m.from]
<1>1. LogOK /\ IndexOK /\ BodiesOK /\ DeliveryOK /\ raftstate \in [Server -> Disk]
  BY DEF ServiceInv
<1>2. j \in Server /\ m.from \in Server /\ m.Term \in Nat
  BY RequestOK DEF MessageOK
<1>3. /\ UNCHANGED <<commitIndex, leaderVars, next, logs>>
      /\ m.rpc = "InstallSnapshot"
      /\ Answer(m, [Term |-> currentTerm[j]])
      /\ FollowLeader(m)
      /\ InstallLog(m)
      /\ snapReq' = [snapReq EXCEPT ![j] = IF Admitted(m) THEN @ \cup {due} ELSE @]
      /\ raftstate' = [raftstate EXCEPT ![j] = IF FollowSaves(m) THEN half ELSE @]
  BY DEF InstallSnapshot
<1>4. BodyOK(m) /\ m.LastIncludedIndex \in Nat
  BY <1>1, <1>3, RequestBody DEF BodyOK
<1>5. /\ LogOK'
      /\ lastApplied' \in [Server -> NatOrNone]
      /\ \A p \in Server : lastAppliedIndex'[p] >= lastAppliedIndex[p]
      /\ \A p \in Server \ {j} : /\ Log'[p] = Log[p]
                                 /\ lastAppliedIndex'[p] = lastAppliedIndex[p]
                                 /\ lastAppliedTerm'[p] = lastAppliedTerm[p]
                                 /\ lastApplied'[p] = lastApplied[p]
      /\ Covers(m) \/ Ahead(m) => lastAppliedIndex'[j] = m.LastIncludedIndex
      /\ ~ (Covers(m) \/ Ahead(m)) =>
            UNCHANGED <<Log, lastAppliedIndex, lastAppliedTerm, lastApplied>>
  BY <1>1, <1>3, <1>4, InstalledLog
<1>6. IndexOK'
  BY <1>1, <1>3, <1>5 DEF IndexOK, leaderVars
<1>7. BodiesOK'
  BY <1>1, <1>3, <1>5, AnsweredSender
<1>8. due.index = m.LastIncludedIndex
  OBVIOUS
<1> HIDE DEF due
<1>9. /\ \A p \in Server \ {j} : snapReq'[p] = snapReq[p]
      /\ snapReq'[j] = IF Admitted(m) THEN snapReq[j] \cup {due} ELSE snapReq[j]
      /\ DOMAIN snapReq' = Server
  BY <1>1, <1>2, <1>3 DEF DeliveryOK
<1>10. DeliveryOK'
  BY <1>1, <1>3, <1>4, <1>8, <1>9 DEF DeliveryOK
<1>11. half \in Disk /\ raftstate' \in [Server -> Disk]
  <2>1. RaftState(j) \in Disk
    BY <1>1, <1>2 DEF RaftState, Disk, LogOK, ElectionInv, ElectionTypeOK
  <2>2. half \in Disk
    BY <1>2, <2>1 DEF Disk, Vote
  <2> HIDE DEF half
  <2>3. raftstate' \in [Server -> Disk]
    BY <1>1, <1>3, <2>2
  <2>4. QED
    BY <2>2, <2>3
<1>12. /\ \A p \in Server \ {j} : raftstate'[p] = raftstate[p]
       /\ raftstate'[j] = IF FollowSaves(m) THEN half ELSE raftstate[j]
  BY <1>1, <1>2, <1>3
<1>13. ASSUME NEW p \in Server PROVE DurableAt(p)' /\ InStepAt(p)'
  <2>1. CASE p # j
    BY <1>3, <1>5, <1>9, <1>12, <2>1, FollowKeeps, PeerKept DEF ServiceInv
  <2>2. CASE p = j /\ (Covers(m) \/ Ahead(m))
    <3>1. due \in snapReq'[j]
      BY <1>9, <2>2 DEF Covers, Ahead
    <3>2. Installing(j)'
      BY <1>5, <1>8, <2>2, <3>1 DEF Installing
    <3>3. QED
      BY <2>2, <3>2 DEF DurableAt, InStepAt
  <2>3. CASE p = j /\ ~ (Covers(m) \/ Ahead(m))
    <3>1. UNCHANGED <<Log, lastAppliedIndex, lastAppliedTerm, lastApplied>>
      BY <1>5, <2>3
    <3>2. Installing(j) => Installing(j)'
      BY <1>9, <3>1 DEF Installing
    <3>3. InStepAt(j)'
      BY <1>2, <1>3, <3>1, <3>2 DEF ServiceInv, InStepAt
    <3>4. CASE FollowSaves(m)
      <4>1. currentTerm'[j] = m.Term /\ voteFor'[j] = m.from
        BY <1>3, <3>4, FollowKeeps
      <4>2. half = RaftState(j)'
        <5>1. RaftState(j)' = [currentTerm |-> m.Term, voteFor |-> m.from, Log |-> Log[j],
                               lastAppliedIndex |-> lastAppliedIndex[j],
                               lastAppliedTerm |-> lastAppliedTerm[j]]
          BY <3>1, <4>1 DEF RaftState
        <5>2. /\ half.currentTerm = m.Term /\ half.voteFor = m.from /\ half.Log = Log[j]
              /\ half.lastAppliedIndex = lastAppliedIndex[j]
              /\ half.lastAppliedTerm = lastAppliedTerm[j]
          BY DEF RaftState
        <5>3. half = [currentTerm |-> half.currentTerm, voteFor |-> half.voteFor,
                      Log |-> half.Log, lastAppliedIndex |-> half.lastAppliedIndex,
                      lastAppliedTerm |-> half.lastAppliedTerm]
          BY <1>11, DiskFields
        <5>4. QED
          BY <5>1, <5>2, <5>3, Zenon
      <4>3. QED
        BY <1>12, <2>3, <3>3, <3>4, <4>2 DEF DurableAt
    <3>5. CASE ~ FollowSaves(m)
      <4>1. currentTerm'[j] = currentTerm[j] /\ voteFor'[j] = voteFor[j]
        BY <1>3, <3>5, FollowKeeps
      <4>2. RaftState(j)' = RaftState(j)
        BY <3>1, <4>1 DEF RaftState
      <4>3. DurableAt(j)
        BY <1>2 DEF ServiceInv
      <4>4. QED
        BY <1>12, <2>3, <3>2, <3>3, <3>5, <4>2, <4>3 DEF DurableAt
    <3>6. QED
      BY <3>4, <3>5
  <2>4. QED
    BY <2>1, <2>2, <2>3
<1>14. QED
  BY <1>5, <1>6, <1>7, <1>10, <1>11, <1>13 DEF ServiceInv

\* doSnapshot saves what it cuts and moves ApplyMsgSender past the snapshot, or
\* drops a snapshot that is older than what was cut.
LEMMA DoSnapshotKeeps ==
    ASSUME ElectionInv, ElectionInv', ServiceInv, NEW i \in Server, NEW r \in snapReq[i],
           doSnapshot(i, r)
    PROVE  ServiceInv'
<1> DEFINE cut == r.index - lastAppliedIndex[i]
<1>1. LogOK /\ IndexOK /\ BodiesOK /\ DeliveryOK /\ raftstate \in [Server -> Disk]
  BY DEF ServiceInv
<1>2. r.index \in Nat /\ r.index \in NatOrNone /\ r.index + 1 \in Nat
  BY <1>1 DEF DeliveryOK, NatOrNone
<1>3. /\ Len(Log[i]) \in Nat /\ Log[i] \in Seq(Entry)
      /\ lastAppliedIndex[i] \in NatOrNone
      /\ LastLogIndex(i) = Len(Log[i]) + lastAppliedIndex[i]
      /\ \A k \in 1 .. Len(Log[i]) : Log[i][k] \in Entry
  BY <1>1, LogBounds DEF LogOK
<1>4. /\ snapReq' = [snapReq EXCEPT ![i] = @ \ {r}]
      /\ ~ doSnapshotPanics(i, r)
      /\ UNCHANGED <<electionVars, commitIndex, leaderVars, call, late>>
  BY DEF doSnapshot
<1>5. cut \in Int
  BY <1>2, <1>3 DEF NatOrNone
<1>6. /\ DOMAIN snapReq' = Server
      /\ \A p \in Server \ {i} : snapReq'[p] = snapReq[p]
      /\ snapReq'[i] = snapReq[i] \ {r}
  BY <1>1, <1>4 DEF DeliveryOK
<1>7. CASE cut < 0
  <2>1. UNCHANGED <<logVars, lastApplied, raftstate, next, logs>>
    BY <1>7 DEF doSnapshot
  <2>2. LogOK' /\ IndexOK' /\ DeliveryOK'
    BY <1>1, <1>4, <1>6, <2>1 DEF LogOK, IndexOK, DeliveryOK, logVars, leaderVars
  <2>3. BodiesOK'
    BY <1>1, <1>4, <2>1, SendersKept DEF logVars
  <2>4. r.index # lastAppliedIndex[i]
    BY <1>2, <1>3, <1>7 DEF NatOrNone
  <2>5. ASSUME NEW p \in Server PROVE DurableAt(p)' /\ InStepAt(p)'
    <3>1. Installing(p) => Installing(p)'
      BY <1>6, <2>1, <2>4 DEF Installing, logVars
    <3>2. RaftState(p)' = RaftState(p)
      BY <1>4, <2>1 DEF RaftState, electionVars, logVars
    <3>3. QED
      BY <2>1, <3>1, <3>2 DEF ServiceInv, DurableAt, InStepAt
  <2>6. QED
    BY <1>1, <2>1, <2>2, <2>3, <2>5 DEF ServiceInv
<1>8. CASE cut >= 0
  <2> DEFINE rest == SubSeq(Log[i], cut + 1, Len(Log[i]))
             term == IF cut = 0 THEN lastAppliedTerm[i] ELSE Log[i][cut].Term
             got == [k \in {r.index} |-> r.value]
  <2>1. /\ Log' = [Log EXCEPT ![i] = rest]
        /\ lastAppliedIndex' = [lastAppliedIndex EXCEPT ![i] = r.index]
        /\ lastAppliedTerm' = [lastAppliedTerm EXCEPT ![i] = term]
        /\ lastApplied' = [lastApplied EXCEPT ![i] = r.index]
        /\ next' = [next EXCEPT ![i] = r.index + 1]
        /\ logs' = [logs EXCEPT ![i] = got]
        /\ persist(i)
    <3>1. ~ (cut < 0)
      BY <1>5, <1>8
    <3>2. QED
      BY <3>1, Zenon DEF doSnapshot, SaveStateAndSnapshot, NextAfter
  <2>2. cut \in 0 .. Len(Log[i])
    BY <1>2, <1>3, <1>4, <1>8 DEF doSnapshotPanics, NatOrNone
  <2>3. rest \in Seq(Entry)
    BY <1>3, <2>2, SliceType
  <2>4. term \in Nat
    <3>1. CASE cut = 0
      BY <1>1, <3>1 DEF LogOK
    <3>2. CASE cut # 0
      <4>1. Log[i][cut] \in Entry
        BY <1>3, <2>2, <3>2
      <4>2. QED
        BY <3>2, <4>1 DEF Entry
    <3>3. QED
      BY <3>1, <3>2
  <2>5. DOMAIN got \subseteq Nat
    BY <1>2
  <2> HIDE DEF rest, term, got, cut
  <2>6. LogOK'
    BY <1>1, <1>2, <2>1, <2>3, <2>4 DEF LogOK
  <2>7. IndexOK'
    BY <1>1, <1>2, <1>4, <2>1 DEF IndexOK, leaderVars
  <2>8. DeliveryOK'
    BY <1>1, <1>2, <1>6, <2>1, <2>5 DEF DeliveryOK
  <2>9. BodiesOK'
    <3>1. r.index >= lastAppliedIndex[i]
      BY <1>2, <1>3, <1>8 DEF cut, NatOrNone
    <3>2. ASSUME NEW p \in Server, NEW q \in Server PROVE SenderOK(p, q)'
      <4>1. lastAppliedIndex[p] >= 0 => lastAppliedIndex'[p] >= 0
        BY <1>1, <1>2, <2>1 DEF LogOK
      <4>2. QED
        BY <1>1, <1>4, <4>1 DEF BodiesOK, SenderOK, BodyOK
    <3>3. QED
      BY <1>1, <1>4, <3>2 DEF BodiesOK, BodyOK
  <2>10. /\ raftstate' \in [Server -> Disk]
         /\ raftstate'[i] = RaftState(i)'
         /\ \A p \in Server \ {i} : raftstate'[p] = raftstate[p]
    BY <1>1, <2>1, <2>6, PersistTyped DEF ElectionInv
  <2>11. ASSUME NEW p \in Server PROVE DurableAt(p)' /\ InStepAt(p)'
    <3>1. CASE p = i
      <4>1. next'[i] = lastApplied'[i] + 1
        BY <1>1, <2>1 DEF IndexOK, DeliveryOK
      <4>2. QED
        BY <2>10, <3>1, <4>1 DEF DurableAt, InStepAt
    <3>2. CASE p # i
      <4>1. /\ Log'[p] = Log[p] /\ lastAppliedIndex'[p] = lastAppliedIndex[p]
            /\ lastAppliedTerm'[p] = lastAppliedTerm[p] /\ lastApplied'[p] = lastApplied[p]
            /\ next'[p] = next[p]
        BY <1>1, <2>1, <3>2 DEF LogOK, IndexOK, DeliveryOK
      <4>2. QED
        BY <1>4, <1>6, <2>10, <3>2, <4>1, PeerKept DEF ServiceInv, electionVars
    <3>3. QED
      BY <3>1, <3>2
  <2>12. QED
    BY <2>6, <2>7, <2>8, <2>9, <2>10, <2>11 DEF ServiceInv
<1>9. QED
  BY <1>5, <1>7, <1>8

\* applyLogToRsm: if ApplyMsgSender waited for the first of the batch, it has
\* passed on all of it.
LEMMA ApplyKeeps ==
    ASSUME ElectionInv, ElectionInv', ServiceInv, NEW i \in Server,
           NEW index \in lastApplied[i] + 1 .. commitIndex[i], applyLogToRsm(i, index)
    PROVE  ServiceInv'
<1>1. LogOK /\ IndexOK /\ BodiesOK /\ DeliveryOK /\ raftstate \in [Server -> Disk]
  BY DEF ServiceInv
<1>2. /\ lastApplied[i] \in NatOrNone /\ commitIndex[i] \in NatOrNone
      /\ lastAppliedIndex[i] \in NatOrNone /\ next[i] \in Nat
  BY <1>1 DEF IndexOK, LogOK, DeliveryOK
<1>3. index \in Nat /\ index \in NatOrNone
  BY <1>2 DEF NatOrNone
<1>4. /\ lastApplied' = [lastApplied EXCEPT ![i] = index]
      /\ next' = [next EXCEPT ![i] = @ + Cardinality(Passed(i, index))]
      /\ logs' = [logs EXCEPT ![i] = checkLogs(i, index)]
      /\ snapReq' = [snapReq EXCEPT ![i] =
                       @ \cup {[index |-> k, value |-> EntryAt(i, k).Command] :
                                  k \in {n \in Received(i, index) : SnapshotDue(n)}}]
      /\ UNCHANGED <<electionVars, logVars, commitIndex, leaderVars, raftstate, call, late>>
  BY DEF applyLogToRsm
<1>5. /\ lastApplied[i] >= lastAppliedIndex[i]
      /\ Batch(i, index) = lastApplied[i] + 1 .. index
      /\ lastApplied[i] + 1 <= index
  <2>1. Batch(i, index) # {}
    BY DEF applyLogToRsm
  <2>2. QED
    BY <1>2, <1>3, <2>1 DEF Batch, NatOrNone
<1>6. /\ Passed(i, index) \subseteq Nat
      /\ IsFiniteSet(Passed(i, index))
      /\ Cardinality(Passed(i, index)) \in Nat
      /\ next[i] = lastApplied[i] + 1 => next[i] + Cardinality(Passed(i, index)) = index + 1
  <2>1. CASE next[i] \in lastApplied[i] + 1 .. index
    <3>1. Passed(i, index) = next[i] .. index
      BY <1>5, <2>1 DEF Passed
    <3>2. /\ IsFiniteSet(next[i] .. index)
          /\ Cardinality(next[i] .. index) = IF next[i] > index THEN 0 ELSE index - next[i] + 1
      BY <1>2, <1>3, FS_Interval
    <3>3. Cardinality(next[i] .. index) = index - next[i] + 1 /\ next[i] <= index
      BY <1>2, <1>3, <2>1, <3>2
    <3>4. next[i] .. index \subseteq Nat
      BY <1>2, <1>3
    <3>5. QED
      BY <1>2, <1>3, <3>1, <3>2, <3>3, <3>4
  <2>2. CASE next[i] \notin lastApplied[i] + 1 .. index
    <3>1. Passed(i, index) = {}
      BY <1>5, <2>2 DEF Passed
    <3>2. Cardinality(Passed(i, index)) = 0 /\ IsFiniteSet(Passed(i, index))
      BY <3>1, FS_EmptySet
    <3>3. next[i] # lastApplied[i] + 1
      BY <1>2, <1>3, <1>5, <2>2 DEF NatOrNone
    <3>4. QED
      BY <3>1, <3>2, <3>3
  <2>3. QED
    BY <2>1, <2>2
<1>7. LogOK'
  BY <1>1, <1>4 DEF LogOK, logVars
<1>8. IndexOK'
  BY <1>1, <1>3, <1>4 DEF IndexOK, leaderVars
<1>9. BodiesOK'
  BY <1>1, <1>4, SendersKept DEF logVars
<1>10. /\ DOMAIN snapReq' = Server
       /\ \A p \in Server : snapReq[p] \subseteq snapReq'[p]
       /\ \A p \in Server : \A r \in snapReq'[p] : r \in snapReq[p] \/ r.index \in Nat
  <2> DEFINE new == {[index |-> k, value |-> EntryAt(i, k).Command] :
                        k \in {n \in Received(i, index) : SnapshotDue(n)}}
  <2>1. \A r \in new : r.index \in Nat
    BY <1>6 DEF Received
  <2> HIDE DEF new
  <2>2. snapReq' = [snapReq EXCEPT ![i] = @ \cup new]
    BY <1>4 DEF new
  <2>3. QED
    BY <1>1, <2>1, <2>2 DEF DeliveryOK
<1>11. DeliveryOK'
  <2>1. DOMAIN checkLogs(i, index) \subseteq Nat
    BY <1>1, <1>6 DEF checkLogs, Received, DeliveryOK
  <2>2. next' \in [Server -> Nat]
    <3>1. next[i] + Cardinality(Passed(i, index)) \in Nat
      BY <1>2, <1>6
    <3>2. QED
      BY <1>1, <1>4, <3>1 DEF DeliveryOK
  <2>3. DOMAIN logs' = Server /\ \A p \in Server : DOMAIN logs'[p] \subseteq Nat
    BY <1>1, <1>4, <2>1 DEF DeliveryOK
  <2>4. QED
    BY <1>1, <1>10, <2>2, <2>3 DEF DeliveryOK
<1>12. ASSUME NEW p \in Server PROVE DurableAt(p)' /\ InStepAt(p)'
  <2>1. Installing(p) => Installing(p)'
    BY <1>4, <1>10 DEF Installing, logVars
  <2>2. RaftState(p)' = RaftState(p)
    BY <1>4 DEF RaftState, electionVars, logVars
  <2>3. next[p] = lastApplied[p] + 1 => next'[p] = lastApplied'[p] + 1
    <3>1. CASE p = i
      BY <1>1, <1>4, <1>6, <3>1 DEF IndexOK, DeliveryOK
    <3>2. CASE p # i
      BY <1>1, <1>4, <3>2 DEF IndexOK, DeliveryOK
    <3>3. QED
      BY <3>1, <3>2
  <2>4. QED
    BY <1>4, <2>1, <2>2, <2>3 DEF ServiceInv, DurableAt, InStepAt
<1>13. QED
  BY <1>1, <1>4, <1>7, <1>8, <1>9, <1>11, <1>12 DEF ServiceInv

-----------------------------------------------------------------------------
(* Crash and restart.                                                      *)

\* Whatever a crash leaves on disk is a complete raft state.
LEMMA DiskTyped ==
    ASSUME ElectionInv, ServiceInv, NEW i \in Server,
           NEW disk \in {raftstate[i]} \cup HalfSaved(i)
    PROVE  disk \in Disk
<1>1. RaftState(i) \in Disk
  BY DEF RaftState, Disk, ServiceInv, LogOK, ElectionInv, ElectionTypeOK
<1>2. CASE disk = raftstate[i]
  BY <1>2 DEF ServiceInv
<1>3. CASE disk \in HalfSaved(i)
  <2>1. disk.currentTerm \in Nat /\ disk.voteFor \in Vote
    BY DiskOK
  <2>2. \E t, v : disk = [RaftState(i) EXCEPT !.currentTerm = t, !.voteFor = v]
    BY <1>3 DEF HalfSaved
  <2>3. PICK t, v : disk = [RaftState(i) EXCEPT !.currentTerm = t, !.voteFor = v]
    BY <2>2
  <2>4. disk.currentTerm = t /\ disk.voteFor = v
    BY <1>1, <2>3 DEF Disk
  <2>5. QED
    BY <1>1, <2>1, <2>3, <2>4 DEF Disk
<1>4. QED
  BY <1>2, <1>3

\* A record of five fields is what Restore makes of it.
LEMMA RestoredState ==
    ASSUME NEW i \in Server, NEW disk \in Disk, ElectionInv, LogOK, Restore(i, disk)
    PROVE  /\ RaftState(i)' = disk
           /\ LogOK'
           /\ \A p \in Server \ {i} : /\ currentTerm'[p] = currentTerm[p]
                                      /\ voteFor'[p] = voteFor[p]
                                      /\ Log'[p] = Log[p]
                                      /\ lastAppliedIndex'[p] = lastAppliedIndex[p]
                                      /\ lastAppliedTerm'[p] = lastAppliedTerm[p]
<1>1. /\ currentTerm' = [currentTerm EXCEPT ![i] = disk.currentTerm]
      /\ voteFor' = [voteFor EXCEPT ![i] = disk.voteFor]
      /\ Log' = [Log EXCEPT ![i] = disk.Log]
      /\ lastAppliedIndex' = [lastAppliedIndex EXCEPT ![i] = disk.lastAppliedIndex]
      /\ lastAppliedTerm' = [lastAppliedTerm EXCEPT ![i] = disk.lastAppliedTerm]
  BY DEF Restore
<1>2. /\ disk.Log \in Seq(Entry)
      /\ disk.lastAppliedIndex \in NatOrNone
      /\ disk.lastAppliedTerm \in Nat
  BY DEF Disk
<1>3. LogOK'
  BY <1>1, <1>2 DEF LogOK
<1>4. /\ currentTerm'[i] = disk.currentTerm
      /\ voteFor'[i] = disk.voteFor
      /\ Log'[i] = disk.Log
      /\ lastAppliedIndex'[i] = disk.lastAppliedIndex
      /\ lastAppliedTerm'[i] = disk.lastAppliedTerm
  BY <1>1 DEF LogOK, ElectionInv, ElectionTypeOK
<1>5. RaftState(i)' = disk
  <2>1. disk = [currentTerm |-> disk.currentTerm, voteFor |-> disk.voteFor,
                Log |-> disk.Log, lastAppliedIndex |-> disk.lastAppliedIndex,
                lastAppliedTerm |-> disk.lastAppliedTerm]
    BY DiskFields
  <2>2. QED
    BY <1>4, <2>1, Zenon DEF RaftState
<1>6. QED
  BY <1>1, <1>3, <1>5 DEF LogOK, ElectionInv, ElectionTypeOK

\* A restarted peer is what its disk says, and waits for the first index after
\* what was cut.
LEMMA RestartKeeps ==
    ASSUME ElectionInv, ElectionInv', ServiceInv, NEW i \in Server, Restart(i)
    PROVE  ServiceInv'
<1>1. LogOK /\ IndexOK /\ BodiesOK /\ DeliveryOK /\ raftstate \in [Server -> Disk]
  BY DEF ServiceInv
<1>2. PICK disk \in {raftstate[i]} \cup HalfSaved(i),
           S \in SUBSET {call[i][j].args : j \in {k \in Server : call[i][k].st = "sent"}} :
        /\ crash1(i, S)
        /\ Restore(i, disk)
        /\ raftstate' = [raftstate EXCEPT ![i] = disk]
        /\ commitIndex' = [commitIndex EXCEPT ![i] = disk.lastAppliedIndex]
        /\ lastApplied' = [lastApplied EXCEPT ![i] = disk.lastAppliedIndex]
        /\ nextIndex' = [nextIndex EXCEPT ![i] = NextIndexes(i)']
        /\ matchIndex' = [matchIndex EXCEPT ![i] = MatchIndexes(i)']
        /\ snapReq' = [snapReq EXCEPT ![i] = {}]
        /\ next' = [next EXCEPT ![i] = disk.lastAppliedIndex + 1]
        /\ logs' = logs
  BY DEF Restart
<1>3. disk \in Disk
  BY DiskTyped
<1>4. /\ RaftState(i)' = disk
      /\ LogOK'
      /\ \A p \in Server \ {i} : /\ currentTerm'[p] = currentTerm[p]
                                 /\ voteFor'[p] = voteFor[p]
                                 /\ Log'[p] = Log[p]
                                 /\ lastAppliedIndex'[p] = lastAppliedIndex[p]
                                 /\ lastAppliedTerm'[p] = lastAppliedTerm[p]
  BY <1>1, <1>2, <1>3, RestoredState
<1>5. disk.lastAppliedIndex \in NatOrNone /\ disk.lastAppliedIndex + 1 \in Nat
  BY <1>3 DEF Disk, NatOrNone
<1>6. IndexOK'
  <2>1. LastLogIndex(i)' + 1 \in Nat /\ LastLogIndex(i)' \in NatOrNone
    <3>1. Log'[i] \in Seq(Entry) /\ lastAppliedIndex'[i] \in NatOrNone
      BY <1>4 DEF LogOK
    <3>2. Len(Log'[i]) \in Nat
      BY <3>1
    <3>3. QED
      BY <3>1, <3>2 DEF LastLogIndex, NatOrNone
  <2>2. NextIndexes(i)' \in [Server -> Nat] /\ MatchIndexes(i)' \in [Server -> NatOrNone]
    BY <2>1 DEF NextIndexes, MatchIndexes
  <2>3. nextIndex' \in [Server -> [Server -> Nat]]
    BY <1>1, <1>2, <2>2 DEF IndexOK
  <2>4. matchIndex' \in [Server -> [Server -> NatOrNone]]
    BY <1>1, <1>2, <2>2 DEF IndexOK
  <2>5. commitIndex' \in [Server -> NatOrNone] /\ lastApplied' \in [Server -> NatOrNone]
    BY <1>1, <1>2, <1>5 DEF IndexOK
  <2>6. QED
    BY <2>3, <2>4, <2>5 DEF IndexOK
<1>7. DeliveryOK'
  BY <1>1, <1>2, <1>5 DEF DeliveryOK
<1>8. BodiesOK'
  <2>1. \A m \in late' : BodyOK(m)
    <3>1. \A m \in S : BodyOK(m)
      BY <1>1 DEF BodiesOK, SenderOK
    <3>2. \A m \in late' : m \in late \/ m \in S
      BY <1>2 DEF crash1
    <3>3. QED
      BY <1>1, <3>1, <3>2 DEF BodiesOK
  <2>2. /\ \A q \in Server : call'[i][q] = Finished
        /\ \A p \in Server \ {i}, q \in Server :
              \/ call'[p][q] = call[p][q]
              \/ call[p][q].st = "sent" /\ call'[p][q] = Lost(call[p][q].args)
    BY <1>2 DEF crash1
  <2>3. ASSUME NEW q \in Server PROVE SenderOK(i, q)'
    BY <2>2 DEF SenderOK, Finished, Spawned
  <2>4. ASSUME NEW p \in Server \ {i}, NEW q \in Server PROVE SenderOK(p, q)'
    <3>1. SenderOK(p, q) /\ lastAppliedIndex'[p] = lastAppliedIndex[p]
      BY <1>1, <1>4 DEF BodiesOK
    <3>2. CASE call'[p][q] = call[p][q]
      BY <3>1, <3>2 DEF SenderOK, BodyOK
    <3>3. CASE call[p][q].st = "sent" /\ call'[p][q] = Lost(call[p][q].args)
      <4>1. call'[p][q].args = call[p][q].args /\ call'[p][q] # Spawned("InstallSnapshot")
        BY <3>3 DEF Lost, Spawned
      <4>2. QED
        BY <3>1, <3>3, <4>1 DEF SenderOK, BodyOK
    <3>4. QED
      BY <2>2, <3>2, <3>3
  <2>5. QED
    BY <2>1, <2>3, <2>4 DEF BodiesOK, BodyOK
<1>9. raftstate' \in [Server -> Disk]
  BY <1>1, <1>2, <1>3
<1>10. ASSUME NEW p \in Server PROVE DurableAt(p)' /\ InStepAt(p)'
  <2>1. CASE p = i
    <3>1. raftstate'[i] = disk /\ next'[i] = lastApplied'[i] + 1
      BY <1>1, <1>2 DEF IndexOK, DeliveryOK
    <3>2. QED
      BY <1>4, <2>1, <3>1 DEF DurableAt, InStepAt
  <2>2. CASE p # i
    <3>1. /\ lastApplied'[p] = lastApplied[p] /\ raftstate'[p] = raftstate[p]
          /\ next'[p] = next[p] /\ snapReq'[p] = snapReq[p]
      BY <1>1, <1>2, <2>2 DEF IndexOK, DeliveryOK
    <3>2. QED
      BY <1>4, <2>2, <3>1, PeerKept DEF ServiceInv
  <2>3. QED
    BY <2>1, <2>2
<1>11. QED
  BY <1>4, <1>6, <1>7, <1>8, <1>9, <1>10 DEF ServiceInv

-----------------------------------------------------------------------------
(* Theorems.                                                               *)

\* Make with an empty persister: the dummy entry is on disk too.
LEMMA ServiceInit == Init => ServiceInv
<1> SUFFICES ASSUME Init PROVE ServiceInv
  OBVIOUS
<1>1. <<[Term |-> 0, Command |-> Nil]>> \in Seq(Entry)
  <2>1. [Term |-> 0, Command |-> Nil] \in Entry
    BY DEF Entry
  <2>2. QED
    BY <2>1
<1>2. LogOK
  BY <1>1 DEF Init, LogOK, NatOrNone
<1>3. IndexOK
  BY DEF Init, IndexOK, NatOrNone
<1>4. raftstate \in [Server -> Disk]
  <2>1. ASSUME NEW i \in Server PROVE RaftState(i) \in Disk
    BY <1>2, ElectionInit DEF RaftState, Disk, LogOK, ElectionInv, ElectionTypeOK
  <2> HIDE DEF RaftState
  <2>2. QED
    BY <2>1 DEF Init
<1>5. DeliveryOK
  BY DEF Init, DeliveryOK
<1>6. BodiesOK
  BY DEF Init, BodiesOK, SenderOK, Finished, Spawned
<1>7. ASSUME NEW i \in Server PROVE DurableAt(i) /\ InStepAt(i)
  BY DEF Init, DurableAt, InStepAt
<1>8. QED
  BY <1>2, <1>3, <1>4, <1>5, <1>6, <1>7 DEF ServiceInv

\* Every step keeps the invariant.
LEMMA ServiceNext == ElectionInv /\ ServiceInv /\ [Next]_vars => ServiceInv'
<1> SUFFICES ASSUME ElectionInv, ServiceInv, [Next]_vars PROVE ServiceInv'
  OBVIOUS
<1>1. ElectionInv'
  BY ElectionNext
<1>2. ASSUME NEW m \in Requests, Handle(m) PROVE ServiceInv'
  BY <1>1, <1>2, RequestVoteKeeps, AppendEntriesKeeps, InstallSnapshotKeeps DEF Handle
<1>3. ASSUME NEW i \in Server, NEW j \in Server, Worker(i, j) PROVE ServiceInv'
  BY <1>1, <1>3, CallKeeps, ElectionReplyKeeps, AppendReplyKeeps, SnapshotReplyKeeps,
     TimeoutKeeps DEF Worker
<1>4. ASSUME NEW i \in Server, Peer(i) PROVE ServiceInv'
  BY <1>1, <1>4, StartElectionKeeps, ElectionEndKeeps, SendKeeps, SendEndKeeps, ApplyKeeps,
     DoSnapshotKeeps DEF Peer
<1>5. ASSUME NEW i \in Server, NEW c \in Command, Start(i, c) PROVE ServiceInv'
  BY <1>1, <1>5, StartKeeps
<1>6. ASSUME NEW i \in Server, Restart(i) PROVE ServiceInv'
  BY <1>1, <1>6, RestartKeeps
<1>7. CASE UNCHANGED vars
  <2>1. LogOK' /\ IndexOK' /\ DeliveryOK' /\ raftstate' \in [Server -> Disk]
    BY <1>7 DEF vars, ServiceInv, LogOK, IndexOK, DeliveryOK, logVars, applyVars, leaderVars,
       serviceVars
  <2>2. BodiesOK'
    BY <1>7, SendersKept DEF vars, ServiceInv, logVars
  <2>3. ASSUME NEW p \in Server PROVE DurableAt(p)' /\ InStepAt(p)'
    BY <1>7, PeerKept DEF vars, ServiceInv, electionVars, logVars, applyVars, serviceVars
  <2>4. QED
    BY <2>1, <2>2, <2>3 DEF ServiceInv
<1>8. QED
  BY <1>2, <1>3, <1>4, <1>5, <1>6, <1>7 DEF Next

\* The invariant holds in every reachable state, whatever rounds overlap,
\* requests come late, snapshots are sent and peers crash.
THEOREM ServiceInvariant == Spec => []ServiceInv
<1>1. QED
  BY ServiceInit, ServiceNext, ElectionInvariant, PTL DEF Spec

\* Every field of every peer keeps its type: in particular nextIndex, halved by
\* appendRPCWorker, never becomes negative, and no slice of a log that a
\* handler, doSnapshot or a restart makes has a hole.
THEOREM TypesHold == Spec => []TypeOK
<1>1. ElectionInv /\ ServiceInv => TypeOK
  <2> SUFFICES ASSUME ElectionInv, ServiceInv PROVE TypeOK
    OBVIOUS
  <2>1. /\ currentTerm \in [Server -> Nat]
        /\ voteFor \in [Server -> Server \cup {Nil}]
        /\ leaderId \in [Server -> Server \cup {Nil}]
        /\ ticker \in [Server -> Round]
    BY DEF ElectionInv, ElectionTypeOK, Vote
  <2>2. /\ Log \in [Server -> Seq(Entry)]
        /\ lastAppliedIndex \in [Server -> Nat \cup {-1}]
        /\ lastAppliedTerm \in [Server -> Nat]
        /\ commitIndex \in [Server -> Nat \cup {-1}]
        /\ lastApplied \in [Server -> Nat \cup {-1}]
        /\ nextIndex \in [Server -> [Server -> Nat]]
        /\ matchIndex \in [Server -> [Server -> Nat \cup {-1}]]
    BY DEF ServiceInv, LogOK, IndexOK, NatOrNone
  <2>3. ASSUME NEW i \in Server
        PROVE  /\ raftstate[i].currentTerm \in Nat
               /\ raftstate[i].voteFor \in Server \cup {Nil}
               /\ raftstate[i].Log \in Seq(Entry)
    BY DEF ServiceInv, Disk, Vote
  <2>4. ASSUME NEW i \in Server
        PROVE  /\ ticker[i].kind \in {"idle", "election", "append"}
               /\ ticker[i].term \in Nat
               /\ ticker[i].yes \subseteq Server
    BY <2>1 DEF Round
  <2>5. ASSUME NEW i \in Server, NEW j \in Server
        PROVE  call[i][j].st \in {"finished", "spawned", "sent", "replied", "lost"}
    <3>1. SlotOK(i, j)
      BY DEF ElectionInv, CallsOK
    <3>2. CASE call[i][j] = Finished
      BY <3>2 DEF Finished
    <3>3. CASE \E r \in Rpc : call[i][j] = Spawned(r)
      BY <3>3 DEF Spawned
    <3>4. CASE call[i][j].st \in {"sent", "replied", "lost"}
      BY <3>4
    <3>5. QED
      BY <3>1, <3>2, <3>3, <3>4, Zenon DEF SlotOK
  <2>6. ASSUME NEW i \in Server PROVE DOMAIN logs[i] \subseteq Nat /\ next[i] \in Nat
    BY DEF ServiceInv, DeliveryOK
  <2>7. QED
    BY <2>1, <2>2, <2>3, <2>4, <2>5, <2>6 DEF TypeOK
<1>2. QED
  BY <1>1, ElectionInvariant, ServiceInvariant, PTL

\* persist(): a crash of any peer at any time loses nothing of its term, vote
\* and log but what InstallSnapshot left to a doSnapshot that is still due.
THEOREM LogsAreDurable == Spec => []LogDurable
<1>1. ServiceInv => LogDurable
  BY DEF ServiceInv, LogDurable, DurableAt, Installing
<1>2. QED
  BY <1>1, ServiceInvariant, PTL

\* ApplyMsgSender: it never waits for an index that applyLogToRsm has passed,
\* but while the snapshot that moves both is being installed.
THEOREM NothingIsLost == Spec => []NoLostDelivery
<1>1. ServiceInv => NoLostDelivery
  BY DEF ServiceInv, NoLostDelivery, InStepAt, Installing
<1>2. QED
  BY <1>1, ServiceInvariant, PTL
=============================================================================
