------------------------- MODULE RaftElectionProofs -------------------------
(***************************************************************************)
(* Proofs about the elections of Raft, for any number of peers and with     *)
(* overlapping campaigns, late requests and crashes: two campaigns of one   *)
(* term are never both won, a counted vote is on the voter's disk, and no   *)
(* peer goes back to an older term.                                         *)
(***************************************************************************)
EXTENDS Raft, FiniteSetTheorems, TLAPS

-----------------------------------------------------------------------------
(* The inductive invariant.                                                *)

Rpc == {"RequestVote", "AppendEntries", "InstallSnapshot"}
Vote == Server \cup {Nil}
Round == [kind : {"idle", "election", "append"}, term : Nat, yes : SUBSET Server]

\* Peer c made itself leader while in term t.
Claimed(t, c) == \E e \in won : e.leader = c /\ e.claimed = t

ElectionTypeOK ==
    /\ currentTerm \in [Server -> Nat]
    /\ voteFor \in [Server -> Vote]
    /\ leaderId \in [Server -> Vote]
    /\ ticker \in [Server -> Round]
    /\ DOMAIN raftstate = Server
    /\ DOMAIN call = Server
    /\ \A i \in Server : DOMAIN call[i] = Server
    /\ voted \subseteq Server \X Nat \X Server
    /\ won \subseteq [campaign : Nat, leader : Server, claimed : Nat]

\* Term and vote are on disk at the end of every critical section.
Saved ==
    \A i \in Server : /\ raftstate[i].currentTerm = currentTerm[i]
                      /\ raftstate[i].voteFor = voteFor[i]

VotesOnce ==
    \A v, c, d \in Server : \A t \in Nat :
       <<v, t, c>> \in voted /\ <<v, t, d>> \in voted => c = d

\* A vote is not forgotten in its own term.
VotesHeld ==
    \A v, c \in Server : \A t \in Nat :
       <<v, t, c>> \in voted =>
          t <= currentTerm[v] /\ (t = currentTerm[v] => voteFor[v] # Nil)

\* voteFor is the vote, unless a leader of the term has overwritten it.
VoteOrLeader ==
    \A v, d \in Server :
       (<<v, currentTerm[v], d>> \in voted /\ voteFor[v] # d) =>
          Claimed(currentTerm[v], voteFor[v])

Counted ==
    \A i, v \in Server :
       Campaigning(i) /\ v \in ticker[i].yes => <<v, ticker[i].term, i>> \in voted

MessageOK(m) ==
    /\ m.rpc \in Rpc
    /\ m.from \in Server
    /\ m.to \in Server \ {m.from}
    /\ m.Term \in Nat
    /\ m.rpc # "RequestVote" => Claimed(m.Term, m.from)

WaitingOK(i, j, m) ==
    /\ MessageOK(m)
    /\ m.from = i
    /\ m.to = j
    /\ m.rpc = "RequestVote" <=> Campaigning(i)
    /\ m.rpc = "RequestVote" => m.Term = ticker[i].term

SlotOK(i, j) ==
    LET c == call[i][j]
    IN  \/ c = Finished
        \/ /\ \E r \in Rpc : c = Spawned(r)
           /\ i # j
           /\ c.rpc = "RequestVote" <=> Campaigning(i)
        \/ c.st \in {"sent", "lost"} /\ WaitingOK(i, j, c.args)
        \/ /\ c.st = "replied"
           /\ WaitingOK(i, j, c.args)
           /\ c.reply.Term \in Nat
           /\ c.args.rpc = "RequestVote" /\ c.reply.VoteGranted =>
                 <<j, ticker[i].term, i>> \in voted

CallsOK == \A i, j \in Server : SlotOK(i, j)

LateOK == \A m \in late : MessageOK(m)

\* Who leads has claimed its term; who campaigns does not lead.
Leads ==
    \A i \in Server : /\ leaderId[i] = i => Claimed(currentTerm[i], i)
                      /\ Campaigning(i) => leaderId[i] # i

\* Claims are of the past: a peer that campaigns has not claimed its new term.
ClaimsPast ==
    \A e \in won : /\ e.claimed <= currentTerm[e.leader]
                   /\ Campaigning(e.leader) => e.claimed < ticker[e.leader].term

WonByVotes ==
    \A e \in won : \E Q \in SUBSET Server :
       Majority(Q) /\ \A v \in Q : <<v, e.campaign, e.leader>> \in voted

ElectionInv ==
    /\ ElectionTypeOK
    /\ Saved
    /\ VotesOnce
    /\ VotesHeld
    /\ VoteOrLeader
    /\ Counted
    /\ CallsOK
    /\ LateOK
    /\ Leads
    /\ ClaimsPast
    /\ WonByVotes

-----------------------------------------------------------------------------
(* Two majorities share a peer.                                            *)

\* Any two majorities of the peers intersect, so the two winners of a term
\* would have a common voter (startElection's count > len(peers)/2).
LEMMA MajoritiesMeet ==
    ASSUME NEW Q \in SUBSET Server, NEW R \in SUBSET Server,
           Majority(Q), Majority(R)
    PROVE  Q \cap R # {}
<1>1. IsFiniteSet(Server) /\ IsFiniteSet(Q) /\ IsFiniteSet(R)
  BY ServerAssumption, FS_Subset
<1>2. /\ Cardinality(Server) \in Nat
      /\ Cardinality(Q) \in Nat
      /\ Cardinality(R) \in Nat
  BY <1>1, FS_CardinalityType
<1>3. Cardinality(Q \cup R) <= Cardinality(Server)
  BY <1>1, FS_Subset
<1>4. Cardinality(Q \cup R) = Cardinality(Q) + Cardinality(R) - Cardinality(Q \cap R)
  BY <1>1, FS_Union
<1>5. SUFFICES ASSUME Q \cap R = {} PROVE FALSE
  OBVIOUS
<1>6. Cardinality(Q \cap R) = 0
  BY <1>5, FS_EmptySet
<1>7. QED
  BY <1>2, <1>3, <1>4, <1>6 DEF Majority

-----------------------------------------------------------------------------
\* Every peer starts in term 0 with no vote, no round and no request.
LEMMA ElectionInit == Init => ElectionInv
<1>1. SUFFICES ASSUME Init PROVE ElectionInv
  OBVIOUS
<1>2. ElectionTypeOK
  BY <1>1 DEF Init, ElectionTypeOK, Idle, Round, Vote
<1>3. Saved
  BY <1>1 DEF Init, Saved, RaftState
<1>4. VotesOnce /\ VotesHeld /\ VoteOrLeader /\ ClaimsPast /\ WonByVotes /\ LateOK
  BY <1>1 DEF Init, VotesOnce, VotesHeld, VoteOrLeader, ClaimsPast, WonByVotes, LateOK
<1>5. Counted
  BY <1>1 DEF Init, Counted, Campaigning, Idle
<1>6. CallsOK
  BY <1>1 DEF Init, CallsOK, SlotOK
<1>7. Leads
  BY <1>1, ServerAssumption DEF Init, Leads, Campaigning, Idle
<1>8. QED
  BY <1>2, <1>3, <1>4, <1>5, <1>6, <1>7 DEF ElectionInv

-----------------------------------------------------------------------------
(* What a step has to keep, part by part.                                  *)

\* A request stays well formed: claims are never taken back.
LEMMA MessageKept ==
    ASSUME NEW m, MessageOK(m), won \subseteq won'
    PROVE  MessageOK(m)'
BY DEF MessageOK, Claimed

\* A goroutine that a step leaves alone stays well formed, as long as the
\* round it belongs to goes on.
LEMMA SlotKept ==
    ASSUME NEW i \in Server, NEW j \in Server, SlotOK(i, j),
           call'[i][j] = call[i][j],
           Campaigning(i) <=> Campaigning(i)',
           ticker'[i].term = ticker[i].term,
           voted \subseteq voted', won \subseteq won'
    PROVE  SlotOK(i, j)'
<1>1. ASSUME NEW m, WaitingOK(i, j, m) PROVE WaitingOK(i, j, m)'
  <2>1. MessageOK(m)'
    BY <1>1, MessageKept DEF WaitingOK
  <2>2. QED
    BY <1>1, <2>1 DEF WaitingOK
<1>2. CASE call[i][j] = Finished
  BY <1>2 DEF SlotOK, Finished
<1>3. CASE /\ \E r \in Rpc : call[i][j] = Spawned(r)
           /\ i # j
           /\ call[i][j].rpc = "RequestVote" <=> Campaigning(i)
  <2>1. /\ \E r \in Rpc : call'[i][j] = Spawned(r)
        /\ call'[i][j].rpc = "RequestVote" <=> Campaigning(i)'
    BY <1>3
  <2>2. QED
    BY <1>3, <2>1 DEF SlotOK
<1>4. CASE call[i][j].st \in {"sent", "lost"} /\ WaitingOK(i, j, call[i][j].args)
  <2>1. WaitingOK(i, j, call[i][j].args)'
    BY <1>1, <1>4 DEF WaitingOK, MessageOK, Claimed, Campaigning
  <2>2. QED
    BY <1>4, <2>1 DEF SlotOK
<1>5. CASE /\ call[i][j].st = "replied"
           /\ WaitingOK(i, j, call[i][j].args)
           /\ call[i][j].reply.Term \in Nat
           /\ call[i][j].args.rpc = "RequestVote" /\ call[i][j].reply.VoteGranted =>
                 <<j, ticker[i].term, i>> \in voted
  <2>1. WaitingOK(i, j, call[i][j].args)'
    BY <1>1, <1>5 DEF WaitingOK, MessageOK, Claimed, Campaigning
  <2>2. QED
    BY <1>5, <2>1 DEF SlotOK
<1>6. QED
  BY <1>2, <1>3, <1>4, <1>5 DEF SlotOK

\* A step that records no vote keeps the votes: where the term stays, so does
\* the vote, or a leader of the term overwrites it.
LEMMA VotesKept ==
    ASSUME ElectionTypeOK, ElectionTypeOK', VotesOnce, VotesHeld, VoteOrLeader,
           voted' = voted, won \subseteq won',
           \A v \in Server :
              \/ currentTerm'[v] > currentTerm[v]
              \/ /\ currentTerm'[v] = currentTerm[v]
                 /\ voteFor'[v] = voteFor[v]
              \/ /\ currentTerm'[v] = currentTerm[v]
                 /\ voteFor'[v] # Nil
                 /\ Claimed(currentTerm[v], voteFor'[v])
    PROVE  VotesOnce' /\ VotesHeld' /\ VoteOrLeader'
<1>1. VotesOnce'
  BY DEF VotesOnce
<1>2. VotesHeld'
  BY DEF VotesHeld, ElectionTypeOK
<1>3. ASSUME NEW v \in Server, NEW d \in Server,
             <<v, currentTerm'[v], d>> \in voted', voteFor'[v] # d
      PROVE  Claimed(currentTerm[v], voteFor[v])'
  <2>1. currentTerm'[v] = currentTerm[v]
    BY <1>3 DEF VotesHeld, ElectionTypeOK
  <2>2. Claimed(currentTerm[v], voteFor'[v])
    BY <1>3, <2>1 DEF VoteOrLeader, ElectionTypeOK, Claimed
  <2>3. QED
    BY <2>1, <2>2 DEF Claimed
<1>4. QED
  BY <1>1, <1>2, <1>3 DEF VoteOrLeader

\* Wins stay wins, and stay in the past of their winners' terms.
LEMMA WinsKept ==
    ASSUME ElectionTypeOK, ElectionTypeOK', ClaimsPast, WonByVotes,
           won' = won, voted \subseteq voted',
           \A v \in Server : currentTerm'[v] >= currentTerm[v],
           \A v \in Server : Campaigning(v)' =>
              Campaigning(v) /\ ticker'[v].term = ticker[v].term
    PROVE  ClaimsPast' /\ WonByVotes'
<1>1. ClaimsPast'
  BY DEF ClaimsPast, ElectionTypeOK
<1>2. WonByVotes'
  BY DEF WonByVotes
<1>3. QED
  BY <1>1, <1>2

\* persist() leaves the disk with the term and vote of the critical section.
LEMMA PersistSaves ==
    ASSUME NEW i \in Server, DOMAIN raftstate = Server, Saved,
           \/ persist(i)
           \/ /\ raftstate' = raftstate
              /\ currentTerm'[i] = currentTerm[i]
              /\ voteFor'[i] = voteFor[i],
           \A p \in Server \ {i} : /\ currentTerm'[p] = currentTerm[p]
                                   /\ voteFor'[p] = voteFor[p]
    PROVE  Saved' /\ DOMAIN raftstate' = Server
<1>1. CASE persist(i)
  BY <1>1 DEF persist, Saved, RaftState
<1>2. CASE /\ raftstate' = raftstate
           /\ currentTerm'[i] = currentTerm[i]
           /\ voteFor'[i] = voteFor[i]
  BY <1>2 DEF Saved
<1>3. QED
  BY <1>1, <1>2

\* A step outside the elections: only the log, the service or nextIndex.
LEMMA Elsewhere ==
    ASSUME ElectionInv, UNCHANGED <<electionVars, ticker, call, late, historyVars>>,
           Saved', DOMAIN raftstate' = Server
    PROVE  ElectionInv'
<1>1. ElectionTypeOK' /\ VotesOnce' /\ VotesHeld' /\ VoteOrLeader' /\ Counted'
  BY DEF ElectionInv, ElectionTypeOK, VotesOnce, VotesHeld, VoteOrLeader, Counted,
         Campaigning, Claimed, electionVars, historyVars
<1>2. CallsOK'
  <2>1. SUFFICES ASSUME NEW i \in Server, NEW j \in Server PROVE SlotOK(i, j)'
    BY DEF CallsOK
  <2>2. QED
    BY SlotKept DEF ElectionInv, CallsOK, Campaigning, historyVars
<1>3. LateOK'
  BY MessageKept DEF ElectionInv, LateOK, historyVars
<1>4. Leads' /\ ClaimsPast' /\ WonByVotes'
  BY DEF ElectionInv, Leads, ClaimsPast, WonByVotes, Claimed, Campaigning,
         electionVars, historyVars
<1>5. QED
  BY <1>1, <1>2, <1>3, <1>4 DEF ElectionInv

\* Start appends to the log of a leader; term and vote stay as saved.
LEMMA StartStep ==
    ASSUME ElectionInv, NEW i \in Server, NEW c \in Command, Start(i, c)
    PROVE  ElectionInv'
<1>1. Saved' /\ DOMAIN raftstate' = Server
  BY PersistSaves DEF Start, ElectionInv, ElectionTypeOK, electionVars
<1>2. QED
  BY <1>1, Elsewhere DEF Start

\* doSnapshot cuts the log and saves term and vote as they are.
LEMMA DoSnapshotStep ==
    ASSUME ElectionInv, NEW i \in Server, NEW r \in snapReq[i], doSnapshot(i, r)
    PROVE  ElectionInv'
<1>1. UNCHANGED electionVars /\ (persist(i) \/ raftstate' = raftstate)
  BY DEF doSnapshot, SaveStateAndSnapshot
<1>2. Saved' /\ DOMAIN raftstate' = Server
  BY <1>1, PersistSaves DEF ElectionInv, ElectionTypeOK, electionVars
<1>3. QED
  BY <1>2, Elsewhere DEF doSnapshot

\* applyLogToRsm feeds the service and leaves the election state alone.
LEMMA ApplyStep ==
    ASSUME ElectionInv, NEW i \in Server, NEW index \in Int, applyLogToRsm(i, index)
    PROVE  ElectionInv'
<1>1. Saved' /\ DOMAIN raftstate' = Server
  BY DEF applyLogToRsm, ElectionInv, ElectionTypeOK, Saved, electionVars
<1>2. QED
  BY <1>1, Elsewhere DEF applyLogToRsm

\* A step that moves one goroutine, or only late requests, and nothing else.
LEMMA CallStep ==
    ASSUME ElectionInv, NEW i \in Server, NEW j \in Server,
           UNCHANGED <<electionVars, raftstate, ticker, historyVars>>,
           NEW c, call' = [call EXCEPT ![i][j] = c],
           SlotOK(i, j)', LateOK'
    PROVE  ElectionInv'
<1>1. ElectionTypeOK' /\ Saved' /\ VotesOnce' /\ VotesHeld' /\ VoteOrLeader' /\ Counted'
  BY DEF ElectionInv, ElectionTypeOK, Saved, VotesOnce, VotesHeld, VoteOrLeader,
         Counted, Campaigning, Claimed, electionVars, historyVars
<1>2. CallsOK'
  <2>1. SUFFICES ASSUME NEW p \in Server, NEW q \in Server, p # i \/ q # j
                 PROVE  SlotOK(p, q)'
    BY DEF CallsOK
  <2>2. call'[p][q] = call[p][q]
    BY <2>1 DEF ElectionInv, ElectionTypeOK
  <2>3. QED
    BY <2>2, SlotKept DEF ElectionInv, CallsOK, Campaigning, historyVars
<1>3. Leads' /\ ClaimsPast' /\ WonByVotes'
  BY DEF ElectionInv, Leads, ClaimsPast, WonByVotes, Claimed, Campaigning,
         electionVars, historyVars
<1>4. QED
  BY <1>1, <1>2, <1>3 DEF ElectionInv

\* The goroutine i has for j, once it has a request out, and that request.
LEMMA Waiting ==
    ASSUME ElectionInv, NEW i \in Server, NEW j \in Server,
           call[i][j].st \in {"sent", "replied", "lost"}
    PROVE  WaitingOK(i, j, call[i][j].args)
<1>1. SlotOK(i, j)
  BY DEF ElectionInv, CallsOK
<1>2. call[i][j] # Finished
  BY DEF Finished
<1>3. \A r : call[i][j] # Spawned(r)
  BY DEF Spawned
<1>4. QED
  BY <1>1, <1>2, <1>3, Zenon DEF SlotOK

\* A goroutine that has not built its request yet.
LEMMA NotYetSent ==
    ASSUME ElectionInv, NEW i \in Server, NEW j \in Server,
           NEW r \in Rpc, call[i][j] = Spawned(r)
    PROVE  i # j /\ (r = "RequestVote" <=> Campaigning(i))
<1>1. SlotOK(i, j)
  BY DEF ElectionInv, CallsOK
<1>2. call[i][j].st = "spawned" /\ call[i][j].rpc = r
  BY DEF Spawned
<1>3. call[i][j] # Finished /\ call[i][j].st \notin {"sent", "lost"}
      /\ call[i][j].st # "replied"
  BY <1>2 DEF Finished
<1>4. i # j /\ (call[i][j].rpc = "RequestVote" <=> Campaigning(i))
  BY <1>1, <1>3, Zenon DEF SlotOK
<1>5. QED
  BY <1>2, <1>4

\* A sender gives up; its request may stay behind as a late one.
LEMMA RPCTimeoutStep ==
    ASSUME ElectionInv, NEW i \in Server, NEW j \in Server, RPCTimeout(i, j)
    PROVE  ElectionInv'
<1>1. call' = [call EXCEPT ![i][j] = Finished]
  BY DEF RPCTimeout, Finish
<1>2. SlotOK(i, j)'
  BY <1>1 DEF SlotOK, ElectionInv, ElectionTypeOK
<1>3. MessageOK(call[i][j].args)
  BY Waiting DEF RPCTimeout, WaitingOK
<1>4. LateOK'
  BY <1>3, MessageKept DEF RPCTimeout, LateOK, ElectionInv, historyVars
<1>5. QED
  BY <1>1, <1>2, <1>4, CallStep DEF RPCTimeout

\* electionSender sends its request only in the term of its campaign.
LEMMA ElectionCallStep ==
    ASSUME ElectionInv, NEW i \in Server, NEW j \in Server, electionSenderCall(i, j)
    PROVE  ElectionInv'
<1> DEFINE c == IF currentTerm[i] # ticker[i].term
                THEN Finished ELSE Sent(RequestVoteArgs(i, j))
<1>1. call' = [call EXCEPT ![i][j] = c]
  BY DEF electionSenderCall
<1>2. call'[i][j] = c
  BY <1>1 DEF ElectionInv, ElectionTypeOK
<1>3. Campaigning(i) /\ i # j
  BY NotYetSent DEF electionSenderCall, Rpc
<1>4. SlotOK(i, j)'
  <2>1. CASE currentTerm[i] # ticker[i].term
    BY <1>2, <2>1 DEF SlotOK
  <2>2. CASE currentTerm[i] = ticker[i].term
    <3> DEFINE m == RequestVoteArgs(i, j)
    <3>1. /\ m.rpc = "RequestVote" /\ m.from = i /\ m.to = j
          /\ m.Term = ticker[i].term /\ m.Term \in Nat
      BY <2>2 DEF RequestVoteArgs, ElectionInv, ElectionTypeOK
    <3>2. call'[i][j].st = "sent" /\ call'[i][j].args = m
      BY <1>2, <2>2 DEF Sent
    <3>3. ticker' = ticker
      BY DEF electionSenderCall
    <3> HIDE DEF m
    <3>4. WaitingOK(i, j, call[i][j].args)'
      BY <1>3, <3>1, <3>2, <3>3 DEF WaitingOK, MessageOK, Campaigning, Rpc
    <3>5. QED
      BY <3>2, <3>4 DEF SlotOK
  <2>3. QED
    BY <2>1, <2>2
<1>5. LateOK'
  BY MessageKept DEF electionSenderCall, LateOK, ElectionInv, historyVars
<1>6. QED
  BY <1>1, <1>4, <1>5, CallStep DEF electionSenderCall

\* Who still leads in the term of its round sends requests it has claimed.
LEMMA LeaderRequest ==
    ASSUME ElectionInv, NEW i \in Server, NEW j \in Server, i # j, SameLeader(i),
           NEW m, m.rpc \in Rpc \ {"RequestVote"}, m.from = i, m.to = j,
           m.Term = currentTerm[i],
           call'[i][j] = Sent(m), won' = won, ticker' = ticker
    PROVE  SlotOK(i, j)'
<1>1. Claimed(m.Term, i)
  BY DEF SameLeader, ElectionInv, Leads
<1>2. MessageOK(m)'
  BY <1>1 DEF MessageOK, Claimed, ElectionInv, ElectionTypeOK
<1>3. call'[i][j].st = "sent" /\ call'[i][j].args = m
  BY DEF Sent
<1>4. WaitingOK(i, j, call[i][j].args)'
  BY <1>2, <1>3 DEF WaitingOK, MessageOK, Claimed, SameLeader, ElectionInv, Leads,
                    Campaigning
<1>5. QED
  BY <1>3, <1>4 DEF SlotOK

\* appendRPCWorker sends only while its leader leads in the term of the round.
LEMMA AppendCallStep ==
    ASSUME ElectionInv, NEW i \in Server, NEW j \in Server, appendRPCWorkerCall(i, j)
    PROVE  ElectionInv'
<1> DEFINE m == AppendEntriesArgs(i, j)
           c == IF IsSendSnapshot(i, j) \/ ~ SameLeader(i) THEN Finished ELSE Sent(m)
<1>1. call' = [call EXCEPT ![i][j] = c]
  BY DEF appendRPCWorkerCall
<1>2. call'[i][j] = c
  BY <1>1 DEF ElectionInv, ElectionTypeOK
<1>3. i # j /\ won' = won /\ ticker' = ticker
  BY NotYetSent DEF appendRPCWorkerCall, Rpc, historyVars
<1>4. SlotOK(i, j)'
  <2>1. CASE c = Finished
    BY <1>2, <2>1 DEF SlotOK
  <2>2. CASE SameLeader(i) /\ c = Sent(m)
    <3>1. /\ m.rpc \in Rpc \ {"RequestVote"} /\ m.from = i /\ m.to = j
          /\ m.Term = currentTerm[i]
      BY DEF AppendEntriesArgs, Rpc
    <3> HIDE DEF m
    <3>2. QED
      BY <1>2, <1>3, <2>2, <3>1, LeaderRequest
  <2>3. QED
    BY <2>1, <2>2
<1>5. LateOK'
  BY MessageKept DEF appendRPCWorkerCall, LateOK, ElectionInv, historyVars
<1>6. QED
  BY <1>1, <1>4, <1>5, CallStep DEF appendRPCWorkerCall

\* InstallSnapshotSender likewise.
LEMMA SnapshotCallStep ==
    ASSUME ElectionInv, NEW i \in Server, NEW j \in Server,
           InstallSnapshotSenderCall(i, j)
    PROVE  ElectionInv'
<1> DEFINE m == InstallSnapshotArgs(i, j)
           c == IF SameLeader(i) THEN Sent(m) ELSE Finished
<1>1. call' = [call EXCEPT ![i][j] = c]
  BY DEF InstallSnapshotSenderCall
<1>2. call'[i][j] = c
  BY <1>1 DEF ElectionInv, ElectionTypeOK
<1>3. i # j /\ won' = won /\ ticker' = ticker
  BY NotYetSent DEF InstallSnapshotSenderCall, Rpc, historyVars
<1>4. SlotOK(i, j)'
  <2>1. CASE ~ SameLeader(i)
    BY <1>2, <2>1 DEF SlotOK
  <2>2. CASE SameLeader(i)
    <3>1. /\ m.rpc \in Rpc \ {"RequestVote"} /\ m.from = i /\ m.to = j
          /\ m.Term = currentTerm[i]
      BY DEF InstallSnapshotArgs, Rpc
    <3> HIDE DEF m
    <3>2. QED
      BY <1>2, <1>3, <2>2, <3>1, LeaderRequest
  <2>3. QED
    BY <2>1, <2>2
<1>5. LateOK'
  BY MessageKept DEF InstallSnapshotSenderCall, LateOK, ElectionInv, historyVars
<1>6. QED
  BY <1>1, <1>4, <1>5, CallStep DEF InstallSnapshotSenderCall

-----------------------------------------------------------------------------
(* Replies: a goroutine ends, and a newer term may end a campaign or a      *)
(* leadership.                                                              *)

\* What the three reply steps have in common.
LEMMA ReplyStep ==
    ASSUME ElectionInv, NEW i \in Server, NEW j \in Server,
           Finish(i, j), UNCHANGED <<late, historyVars>>,
           ElectionTypeOK', Saved', Counted',
           \A p \in Server : /\ ticker'[p].kind = ticker[p].kind
                             /\ ticker'[p].term = ticker[p].term,
           \A p \in Server :
              \/ /\ currentTerm'[p] = currentTerm[p]
                 /\ voteFor'[p] = voteFor[p]
                 /\ leaderId'[p] = leaderId[p]
              \/ currentTerm'[p] > currentTerm[p] /\ leaderId'[p] # p
    PROVE  ElectionInv'
<1>1. ElectionTypeOK /\ voted' = voted /\ won' = won
  BY DEF ElectionInv, historyVars
<1>2. VotesOnce' /\ VotesHeld' /\ VoteOrLeader'
  BY <1>1, VotesKept DEF ElectionInv
<1>3. ClaimsPast' /\ WonByVotes'
  <2>1. \A v \in Server : currentTerm'[v] >= currentTerm[v]
    BY <1>1 DEF ElectionTypeOK
  <2>2. QED
    BY <1>1, <2>1, WinsKept DEF ElectionInv, Campaigning
<1>4. CallsOK'
  <2>1. SUFFICES ASSUME NEW p \in Server, NEW q \in Server PROVE SlotOK(p, q)'
    BY DEF CallsOK
  <2>2. CASE p = i /\ q = j
    BY <1>1, <2>2 DEF Finish, SlotOK, ElectionTypeOK
  <2>3. CASE p # i \/ q # j
    <3>1. call'[p][q] = call[p][q]
      BY <1>1, <2>3 DEF Finish, ElectionTypeOK
    <3>2. QED
      BY <1>1, <3>1, SlotKept DEF ElectionInv, CallsOK, Campaigning
  <2>4. QED
    BY <2>2, <2>3
<1>5. LateOK'
  BY <1>1, MessageKept DEF ElectionInv, LateOK
<1>6. Leads'
  BY <1>1 DEF ElectionInv, Leads, Campaigning, Claimed
<1>7. QED
  BY <1>2, <1>3, <1>4, <1>5, <1>6 DEF ElectionInv

\* electionSender counts a vote that the voter has given to this campaign.
LEMMA ElectionReplyStep ==
    ASSUME ElectionInv, NEW i \in Server, NEW j \in Server, electionSenderReply(i, j)
    PROVE  ElectionInv'
<1> DEFINE r == call[i][j].reply
           current == currentTerm[i] = ticker[i].term
           newer == current /\ r.Term > currentTerm[i]
<1>1. /\ ElectionTypeOK /\ voted' = voted /\ won' = won
      /\ call[i][j].st = "replied" /\ call[i][j].args.rpc = "RequestVote"
  BY DEF electionSenderReply, Waits, ElectionInv, historyVars
<1>2. /\ Campaigning(i)
      /\ r.Term \in Nat
      /\ r.VoteGranted => <<j, ticker[i].term, i>> \in voted
  <2>1. SlotOK(i, j)
    BY DEF ElectionInv, CallsOK
  <2>2. call[i][j] # Finished /\ (\A x : call[i][j] # Spawned(x))
        /\ call[i][j].st \notin {"sent", "lost"}
    BY <1>1 DEF Finished, Spawned
  <2>3. QED
    BY <1>1, <2>1, <2>2, Zenon DEF SlotOK, WaitingOK
<1>3. /\ currentTerm' = [currentTerm EXCEPT ![i] = IF newer THEN r.Term ELSE @]
      /\ voteFor' = [voteFor EXCEPT ![i] = IF newer THEN Nil ELSE @]
      /\ leaderId' = leaderId
      /\ ticker' = [ticker EXCEPT ![i].yes =
                      IF current /\ r.VoteGranted THEN @ \cup {j} ELSE @]
      /\ Finish(i, j)
      /\ UNCHANGED <<late, historyVars>>
      /\ IF newer THEN persist(i) ELSE raftstate' = raftstate
  BY DEF electionSenderReply
<1> HIDE DEF r
<1>4. Saved' /\ DOMAIN raftstate' = Server
  BY <1>1, <1>3, PersistSaves DEF ElectionInv, ElectionTypeOK
<1>5. /\ ticker' \in [Server -> Round]
      /\ \A p \in Server : /\ ticker'[p].kind = ticker[p].kind
                           /\ ticker'[p].term = ticker[p].term
                           /\ p # i => ticker'[p].yes = ticker[p].yes
      /\ ticker'[i].yes = IF current /\ r.VoteGranted THEN ticker[i].yes \cup {j}
                          ELSE ticker[i].yes
  BY <1>1, <1>3 DEF ElectionTypeOK, Round
<1>6. ElectionTypeOK'
  BY <1>1, <1>2, <1>3, <1>4, <1>5 DEF ElectionTypeOK, Vote, Finish
<1>7. Counted'
  <2>1. \A v \in ticker'[i].yes : v \in ticker[i].yes \/ (v = j /\ r.VoteGranted)
    BY <1>5
  <2>2. QED
    BY <1>1, <1>2, <1>5, <2>1 DEF ElectionInv, Counted, Campaigning, ElectionTypeOK
<1>8. leaderId[i] # i
  BY <1>2 DEF ElectionInv, Leads
<1>9. \A p \in Server :
         \/ /\ currentTerm'[p] = currentTerm[p]
            /\ voteFor'[p] = voteFor[p]
            /\ leaderId'[p] = leaderId[p]
         \/ currentTerm'[p] > currentTerm[p] /\ leaderId'[p] # p
  BY <1>1, <1>3, <1>8 DEF ElectionTypeOK
<1>10. QED
  BY <1>3, <1>4, <1>5, <1>6, <1>7, <1>9, ReplyStep

\* appendRPCWorker and InstallSnapshotSender: a newer term ends the leadership.
LEMMA LeaderReplyStep ==
    ASSUME ElectionInv, NEW i \in Server, NEW j \in Server,
           Finish(i, j), UNCHANGED <<late, historyVars>>,
           ticker' \in [Server -> Round],
           \A p \in Server : /\ ticker'[p].kind = ticker[p].kind
                             /\ ticker'[p].term = ticker[p].term,
           ~ Campaigning(i),
           \A p \in Server \ {i} : ticker'[p] = ticker[p],
           \/ UNCHANGED <<electionVars, raftstate>>
           \/ \E t \in Nat : t > currentTerm[i] /\ StepDown(i, t) /\ persist(i)
    PROVE  ElectionInv'
<1>1. ElectionTypeOK /\ voted' = voted /\ won' = won
  BY DEF ElectionInv, historyVars
<1>2. /\ currentTerm' \in [Server -> Nat]
      /\ voteFor' \in [Server -> Vote]
      /\ leaderId' \in [Server -> Vote]
      /\ \A p \in Server :
           \/ /\ currentTerm'[p] = currentTerm[p]
              /\ voteFor'[p] = voteFor[p]
              /\ leaderId'[p] = leaderId[p]
           \/ p = i /\ currentTerm'[p] > currentTerm[p] /\ leaderId'[p] # p
  <2>1. CASE UNCHANGED <<electionVars, raftstate>>
    BY <1>1, <2>1 DEF electionVars, ElectionTypeOK
  <2>2. CASE \E t \in Nat : t > currentTerm[i] /\ StepDown(i, t) /\ persist(i)
    BY <1>1, <2>2, ServerAssumption DEF StepDown, ElectionTypeOK, Vote
  <2>3. QED
    BY <2>1, <2>2
<1>3. Saved' /\ DOMAIN raftstate' = Server
  <2>1. /\ \A p \in Server \ {i} : /\ currentTerm'[p] = currentTerm[p]
                                   /\ voteFor'[p] = voteFor[p]
        /\ \/ persist(i)
           \/ /\ raftstate' = raftstate
              /\ currentTerm'[i] = currentTerm[i]
              /\ voteFor'[i] = voteFor[i]
    BY <1>2 DEF electionVars
  <2>2. QED
    BY <1>1, <2>1, PersistSaves DEF ElectionInv, ElectionTypeOK
<1>4. ElectionTypeOK'
  BY <1>1, <1>2, <1>3 DEF ElectionTypeOK, Finish
<1>5. Counted'
  BY <1>1 DEF ElectionInv, Counted, Campaigning
<1>6. QED
  BY <1>2, <1>3, <1>4, <1>5, ReplyStep

\* appendRPCWorker after a reply.
LEMMA AppendReplyStep ==
    ASSUME ElectionInv, NEW i \in Server, NEW j \in Server, appendRPCWorkerReply(i, j)
    PROVE  ElectionInv'
<1> DEFINE r == call[i][j].reply
           use == SameLeader(i) /\ r.Term <= currentTerm[i]
<1>1. call[i][j].st = "replied" /\ call[i][j].args.rpc = "AppendEntries"
  BY DEF appendRPCWorkerReply, Waits
<1>2. ~ Campaigning(i) /\ r.Term \in Nat
  <2>1. SlotOK(i, j)
    BY DEF ElectionInv, CallsOK
  <2>2. call[i][j] # Finished /\ (\A x : call[i][j] # Spawned(x))
        /\ call[i][j].st \notin {"sent", "lost"} /\ call[i][j].args.rpc # "RequestVote"
    BY <1>1 DEF Finished, Spawned
  <2>3. QED
    BY <2>1, <2>2, Zenon DEF SlotOK, WaitingOK
<1>3. /\ ticker' = [ticker EXCEPT ![i].yes =
                      IF use /\ r.Success THEN @ \cup {j} ELSE @]
      /\ Finish(i, j)
      /\ UNCHANGED <<late, historyVars>>
      /\ IF SameLeader(i) /\ ~ use THEN StepDown(i, r.Term) /\ persist(i)
         ELSE UNCHANGED <<electionVars, raftstate>>
  BY DEF appendRPCWorkerReply
<1> HIDE DEF r
<1>4. /\ ticker' \in [Server -> Round]
      /\ \A p \in Server : /\ ticker'[p].kind = ticker[p].kind
                           /\ ticker'[p].term = ticker[p].term
      /\ \A p \in Server \ {i} : ticker'[p] = ticker[p]
  BY <1>3 DEF ElectionInv, ElectionTypeOK, Round
<1>5. \/ UNCHANGED <<electionVars, raftstate>>
      \/ r.Term > currentTerm[i] /\ StepDown(i, r.Term) /\ persist(i)
  BY <1>2, <1>3 DEF ElectionInv, ElectionTypeOK
<1>6. QED
  BY <1>2, <1>3, <1>4, <1>5, LeaderReplyStep

\* InstallSnapshotSender after a reply.
LEMMA SnapshotReplyStep ==
    ASSUME ElectionInv, NEW i \in Server, NEW j \in Server,
           InstallSnapshotSenderReply(i, j)
    PROVE  ElectionInv'
<1> DEFINE t == call[i][j].reply.Term
<1>1. call[i][j].st = "replied" /\ call[i][j].args.rpc = "InstallSnapshot"
  BY DEF InstallSnapshotSenderReply, Waits
<1>2. ~ Campaigning(i) /\ t \in Nat
  <2>1. SlotOK(i, j)
    BY DEF ElectionInv, CallsOK
  <2>2. call[i][j] # Finished /\ (\A x : call[i][j] # Spawned(x))
        /\ call[i][j].st \notin {"sent", "lost"} /\ call[i][j].args.rpc # "RequestVote"
    BY <1>1 DEF Finished, Spawned
  <2>3. QED
    BY <2>1, <2>2, Zenon DEF SlotOK, WaitingOK
<1>3. /\ ticker' = ticker
      /\ Finish(i, j)
      /\ UNCHANGED <<late, historyVars>>
      /\ IF t > currentTerm[i] THEN StepDown(i, t) /\ persist(i)
         ELSE UNCHANGED <<electionVars, raftstate>>
  BY DEF InstallSnapshotSenderReply
<1> HIDE DEF t
<1>4. ticker' \in [Server -> Round]
  BY <1>3 DEF ElectionInv, ElectionTypeOK
<1>5. \/ UNCHANGED <<electionVars, raftstate>>
      \/ t > currentTerm[i] /\ StepDown(i, t) /\ persist(i)
  BY <1>3
<1>6. QED
  BY <1>2, <1>3, <1>4, <1>5, LeaderReplyStep

-----------------------------------------------------------------------------
(* Rounds: a campaign or an AppendEntries round starts or ends.             *)

\* startElection: a new term, and the candidate's own vote in it.
LEMMA StartElectionStep ==
    ASSUME ElectionInv, NEW i \in Server, startElection(i)
    PROVE  ElectionInv'
<1> DEFINE T == currentTerm[i] + 1
<1>1. ElectionTypeOK /\ T \in Nat /\ T > currentTerm[i]
  BY DEF ElectionInv, ElectionTypeOK
<1>2. /\ currentTerm' = [currentTerm EXCEPT ![i] = T]
      /\ voteFor' = [voteFor EXCEPT ![i] = i]
      /\ leaderId' = [leaderId EXCEPT ![i] = Nil]
      /\ ticker' = [ticker EXCEPT ![i] =
                      [kind |-> "election", term |-> T, yes |-> {i}]]
      /\ call' = [call EXCEPT ![i] = [j \in Server |->
                     IF j = i THEN Finished ELSE Spawned("RequestVote")]]
      /\ voted' = voted \cup {<<i, T, i>>}
      /\ won' = won /\ late' = late
      /\ persist(i)
  BY DEF startElection
<1> HIDE DEF T
<1>3. Saved' /\ DOMAIN raftstate' = Server
  BY <1>1, <1>2, PersistSaves DEF ElectionInv, ElectionTypeOK
<1>4. /\ ticker' \in [Server -> Round]
      /\ ticker'[i].kind = "election" /\ ticker'[i].term = T /\ ticker'[i].yes = {i}
      /\ \A p \in Server \ {i} : ticker'[p] = ticker[p]
  BY <1>1, <1>2 DEF ElectionTypeOK, Round
<1>5. ElectionTypeOK'
  BY <1>1, <1>2, <1>3, <1>4 DEF ElectionTypeOK, Vote
<1>6. \A d \in Server : <<i, T, d>> \notin voted
  BY <1>1 DEF ElectionInv, VotesHeld, ElectionTypeOK
<1>7. VotesOnce'
  BY <1>2, <1>6 DEF ElectionInv, VotesOnce
<1>8. VotesHeld'
  BY <1>1, <1>2, ServerAssumption DEF ElectionInv, VotesHeld, ElectionTypeOK
<1>9. VoteOrLeader'
  BY <1>1, <1>2, <1>6 DEF ElectionInv, VoteOrLeader, ElectionTypeOK, Claimed
<1>10. Counted'
  BY <1>1, <1>2, <1>4 DEF ElectionInv, Counted, Campaigning
<1>11. CallsOK'
  <2>1. SUFFICES ASSUME NEW p \in Server, NEW q \in Server PROVE SlotOK(p, q)'
    BY DEF CallsOK
  <2>2. CASE p # i
    <3>1. call'[p][q] = call[p][q]
      BY <1>1, <1>2, <2>2 DEF ElectionTypeOK
    <3>2. QED
      BY <1>2, <1>4, <2>2, <3>1, SlotKept DEF ElectionInv, CallsOK, Campaigning
  <2>3. CASE p = i /\ q = i
    BY <1>1, <1>2, <2>3 DEF SlotOK, ElectionTypeOK
  <2>4. CASE p = i /\ q # i
    <3>1. call'[p][q] = Spawned("RequestVote")
      BY <1>1, <1>2, <2>4 DEF ElectionTypeOK
    <3>2. call'[p][q].rpc = "RequestVote" /\ Campaigning(p)'
      BY <1>4, <2>4, <3>1 DEF Spawned, Campaigning
    <3>3. QED
      BY <2>4, <3>1, <3>2 DEF SlotOK, Rpc
  <2>5. QED
    BY <2>2, <2>3, <2>4
<1>12. LateOK'
  BY <1>2, MessageKept DEF ElectionInv, LateOK
<1>13. Leads'
  BY <1>1, <1>2, <1>4, ServerAssumption DEF ElectionInv, Leads, Campaigning, Claimed, ElectionTypeOK
<1>14. ClaimsPast'
  BY <1>1, <1>2, <1>4 DEF ElectionInv, ClaimsPast, Campaigning, ElectionTypeOK
<1>15. WonByVotes'
  BY <1>2 DEF ElectionInv, WonByVotes
<1>16. QED
  BY <1>3, <1>5, <1>7, <1>8, <1>9, <1>10, <1>11, <1>12, <1>13, <1>14, <1>15
     DEF ElectionInv

\* Once every goroutine of a round has finished, none is left.
LEMMA RoundOver ==
    ASSUME ElectionInv, NEW i \in Server, AllFinished(i)
    PROVE  \A j \in Server : call[i][j] = Finished
<1>1. SlotOK(i, i)
  BY DEF ElectionInv, CallsOK
<1>2. call[i][i] = Finished
  BY <1>1, Zenon DEF SlotOK, WaitingOK, MessageOK
<1>3. QED
  BY <1>2 DEF AllFinished, Peers

\* startElection's tail: the votes counted are votes given to this campaign.
LEMMA ElectionEndStep ==
    ASSUME ElectionInv, NEW i \in Server, startElectionEnd(i)
    PROVE  ElectionInv'
<1> DEFINE win == Majority(ticker[i].yes)
           w == [campaign |-> ticker[i].term, leader |-> i, claimed |-> currentTerm[i]]
<1>1. ElectionTypeOK /\ Campaigning(i)
  BY DEF startElectionEnd, ElectionInv
<1>2. /\ leaderId' = [leaderId EXCEPT ![i] = IF win THEN i ELSE @]
      /\ ticker' = [ticker EXCEPT ![i] = Idle]
      /\ won' = IF win THEN won \cup {w} ELSE won
      /\ UNCHANGED <<currentTerm, voteFor, raftstate, call, late, voted>>
  BY DEF startElectionEnd
<1>3. \A j \in Server : call[i][j] = Finished
  BY RoundOver DEF startElectionEnd
<1>4. /\ ticker' \in [Server -> Round]
      /\ ~ Campaigning(i)'
      /\ \A p \in Server \ {i} : ticker'[p] = ticker[p]
  BY <1>1, <1>2 DEF ElectionTypeOK, Round, Idle, Campaigning
<1>5. w \in [campaign : Nat, leader : Server, claimed : Nat]
  BY <1>1 DEF ElectionTypeOK, Round
<1>6. ElectionTypeOK'
  BY <1>1, <1>2, <1>4, <1>5 DEF ElectionTypeOK, Vote
<1>7. won \subseteq won' /\ (win => w \in won')
  BY <1>2
<1>8. Saved' /\ VotesOnce' /\ VotesHeld'
  BY <1>2 DEF ElectionInv, Saved, VotesOnce, VotesHeld
<1>9. VoteOrLeader'
  BY <1>2, <1>7 DEF ElectionInv, VoteOrLeader, Claimed
<1>10. Counted'
  BY <1>2, <1>4 DEF ElectionInv, Counted, Campaigning
<1>11. CallsOK'
  <2>1. SUFFICES ASSUME NEW p \in Server, NEW q \in Server PROVE SlotOK(p, q)'
    BY DEF CallsOK
  <2>2. CASE p = i
    BY <1>2, <1>3, <2>2 DEF SlotOK
  <2>3. CASE p # i
    BY <1>2, <1>4, <1>7, <2>3, SlotKept DEF ElectionInv, CallsOK, Campaigning
  <2>4. QED
    BY <2>2, <2>3
<1>12. LateOK'
  BY <1>2, <1>7, MessageKept DEF ElectionInv, LateOK
<1>13. Leads'
  <2>1. SUFFICES ASSUME NEW p \in Server
                 PROVE  /\ leaderId'[p] = p => Claimed(currentTerm[p], p)'
                        /\ Campaigning(p)' => leaderId'[p] # p
    BY DEF Leads
  <2>2. CASE p = i /\ win
    BY <1>2, <1>4, <1>7, <2>2 DEF Claimed
  <2>3. CASE p # i \/ ~ win
    BY <1>1, <1>2, <1>4, <1>7, <2>3 DEF ElectionInv, Leads, Claimed, Campaigning, ElectionTypeOK
  <2>4. QED
    BY <2>2, <2>3
<1>14. ClaimsPast'
  <2>1. SUFFICES ASSUME NEW e \in won'
                 PROVE  /\ e.claimed <= currentTerm'[e.leader]
                        /\ Campaigning(e.leader)' => e.claimed < ticker'[e.leader].term
    BY DEF ClaimsPast
  <2>2. CASE e = w
    BY <1>1, <1>2, <1>4, <2>2 DEF ElectionTypeOK
  <2>3. CASE e \in won
    BY <1>1, <1>2, <1>4, <2>3 DEF ElectionInv, ClaimsPast, ElectionTypeOK, Campaigning
  <2>4. QED
    BY <1>2, <2>2, <2>3
<1>15. WonByVotes'
  <2>1. SUFFICES ASSUME NEW e \in won'
                 PROVE  \E Q \in SUBSET Server :
                           Majority(Q) /\ \A v \in Q : <<v, e.campaign, e.leader>> \in voted'
    BY DEF WonByVotes
  <2>2. CASE e \in won
    BY <1>2, <2>2 DEF ElectionInv, WonByVotes
  <2>3. CASE win /\ e = w
    <3>1. \A v \in ticker[i].yes : <<v, w.campaign, w.leader>> \in voted
      BY <1>1 DEF ElectionInv, Counted, ElectionTypeOK, Round
    <3>2. ticker[i].yes \in SUBSET Server
      BY <1>1 DEF ElectionTypeOK, Round
    <3>3. QED
      BY <1>2, <2>3, <3>1, <3>2
  <2>4. QED
    BY <1>2, <2>2, <2>3
<1>16. QED
  BY <1>6, <1>8, <1>9, <1>10, <1>11, <1>12, <1>13, <1>14, <1>15 DEF ElectionInv

\* An AppendEntries round starts or ends: the elections do not notice.
LEMMA AppendRoundStep ==
    ASSUME ElectionInv, NEW i \in Server, ~ Campaigning(i),
           UNCHANGED <<electionVars, raftstate, late, voted, won>>,
           NEW R \in Round, R.kind # "election",
           ticker' = [ticker EXCEPT ![i] = R],
           DOMAIN call' = Server, DOMAIN call'[i] = Server,
           \A p \in Server \ {i} : call'[p] = call[p],
           \A j \in Server : SlotOK(i, j)'
    PROVE  ElectionInv'
<1>1. ElectionTypeOK /\ voted' = voted /\ won' = won
  BY DEF ElectionInv
<1>2. /\ ~ Campaigning(i)'
      /\ \A p \in Server \ {i} : ticker'[p] = ticker[p] /\ call'[p] = call[p]
  BY <1>1 DEF ElectionTypeOK, Campaigning
<1>3. ElectionTypeOK'
  BY <1>1 DEF ElectionTypeOK, electionVars
<1>4. Saved' /\ VotesOnce' /\ VotesHeld' /\ VoteOrLeader' /\ WonByVotes'
  BY <1>1 DEF ElectionInv, Saved, VotesOnce, VotesHeld, VoteOrLeader, WonByVotes,
              Claimed, electionVars
<1>5. Counted' /\ Leads' /\ ClaimsPast'
  BY <1>1, <1>2 DEF ElectionInv, Counted, Leads, ClaimsPast, Claimed, Campaigning,
                    electionVars, ElectionTypeOK
<1>6. CallsOK'
  <2>1. SUFFICES ASSUME NEW p \in Server \ {i}, NEW q \in Server PROVE SlotOK(p, q)'
    BY DEF CallsOK
  <2>2. QED
    BY <1>1, <1>2, SlotKept DEF ElectionInv, CallsOK, Campaigning
<1>7. LateOK'
  BY <1>1, MessageKept DEF ElectionInv, LateOK
<1>8. QED
  BY <1>3, <1>4, <1>5, <1>6, <1>7 DEF ElectionInv

\* sendAERpcs spawns workers, none of which asks for votes.
LEMMA SendStep ==
    ASSUME ElectionInv, NEW i \in Server, sendAERpcs(i)
    PROVE  ElectionInv'
<1> DEFINE R == [kind |-> "append", term |-> currentTerm[i], yes |-> {i}]
           c == [j \in Server |->
                   IF j = i THEN Finished
                   ELSE IF IsSendSnapshot(i, j) THEN Spawned("InstallSnapshot")
                   ELSE Spawned("AppendEntries")]
<1>1. /\ ticker[i] = Idle
      /\ ticker' = [ticker EXCEPT ![i] = R]
      /\ call' = [call EXCEPT ![i] = c]
      /\ UNCHANGED <<electionVars, raftstate, late, voted, won>>
  BY DEF sendAERpcs, historyVars
<1>2. R \in Round /\ R.kind # "election"
  BY DEF ElectionInv, ElectionTypeOK, Round
<1>3. ~ Campaigning(i) /\ ~ Campaigning(i)'
  BY <1>1, <1>2 DEF ElectionInv, ElectionTypeOK, Campaigning, Idle
<1>4. ASSUME NEW j \in Server PROVE SlotOK(i, j)'
  <2>1. call'[i][j] = c[j]
    BY <1>1 DEF ElectionInv, ElectionTypeOK
  <2>2. CASE j = i
    BY <2>1, <2>2 DEF SlotOK
  <2>3. CASE j # i
    <3>1. PICK x \in {"InstallSnapshot", "AppendEntries"} : call'[i][j] = Spawned(x)
      BY <2>1, <2>3
    <3>2. x \in Rpc /\ call'[i][j].rpc = x /\ x # "RequestVote"
      BY <3>1 DEF Rpc, Spawned
    <3>3. QED
      BY <1>3, <2>3, <3>1, <3>2 DEF SlotOK
  <2>4. QED
    BY <2>2, <2>3
<1> HIDE DEF R
<1>5. /\ DOMAIN call' = Server /\ DOMAIN call'[i] = Server
      /\ \A p \in Server \ {i} : call'[p] = call[p]
  BY <1>1 DEF ElectionInv, ElectionTypeOK
<1>6. QED
  BY <1>1, <1>2, <1>3, <1>4, <1>5, AppendRoundStep

\* sendAERpcs' tail moves commitIndex only.
LEMMA SendEndStep ==
    ASSUME ElectionInv, NEW i \in Server, sendAERpcsEnd(i)
    PROVE  ElectionInv'
<1>1. /\ ticker[i].kind = "append"
      /\ ticker' = [ticker EXCEPT ![i] = Idle]
      /\ UNCHANGED <<electionVars, raftstate, call, late, voted, won>>
  BY DEF sendAERpcsEnd
<1>2. Idle \in Round /\ Idle.kind # "election" /\ ~ Campaigning(i)
  BY <1>1 DEF Idle, Round, Campaigning
<1>3. \A j \in Server : call[i][j] = Finished
  BY RoundOver DEF sendAERpcsEnd
<1>4. ASSUME NEW j \in Server PROVE SlotOK(i, j)'
  BY <1>1, <1>3 DEF SlotOK
<1>5. DOMAIN call' = Server /\ DOMAIN call'[i] = Server
  BY <1>1 DEF ElectionInv, ElectionTypeOK
<1>6. QED
  BY <1>1, <1>2, <1>4, <1>5, AppendRoundStep

-----------------------------------------------------------------------------
(* Handlers.                                                               *)

\* A request that may still be executed is well formed.
LEMMA RequestOK ==
    ASSUME ElectionInv, NEW m \in Requests
    PROVE  MessageOK(m)
<1>1. CASE m \in late
  BY <1>1 DEF ElectionInv, LateOK
<1>2. CASE m \notin late
  <2>1. PICK p \in Server \X Server : call[p[1]][p[2]].st = "sent" /\ m = call[p[1]][p[2]].args
    BY <1>2 DEF Requests
  <2>2. WaitingOK(p[1], p[2], m)
    BY <2>1, Waiting
  <2>3. QED
    BY <2>2 DEF WaitingOK
<1>3. QED
  BY <1>1, <1>2

\* A handler's reply reaches the goroutine that sent the request, or nobody.
LEMMA AnswerStep ==
    ASSUME ElectionInv, NEW m, MessageOK(m), NEW reply, Answer(m, reply),
           reply.Term \in Nat, ticker' = ticker, won' = won, voted \subseteq voted',
           call[m.from][m.to] = Sent(m) /\ m.rpc = "RequestVote" /\ reply.VoteGranted =>
              <<m.to, ticker[m.from].term, m.from>> \in voted'
    PROVE  /\ CallsOK' /\ LateOK'
           /\ DOMAIN call' = Server
           /\ \A i \in Server : DOMAIN call'[i] = Server
<1> DEFINE i == m.from
           j == m.to
<1>1. ElectionTypeOK /\ i \in Server /\ j \in Server
  BY DEF ElectionInv, MessageOK
<1>2. LateOK'
  BY MessageKept DEF ElectionInv, LateOK, Answer
<1>3. CASE call' = call
  <2>1. ASSUME NEW p \in Server, NEW q \in Server PROVE SlotOK(p, q)'
    BY <1>3, SlotKept DEF ElectionInv, CallsOK, Campaigning
  <2>2. QED
    BY <1>1, <1>2, <1>3, <2>1 DEF ElectionTypeOK, CallsOK
<1>4. CASE /\ call[i][j] = Sent(m)
           /\ call' = [call EXCEPT ![i][j] = Replied(m, reply)]
  <2>1. /\ DOMAIN call' = Server
        /\ \A p \in Server : DOMAIN call'[p] = Server
        /\ call'[i][j] = Replied(m, reply)
        /\ \A p, q \in Server : p # i \/ q # j => call'[p][q] = call[p][q]
    BY <1>1, <1>4 DEF ElectionTypeOK
  <2>2. WaitingOK(i, j, m)
    <3>1. call[i][j].st = "sent" /\ call[i][j].args = m
      BY <1>4 DEF Sent
    <3>2. QED
      BY <1>1, <3>1, Waiting
  <2>3. WaitingOK(i, j, m)'
    BY <2>2, MessageKept DEF WaitingOK, Campaigning
  <2>4. /\ call'[i][j].st = "replied"
        /\ call'[i][j].args = m
        /\ call'[i][j].reply = reply
    BY <2>1 DEF Replied
  <2>5. SlotOK(i, j)'
    <3>1. m.rpc = "RequestVote" /\ reply.VoteGranted => <<j, ticker'[i].term, i>> \in voted'
      BY <1>4
    <3>2. QED
      BY <2>3, <2>4, <3>1, Zenon DEF SlotOK
  <2>6. ASSUME NEW p \in Server, NEW q \in Server, p # i \/ q # j PROVE SlotOK(p, q)'
    BY <2>1, <2>6, SlotKept DEF ElectionInv, CallsOK, Campaigning
  <2>7. QED
    BY <1>2, <2>1, <2>5, <2>6 DEF CallsOK
<1>5. QED
  BY <1>3, <1>4 DEF Answer

\* AppendEntries and InstallSnapshot: a request of the current or a newer term
\* makes its sender leader and vote; the sender has claimed that term.
LEMMA FollowStep ==
    ASSUME ElectionInv, NEW m, MessageOK(m), m.rpc # "RequestVote",
           NEW reply, Answer(m, reply), reply.Term \in Nat, FollowLeader(m),
           ticker' = ticker, UNCHANGED historyVars,
           Saved', DOMAIN raftstate' = Server
    PROVE  ElectionInv'
<1> DEFINE j == m.to
<1>1. /\ ElectionTypeOK /\ voted' = voted /\ won' = won
      /\ j \in Server /\ m.from \in Server /\ m.from # j /\ m.Term \in Nat
      /\ Claimed(m.Term, m.from)
  BY DEF ElectionInv, historyVars, MessageOK
<1>2. /\ CallsOK' /\ LateOK'
      /\ DOMAIN call' = Server
      /\ \A p \in Server : DOMAIN call'[p] = Server
  BY <1>1, AnswerStep
<1>3. /\ currentTerm' \in [Server -> Nat]
      /\ voteFor' \in [Server -> Vote]
      /\ leaderId' \in [Server -> Vote]
  BY <1>1 DEF FollowLeader, ElectionTypeOK, electionVars, Vote
<1>4. \A p \in Server :
         \/ /\ currentTerm'[p] = currentTerm[p]
            /\ voteFor'[p] = voteFor[p]
            /\ leaderId'[p] = leaderId[p]
         \/ /\ p = j
            /\ m.Term >= currentTerm[p]
            /\ currentTerm'[p] = m.Term
            /\ voteFor'[p] = m.from
            /\ leaderId'[p] = m.from
  BY <1>1 DEF FollowLeader, Admitted, ElectionTypeOK, electionVars
<1>5. ElectionTypeOK'
  BY <1>1, <1>2, <1>3 DEF ElectionTypeOK
<1>6. VotesOnce' /\ VotesHeld' /\ VoteOrLeader'
  <2>1. \A v \in Server :
           \/ currentTerm'[v] > currentTerm[v]
           \/ /\ currentTerm'[v] = currentTerm[v]
              /\ voteFor'[v] = voteFor[v]
           \/ /\ currentTerm'[v] = currentTerm[v]
              /\ voteFor'[v] # Nil
              /\ Claimed(currentTerm[v], voteFor'[v])
    BY <1>1, <1>4, ServerAssumption DEF ElectionTypeOK
  <2>2. QED
    BY <1>1, <1>5, <2>1, VotesKept DEF ElectionInv
<1>7. Counted'
  BY <1>1 DEF ElectionInv, Counted, Campaigning
<1>8. Leads'
  BY <1>1, <1>4 DEF ElectionInv, Leads, Campaigning, Claimed
<1>9. ClaimsPast' /\ WonByVotes'
  <2>1. \A v \in Server : currentTerm'[v] >= currentTerm[v]
    BY <1>1, <1>4 DEF ElectionTypeOK
  <2>2. QED
    BY <1>1, <1>5, <2>1, WinsKept DEF ElectionInv, Campaigning
<1>10. QED
  BY <1>2, <1>5, <1>6, <1>7, <1>8, <1>9 DEF ElectionInv

\* FollowLeader changes term or vote only together with a persist().
LEMMA FollowSaved ==
    ASSUME ElectionTypeOK, NEW m, MessageOK(m), FollowLeader(m), ~ FollowSaves(m)
    PROVE  \A p \in Server : /\ currentTerm'[p] = currentTerm[p]
                             /\ voteFor'[p] = voteFor[p]
BY DEF FollowLeader, FollowSaves, Admitted, ElectionTypeOK, MessageOK, electionVars

\* FollowLeader concerns one peer.
LEMMA FollowLocal ==
    ASSUME ElectionTypeOK, NEW m, MessageOK(m), FollowLeader(m)
    PROVE  \A p \in Server \ {m.to} : /\ currentTerm'[p] = currentTerm[p]
                                      /\ voteFor'[p] = voteFor[p]
BY DEF FollowLeader, ElectionTypeOK, MessageOK, electionVars

\* The AppendEntries handler.
LEMMA AppendEntriesStep ==
    ASSUME ElectionInv, NEW m, MessageOK(m), AppendEntries(m)
    PROVE  ElectionInv'
<1> DEFINE reply == [Term |-> currentTerm[m.to], Success |-> Success(m)]
<1>1. /\ ElectionTypeOK /\ m.to \in Server /\ m.rpc # "RequestVote"
      /\ Answer(m, reply) /\ FollowLeader(m)
      /\ ticker' = ticker /\ UNCHANGED historyVars
      /\ IF AppendSaves(m) THEN persist(m.to) ELSE raftstate' = raftstate
  BY DEF AppendEntries, ElectionInv, MessageOK
<1>2. reply.Term \in Nat
  BY <1>1 DEF ElectionTypeOK
<1>3. \/ persist(m.to)
      \/ /\ raftstate' = raftstate
         /\ currentTerm'[m.to] = currentTerm[m.to]
         /\ voteFor'[m.to] = voteFor[m.to]
  BY <1>1, FollowSaved DEF AppendSaves
<1>4. Saved' /\ DOMAIN raftstate' = Server
  BY <1>1, <1>3, FollowLocal, PersistSaves DEF ElectionInv, ElectionTypeOK
<1> HIDE DEF reply
<1>5. QED
  BY <1>1, <1>2, <1>4, FollowStep

\* The InstallSnapshot handler.
LEMMA InstallSnapshotStep ==
    ASSUME ElectionInv, NEW m, MessageOK(m), InstallSnapshot(m)
    PROVE  ElectionInv'
<1> DEFINE reply == [Term |-> currentTerm[m.to]]
           j == m.to
<1>1. /\ ElectionTypeOK /\ j \in Server /\ m.rpc # "RequestVote"
      /\ Answer(m, reply) /\ FollowLeader(m)
      /\ ticker' = ticker /\ UNCHANGED historyVars
      /\ raftstate' = [raftstate EXCEPT ![j] =
                         IF FollowSaves(m)
                         THEN [RaftState(j) EXCEPT !.currentTerm = m.Term,
                                                   !.voteFor = m.from]
                         ELSE @]
  BY DEF InstallSnapshot, ElectionInv, MessageOK
<1>2. reply.Term \in Nat
  BY <1>1 DEF ElectionTypeOK
<1>3. DOMAIN raftstate' = Server
  BY <1>1 DEF ElectionTypeOK
<1>4. Saved'
  <2>1. CASE FollowSaves(m)
    <3>1. raftstate'[j].currentTerm = m.Term /\ raftstate'[j].voteFor = m.from
      BY <1>1, <2>1 DEF ElectionTypeOK, RaftState
    <3>2. currentTerm'[j] = m.Term /\ voteFor'[j] = m.from
      BY <1>1, <2>1 DEF FollowLeader, FollowSaves, ElectionTypeOK
    <3>3. \A p \in Server \ {j} : raftstate'[p] = raftstate[p]
      BY <1>1 DEF ElectionTypeOK
    <3>4. QED
      BY <1>1, <3>1, <3>2, <3>3, FollowLocal DEF ElectionInv, Saved
  <2>2. CASE ~ FollowSaves(m)
    <3>1. \A p \in Server : raftstate'[p] = raftstate[p]
      BY <1>1, <2>2 DEF ElectionTypeOK
    <3>2. QED
      BY <1>1, <2>2, <3>1, FollowSaved DEF ElectionInv, Saved
  <2>3. QED
    BY <2>1, <2>2
<1> HIDE DEF reply
<1>5. QED
  BY <1>1, <1>2, <1>3, <1>4, FollowStep

\* The RequestVote handler: a second vote in a term would go to a peer that
\* has already claimed the term, and such a peer no longer campaigns for it.
LEMMA RequestVoteStep ==
    ASSUME ElectionInv, NEW m, MessageOK(m), RequestVote(m)
    PROVE  ElectionInv'
<1> DEFINE j == m.to
           c == m.from
           T == m.Term
           newer == T > currentTerm[j]
           grant == VoteGranted(m)
           reply == [Term |-> currentTerm[j], VoteGranted |-> grant]
           first == grant /\ \A d \in Server : <<j, T, d>> \notin voted
<1>1. /\ ElectionTypeOK /\ j \in Server /\ c \in Server /\ c # j /\ T \in Nat
      /\ c # Nil
  BY ServerAssumption DEF ElectionInv, MessageOK
<1>2. /\ Answer(m, reply)
      /\ currentTerm' = [currentTerm EXCEPT ![j] = IF newer THEN T ELSE @]
      /\ voteFor' = [voteFor EXCEPT ![j] = IF grant THEN c ELSE VoteBefore(m)]
      /\ leaderId' = [leaderId EXCEPT ![j] = IF newer THEN Nil ELSE @]
      /\ voted' = IF first THEN voted \cup {<<j, T, c>>} ELSE voted
      /\ ticker' = ticker /\ won' = won
      /\ IF VoteSaves(m) THEN persist(j) ELSE raftstate' = raftstate
      /\ m.rpc = "RequestVote"
  BY DEF RequestVote
<1>3. grant => T >= currentTerm[j] /\ VoteBefore(m) \in {Nil, c}
  BY DEF VoteGranted
<1>4. VoteBefore(m) = IF newer THEN Nil ELSE voteFor[j]
  BY DEF VoteBefore
<1>5. VoteSaves(m) <=> newer \/ grant
  BY DEF VoteSaves
<1>6. reply.Term \in Nat /\ reply.VoteGranted = grant
  BY <1>1 DEF ElectionTypeOK
<1> HIDE DEF grant, reply
<1>7. Saved' /\ DOMAIN raftstate' = Server
  <2>1. /\ \A p \in Server \ {j} : /\ currentTerm'[p] = currentTerm[p]
                                   /\ voteFor'[p] = voteFor[p]
        /\ \/ persist(j)
           \/ /\ raftstate' = raftstate
              /\ currentTerm'[j] = currentTerm[j]
              /\ voteFor'[j] = voteFor[j]
    BY <1>1, <1>2, <1>4, <1>5 DEF ElectionTypeOK
  <2>2. QED
    BY <1>1, <2>1, PersistSaves DEF ElectionInv, ElectionTypeOK
<1>8. ASSUME NEW d \in Server, grant, <<j, T, d>> \in voted
      PROVE  T = currentTerm[j] /\ voteFor[j] = c /\ (d = c \/ Claimed(T, c))
  <2>1. T = currentTerm[j]
    BY <1>1, <1>3, <1>8 DEF ElectionInv, VotesHeld, ElectionTypeOK
  <2>2. voteFor[j] = c
    BY <1>1, <1>3, <1>4, <1>8, <2>1 DEF ElectionInv, VotesHeld, ElectionTypeOK
  <2>3. QED
    BY <1>1, <1>8, <2>1, <2>2 DEF ElectionInv, VoteOrLeader
<1>9. voted \subseteq voted'
  BY <1>2
<1>10. call[c][j] = Sent(m) /\ m.rpc = "RequestVote" /\ reply.VoteGranted =>
          <<j, ticker[c].term, c>> \in voted'
  <2>1. SUFFICES ASSUME call[c][j] = Sent(m), grant
                 PROVE  <<j, ticker[c].term, c>> \in voted'
    BY <1>6
  <2>2. WaitingOK(c, j, m)
    <3>1. call[c][j].st = "sent" /\ call[c][j].args = m
      BY <2>1 DEF Sent
    <3>2. QED
      BY <1>1, <3>1, Waiting
  <2>3. Campaigning(c) /\ ticker[c].term = T
    BY <1>2, <2>2 DEF WaitingOK
  <2>4. ~ Claimed(T, c)
    <3>1. ASSUME NEW e \in won, e.leader = c, e.claimed = T PROVE FALSE
      BY <1>1, <2>3, <3>1 DEF ElectionInv, ClaimsPast
    <3>2. QED
      BY <3>1 DEF Claimed
  <2>5. CASE first
    BY <1>2, <2>3, <2>5
  <2>6. CASE ~ first
    BY <1>8, <1>9, <2>1, <2>3, <2>4, <2>6
  <2>7. QED
    BY <2>5, <2>6
<1>11. /\ CallsOK' /\ LateOK'
       /\ DOMAIN call' = Server
       /\ \A p \in Server : DOMAIN call'[p] = Server
  BY <1>2, <1>6, <1>9, <1>10, AnswerStep
<1>12. ElectionTypeOK'
  BY <1>1, <1>2, <1>4, <1>7, <1>11 DEF ElectionTypeOK, Vote
<1>13. VotesOnce'
  BY <1>1, <1>2 DEF ElectionInv, VotesOnce
<1>14. VotesHeld'
  BY <1>1, <1>2, <1>3, <1>4, <1>12 DEF ElectionInv, VotesHeld, ElectionTypeOK
<1>15. VoteOrLeader'
  <2>1. SUFFICES ASSUME NEW v \in Server, NEW d \in Server,
                        <<v, currentTerm'[v], d>> \in voted', voteFor'[v] # d
                 PROVE  Claimed(currentTerm'[v], voteFor'[v])
    BY <1>2 DEF VoteOrLeader, Claimed
  <2>2. CASE v # j
    BY <1>1, <1>2, <2>1, <2>2 DEF ElectionInv, VoteOrLeader, ElectionTypeOK
  <2>3. CASE v = j /\ ~ grant
    <3>1. voted' = voted
      BY <1>2, <2>3
    <3>2. currentTerm'[j] = currentTerm[j] /\ ~ newer
      BY <1>1, <1>2, <2>1, <2>3, <3>1 DEF ElectionInv, VotesHeld, ElectionTypeOK
    <3>3. voteFor'[j] = voteFor[j]
      BY <1>1, <1>2, <1>4, <2>3, <3>2 DEF ElectionTypeOK
    <3>4. QED
      BY <1>1, <2>1, <2>3, <3>1, <3>2, <3>3 DEF ElectionInv, VoteOrLeader
  <2>4. CASE v = j /\ grant
    <3>1. currentTerm'[j] = T /\ voteFor'[j] = c
      BY <1>1, <1>2, <1>3, <2>4 DEF ElectionTypeOK
    <3>2. <<j, T, d>> \in voted
      BY <1>2, <2>1, <2>4, <3>1
    <3>3. QED
      BY <1>8, <2>1, <2>4, <3>1, <3>2
  <2>5. QED
    BY <2>2, <2>3, <2>4
<1>16. Counted'
  BY <1>2, <1>9 DEF ElectionInv, Counted, Campaigning
<1>17. Leads'
  BY <1>1, <1>2, ServerAssumption DEF ElectionInv, Leads, Campaigning, Claimed, ElectionTypeOK
<1>18. ClaimsPast' /\ WonByVotes'
  <2>1. \A v \in Server : currentTerm'[v] >= currentTerm[v]
    BY <1>1, <1>2 DEF ElectionTypeOK
  <2>2. QED
    BY <1>1, <1>2, <1>9, <1>12, <2>1, WinsKept DEF ElectionInv, Campaigning
<1>19. QED
  BY <1>7, <1>11, <1>12, <1>13, <1>14, <1>15, <1>16, <1>17, <1>18 DEF ElectionInv

-----------------------------------------------------------------------------
(* Crash and restart.                                                      *)

\* A term that a critical section is about to save is a newer one.
LEMMA NewTermsNewer ==
    ASSUME ElectionInv, NEW i \in Server, NEW t \in NewTerms(i)
    PROVE  t \in Nat /\ t > currentTerm[i]
<1>1. CASE \E m \in Requests : m.Term > currentTerm[i] /\ t = m.Term
  BY <1>1, RequestOK DEF MessageOK
<1>2. CASE \E j \in Server : /\ call[i][j].st = "replied"
                             /\ call[i][j].reply.Term > currentTerm[i]
                             /\ t = call[i][j].reply.Term
  <2>1. PICK j \in Server : /\ call[i][j].st = "replied"
                            /\ call[i][j].reply.Term > currentTerm[i]
                            /\ t = call[i][j].reply.Term
    BY <1>2
  <2>2. SlotOK(i, j)
    BY DEF ElectionInv, CallsOK
  <2>3. call[i][j] # Finished /\ (\A x : call[i][j] # Spawned(x))
        /\ call[i][j].st \notin {"sent", "lost"}
    BY <2>1 DEF Finished, Spawned
  <2>4. call[i][j].reply.Term \in Nat
    BY <2>2, <2>3, Zenon DEF SlotOK
  <2>5. QED
    BY <2>1, <2>4
<1>3. CASE t = currentTerm[i] + 1
  BY <1>3 DEF ElectionInv, ElectionTypeOK
<1>4. QED
  BY <1>1, <1>2, <1>3 DEF NewTerms

\* Whatever a crash leaves on disk has not forgotten a vote of its term.
LEMMA DiskOK ==
    ASSUME ElectionInv, NEW i \in Server, NEW disk \in {raftstate[i]} \cup HalfSaved(i)
    PROVE  /\ disk.currentTerm \in Nat
           /\ disk.voteFor \in Vote
           /\ \/ disk.currentTerm > currentTerm[i]
              \/ disk.currentTerm = currentTerm[i] /\ disk.voteFor = voteFor[i]
              \/ /\ disk.currentTerm = currentTerm[i]
                 /\ disk.voteFor # Nil
                 /\ Claimed(currentTerm[i], disk.voteFor)
<1>1. ElectionTypeOK /\ Nil \in Vote /\ voteFor[i] \in Vote
  BY DEF ElectionInv, ElectionTypeOK, Vote
<1>2. CASE disk = raftstate[i]
  BY <1>1, <1>2 DEF ElectionInv, Saved, ElectionTypeOK
<1>3. CASE \E t \in NewTerms(i) :
              disk = [RaftState(i) EXCEPT !.currentTerm = t, !.voteFor = voteFor[i]]
  <2>1. PICK t \in NewTerms(i) :
              disk = [RaftState(i) EXCEPT !.currentTerm = t, !.voteFor = voteFor[i]]
    BY <1>3
  <2>2. disk.currentTerm = t /\ disk.voteFor = voteFor[i]
    BY <2>1 DEF RaftState
  <2>3. QED
    BY <1>1, <2>2, NewTermsNewer
<1>4. CASE \E m \in Requests :
              /\ m.Term > currentTerm[i]
              /\ disk = [RaftState(i) EXCEPT !.currentTerm = m.Term, !.voteFor = Nil]
  <2>1. PICK m \in Requests :
              /\ m.Term > currentTerm[i]
              /\ disk = [RaftState(i) EXCEPT !.currentTerm = m.Term, !.voteFor = Nil]
    BY <1>4
  <2>2. disk.currentTerm = m.Term /\ disk.voteFor = Nil
    BY <2>1 DEF RaftState
  <2>3. QED
    BY <1>1, <2>1, <2>2, RequestOK DEF MessageOK
<1>5. CASE \E m \in Requests :
              /\ m.to = i /\ m.rpc # "RequestVote" /\ FollowSaves(m)
              /\ disk = [RaftState(i) EXCEPT !.currentTerm = m.Term, !.voteFor = m.from]
  <2>1. PICK m \in Requests :
              /\ m.to = i /\ m.rpc # "RequestVote" /\ FollowSaves(m)
              /\ disk = [RaftState(i) EXCEPT !.currentTerm = m.Term, !.voteFor = m.from]
    BY <1>5
  <2>2. disk.currentTerm = m.Term /\ disk.voteFor = m.from
    BY <2>1 DEF RaftState
  <2>3. /\ m.from \in Server /\ m.Term \in Nat /\ m.Term >= currentTerm[i]
        /\ Claimed(m.Term, m.from)
    BY <2>1, RequestOK DEF MessageOK, FollowSaves, Admitted
  <2>4. QED
    BY <1>1, <2>2, <2>3, ServerAssumption DEF Vote, ElectionTypeOK
<1>6. QED
  BY <1>2, <1>3, <1>4, <1>5 DEF HalfSaved

\* A goroutine of another peer after crash1(i): left alone, or its request lost.
LEMMA CrashSlot ==
    ASSUME ElectionInv, NEW i \in Server, NEW p \in Server \ {i}, NEW q \in Server,
           ticker'[p] = ticker[p], UNCHANGED historyVars,
           call'[p][q] = IF q = i /\ call[p][q].st = "sent"
                         THEN Lost(call[p][q].args) ELSE call[p][q]
    PROVE  SlotOK(p, q)'
<1>1. CASE call'[p][q] = call[p][q]
  BY <1>1, SlotKept DEF ElectionInv, CallsOK, Campaigning, historyVars
<1>2. CASE call[p][q].st = "sent" /\ call'[p][q] = Lost(call[p][q].args)
  <2>1. WaitingOK(p, q, call[p][q].args)
    BY <1>2, Waiting
  <2>2. MessageOK(call[p][q].args)'
    <3>1. MessageOK(call[p][q].args) /\ won' = won
      BY <2>1 DEF WaitingOK, historyVars
    <3>2. call'[p][q].args = call[p][q].args
      BY <1>2 DEF Lost
    <3>3. QED
      BY <3>1, <3>2 DEF MessageOK, Claimed
  <2>3. call'[p][q].st = "lost" /\ call'[p][q].args = call[p][q].args
    BY <1>2 DEF Lost
  <2>4. WaitingOK(p, q, call[p][q].args)'
    BY <2>1, <2>2, <2>3 DEF WaitingOK, Campaigning
  <2>5. QED
    BY <2>3, <2>4 DEF SlotOK
<1>3. QED
  BY <1>1, <1>2

\* A restarted peer comes back with a term and a vote from its disk; it neither
\* campaigns nor leads.
LEMMA RestartStep ==
    ASSUME ElectionInv, NEW i \in Server, Restart(i)
    PROVE  ElectionInv'
<1>1. PICK disk \in {raftstate[i]} \cup HalfSaved(i),
           S \in SUBSET {call[i][j].args : j \in {k \in Server : call[i][k].st = "sent"}} :
        /\ crash1(i, S)
        /\ Restore(i, disk)
        /\ raftstate' = [raftstate EXCEPT ![i] = disk]
        /\ leaderId' = [leaderId EXCEPT ![i] = Nil]
        /\ ticker' = [ticker EXCEPT ![i] = Idle]
        /\ UNCHANGED historyVars
  BY DEF Restart
<1>2. /\ disk.currentTerm \in Nat
      /\ disk.voteFor \in Vote
      /\ \/ disk.currentTerm > currentTerm[i]
         \/ disk.currentTerm = currentTerm[i] /\ disk.voteFor = voteFor[i]
         \/ /\ disk.currentTerm = currentTerm[i]
            /\ disk.voteFor # Nil
            /\ Claimed(currentTerm[i], disk.voteFor)
  BY DiskOK
<1>3. ElectionTypeOK /\ voted' = voted /\ won' = won
  BY <1>1 DEF ElectionInv, historyVars
<1>4. /\ currentTerm' = [currentTerm EXCEPT ![i] = disk.currentTerm]
      /\ voteFor' = [voteFor EXCEPT ![i] = disk.voteFor]
  BY <1>1 DEF Restore
<1>5. /\ ticker' \in [Server -> Round]
      /\ ~ Campaigning(i)'
      /\ \A p \in Server \ {i} : ticker'[p] = ticker[p]
  BY <1>1, <1>3 DEF ElectionTypeOK, Idle, Round, Campaigning
<1>6. /\ DOMAIN call' = Server
      /\ \A p \in Server : DOMAIN call'[p] = Server
      /\ \A q \in Server : call'[i][q] = Finished
      /\ \A p \in Server \ {i}, q \in Server :
            call'[p][q] = IF q = i /\ call[p][q].st = "sent"
                          THEN Lost(call[p][q].args) ELSE call[p][q]
  BY <1>1 DEF crash1
<1>7. ElectionTypeOK'
  BY <1>1, <1>2, <1>3, <1>4, <1>5, <1>6 DEF ElectionTypeOK, Vote
<1>8. Saved'
  BY <1>1, <1>3, <1>4 DEF ElectionInv, Saved, ElectionTypeOK
<1>9. VotesOnce' /\ VotesHeld' /\ VoteOrLeader'
  <2>1. \A v \in Server :
           \/ currentTerm'[v] > currentTerm[v]
           \/ /\ currentTerm'[v] = currentTerm[v]
              /\ voteFor'[v] = voteFor[v]
           \/ /\ currentTerm'[v] = currentTerm[v]
              /\ voteFor'[v] # Nil
              /\ Claimed(currentTerm[v], voteFor'[v])
    BY <1>2, <1>3, <1>4 DEF ElectionTypeOK
  <2>2. QED
    BY <1>3, <1>7, <2>1, VotesKept DEF ElectionInv
<1>10. Counted'
  BY <1>3, <1>5 DEF ElectionInv, Counted, Campaigning
<1>11. CallsOK'
  <2>1. SUFFICES ASSUME NEW p \in Server, NEW q \in Server PROVE SlotOK(p, q)'
    BY DEF CallsOK
  <2>2. CASE p = i
    BY <1>6, <2>2 DEF SlotOK
  <2>3. CASE p # i
    BY <1>1, <1>5, <1>6, <2>3, CrashSlot
  <2>4. QED
    BY <2>2, <2>3
<1>12. LateOK'
  <2>1. \A m \in S : MessageOK(m)
    BY Waiting DEF WaitingOK
  <2>2. \A m \in late' : m \in late \/ m \in S
    BY <1>1 DEF crash1
  <2>3. \A m \in late' : MessageOK(m)
    BY <2>1, <2>2 DEF ElectionInv, LateOK
  <2>4. QED
    BY <1>3, <2>3, MessageKept DEF LateOK
<1>13. Leads'
  BY <1>1, <1>3, <1>4, <1>5, ServerAssumption
     DEF ElectionInv, Leads, Campaigning, Claimed, ElectionTypeOK
<1>14. ClaimsPast' /\ WonByVotes'
  <2>1. \A v \in Server : currentTerm'[v] >= currentTerm[v]
    BY <1>2, <1>3, <1>4 DEF ElectionTypeOK
  <2>2. \A v \in Server : Campaigning(v)' =>
           Campaigning(v) /\ ticker'[v].term = ticker[v].term
    BY <1>5 DEF Campaigning
  <2>3. QED
    BY <1>3, <1>7, <2>1, <2>2, WinsKept DEF ElectionInv
<1>15. QED
  BY <1>7, <1>8, <1>9, <1>10, <1>11, <1>12, <1>13, <1>14 DEF ElectionInv

-----------------------------------------------------------------------------
(* Theorems.                                                               *)

\* Every step keeps the invariant.
LEMMA ElectionNext == ElectionInv /\ [Next]_vars => ElectionInv'
<1>1. SUFFICES ASSUME ElectionInv, [Next]_vars PROVE ElectionInv'
  OBVIOUS
<1>2. ASSUME NEW m \in Requests, Handle(m) PROVE ElectionInv'
  BY <1>1, <1>2, RequestOK, RequestVoteStep, AppendEntriesStep, InstallSnapshotStep
     DEF Handle
<1>3. ASSUME NEW i \in Server, NEW j \in Server, Worker(i, j) PROVE ElectionInv'
  BY <1>1, <1>3, ElectionCallStep, ElectionReplyStep, AppendCallStep, AppendReplyStep,
     SnapshotCallStep, SnapshotReplyStep, RPCTimeoutStep DEF Worker
<1>4. ASSUME NEW i \in Server, Peer(i) PROVE ElectionInv'
  <2>1. ASSUME NEW index \in lastApplied[i] + 1 .. commitIndex[i],
               applyLogToRsm(i, index)
        PROVE  ElectionInv'
    BY <1>1, <2>1, ApplyStep
  <2>2. ASSUME NEW r \in snapReq[i], doSnapshot(i, r) PROVE ElectionInv'
    BY <1>1, <2>2, DoSnapshotStep
  <2>3. QED
    BY <1>1, <1>4, <2>1, <2>2, StartElectionStep, ElectionEndStep, SendStep, SendEndStep
       DEF Peer
<1>5. ASSUME NEW i \in Server, NEW c \in Command, Start(i, c) PROVE ElectionInv'
  BY <1>1, <1>5, StartStep
<1>6. ASSUME NEW i \in Server, Restart(i) PROVE ElectionInv'
  BY <1>1, <1>6, RestartStep
<1>7. CASE UNCHANGED vars
  <2>1. Saved' /\ DOMAIN raftstate' = Server
    BY <1>1, <1>7 DEF vars, ElectionInv, ElectionTypeOK, Saved, electionVars
  <2>2. QED
    BY <1>1, <1>7, <2>1, Elsewhere DEF vars
<1>8. QED
  BY <1>1, <1>2, <1>3, <1>4, <1>5, <1>6, <1>7 DEF Next

\* The inductive invariant of the elections holds in every reachable state,
\* for any number of peers, with overlapping rounds, late requests and crashes.
THEOREM ElectionInvariant == Spec => []ElectionInv
<1>1. QED
  BY ElectionInit, ElectionNext, PTL DEF Spec

\* Two campaigns of one term are never both won: startElection's majority
\* counts only first votes of the term, and a voter gives one.
THEOREM CampaignsUnique == Spec => []CampaignUnique
<1>1. ElectionInv => CampaignUnique
  <2>1. SUFFICES ASSUME ElectionInv, NEW e \in won, NEW f \in won,
                        e.campaign = f.campaign
                 PROVE  e.leader = f.leader
    BY DEF CampaignUnique
  <2>2. PICK Q \in SUBSET Server :
           Majority(Q) /\ \A v \in Q : <<v, e.campaign, e.leader>> \in voted
    BY <2>1 DEF ElectionInv, WonByVotes
  <2>3. PICK R \in SUBSET Server :
           Majority(R) /\ \A v \in R : <<v, f.campaign, f.leader>> \in voted
    BY <2>1 DEF ElectionInv, WonByVotes
  <2>4. PICK v \in Server : v \in Q /\ v \in R
    BY <2>2, <2>3, MajoritiesMeet
  <2>5. e.leader \in Server /\ f.leader \in Server /\ e.campaign \in Nat
    BY <2>1 DEF ElectionInv, ElectionTypeOK
  <2>6. QED
    BY <2>1, <2>2, <2>3, <2>4, <2>5 DEF ElectionInv, VotesOnce
<1>2. QED
  BY <1>1, ElectionInvariant, PTL

\* A vote that is counted or on its way back is on the voter's disk, so that
\* Make reads it again after a crash.
THEOREM VotesSurviveCrashes == Spec => []VoteSurvivesCrash
<1>1. ElectionInv => VoteSurvivesCrash
  <2>1. SUFFICES ASSUME ElectionInv, NEW i \in Server, NEW v \in Server, Campaigning(i),
                        \/ v \in ticker[i].yes
                        \/ /\ Waits(i, v, "RequestVote")
                           /\ call[i][v].st = "replied"
                           /\ call[i][v].reply.VoteGranted
                 PROVE  \/ raftstate[v].currentTerm > ticker[i].term
                        \/ /\ raftstate[v].currentTerm = ticker[i].term
                           /\ raftstate[v].voteFor # Nil
    BY DEF VoteSurvivesCrash
  <2>2. ticker[i].term \in Nat /\ currentTerm[v] \in Nat
    BY <2>1 DEF ElectionInv, ElectionTypeOK, Round
  <2>3. <<v, ticker[i].term, i>> \in voted
    <3>1. CASE v \in ticker[i].yes
      BY <2>1, <3>1 DEF ElectionInv, Counted
    <3>2. CASE /\ Waits(i, v, "RequestVote")
               /\ call[i][v].st = "replied"
               /\ call[i][v].reply.VoteGranted
      <4>1. SlotOK(i, v)
        BY <2>1 DEF ElectionInv, CallsOK
      <4>2. call[i][v] # Finished /\ (\A x : call[i][v] # Spawned(x))
            /\ call[i][v].st \notin {"sent", "lost"}
        BY <3>2 DEF Finished, Spawned
      <4>3. call[i][v].args.rpc = "RequestVote"
        BY <3>2 DEF Waits
      <4>4. QED
        BY <3>2, <4>1, <4>2, <4>3, Zenon DEF SlotOK
    <3>3. QED
      BY <2>1, <3>1, <3>2
  <2>4. ticker[i].term <= currentTerm[v] /\
        (ticker[i].term = currentTerm[v] => voteFor[v] # Nil)
    BY <2>1, <2>2, <2>3 DEF ElectionInv, VotesHeld
  <2>5. QED
    BY <2>1, <2>2, <2>4 DEF ElectionInv, Saved
<1>2. QED
  BY <1>1, ElectionInvariant, PTL

\* No step lowers a term, a restart from any disk state included.
LEMMA TermsStep ==
    ASSUME ElectionInv, [Next]_vars, NEW k \in Server
    PROVE  currentTerm'[k] >= currentTerm[k]
<1>1. ElectionTypeOK /\ currentTerm[k] \in Nat
  BY DEF ElectionInv, ElectionTypeOK
<1>2. ASSUME UNCHANGED electionVars PROVE currentTerm'[k] >= currentTerm[k]
  BY <1>1, <1>2 DEF electionVars
<1>3. ASSUME NEW m \in Requests, Handle(m) PROVE currentTerm'[k] >= currentTerm[k]
  <2>1. m.to \in Server /\ m.Term \in Nat
    BY RequestOK DEF MessageOK
  <2>2. CASE RequestVote(m)
    BY <1>1, <2>1, <2>2 DEF RequestVote, ElectionTypeOK
  <2>3. CASE FollowLeader(m)
    BY <1>1, <2>1, <2>3 DEF FollowLeader, Admitted, ElectionTypeOK, electionVars
  <2>4. QED
    BY <1>3, <2>2, <2>3 DEF Handle, AppendEntries, InstallSnapshot
<1>4. ASSUME NEW i \in Server, NEW j \in Server, Worker(i, j)
      PROVE  currentTerm'[k] >= currentTerm[k]
  <2>1. CASE call[i][j].st = "replied"
    <3>1. SlotOK(i, j)
      BY DEF ElectionInv, CallsOK
    <3>2. call[i][j] # Finished /\ (\A x : call[i][j] # Spawned(x))
          /\ call[i][j].st \notin {"sent", "lost"}
      BY <2>1 DEF Finished, Spawned
    <3>3. call[i][j].reply.Term \in Nat
      BY <3>1, <3>2, Zenon DEF SlotOK
    <3>4. CASE electionSenderReply(i, j)
      BY <1>1, <3>3, <3>4 DEF electionSenderReply, ElectionTypeOK
    <3>5. CASE appendRPCWorkerReply(i, j)
      <4>1. \/ UNCHANGED electionVars
            \/ /\ StepDown(i, call[i][j].reply.Term)
               /\ ~ (call[i][j].reply.Term <= currentTerm[i])
        BY <3>5 DEF appendRPCWorkerReply
      <4>2. QED
        BY <1>1, <1>2, <3>3, <4>1 DEF StepDown, ElectionTypeOK
    <3>6. CASE InstallSnapshotSenderReply(i, j)
      <4>1. \/ UNCHANGED electionVars
            \/ /\ StepDown(i, call[i][j].reply.Term)
               /\ call[i][j].reply.Term > currentTerm[i]
        BY <3>6 DEF InstallSnapshotSenderReply
      <4>2. QED
        BY <1>1, <1>2, <3>3, <4>1 DEF StepDown, ElectionTypeOK
    <3>7. CASE RPCTimeout(i, j)
      BY <1>2, <3>7 DEF RPCTimeout
    <3>8. QED
      BY <1>2, <1>4, <3>4, <3>5, <3>6, <3>7
         DEF Worker, electionSenderCall, appendRPCWorkerCall, InstallSnapshotSenderCall
  <2>2. CASE call[i][j].st # "replied"
    BY <1>2, <1>4, <2>2
       DEF Worker, electionSenderCall, appendRPCWorkerCall, InstallSnapshotSenderCall,
           electionSenderReply, appendRPCWorkerReply, InstallSnapshotSenderReply, RPCTimeout
  <2>3. QED
    BY <2>1, <2>2
<1>5. ASSUME NEW i \in Server, Peer(i) PROVE currentTerm'[k] >= currentTerm[k]
  <2>1. CASE startElection(i)
    BY <1>1, <2>1 DEF startElection, ElectionTypeOK
  <2>2. CASE startElectionEnd(i)
    BY <1>1, <2>2 DEF startElectionEnd
  <2>3. QED
    BY <1>2, <1>5, <2>1, <2>2 DEF Peer, sendAERpcs, sendAERpcsEnd, applyLogToRsm, doSnapshot
<1>6. ASSUME NEW i \in Server, Restart(i) PROVE currentTerm'[k] >= currentTerm[k]
  <2>1. PICK disk \in {raftstate[i]} \cup HalfSaved(i) : Restore(i, disk)
    BY <1>6 DEF Restart
  <2>2. disk.currentTerm \in Nat /\ disk.currentTerm >= currentTerm[i]
    BY <1>1, DiskOK DEF ElectionTypeOK
  <2>3. QED
    BY <1>1, <2>1, <2>2 DEF Restore, ElectionTypeOK
<1>7. QED
  BY <1>2, <1>3, <1>4, <1>5, <1>6 DEF Next, Start, vars

\* No peer ever goes back to an older term.
THEOREM TermsOnlyGrow == Spec => TermsGrow
<1>1. ElectionInv /\ [Next]_vars =>
         [\A i \in Server : currentTerm'[i] >= currentTerm[i]]_vars
  BY TermsStep
<1>2. QED
  BY <1>1, ElectionInvariant, PTL DEF Spec, TermsGrow
=============================================================================
