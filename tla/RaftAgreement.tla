--------------------------- MODULE RaftAgreement ----------------------------
(***************************************************************************)
(* The peers of Raft implement AgreedLog.  The log is what leaders have     *)
(* committed, what a service has is what the tester keeps in cfg.logs, and  *)
(* what it is given next is what ApplyMsgSender waits for.                  *)
(***************************************************************************)
EXTENDS Raft

Agreed == INSTANCE AgreedLog WITH delivered <- logs, position <- next

\* What the comments of Start and ApplyMsg in raft.go promise: whatever
\* elections, lost messages, replaced log entries and snapshots there are,
\* committed commands form one log that is only ever extended, and each service
\* gets commands of that log, in order and without gaps, or a snapshot of it.
ImplementsAgreedLog == Agreed!Spec
=============================================================================
