----------------------------- MODULE AgreedLog ------------------------------
(***************************************************************************)
(* What the peers of src/src/raft/raft.go promise the services on top of    *)
(* them: there is one log, it only grows, and a service is given its        *)
(* commands in order, or a snapshot in place of the first of them.  Who     *)
(* leads, which terms there are and where the log is kept is left open.     *)
(***************************************************************************)
EXTENDS Integers, Sequences

CONSTANTS Server, Command

VARIABLES
    chosen,      \* the one log of commands
    delivered,   \* by server: the commands its service has, by index
    position     \* by server: the index of the command it is given next

vars == <<chosen, delivered, position>>

\* Index 0 is the entry that every log begins with; no service records it.
Init ==
    /\ chosen = <<>>
    /\ delivered = [s \in Server |-> <<>>]
    /\ position = [s \in Server |-> 0]

\* A leader finds that some more commands are committed.
Choose ==
    /\ chosen' \in Seq(Command)
    /\ Len(chosen') > Len(chosen)
    /\ SubSeq(chosen', 1, Len(chosen)) = chosen
    /\ UNCHANGED <<delivered, position>>

\* A service is given the next commands.
Deliver(s) ==
    \E last \in position[s] .. Len(chosen) :
       LET new == (position[s] .. last) \ {0}
       IN  /\ delivered' = [delivered EXCEPT ![s] =
                              [k \in DOMAIN @ \cup new |->
                                 IF k \in new THEN chosen[k] ELSE @[k]]]
           /\ position' = [position EXCEPT ![s] = last + 1]
           /\ UNCHANGED chosen

\* A service gets a snapshot, which stands for the log up to index k.
Install(s) ==
    \E k \in 1 .. Len(chosen) :
       /\ delivered' = [delivered EXCEPT ![s] = [n \in {k} |-> chosen[k]]]
       /\ position' = [position EXCEPT ![s] = k + 1]
       /\ UNCHANGED chosen

\* A service is restarted and given again what follows a command that it has,
\* or everything.
Rewind(s) ==
    \E k \in DOMAIN delivered[s] \cup {-1} :
       /\ position' = [position EXCEPT ![s] = k + 1]
       /\ UNCHANGED <<chosen, delivered>>

Next == Choose \/ \E s \in Server : Deliver(s) \/ Install(s) \/ Rewind(s)

Spec == Init /\ [][Next]_vars
=============================================================================
