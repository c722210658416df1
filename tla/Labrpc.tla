------------------------------- MODULE Labrpc -------------------------------
(***************************************************************************)
(* The simulated network of src/src/labrpc/labrpc.go, and the parts of      *)
(* src/src/raft/config.go that crash and restart the servers behind it and  *)
(* of src/src/kvraft/config.go that connect clerks to them.                 *)
(* A crashed instance cannot be stopped: it goes on running, isolated by    *)
(* fresh client ends and a fresh persister.  The ends of a clerk outlive    *)
(* the instances they lead to, and a crash does not disable them.           *)
(*                                                                          *)
(* Generation g of node i is the Server, the Raft and the Persister that    *)
(* the g-th start1(i) makes, and the ends <<i, g, j>> it gives them.        *)
(***************************************************************************)
EXTENDS Naturals

CONSTANTS
    Node,    \* server names
    Client,  \* clerks, made by makeClient
    Call,    \* calls of ClientEnd.Call, each made at most once
    MaxGen   \* bound on the generations of a node

ASSUME GenAssumption == MaxGen \in Nat \ {0}

Gen == 1 .. MaxGen

ASSUME ClientAssumption == Client \cap Node = {}

\* The end of generation g of node i to node j is <<i, g, j>>; nobody uses the
\* one to itself.
ServerEnd == {e \in Node \X Gen \X Node : e[1] # e[3]}

\* A clerk gets one set of ends, to all servers.
ClientEnd == Client \X {1} \X Node

End == ServerEnd \cup ClientEnd

ASSUME EndAssumption == End # {}

VARIABLES
    reliable, longReordering,
    enabled,     \* by end
    servers,     \* by name: the generation that serves it, 0 for nil
    done,        \* Cleanup closed the channel
    loop,        \* the goroutine that takes requests from endCh still runs
    req,         \* by call: Call() and the processReq goroutine it started
    handler,     \* by call: the goroutine that executes it on the server
    gen,         \* by node: its latest generation
    pc,          \* by node: how far crash1 and start1 are
    disk,        \* disk[i][g]: the updates in the persister of generation g
    saved        \* the copy of the persister that crash1 leaves in cfg.saved

netVars == <<reliable, longReordering, enabled, servers, done, loop>>
testerVars == <<gen, pc, saved>>
vars == <<netVars, req, handler, testerVars, disk>>

-----------------------------------------------------------------------------
\* An instance that crash1 has cut off.
Crashed(i, g) == g < gen[i] \/ pc[i] \in {"deleted", "copied"}

\* The end is one that such an instance holds.
CutOff(e) == e \in ServerEnd /\ Crashed(e[1], e[2])

\* A request: how far it is, the end it uses, whether a crashed instance made
\* it, what readEndnameInfo found, and the result.
Request ==
    [st : {"unused", "sending", "taken", "admitted", "waiting", "delayed", "returned"},
     end : End, stale : BOOLEAN, server : Gen \cup {0}, reliable : BOOLEAN,
     longreordering : BOOLEAN, ok : BOOLEAN]

\* Call() has returned ok.
Returned(c, ok) == req' = [req EXCEPT ![c].st = "returned", ![c].ok = ok]

\* ClientEnd.Call builds the request and waits for the network to take it.
\* The caller may be an instance that was crashed long ago.
CallBegin(c, e) ==
    /\ req[c].st = "unused"
    /\ e \in ServerEnd => e[2] <= gen[e[1]]
    /\ req' = [req EXCEPT ![c].st = "sending", ![c].end = e, ![c].stale = CutOff(e)]
    /\ UNCHANGED <<netVars, handler, testerVars, disk>>

\* case <-e.done: the network was closed.
CallDone(c) ==
    /\ req[c].st = "sending"
    /\ done
    /\ Returned(c, FALSE)
    /\ UNCHANGED <<netVars, handler, testerVars, disk>>

\* The goroutine of MakeNetwork takes the request and starts processReq.
MakeNetworkTake(c) ==
    /\ req[c].st = "sending"
    /\ loop
    /\ req' = [req EXCEPT ![c].st = "taken"]
    /\ UNCHANGED <<netVars, handler, testerVars, disk>>

MakeNetworkStop ==
    /\ loop
    /\ done
    /\ loop' = FALSE
    /\ UNCHANGED <<reliable, longReordering, enabled, servers, done, req,
                   handler, testerVars, disk>>

\* processReq reads the maps once, under the lock, and keeps what it read.
readEndnameInfo(c) ==
    LET e == req[c].end
    IN  /\ req[c].st = "taken"
        /\ req' = [req EXCEPT
                     ![c].st = IF enabled[e] /\ servers[e[3]] # 0
                               THEN "admitted" ELSE "delayed",
                     ![c].server = servers[e[3]],
                     ![c].reliable = reliable,
                     ![c].longreordering = longReordering]
        /\ UNCHANGED <<netVars, handler, testerVars, disk>>

\* An unreliable network drops the request.
dropRequest(c) ==
    /\ req[c].st = "admitted"
    /\ ~ req[c].reliable
    /\ Returned(c, FALSE)
    /\ UNCHANGED <<netVars, handler, testerVars, disk>>

\* The handler runs in a goroutine of its own on the server read above.
dispatch(c) ==
    /\ req[c].st = "admitted"
    /\ req' = [req EXCEPT ![c].st = "waiting"]
    /\ handler' = [handler EXCEPT ![c] = "running"]
    /\ UNCHANGED <<netVars, testerVars, disk>>

\* The RPC handler saves its update in the persister of its instance.
Handler(c) ==
    LET j == req[c].end[3]
        g == req[c].server
    IN  /\ handler[c] = "running"
        /\ handler' = [handler EXCEPT ![c] = "finished"]
        /\ disk' = [disk EXCEPT ![j][g] = @ \cup {c}]
        /\ UNCHANGED <<netVars, req, testerVars>>

\* Mutant: a server is taken for dead by its end alone.
isServerDeadByEnd(c) == ~ enabled[req[c].end]

isServerDead(c) ==
    \/ ~ enabled[req[c].end]
    \/ servers[req[c].end[3]] # req[c].server

\* Mutant: the handler is waited for, whatever happens to its server.
pollNever(c) == FALSE

\* Every 100 ms processReq looks whether it still has to wait.  If not, the
\* call fails and what the handler returns later is drained.
poll(c) ==
    /\ req[c].st = "waiting"
    /\ isServerDead(c)
    /\ Returned(c, FALSE)
    /\ UNCHANGED <<netVars, handler, testerVars, disk>>

\* The handler has returned: a dead server's reply is withheld, an unreliable
\* network drops it, a reordering one delays it.
processReply(c) ==
    /\ req[c].st = "waiting"
    /\ handler[c] = "finished"
    /\ \/ /\ isServerDead(c) \/ ~ req[c].reliable
          /\ Returned(c, FALSE)
       \/ /\ ~ isServerDead(c)
          /\ Returned(c, TRUE)
       \/ /\ ~ isServerDead(c)
          /\ req[c].longreordering
          /\ req' = [req EXCEPT ![c].st = "delayed", ![c].ok = TRUE]
    /\ UNCHANGED <<netVars, handler, testerVars, disk>>

\* time.AfterFunc sends what was decided before the delay.
AfterFunc(c) ==
    /\ req[c].st = "delayed"
    /\ Returned(c, req[c].ok)
    /\ UNCHANGED <<netVars, handler, testerVars, disk>>

-----------------------------------------------------------------------------
(* The tester.                                                             *)

Reliable(yes) ==
    /\ reliable' = yes
    /\ UNCHANGED <<longReordering, enabled, servers, done, loop, req, handler,
                   testerVars, disk>>

LongReordering(yes) ==
    /\ longReordering' = yes
    /\ UNCHANGED <<reliable, enabled, servers, done, loop, req, handler,
                   testerVars, disk>>

Cleanup ==
    /\ done' = TRUE
    /\ UNCHANGED <<reliable, longReordering, enabled, servers, loop, req,
                   handler, testerVars, disk>>

Enable(e, yes) ==
    /\ enabled' = [enabled EXCEPT ![e] = yes]
    /\ UNCHANGED <<reliable, longReordering, servers, done, loop, req, handler,
                   testerVars, disk>>

\* The ends that connect and disconnect of node i go through.
EndsOf(i) ==
    {e \in ServerEnd : e[2] = gen[e[1]] /\ (e[1] = i \/ e[3] = i)}

\* Mutant: connect enables the ends of every generation.
connectAll(e) ==
    /\ \A i \in {e[1], e[3]} : pc[i] = "up"
    /\ Enable(e, TRUE)

\* cfg.connect, one end at a time.
connect(e) ==
    /\ \A i \in {e[1], e[3]} : pc[i] = "up" /\ e \in EndsOf(i)
    /\ Enable(e, TRUE)

\* cfg.disconnect, one end at a time, for a test or at the start of crash1.
disconnect(e) ==
    /\ e \in EndsOf(e[1])
    /\ Enable(e, FALSE)

\* ConnectClient and DisconnectClient, one end of the clerk at a time.  Whether
\* its server is up plays no part.
ConnectClient(e) == Enable(e, TRUE)

DisconnectClient(e) == Enable(e, FALSE)

\* crash1 calls disconnect and then DeleteServer.
crash1(i) ==
    /\ pc[i] = "up"
    /\ gen[i] < MaxGen
    /\ pc' = [pc EXCEPT ![i] = "cutting"]
    /\ UNCHANGED <<netVars, req, handler, gen, saved, disk>>

DeleteServer(i) ==
    /\ pc[i] = "cutting"
    /\ \A e \in EndsOf(i) : ~ enabled[e]
    /\ servers' = [servers EXCEPT ![i] = 0]
    /\ pc' = [pc EXCEPT ![i] = "deleted"]
    /\ UNCHANGED <<reliable, longReordering, enabled, done, loop, req, handler,
                   gen, saved, disk>>

\* crash1 goes on to supersede the persister by a copy.
Copy(i) ==
    /\ pc[i] = "deleted"
    /\ saved' = [saved EXCEPT ![i] = disk[i][gen[i]]]
    /\ pc' = [pc EXCEPT ![i] = "copied"]
    /\ UNCHANGED <<netVars, req, handler, gen, disk>>

\* start1 makes fresh ends and a fresh persister, and from them the instance.
start1(i) ==
    LET g == gen[i] + 1
    IN  /\ pc[i] = "copied"
        /\ gen' = [gen EXCEPT ![i] = g]
        /\ enabled' = [e \in End |-> enabled[e] /\ ~ (e[1] = i /\ e[2] = g)]
        /\ disk' = [disk EXCEPT ![i][g] = saved[i]]
        /\ pc' = [pc EXCEPT ![i] = "made"]
        /\ UNCHANGED <<reliable, longReordering, servers, done, loop, req,
                       handler, saved>>

AddServer(i) ==
    /\ pc[i] = "made"
    /\ servers' = [servers EXCEPT ![i] = gen[i]]
    /\ pc' = [pc EXCEPT ![i] = "up"]
    /\ UNCHANGED <<reliable, longReordering, enabled, done, loop, req, handler,
                   gen, saved, disk>>

-----------------------------------------------------------------------------
\* make_config: every node is started once and connected; a clerk of
\* makeClient(cfg.All()) is connected to all of them.
Init ==
    /\ reliable \in BOOLEAN
    /\ longReordering = FALSE
    /\ enabled = [e \in End |-> e[2] = 1]
    /\ servers = [i \in Node |-> 1]
    /\ done = FALSE
    /\ loop = TRUE
    /\ LET none == CHOOSE e \in End : TRUE IN
          req = [c \in Call |-> [st |-> "unused", end |-> none, stale |-> FALSE,
                                 server |-> 0, reliable |-> TRUE,
                                 longreordering |-> FALSE, ok |-> FALSE]]
    /\ handler = [c \in Call |-> "none"]
    /\ gen = [i \in Node |-> 1]
    /\ pc = [i \in Node |-> "up"]
    /\ disk = [i \in Node |-> [g \in Gen |-> {}]]
    /\ saved = [i \in Node |-> {}]

\* What Call and processReq do by themselves for c.
processReq(c) ==
    \/ CallDone(c)
    \/ MakeNetworkTake(c)
    \/ readEndnameInfo(c)
    \/ dropRequest(c)
    \/ dispatch(c)
    \/ poll(c)
    \/ processReply(c)
    \/ AfterFunc(c)

Network ==
    \/ MakeNetworkStop
    \/ \E c \in Call : processReq(c)
    \/ \E c \in Call : Handler(c)

Tester ==
    \/ \E yes \in BOOLEAN : Reliable(yes) \/ LongReordering(yes)
    \/ Cleanup
    \/ \E e \in ServerEnd : connect(e) \/ disconnect(e)
    \/ \E e \in ClientEnd : ConnectClient(e) \/ DisconnectClient(e)
    \/ \E i \in Node : \/ crash1(i)
                       \/ DeleteServer(i)
                       \/ Copy(i)
                       \/ start1(i)
                       \/ AddServer(i)

Next ==
    \/ \E c \in Call, e \in End : CallBegin(c, e)
    \/ Network
    \/ Tester

Spec == Init /\ [][Next]_vars

\* Goroutines that can go on do so; a handler need not return.
FairSpec == Spec /\ \A c \in Call : WF_vars(processReq(c))

-----------------------------------------------------------------------------
(* Properties.                                                             *)

\* What the next instance of node i, or the one that runs, finds on disk.
Current(i) == IF pc[i] = "copied" THEN saved[i] ELSE disk[i][gen[i]]

\* The caller got, or will get, a positive reply.
Positive(c) == req[c].st \in {"returned", "delayed"} /\ req[c].ok

\* processReq: "this is needed to avoid situation in which a client gets a
\* positive reply to an Append, but the server persisted the update into the
\* old Persister".
AckedSurvives ==
    \A c \in Call : Positive(c) => c \in Current(req[c].end[3])

\* start1: "so that old crashed instance's ClientEnds can't send".  A call that
\* an instance makes after crash1 cut it off is never executed.
OldInstanceSilent ==
    \A c \in Call :
       req[c].st # "unused" /\ req[c].stale => handler[c] = "none"

\* "Call() is guaranteed to return (perhaps after a delay) *except* if the
\* handler function on the server side does not return"; and even then once the
\* server is deleted.
CallReturns ==
    \A c \in Call :
       /\ req[c].st # "unused" ~>
             (req[c].st = "returned" \/ handler[c] = "running")
       /\ (req[c].st = "waiting" /\ (handler[c] = "finished"
             \/ servers[req[c].end[3]] # req[c].server)) ~> req[c].st = "returned"
=============================================================================
