---------------------------- MODULE LabrpcProofs ----------------------------
(***************************************************************************)
(* Proofs about the network and the tester, for any number of nodes, calls  *)
(* and generations: a positive reply is never for an update that only a     *)
(* superseded persister has, and a crashed instance's calls are never       *)
(* executed.                                                                *)
(***************************************************************************)
EXTENDS Labrpc, TLAPS

-----------------------------------------------------------------------------
(* The inductive invariant.                                                *)

\* The fields of a request, and the types that its steps depend on.
RequestOK(r) ==
    /\ DOMAIN r = {"st", "end", "stale", "server", "reliable", "longreordering", "ok"}
    /\ r.end \in End
    /\ r.server \in Gen \cup {0}

LabrpcTypeOK ==
    /\ enabled \in [End -> BOOLEAN]
    /\ servers \in [Node -> Gen \cup {0}]
    /\ DOMAIN req = Call
    /\ \A c \in Call : RequestOK(req[c])
    /\ handler \in [Call -> {"none", "running", "finished"}]
    /\ gen \in [Node -> Gen]
    /\ pc \in [Node -> {"up", "cutting", "deleted", "copied", "made"}]
    /\ disk \in [Node -> [Gen -> SUBSET Call]]
    /\ saved \in [Node -> SUBSET Call]

\* A name is served by the latest instance, until crash1 deletes it.
ServedByLatest ==
    \A i \in Node :
       servers[i] # 0 => servers[i] = gen[i] /\ pc[i] \in {"up", "cutting"}

\* Between crash1 and start1 there is a generation left.
GenLeft == \A i \in Node : pc[i] \in {"cutting", "deleted", "copied"} => gen[i] < MaxGen

\* An enabled end belongs to an instance that is not cut off.
EndsOfLatest ==
    \A e \in ServerEnd :
       enabled[e] => e[2] = gen[e[1]] /\ pc[e[1]] \notin {"deleted", "copied"}

\* The server of a call is an instance that has been started.
Served(c) == req[c].server # 0 /\ req[c].server <= gen[req[c].end[3]]

\* A handler that has returned has saved its update where it runs.
HandlerSaved ==
    \A c \in Call :
       /\ req[c].st \in {"admitted", "waiting"} => Served(c)
       /\ handler[c] # "none" => req[c].st \in {"waiting", "delayed", "returned"}
       /\ handler[c] # "none" => Served(c)
       /\ handler[c] = "finished" => c \in disk[req[c].end[3]][req[c].server]

\* A call of a crashed instance gets no further than readEndnameInfo.
StaleStopped ==
    \A c \in Call :
       LET e == req[c].end
       IN  req[c].st # "unused" /\ req[c].stale =>
              /\ CutOff(e)
              /\ e[2] <= gen[e[1]]
              /\ handler[c] = "none"
              /\ req[c].st \in {"sending", "taken", "delayed", "returned"}

\* Until a reply is there, none is positive.
OkOnlyLater ==
    \A c \in Call : req[c].ok => req[c].st \in {"delayed", "returned"}

LabrpcInv ==
    /\ LabrpcTypeOK
    /\ ServedByLatest
    /\ GenLeft
    /\ EndsOfLatest
    /\ HandlerSaved
    /\ StaleStopped
    /\ OkOnlyLater
    /\ AckedSurvives

-----------------------------------------------------------------------------
(* The ends of servers and of clerks.                                      *)

LEMMA EndsTyped ==
    /\ \A e \in End : e[2] \in Gen /\ e[3] \in Node
    /\ \A e \in ServerEnd : e \in End /\ e[1] \in Node
    /\ \A e \in ClientEnd : e \in End /\ e \notin ServerEnd
<1>1. 1 \in Gen
    BY GenAssumption DEF Gen
<1>2. QED
    BY <1>1, ClientAssumption DEF End, ServerEnd, ClientEnd

LEMMA InitInv == Init => LabrpcInv
<1> SUFFICES ASSUME Init PROVE LabrpcInv
    OBVIOUS
<1> DEFINE none == CHOOSE e \in End : TRUE
<1>1. none \in End
    BY EndAssumption
<1>2. 1 \in Gen
    BY GenAssumption DEF Gen
<1>3. LabrpcTypeOK
    BY <1>1, <1>2 DEF Init, LabrpcTypeOK, RequestOK
<1>4. QED
    BY <1>1, <1>2, <1>3 DEF Init, LabrpcInv, ServedByLatest, GenLeft, EndsOfLatest,
       HandlerSaved, StaleStopped, OkOnlyLater, AckedSurvives, Positive, End, ServerEnd

-----------------------------------------------------------------------------
(* Steps of calls: the tester's state is not touched.                      *)

\* The invariant of one call.
CallInv(c) ==
    LET e == req[c].end
    IN  /\ req[c].st \in {"admitted", "waiting"} => Served(c)
        /\ handler[c] # "none" => req[c].st \in {"waiting", "delayed", "returned"}
        /\ handler[c] # "none" => Served(c)
        /\ handler[c] = "finished" => c \in disk[e[3]][req[c].server]
        /\ req[c].st # "unused" /\ req[c].stale =>
              /\ CutOff(e)
              /\ e[2] <= gen[e[1]]
              /\ handler[c] = "none"
              /\ req[c].st \in {"sending", "taken", "delayed", "returned"}
        /\ req[c].ok => req[c].st \in {"delayed", "returned"}
        /\ Positive(c) => c \in Current(e[3])

LEMMA InvByCall ==
    LabrpcInv <=> /\ LabrpcTypeOK /\ ServedByLatest /\ GenLeft /\ EndsOfLatest
                  /\ \A c \in Call : CallInv(c)
BY DEF LabrpcInv, HandlerSaved, StaleStopped, OkOnlyLater, AckedSurvives, CallInv

\* A step that changes nothing but one call keeps the rest of the invariant.
LEMMA OneCallStep ==
    ASSUME LabrpcInv, NEW c \in Call,
           UNCHANGED <<netVars, testerVars, disk>>,
           DOMAIN req' = Call, RequestOK(req'[c]),
           handler' \in [Call -> {"none", "running", "finished"}],
           \A d \in Call \ {c} : req'[d] = req[d] /\ handler'[d] = handler[d],
           CallInv(c)'
    PROVE  LabrpcInv'
<1>1. LabrpcTypeOK' /\ ServedByLatest' /\ GenLeft' /\ EndsOfLatest'
    BY DEF LabrpcInv, LabrpcTypeOK, ServedByLatest, GenLeft, EndsOfLatest, RequestOK, netVars, testerVars
<1>2. ASSUME NEW d \in Call PROVE CallInv(d)'
  <2>1. CASE d = c
    BY <2>1
  <2>2. CASE d # c
    <3>1. CallInv(d)
        BY InvByCall
    <3>2. QED
        BY <2>2, <3>1 DEF CallInv, Served, CutOff, Crashed, Current, Positive, netVars, testerVars
  <2>3. QED
    BY <2>1, <2>2
<1>3. QED
    BY <1>1, <1>2, InvByCall DEF LabrpcInv, HandlerSaved, StaleStopped, OkOnlyLater,
       AckedSurvives, CallInv

LEMMA CallBeginStep ==
    ASSUME LabrpcInv, NEW c \in Call, NEW e \in End, CallBegin(c, e)
    PROVE  LabrpcInv'
<1>1. CallInv(c) /\ LabrpcTypeOK
    BY InvByCall
<1>2. DOMAIN req' = Call /\ RequestOK(req'[c])
    BY <1>1 DEF CallBegin, LabrpcTypeOK, RequestOK
<1>3. CallInv(c)'
    BY <1>1, <1>2 DEF CallBegin, LabrpcTypeOK, RequestOK, CallInv, Served, CutOff, Crashed, Positive, Current,
       netVars, testerVars
<1>4. QED
    BY <1>1, <1>2, <1>3, OneCallStep DEF CallBegin, LabrpcTypeOK

\* The steps of processReq that only move a call on.
LEMMA ProcessReqStep ==
    ASSUME LabrpcInv, NEW c \in Call, processReq(c)
    PROVE  LabrpcInv'
<1>1. CallInv(c) /\ LabrpcTypeOK /\ ServedByLatest /\ EndsOfLatest
    BY InvByCall
<1>2. UNCHANGED <<netVars, testerVars, disk>>
    BY DEF processReq, CallDone, MakeNetworkTake, readEndnameInfo, dropRequest, dispatch,
       poll, processReply, AfterFunc
<1>3. CASE CallDone(c) \/ MakeNetworkTake(c) \/ dropRequest(c) \/ poll(c) \/ AfterFunc(c)
  <2>1. DOMAIN req' = Call /\ RequestOK(req'[c])
    BY <1>1, <1>3 DEF CallDone, MakeNetworkTake, dropRequest, poll, AfterFunc, Returned,
       LabrpcTypeOK, RequestOK
  <2>2. handler' = handler
    BY <1>3 DEF CallDone, MakeNetworkTake, dropRequest, poll, AfterFunc
  <2>3. /\ req'[c].end = req[c].end
        /\ req'[c].server = req[c].server
        /\ req'[c].stale = req[c].stale
    BY <1>1, <1>3 DEF CallDone, MakeNetworkTake, dropRequest, poll, AfterFunc, Returned,
       LabrpcTypeOK, RequestOK
  <2>4. \/ req[c].st = "sending" /\ req'[c].st = "taken" /\ req'[c].ok = req[c].ok
        \/ req[c].st # "unused" /\ req'[c].st = "returned" /\ ~ req'[c].ok
        \/ req[c].st = "delayed" /\ req'[c].st = "returned" /\ req'[c].ok = req[c].ok
    BY <1>1, <1>3 DEF CallDone, MakeNetworkTake, dropRequest, poll, AfterFunc, Returned,
       LabrpcTypeOK, RequestOK
  <2>5. CallInv(c)'
    BY <1>1, <1>2, <2>2, <2>3, <2>4 DEF CallInv, Served, CutOff, Crashed, Positive, Current,
       netVars, testerVars
  <2>6. \A d \in Call \ {c} : req'[d] = req[d]
    BY <1>1, <1>3 DEF CallDone, MakeNetworkTake, dropRequest, poll, AfterFunc, Returned,
       LabrpcTypeOK
  <2>7. QED
    BY <1>1, <1>2, <2>1, <2>2, <2>5, <2>6, OneCallStep DEF LabrpcTypeOK
<1>4. CASE readEndnameInfo(c)
  <2>1. DOMAIN req' = Call /\ RequestOK(req'[c])
    BY <1>1, <1>4, EndsTyped DEF readEndnameInfo, LabrpcTypeOK, RequestOK
  <2>2. /\ req'[c].end = req[c].end
        /\ req'[c].stale = req[c].stale
        /\ req'[c].ok = req[c].ok
        /\ req'[c].server = servers[req[c].end[3]]
    BY <1>1, <1>4 DEF readEndnameInfo, LabrpcTypeOK, RequestOK
  <2>3. \/ req'[c].st = "admitted" /\ enabled[req[c].end] /\ servers[req[c].end[3]] # 0
        \/ req'[c].st = "delayed"
    BY <1>1, <1>4 DEF readEndnameInfo, LabrpcTypeOK, RequestOK
  <2>4. req[c].st = "taken" /\ handler' = handler
    BY <1>4 DEF readEndnameInfo
  <2>5. req[c].end \in ServerEnd => gen[req[c].end[1]] \in Nat
    BY <1>1, EndsTyped DEF LabrpcTypeOK, Gen
  <2>6. servers[req[c].end[3]] # 0 => servers[req[c].end[3]] <= gen[req[c].end[3]]
    BY <1>1, EndsTyped DEF LabrpcTypeOK, RequestOK, Gen, ServedByLatest
  <2>7. req[c].stale => req'[c].st = "delayed"
    BY <1>1, <2>2, <2>3, <2>4, <2>5 DEF CallInv, Served, CutOff, Crashed, EndsOfLatest
  <2>8. CallInv(c)'
    BY <1>1, <1>2, <2>2, <2>3, <2>4, <2>7, <2>6 DEF CallInv, Served, CutOff, Crashed, Positive, Current,
       netVars, testerVars
  <2>9. QED
    BY <1>1, <1>2, <1>4, <2>1, <2>8, OneCallStep DEF readEndnameInfo, LabrpcTypeOK
<1>5. CASE dispatch(c)
  <2>1. DOMAIN req' = Call /\ RequestOK(req'[c]) /\ handler' \in [Call -> {"none", "running", "finished"}]
    BY <1>1, <1>5 DEF dispatch, LabrpcTypeOK, RequestOK
  <2>2. CallInv(c)'
    BY <1>1, <1>2, <1>5, <2>1 DEF dispatch, LabrpcTypeOK, RequestOK, CallInv, Served, CutOff, Crashed,
       Positive, Current, netVars, testerVars
  <2>3. QED
    BY <1>1, <1>2, <1>5, <2>1, <2>2, OneCallStep DEF dispatch, LabrpcTypeOK
<1>6. CASE processReply(c)
  <2>1. DOMAIN req' = Call /\ RequestOK(req'[c])
    BY <1>1, <1>6 DEF processReply, Returned, LabrpcTypeOK, RequestOK
  <2>2. req[c].end \in End /\ req[c].end[3] \in Node
    BY <1>1, EndsTyped DEF LabrpcTypeOK, RequestOK
  <2>3. ~ isServerDead(c) => c \in Current(req[c].end[3])
    BY <1>1, <1>6, <2>2 DEF processReply, isServerDead, CallInv, Served, ServedByLatest, Current
  <2>4. /\ req'[c].st \in {"returned", "delayed"}
        /\ req'[c].ok => ~ isServerDead(c)
        /\ req'[c].end = req[c].end
        /\ req'[c].server = req[c].server
        /\ req'[c].stale = req[c].stale
    BY <1>1, <1>6 DEF processReply, Returned, LabrpcTypeOK, RequestOK, CallInv
  <2>5. CallInv(c)'
    BY <1>1, <1>2, <1>6, <2>3, <2>4 DEF processReply, CallInv, Served, CutOff, Crashed, Positive, Current,
       netVars, testerVars
  <2>6. QED
    BY <1>1, <1>2, <1>6, <2>1, <2>5, OneCallStep DEF processReply, Returned, LabrpcTypeOK
<1>7. QED
    BY <1>3, <1>4, <1>5, <1>6 DEF processReq

\* The update goes to the persister of the instance, which may be superseded.
LEMMA HandlerStep ==
    ASSUME LabrpcInv, NEW c \in Call, Handler(c)
    PROVE  LabrpcInv'
<1>1. LabrpcTypeOK /\ ServedByLatest /\ GenLeft /\ EndsOfLatest /\ CallInv(c)
    BY InvByCall
<1>2. req[c].end[3] \in Node /\ req[c].server \in Gen
    BY <1>1, EndsTyped DEF LabrpcTypeOK, RequestOK, CallInv, Served, Handler
<1>3. disk' \in [Node -> [Gen -> SUBSET Call]]
    BY <1>1, <1>2 DEF Handler, LabrpcTypeOK
<1>4. LabrpcTypeOK'
    BY <1>1, <1>3 DEF Handler, LabrpcTypeOK, netVars, testerVars
<1>5. ServedByLatest' /\ GenLeft' /\ EndsOfLatest'
    BY <1>1 DEF Handler, ServedByLatest, GenLeft, EndsOfLatest, netVars, testerVars
<1>6. \A i \in Node, g \in Gen : disk[i][g] \subseteq disk'[i][g]
    BY <1>1, <1>2 DEF Handler, LabrpcTypeOK
<1>7. c \in disk'[req[c].end[3]][req[c].server]
    BY <1>1, <1>2 DEF Handler, LabrpcTypeOK
<1>8. ASSUME NEW d \in Call PROVE CallInv(d)'
  <2>1. CallInv(d) /\ req[d].end[3] \in Node /\ req[d].server \in Gen \cup {0}
    BY <1>1, EndsTyped, InvByCall DEF LabrpcTypeOK, RequestOK
  <2>2. Current(req[d].end[3]) \subseteq Current(req[d].end[3])'
    BY <1>1, <1>6, <2>1 DEF Handler, Current, LabrpcTypeOK, testerVars
  <2>3. CASE d = c
    BY <1>1, <1>2, <1>7, <2>1, <2>2, <2>3 DEF Handler, CallInv, Served, CutOff, Crashed, Positive,
       LabrpcTypeOK, testerVars
  <2>4. CASE d # c
    BY <1>1, <1>6, <2>1, <2>2, <2>4 DEF Handler, CallInv, Served, CutOff, Crashed, Positive, LabrpcTypeOK,
       testerVars
  <2>5. QED
    BY <2>3, <2>4
<1>9. QED
    BY <1>4, <1>5, <1>8 DEF LabrpcInv, HandlerSaved, StaleStopped, OkOnlyLater,
       AckedSurvives, CallInv

-----------------------------------------------------------------------------
(* Steps of the tester: no call moves.                                     *)

\* A tester step keeps the invariant of the calls if crashed instances stay
\* crashed and nothing is lost from a persister.
LEMMA CallsKept ==
    ASSUME LabrpcInv, UNCHANGED <<req, handler>>,
           \A i \in Node : gen[i] <= gen'[i] /\ gen'[i] \in Gen,
           \A i \in Node, g \in Gen :
              Crashed(i, g) /\ g <= gen[i] => Crashed(i, g)',
           \A i \in Node, g \in Gen : g <= gen[i] => disk[i][g] \subseteq disk'[i][g],
           \A i \in Node : Current(i) \subseteq Current(i)'
    PROVE  \A c \in Call : CallInv(c)'
<1> SUFFICES ASSUME NEW c \in Call PROVE CallInv(c)'
    OBVIOUS
<1> DEFINE e == req[c].end
<1>1. CallInv(c) /\ LabrpcTypeOK
    BY InvByCall
<1>2. /\ e[2] \in Gen /\ e[3] \in Node
      /\ e \in ServerEnd => e[1] \in Node
      /\ req[c].server \in Gen \cup {0}
    BY <1>1, EndsTyped DEF LabrpcTypeOK, RequestOK
<1>3. /\ gen[e[3]] \in Nat /\ gen'[e[3]] \in Nat
      /\ e \in ServerEnd => gen[e[1]] \in Nat /\ gen'[e[1]] \in Nat
      /\ e[2] \in Nat /\ req[c].server \in Nat
    BY <1>1, <1>2 DEF LabrpcTypeOK, Gen
<1>4. Served(c) => Served(c)'
    BY <1>2, <1>3 DEF Served
<1>5. handler[c] = "finished" => c \in disk'[e[3]][req[c].server]
    BY <1>1, <1>2, <1>3 DEF CallInv, Served
<1>6. CutOff(e) /\ e[2] <= gen[e[1]] => CutOff(e)' /\ e[2] <= gen'[e[1]]
    BY <1>2, <1>3 DEF CutOff
<1>7. Positive(c)' => c \in Current(e[3])'
    BY <1>1, <1>2 DEF CallInv, Positive
<1>8. QED
    BY <1>1, <1>4, <1>5, <1>6, <1>7 DEF CallInv

LEMMA ConnectStep ==
    ASSUME LabrpcInv, NEW e \in End,
           \/ e \in ServerEnd /\ (connect(e) \/ disconnect(e))
           \/ e \in ClientEnd /\ (ConnectClient(e) \/ DisconnectClient(e))
    PROVE  LabrpcInv'
<1>1. LabrpcTypeOK /\ ServedByLatest /\ GenLeft /\ EndsOfLatest
    BY InvByCall
<1>2. PICK yes \in BOOLEAN : Enable(e, yes) /\ (yes => e \in ClientEnd \/ connect(e))
    BY DEF connect, disconnect, ConnectClient, DisconnectClient
<1>3. LabrpcTypeOK'
    BY <1>1, <1>2 DEF Enable, LabrpcTypeOK, RequestOK, testerVars
<1>4. ServedByLatest' /\ GenLeft'
    BY <1>1, <1>2 DEF Enable, ServedByLatest, GenLeft, testerVars
<1>5. EndsOfLatest'
  <2> SUFFICES ASSUME NEW f \in ServerEnd, enabled'[f]
               PROVE  f[2] = gen[f[1]] /\ pc[f[1]] \notin {"deleted", "copied"}
    BY <1>2 DEF EndsOfLatest, Enable, testerVars
  <2>1. CASE f = e
    <3>1. yes
        BY <1>1, <1>2, <2>1 DEF Enable, LabrpcTypeOK
    <3>2. connect(e)
        BY <1>2, <2>1, <3>1, EndsTyped
    <3>3. e \in EndsOf(e[1]) /\ pc[e[1]] = "up"
        BY <3>2 DEF connect
    <3>4. QED
        BY <2>1, <3>3 DEF EndsOf
  <2>2. CASE f # e
    <3>1. enabled[f]
        BY <1>1, <1>2, <2>2, EndsTyped DEF Enable, LabrpcTypeOK
    <3>2. QED
        BY <1>1, <3>1 DEF EndsOfLatest
  <2>3. QED
    BY <2>1, <2>2
<1>6. \A c \in Call : CallInv(c)'
    BY <1>1, <1>2, InvByCall DEF Enable, CallInv, Served, CutOff, Crashed, Positive, Current, testerVars
<1>7. QED
    BY <1>3, <1>4, <1>5, <1>6 DEF LabrpcInv, HandlerSaved, StaleStopped, OkOnlyLater,
       AckedSurvives, CallInv

\* crash1 up to the copy of the persister.
LEMMA CrashStep ==
    ASSUME LabrpcInv, NEW i \in Node, crash1(i) \/ DeleteServer(i) \/ Copy(i)
    PROVE  LabrpcInv'
<1>1. LabrpcTypeOK /\ ServedByLatest /\ GenLeft /\ EndsOfLatest
    BY InvByCall
<1>2. LabrpcTypeOK'
  <2>1. UNCHANGED <<enabled, req, handler, gen, disk>>
    BY DEF crash1, DeleteServer, Copy, netVars
  <2>2. servers' \in [Node -> Gen \cup {0}]
    BY <1>1 DEF crash1, DeleteServer, Copy, LabrpcTypeOK, netVars
  <2>3. pc' \in [Node -> {"up", "cutting", "deleted", "copied", "made"}]
    BY <1>1 DEF crash1, DeleteServer, Copy, LabrpcTypeOK
  <2>4. saved' \in [Node -> SUBSET Call]
    BY <1>1 DEF crash1, DeleteServer, Copy, LabrpcTypeOK
  <2>5. QED
    BY <1>1, <2>1, <2>2, <2>3, <2>4 DEF LabrpcTypeOK, RequestOK
<1>3. ServedByLatest' /\ GenLeft'
    BY <1>1 DEF crash1, DeleteServer, Copy, LabrpcTypeOK, ServedByLatest, GenLeft, netVars
<1>4. EndsOfLatest'
  <2> SUFFICES ASSUME NEW e \in ServerEnd, enabled[e]
               PROVE  e[2] = gen[e[1]] /\ pc'[e[1]] \notin {"deleted", "copied"}
    BY DEF crash1, DeleteServer, Copy, EndsOfLatest, netVars
  <2>1. e[1] \in Node /\ e[2] = gen[e[1]] /\ pc[e[1]] \notin {"deleted", "copied"}
    BY <1>1, EndsTyped DEF EndsOfLatest
  <2>2. CASE crash1(i)
    BY <1>1, <2>1, <2>2 DEF crash1, LabrpcTypeOK
  <2>3. CASE DeleteServer(i)
    <3>1. e[1] # i
        BY <2>1, <2>3 DEF DeleteServer, EndsOf
    <3>2. QED
        BY <1>1, <2>1, <2>3, <3>1 DEF DeleteServer, LabrpcTypeOK
  <2>4. CASE Copy(i)
    <3>1. e[1] # i
        BY <2>1, <2>4 DEF Copy
    <3>2. QED
        BY <1>1, <2>1, <2>4, <3>1 DEF Copy, LabrpcTypeOK
  <2>5. QED
    BY <2>2, <2>3, <2>4
<1>5. \A j \in Node, g \in Gen : Crashed(j, g) => Crashed(j, g)'
    BY <1>1 DEF crash1, DeleteServer, Copy, LabrpcTypeOK, Crashed
<1>6. \A j \in Node : Current(j) \subseteq Current(j)'
    BY <1>1 DEF crash1, DeleteServer, Copy, LabrpcTypeOK, Current
<1>7. UNCHANGED <<req, handler, gen, disk>>
    BY DEF crash1, DeleteServer, Copy
<1>8. \A j \in Node : gen[j] <= gen'[j] /\ gen'[j] \in Gen
    BY <1>1, <1>7 DEF LabrpcTypeOK, Gen
<1>9. \A c \in Call : CallInv(c)'
    BY <1>5, <1>6, <1>7, <1>8, CallsKept
<1>10. QED
    BY <1>2, <1>3, <1>4, <1>9 DEF LabrpcInv, HandlerSaved, StaleStopped, OkOnlyLater,
       AckedSurvives, CallInv

\* The next instance starts from the copy.
LEMMA StartStep ==
    ASSUME LabrpcInv, NEW i \in Node, start1(i)
    PROVE  LabrpcInv'
<1> DEFINE g == gen[i] + 1
<1>1. LabrpcTypeOK /\ ServedByLatest /\ GenLeft /\ EndsOfLatest
    BY InvByCall
<1>2. g \in Gen /\ pc[i] = "copied" /\ servers[i] = 0 /\ gen[i] \in Nat
  <2>1. pc[i] = "copied"
    BY DEF start1
  <2>2. gen[i] \in 1 .. MaxGen /\ gen[i] < MaxGen /\ MaxGen \in Nat
    BY <1>1, <2>1, GenAssumption DEF GenLeft, LabrpcTypeOK, Gen
  <2>3. servers[i] = 0
    BY <1>1, <2>1 DEF ServedByLatest
  <2>4. QED
    BY <2>1, <2>2, <2>3 DEF Gen
<1>3. /\ gen' = [gen EXCEPT ![i] = g]
      /\ pc' = [pc EXCEPT ![i] = "made"]
      /\ disk' = [disk EXCEPT ![i][g] = saved[i]]
      /\ UNCHANGED <<servers, req, handler, saved>>
      /\ enabled' = [e \in End |-> enabled[e] /\ ~ (e[1] = i /\ e[2] = g)]
    BY DEF start1
<1>4. LabrpcTypeOK'
  <2>1. enabled' \in [End -> BOOLEAN]
    BY <1>3
  <2>2. disk' \in [Node -> [Gen -> SUBSET Call]]
    BY <1>1, <1>2, <1>3 DEF LabrpcTypeOK
  <2>3. QED
    BY <1>1, <1>2, <1>3, <2>1, <2>2 DEF LabrpcTypeOK, RequestOK
<1>5. ServedByLatest' /\ GenLeft'
    BY <1>1, <1>2, <1>3 DEF LabrpcTypeOK, ServedByLatest, GenLeft
<1>6. EndsOfLatest'
  <2> SUFFICES ASSUME NEW e \in ServerEnd, enabled'[e]
               PROVE  e[2] = gen'[e[1]] /\ pc'[e[1]] \notin {"deleted", "copied"}
    BY DEF EndsOfLatest
  <2>1. enabled[e] /\ e[1] \in Node
    BY <1>3, EndsTyped
  <2>2. e[1] # i
    BY <1>1, <1>2, <2>1 DEF EndsOfLatest
  <2>3. QED
    BY <1>1, <1>3, <2>1, <2>2 DEF EndsOfLatest, LabrpcTypeOK
<1>7. \A j \in Node : gen[j] <= gen'[j] /\ gen'[j] \in Gen
    BY <1>1, <1>2, <1>3 DEF LabrpcTypeOK, Gen
<1>8. \A j \in Node, h \in Gen : Crashed(j, h) /\ h <= gen[j] => Crashed(j, h)'
    BY <1>1, <1>2, <1>3 DEF LabrpcTypeOK, Crashed, Gen
<1>9. \A j \in Node, h \in Gen : h <= gen[j] => disk[j][h] \subseteq disk'[j][h]
    BY <1>1, <1>2, <1>3 DEF LabrpcTypeOK, Gen
<1>10. \A j \in Node : Current(j) \subseteq Current(j)'
    BY <1>1, <1>2, <1>3 DEF LabrpcTypeOK, Current
<1>11. \A c \in Call : CallInv(c)'
    BY <1>3, <1>7, <1>8, <1>9, <1>10, CallsKept
<1>12. QED
    BY <1>4, <1>5, <1>6, <1>11 DEF LabrpcInv, HandlerSaved, StaleStopped, OkOnlyLater,
       AckedSurvives, CallInv

LEMMA AddServerStep ==
    ASSUME LabrpcInv, NEW i \in Node, AddServer(i)
    PROVE  LabrpcInv'
<1>1. LabrpcTypeOK /\ ServedByLatest /\ GenLeft /\ EndsOfLatest
    BY InvByCall
<1>2. LabrpcTypeOK'
    BY <1>1 DEF AddServer, LabrpcTypeOK, RequestOK
<1>3. ServedByLatest' /\ GenLeft' /\ EndsOfLatest'
    BY <1>1, EndsTyped DEF AddServer, LabrpcTypeOK, ServedByLatest, GenLeft, EndsOfLatest
<1>4. \A j \in Node, g \in Gen : Crashed(j, g) => Crashed(j, g)'
    BY <1>1 DEF AddServer, LabrpcTypeOK, Crashed
<1>5. \A j \in Node : Current(j) \subseteq Current(j)'
    BY <1>1 DEF AddServer, LabrpcTypeOK, Current
<1>6. \A j \in Node : gen[j] <= gen'[j] /\ gen'[j] \in Gen
    BY <1>1 DEF AddServer, LabrpcTypeOK, Gen
<1>7. UNCHANGED <<req, handler, disk>>
    BY DEF AddServer
<1>8. \A c \in Call : CallInv(c)'
    BY <1>4, <1>5, <1>6, <1>7, CallsKept
<1>9. QED
    BY <1>2, <1>3, <1>8 DEF LabrpcInv, HandlerSaved, StaleStopped, OkOnlyLater,
       AckedSurvives, CallInv

-----------------------------------------------------------------------------
\* Steps of the rest of the network, and stuttering, change nothing of this.
LEMMA OtherStep ==
    ASSUME LabrpcInv, UNCHANGED <<enabled, servers, req, handler, testerVars, disk>>
    PROVE  LabrpcInv'
<1>1. LabrpcTypeOK' /\ ServedByLatest' /\ GenLeft' /\ EndsOfLatest'
    BY DEF LabrpcInv, LabrpcTypeOK, RequestOK, ServedByLatest, GenLeft, EndsOfLatest, testerVars
<1>2. \A c \in Call : CallInv(c)'
    BY InvByCall DEF CallInv, Served, CutOff, Crashed, Positive, Current, testerVars
<1>3. QED
    BY <1>1, <1>2 DEF LabrpcInv, HandlerSaved, StaleStopped, OkOnlyLater, AckedSurvives, CallInv

LEMMA NextInv == LabrpcInv /\ [Next]_vars => LabrpcInv'
<1> SUFFICES ASSUME LabrpcInv, [Next]_vars PROVE LabrpcInv'
    OBVIOUS
<1>1. CASE \E c \in Call, e \in End : CallBegin(c, e)
    BY <1>1, CallBeginStep
<1>2. CASE \E c \in Call : processReq(c)
    BY <1>2, ProcessReqStep
<1>3. CASE \E c \in Call : Handler(c)
    BY <1>3, HandlerStep
<1>4. CASE \/ \E e \in ServerEnd : connect(e) \/ disconnect(e)
           \/ \E e \in ClientEnd : ConnectClient(e) \/ DisconnectClient(e)
    BY <1>4, ConnectStep, EndsTyped
<1>5. CASE \E i \in Node : crash1(i) \/ DeleteServer(i) \/ Copy(i)
    BY <1>5, CrashStep
<1>6. CASE \E i \in Node : start1(i)
    BY <1>6, StartStep
<1>7. CASE \E i \in Node : AddServer(i)
    BY <1>7, AddServerStep
<1>8. CASE MakeNetworkStop \/ Cleanup \/ \E yes \in BOOLEAN : Reliable(yes) \/ LongReordering(yes)
    BY <1>8, OtherStep DEF MakeNetworkStop, Cleanup, Reliable, LongReordering
<1>9. CASE UNCHANGED vars
    BY <1>9, OtherStep DEF vars, netVars
<1>10. QED
    BY <1>1, <1>2, <1>3, <1>4, <1>5, <1>6, <1>7, <1>8, <1>9 DEF Next, Network, Tester

\* The invariant that ties ends, servers and persisters to generations.
THEOREM LabrpcInvariant == Spec => []LabrpcInv
BY InitInv, NextInv, PTL DEF Spec

\* isServerDead before a reply, and crash1's order of DeleteServer and Copy:
\* whoever gets a positive reply finds the update after any number of restarts.
THEOREM AckedUpdatesSurvive == Spec => []AckedSurvives
<1>1. LabrpcInv => AckedSurvives
    BY DEF LabrpcInv
<1>2. QED
    BY <1>1, LabrpcInvariant, PTL

\* Fresh ends in start1 and disconnect in crash1: no call of an instance that
\* was cut off is executed.
THEOREM OldInstancesSilent == Spec => []OldInstanceSilent
<1>1. LabrpcInv => OldInstanceSilent
    BY DEF LabrpcInv, StaleStopped, OldInstanceSilent
<1>2. QED
    BY <1>1, LabrpcInvariant, PTL
=============================================================================
