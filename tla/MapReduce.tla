----------------------------- MODULE MapReduce -----------------------------
(***************************************************************************)
(* The MapReduce coordinator and its workers, src/src/mr.  Workers ask the   *)
(* coordinator for a task, run it and report.                                *)
(*                                                                           *)
(* Nothing assigns mapTaskIssuedTime and reduceTaskIssuedTime, so IsZero     *)
(* holds of every task; and the branch for tasks that are out assigns the    *)
(* loop's own isDone, so mapDone and reduceDone stay true and GetTask never  *)
(* waits.                                                                    *)
(***************************************************************************)
EXTENDS Integers

CONSTANTS
    Worker,         \* worker processes
    nMaps, nReduce

VARIABLES
    mapFinished, reduceFinished, isDone,
    task,           \* the reply of GetTask that a worker holds
    pc,             \* where a worker is in its loop
    mapFile         \* the map tasks whose final file exists

vars == <<mapFinished, reduceFinished, isDone, task, pc, mapFile>>

MapTask == 0 .. nMaps - 1
ReduceTask == 0 .. nReduce - 1

NoTask == [type |-> "none", num |-> 0]

\* The task that the loop over finished comes to first.
First(finished) ==
    CHOOSE i \in DOMAIN finished :
       ~ finished[i] /\ \A j \in DOMAIN finished : j < i => finished[j]

AllFinished(finished) == \A i \in DOMAIN finished : finished[i]

Assign(w, type, num) ==
    /\ task' = [task EXCEPT ![w] = [type |-> type, num |-> num]]
    /\ pc' = [pc EXCEPT ![w] = "run"]

\* Map tasks first, then reduce tasks, then Done, on which the worker exits.
GetTask(w) ==
    /\ pc[w] = "ask"
    /\ \/ /\ ~ AllFinished(mapFinished)
          /\ Assign(w, "Map", First(mapFinished))
          /\ UNCHANGED isDone
       \/ /\ AllFinished(mapFinished) /\ ~ AllFinished(reduceFinished)
          /\ Assign(w, "Reduce", First(reduceFinished))
          /\ UNCHANGED isDone
       \/ /\ AllFinished(mapFinished) /\ AllFinished(reduceFinished)
          /\ isDone' = TRUE
          /\ pc' = [pc EXCEPT ![w] = "exited"]
          /\ UNCHANGED task
    /\ UNCHANGED <<mapFinished, reduceFinished, mapFile>>

\* The output goes to a temporary file that is then renamed.
MapWorker(w) ==
    /\ pc[w] = "run" /\ task[w].type = "Map"
    /\ mapFile' = mapFile \cup {task[w].num}
    /\ pc' = [pc EXCEPT ![w] = "notify"]
    /\ UNCHANGED <<mapFinished, reduceFinished, isDone, task>>

\* ReduceWorker has no body.
ReduceWorker(w) ==
    /\ pc[w] = "run" /\ task[w].type = "Reduce"
    /\ pc' = [pc EXCEPT ![w] = "notify"]
    /\ UNCHANGED <<mapFinished, reduceFinished, isDone, task, mapFile>>

\* "set the status to false"
FinishNotify(w) ==
    /\ pc[w] = "notify"
    /\ \/ /\ task[w].type = "Map"
          /\ mapFinished' = [mapFinished EXCEPT ![task[w].num] = FALSE]
          /\ UNCHANGED reduceFinished
       \/ /\ task[w].type = "Reduce"
          /\ reduceFinished' = [reduceFinished EXCEPT ![task[w].num] = FALSE]
          /\ UNCHANGED mapFinished
    /\ pc' = [pc EXCEPT ![w] = "ask"]
    /\ task' = [task EXCEPT ![w] = NoTask]
    /\ UNCHANGED <<isDone, mapFile>>

\* MakeCoordinator, and the first workers.
Init ==
    /\ mapFinished = [i \in MapTask |-> FALSE]
    /\ reduceFinished = [i \in ReduceTask |-> FALSE]
    /\ isDone = FALSE
    /\ task = [w \in Worker |-> NoTask]
    /\ pc = [w \in Worker |-> "ask"]
    /\ mapFile = {}

Loop(w) == GetTask(w) \/ MapWorker(w) \/ ReduceWorker(w) \/ FinishNotify(w)

Next == \E w \in Worker : Loop(w)

\* Workers that do not die, all of which go on with their loop.
Spec == Init /\ [][Next]_vars /\ \A w \in Worker : WF_vars(Loop(w))

-----------------------------------------------------------------------------
(* Properties.                                                             *)

\* "Done task: indicate that all tasks has been done, workers should exit": with
\* workers that never die, the job ends.
JobEnds == <>isDone
=============================================================================
