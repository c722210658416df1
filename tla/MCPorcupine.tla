---------------------------- MODULE MCPorcupine ----------------------------
(* Porcupine with small histories of gets, puts and appends.                *)
EXTENDS Visualization, TLC

CONSTANTS k1, k2, a, b

Get(out) == [op |-> "get", value |-> a, out |-> out]
Put(v) == [op |-> "put", value |-> v, out |-> <<>>]
AppendOp(v) == [op |-> "append", value |-> v, out |-> <<>>]

\* One key: two letters, so that the order of writes can be told.
RichOps == {Get(<<a>>), Get(<<a, b>>), Put(a), AppendOp(b)}

\* Two keys: a get is legal after the put.
FewOps == {Get(<<a>>), Put(a)}

\* Four operations with a put and a get: without them no get, or every history,
\* is legal.
Four == {ops \in [1 .. 4 -> [key : {k1}, op : RichOps]] :
           {"put", "get"} \subseteq {ops[i].op.op : i \in 1 .. 4}}

UpTo(n, keys, kvops) == UNION {[1 .. m -> [key : keys, op : kvops]] : m \in 1 .. n}

\* Writes that may come in either order, and gets that each fit one order: the
\* longest linearizations of two operations differ in length.
Split == [i \in 1 .. 5 |->
            [key |-> k1, op |-> <<Put(a), AppendOp(b), Get(<<a, b>>),
                                  Get(<<a, b>>), Get(<<a>>)>>[i]]]

\* One key, so that the search goes deep; and two, with everything that the
\* searches and checkParallel can do in between.
MCScopes ==
    {[ops |-> UpTo(3, {k1}, RichOps) \cup Four \cup {Split},
      verbose |-> {TRUE}, timeouts |-> {FALSE}],
     [ops |-> UpTo(3, {k1, k2}, FewOps), verbose |-> BOOLEAN, timeouts |-> {TRUE}]}
=============================================================================
