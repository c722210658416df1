----------------------------- MODULE MCLabgob -----------------------------
(* Labgob with a struct T that has a lower-case field and a list node N,     *)
(* which refers to itself, and integers.                                     *)
EXTENDS Labgob, TLC

CONSTANTS T, N, Int0, g1, g2, x, y

MCFields ==
    T :> <<[lower |-> TRUE, type |-> Int0], [lower |-> FALSE, type |-> N]>>
    @@ N :> <<[lower |-> FALSE, type |-> N]>>
    @@ Int0 :> <<>>

\* Decode(&reply) with a reply of two integers: the fields have depth 3.
FlatKind == x :> "scalar" @@ y :> "scalar"
FlatDepth == x :> 3 @@ y :> 3
=============================================================================
