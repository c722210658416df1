------------------------------ MODULE MCLabrpc ------------------------------
(* Labrpc with two nodes that call each other and may be crashed, and a      *)
(* clerk that calls both.                                                    *)
EXTENDS Labrpc

CONSTANTS x, y, k, c1
=============================================================================
