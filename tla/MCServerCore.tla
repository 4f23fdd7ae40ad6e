----------------------------- MODULE MCServerCore -----------------------------
(* Small instances of ServerCore.                                          *)
EXTENDS ServerCore

CONSTANTS k1, k2, v1, v2

SharedBucket == [k \in {k1, k2} |-> 1]
===============================================================================
