-------------------------------- MODULE MCDict --------------------------------
(* Small instances of Dict.                                                *)
EXTENDS Dict, TLC

CONSTANTS k1, k2, k3, v1, v2

\* In a table of 4 buckets k1 and k2 share one; in one of 2 all keys do.
Hashes == (k1 :> 1) @@ (k2 :> 4) @@ (k3 :> 5)
===============================================================================
