----------------------------- MODULE MCIoPipeline -----------------------------
(* Small instances of IoPipeline.                                          *)
EXTENDS IoPipeline, TLC

CONSTANTS c1, c2, c3, k1, k2, v1, v2

Set(k, v) == [op |-> "set", key |-> k, val |-> v]
Get(k)    == [op |-> "get", key |-> k, val |-> Blank]
Shutdown  == [op |-> "shutdown", key |-> Blank, val |-> Blank]

\* Two keys in one bucket, the empty key in another.
SharedBucket == [k \in {k1, k2, Blank} |-> IF k = Blank THEN 0 ELSE 1]

\* A writer and a reader of the same key.
ScriptTwo ==
  (c1 :> <<Set(k1, v1), Get(k1)>>) @@ (c2 :> <<Set(k2, v2)>>)

\* A writer that reads back, and a client that shuts the server down.
ScriptChurn ==
  (c1 :> <<Set(k1, v1), Get(k1)>>) @@ (c2 :> <<Shutdown>>)

\* One client, two commands: the second request follows the first reply.
ScriptOne == (c1 :> <<Set(k1, v1), Get(k1)>>)

\* Two clients, one command each.
ScriptPair == (c1 :> <<Set(k1, v1)>>) @@ (c2 :> <<Get(k1)>>)
===============================================================================
