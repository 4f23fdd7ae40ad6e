------------------------------- MODULE MapStore -------------------------------
(***************************************************************************)
(* The database as a state machine on one lossy map: what Dict implements  *)
(* for the server, with no buckets, nodes or second table.                 *)
(***************************************************************************)
EXTENDS LossyMap

VARIABLE m

MapInit == m = EmptyMap

Put(k, v) == m' = MapInsert(m, k, v)

Delete(k) == m' = MapErase(m, k)

MapNext ==
  \/ \E k \in DbKeys, v \in DbVals : Put(k, v)
  \/ \E k \in DbKeys : Delete(k)

MapSpec == MapInit /\ [][MapNext]_m
===============================================================================
