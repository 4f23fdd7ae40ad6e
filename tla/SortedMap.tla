------------------------------- MODULE SortedMap -------------------------------
(***************************************************************************)
(* What a skip list stands for: a map that changes at one moment per call. *)
(***************************************************************************)
CONSTANTS SmKeys, SmVals, SmAbsent

VARIABLE map

Nothing == [k \in SmKeys |-> SmAbsent]

SmInit == map = Nothing

Put(k, v) == map' = [map EXCEPT ![k] = v]
Remove(k) == map' = [map EXCEPT ![k] = SmAbsent]
Empty     == map' = Nothing

SmNext ==
  \/ \E k \in SmKeys : Remove(k) \/ \E v \in SmVals : Put(k, v)
  \/ Empty

SmSpec == SmInit /\ [][SmNext]_map
===============================================================================
