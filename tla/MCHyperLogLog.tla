----------------------------- MODULE MCHyperLogLog -----------------------------
(***************************************************************************)
(* HyperLogLog from a new form on, and from one that has been added to so  *)
(* often that positions in it look like XZEROs and VALs.                   *)
(***************************************************************************)
EXTENDS HyperLogLog

CONSTANTS
  FewBytes,    \* bound: a form of at most so many bytes is added to in every way,
  ManyBytes    \* bound: and one of at least so many

\* One between the two only as it was come by: with one count, at index 0, which puts
\* four ZEROs before what is left of the first run.
Warming(index, count) ==
  /\ index = 0 /\ registers[1] = Val(count, 1)
  /\ \A i \in 2 .. Len(registers) - 5 : registers[i] = 0

MCNext ==
  \E index \in Indices, count \in Counts :
    \/ /\ \/ Len(registers) <= FewBytes
          \/ Len(registers) >= ManyBytes
          \/ Warming(index, count)
       /\ HllAdd(index, count)
    \/ HllMerge(index, count)

MCSpec == Init /\ [][MCNext]_vars
================================================================================
