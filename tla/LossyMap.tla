------------------------------- MODULE LossyMap -------------------------------
(***************************************************************************)
(* The map that the database really is.  Dict::insert links a new key into *)
(* a bucket that already holds a node by REPLACING that node: only the     *)
(* node behind the old head is kept, and there never is one.  What a       *)
(* caller sees is a map in which writing a new key forgets every other key *)
(* of the same bucket.                                                     *)
(*                                                                         *)
(* The module has no variable: IoPipeline and KvService keep a map of this *)
(* kind, and Dict is shown to implement it.                                *)
(***************************************************************************)
EXTENDS Naturals

CONSTANTS
  DbKeys,   \* the keys
  DbVals,   \* the values
  Absent,   \* what a lookup of a key without a node answers (nullptr)
  Bucket    \* key -> index of its bucket, Hashtable::hash

Maps == [DbKeys -> DbVals \cup {Absent}]

EmptyMap == [k \in DbKeys |-> Absent]

Neighbours(k) == {x \in DbKeys \ {k} : Bucket[x] = Bucket[k]}

\* Dict::insert as its callers see it.
MapInsert(m, k, v) ==
  [x \in DbKeys |-> CASE x = k             -> v
                      [] x \in Neighbours(k) -> Absent
                      [] OTHER             -> m[x]]

\* Dict::find followed by getValue.
MapFind(m, k) == m[k]

\* Dict::erase as its callers see it.
MapErase(m, k) == [m EXCEPT ![k] = Absent]

\* At most one key of a bucket is present.
OneKeyPerBucket(m) ==
  \A k \in DbKeys : m[k] # Absent => \A x \in Neighbours(k) : m[x] = Absent
===============================================================================
