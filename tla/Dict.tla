--------------------------------- MODULE Dict ---------------------------------
(***************************************************************************)
(* Dict and its two Hashtables.  A table is an array of chains of nodes, a *)
(* chain a sequence with the node the bucket points to first.  Calls do    *)
(* not overlap: only the main thread uses the database.                    *)
(*                                                                         *)
(* The server calls insert and find, and rehashMilliseconds, which returns *)
(* at once because nothing in src/ calls startRehash.  LiveSpec is that    *)
(* use, with erase; Spec is every public operation.                        *)
(***************************************************************************)
EXTENDS Integers, Sequences, FiniteSets

CONSTANTS
  Keys, Vals, Absent,
  Hash,          \* key -> bitwise_hash of it
  InitialSize,   \* buckets of table 0, 2^baseNum
  DefaultSize,   \* DEFAULT_BUCKTNUM, the buckets of table 1 before any resize
  ShrinkFloor,   \* 128, below which a sparse table is not halved
  RehashArgs,    \* arguments rehash() is called with
  SizeMod,       \* size_t arithmetic is modulo this
  MaxNodes       \* bound on _nodeSize

ASSUME DictAssumption ==
  /\ Hash \in [Keys -> Nat]
  /\ InitialSize \in Nat /\ InitialSize >= 2
  /\ DefaultSize \in Nat /\ DefaultSize >= 2
  /\ Absent \notin Vals
  /\ ShrinkFloor \in Nat /\ RehashArgs \subseteq Nat
  /\ MaxNodes \in Nat /\ SizeMod \in Nat /\ 2 * MaxNodes < SizeMod

Nops == -1
Nodes == [key : Keys, val : Vals]
Tables == {0, 1}

VARIABLES
  chain,      \* table -> bucket -> the nodes linked there
  nodeSize,   \* table -> _nodeSize
  rehashIdx,  \* Nops, or where rehash() goes on
  status      \* "ok", "crashed", or "freed": nodes freed and still linked

dictVars == <<chain, nodeSize, rehashIdx, status>>

NewTable(size) == [i \in 0 .. size - 1 |-> <<>>]
BucketSize(t) == Cardinality(DOMAIN chain[t])
Rehashing == rehashIdx # Nops

Init ==
  /\ chain = [t \in Tables |-> NewTable(IF t = 0 THEN InitialSize ELSE DefaultSize)]
  /\ nodeSize = [t \in Tables |-> 0]
  /\ rehashIdx = Nops
  /\ status = "ok"

\* Hashtable::hash takes the remainder by _sizeMask, one less than the number of
\* buckets.  Of a table without buckets the mask is the largest size_t.
Home(t, k) == Hash[k] % (BucketSize(t) - 1)
Usable(t) == BucketSize(t) >= 2

Has(t, k) ==
  /\ Usable(t)
  /\ \E j \in DOMAIN chain[t][Home(t, k)] : chain[t][Home(t, k)][j].key = k

ValueIn(t, k) ==
  LET ch == chain[t][Home(t, k)]
  IN  ch[CHOOSE j \in DOMAIN ch : ch[j].key = k /\ \A i \in 1 .. j - 1 : ch[i].key # k].val

\* Dict::find.
Lookup(k) ==
  IF Has(0, k) THEN ValueIn(0, k)
  ELSE IF Rehashing /\ Has(1, k) THEN ValueIn(1, k)
  ELSE Absent

SetValue(t, k, v) ==
  /\ chain' = [chain EXCEPT ![t][Home(t, k)] =
                 [j \in DOMAIN @ |-> IF @[j].key = k THEN [@[j] EXCEPT !.val = v] ELSE @[j]]]
  /\ UNCHANGED nodeSize

\* Mutation of Link: the new node goes before the old head.
LinkBefore(t, k, v) ==
  /\ chain' = [chain EXCEPT ![t][Home(t, k)] = <<[key |-> k, val |-> v]>> \o @]
  /\ nodeSize' = [nodeSize EXCEPT ![t] = @ + 1]

\* Mutation of Link: the index of table 0 is used for table 1.
LinkAtFirstIndex(t, k, v) ==
  LET i == IF Home(0, k) \in DOMAIN chain[t] THEN Home(0, k) ELSE 0
  IN  /\ chain' = [chain EXCEPT ![t][i] =
                     <<[key |-> k, val |-> v]>> \o (IF @ = <<>> THEN <<>> ELSE Tail(@))]
      /\ nodeSize' = [nodeSize EXCEPT ![t] = @ + 1]

\* Mutation of Link: _nodeSize is not incremented.
LinkUncounted(t, k, v) ==
  /\ chain' = [chain EXCEPT ![t][Home(t, k)] =
                 <<[key |-> k, val |-> v]>> \o (IF @ = <<>> THEN <<>> ELSE Tail(@))]
  /\ UNCHANGED nodeSize

\* The new node takes over what the old head had behind it, and the bucket; the old
\* head is no longer linked, and still counted.
Link(t, k, v) ==
  /\ chain' = [chain EXCEPT ![t][Home(t, k)] =
                 <<[key |-> k, val |-> v]>> \o (IF @ = <<>> THEN <<>> ELSE Tail(@))]
  /\ nodeSize' = [nodeSize EXCEPT ![t] = @ + 1]

\* An operation on a table without buckets reads past its array.
Crash == status' = "crashed" /\ UNCHANGED <<chain, nodeSize, rehashIdx>>

InsertInto(t, k, v) ==
  IF Has(t, k) THEN SetValue(t, k, v) ELSE nodeSize[t] < MaxNodes /\ Link(t, k, v)

\* Mutation of Insert: while rehashing, table 0 is not searched first.
InsertIntoSecond(k, v) ==
  /\ status = "ok" /\ Usable(0)
  /\ IF ~Rehashing THEN InsertInto(0, k, v)
     ELSE Usable(1) /\ InsertInto(1, k, v)
  /\ UNCHANGED <<rehashIdx, status>>

\* Dict::insert on tables that have buckets.
Insert(k, v) ==
  /\ status = "ok" /\ Usable(0)
  /\ IF Has(0, k) \/ ~Rehashing
     THEN InsertInto(0, k, v)
     ELSE Usable(1) /\ InsertInto(1, k, v)
  /\ UNCHANGED <<rehashIdx, status>>

\* find, insert or erase when the table it comes to has none.
UseCrashes(k) ==
  /\ status = "ok"
  /\ ~Usable(0) \/ (~Has(0, k) /\ Rehashing /\ ~Usable(1))
  /\ Crash

\* Mutation of Decrement: a signed counter.
DecrementSigned(t) == nodeSize' = [nodeSize EXCEPT ![t] = @ - 1]

Decrement(t) == nodeSize' = [nodeSize EXCEPT ![t] = (@ + SizeMod - 1) % SizeMod]

\* Dict::erase finds the key in table 0: prev has been moved onto the node before
\* the comparison, so only a node at the head is unlinked.
EraseFirst(k) ==
  /\ status = "ok" /\ Has(0, k)
  /\ chain' = [chain EXCEPT ![0][Home(0, k)] = IF Head(@).key = k THEN Tail(@) ELSE @]
  /\ Decrement(0)
  /\ UNCHANGED <<rehashIdx, status>>

\* In table 1 prev is still the head when the key is in the first or second node, and
\* the head is written back; one further down would be unlinked.
EraseSecond(k) ==
  /\ status = "ok" /\ Usable(0) /\ ~Has(0, k) /\ Rehashing /\ Has(1, k)
  /\ chain' = [chain EXCEPT ![1][Home(1, k)] =
                 IF \E j \in DOMAIN @ : j <= 2 /\ @[j].key = k
                 THEN @ ELSE SelectSeq(@, LAMBDA n : n.key # k)]
  /\ Decrement(1)
  /\ UNCHANGED <<rehashIdx, status>>

Erase(k) == EraseFirst(k) \/ EraseSecond(k)

\* Hashtable::rehash_if_need(0), with _mlf = 3.
RehashNeed ==
  IF nodeSize[0] > 3 * BucketSize(0) THEN 1
  ELSE IF nodeSize[0] < BucketSize(0) \div 2 THEN -1 ELSE 0

\* Tables, sizes and index after the first part of rehash(): table 1 is resized
\* when a rehash begins.
NewSize ==
  IF RehashNeed = -1 /\ nodeSize[0] > ShrinkFloor THEN nodeSize[0] \div 2
                                                 ELSE 2 * nodeSize[0]
Second == IF Rehashing THEN chain[1] ELSE NewTable(NewSize)
SecondNodes == IF Rehashing THEN nodeSize[1] ELSE 0
From == IF Rehashing THEN rehashIdx ELSE 0

RehashCalled == status = "ok" /\ (Rehashing \/ RehashNeed # 0)

\* A call with n > 0 visits 10 * n buckets one after the other and dereferences the
\* first node of each.  It moves what is linked behind that node; there never is
\* such a node (ShortChains), so nothing is moved.
Walk(n) == From .. From + 10 * n - 1
Walkable(n) == \A i \in Walk(n) : i \in DOMAIN chain[0] /\ chain[0][i] # <<>>

\* n = 0, or enough filled buckets in a row: table 0 keeps its nodes.
RehashWalks(n) ==
  /\ RehashCalled /\ nodeSize[0] # 0 /\ Walkable(n)
  /\ chain' = [chain EXCEPT ![1] = Second]
  /\ nodeSize' = [nodeSize EXCEPT ![1] = SecondNodes]
  /\ rehashIdx' = From + 10 * n
  /\ UNCHANGED status

\* The first empty bucket on the way is a null pointer.
RehashCrashes(n) ==
  /\ RehashCalled /\ nodeSize[0] # 0 /\ ~Walkable(n)
  /\ Crash

\* Table 0 counts no node: the tables are swapped and the new table 0 is cleared.
\* _rehashIdx keeps its value, so the Dict goes on rehashing.
RehashEnds ==
  /\ RehashCalled /\ nodeSize[0] = 0
  /\ chain' = [t \in Tables |-> IF t = 1 THEN chain[0]
                                ELSE [i \in DOMAIN Second |-> <<>>]]
  /\ nodeSize' = [t \in Tables |-> 0]
  /\ rehashIdx' = From
  /\ UNCHANGED status

Rehash(n) == RehashWalks(n) \/ RehashCrashes(n) \/ RehashEnds

\* Dict::clear deletes the nodes of table 0 and leaves the buckets as they are.
Clear ==
  /\ status = "ok"
  /\ \E i \in DOMAIN chain[0] : chain[0][i] # <<>>
  /\ status' = "freed"
  /\ UNCHANGED <<chain, nodeSize, rehashIdx>>

LiveNext ==
  \/ \E k \in Keys, v \in Vals : Insert(k, v)
  \/ \E k \in Keys : Erase(k)

Next ==
  \/ LiveNext
  \/ \E k \in Keys : UseCrashes(k)
  \/ \E n \in RehashArgs : Rehash(n)
  \/ Clear

LiveSpec == Init /\ [][LiveNext]_dictVars
Spec == Init /\ [][Next]_dictVars

-------------------------------------------------------------------------------
\* The types of all variables.
TypeOK ==
  /\ DOMAIN chain = Tables
  /\ \A t \in Tables : chain[t] \in [0 .. BucketSize(t) - 1 -> Seq(Nodes)]
  /\ nodeSize \in [Tables -> 0 .. SizeMod - 1]
  /\ rehashIdx \in Nat \cup {Nops}
  /\ status \in {"ok", "crashed", "freed"}

\* A bucket links at most one node, in both tables and also while rehashing: what
\* makes erase's and rehash's handling of longer chains unreachable.
ShortChains == \A t \in Tables : \A i \in DOMAIN chain[t] : Len(chain[t][i]) <= 1

\* Every linked node is in the bucket its key hashes to in that table, also after
\* the tables were resized and swapped: otherwise find would miss it.
AtHome ==
  \A t \in Tables : \A i \in DOMAIN chain[t] : \A j \in DOMAIN chain[t][i] :
    Usable(t) /\ i = Home(t, chain[t][i][j].key)

\* No key is linked in both tables, so a value set in one cannot be hidden by an
\* older one in the other.
NoKeyTwice == \A k \in Keys : ~(Has(0, k) /\ Has(1, k))

Linked(t) == Cardinality({i \in DOMAIN chain[t] : chain[t][i] # <<>>})

\* _nodeSize of table 0 never falls below what is linked there: a table that counts
\* as empty is empty, and clearing it when a rehash ends loses nothing.
CountsEnough == nodeSize[0] >= Linked(0)

\* What was inserted last is what find returns, whichever table it went to.
LastWriteWins ==
  [][\A k \in Keys, v \in Vals : Insert(k, v) => Lookup(k)' = v]_dictVars

AbstractMap == [k \in Keys |-> Lookup(k)]
Abstract == INSTANCE MapStore WITH
  m <- AbstractMap,
  DbKeys <- Keys, DbVals <- Vals,
  Bucket <- [k \in Keys |-> Hash[k] % (InitialSize - 1)]

\* Whatever is called, Dict is the lossy map that execCommand works on until a rehash
\* begins: one that ends at once, a crash and clear change nothing of it.
MapStoreUntilRehash ==
  Abstract!MapInit /\ [][~Rehashing => [Abstract!MapNext]_AbstractMap]_dictVars

\* As the server uses it, that is always.
ImplementsMapStore == Abstract!MapSpec

===============================================================================
