------------------------------ MODULE DictProofs ------------------------------
(***************************************************************************)
(* Theorems about Dict for every set of keys, every hash function and      *)
(* every size of the tables.                                               *)
(***************************************************************************)
EXTENDS Dict, FiniteSetTheorems, TLAPS

\* A table is an array.
SizesOK == \A t \in Tables : \E n \in Nat : DOMAIN chain[t] = 0 .. n - 1

\* Table 1 holds nothing before the first rehash.
SecondEmpty == ~Rehashing => \A i \in DOMAIN chain[1] : chain[1][i] = <<>>

DInv ==
  /\ TypeOK /\ SizesOK /\ SecondEmpty
  /\ ShortChains /\ AtHome /\ NoKeyTwice /\ CountsEnough

-------------------------------------------------------------------------------
\* A table of n buckets has n buckets.
LEMMA IntervalSize ==
  ASSUME NEW n \in Nat
  PROVE  Cardinality(0 .. n - 1) = n
BY FS_Interval

\* The indices of a table.
LEMMA TableDomain ==
  ASSUME SizesOK, NEW t \in Tables
  PROVE  BucketSize(t) \in Nat /\ DOMAIN chain[t] = 0 .. BucketSize(t) - 1
BY IntervalSize DEF SizesOK, BucketSize

\* A remainder by one less than a size is an index.
LEMMA RemainderIndex ==
  ASSUME NEW n \in Nat, n >= 2, NEW h \in Nat
  PROVE  h % (n - 1) \in 0 .. n - 1
<1> DEFINE m == n - 1
<1>1. m \in Nat \ {0} /\ n = m + 1
  OBVIOUS
<1> HIDE DEF m
<1>2. h % m \in 0 .. m - 1
  BY <1>1
<1>3. h % m \in 0 .. n - 1
  BY <1>1, <1>2
<1> QED
  BY <1>3 DEF m

\* A key has a bucket in every table that has two.
LEMMA HomeType ==
  ASSUME SizesOK, NEW t \in Tables, NEW k \in Keys, Usable(t)
  PROVE  Home(t, k) \in DOMAIN chain[t]
<1>1. BucketSize(t) \in Nat /\ BucketSize(t) >= 2 /\ Hash[k] \in Nat
  BY TableDomain, DictAssumption DEF Usable
<1>2. Hash[k] % (BucketSize(t) - 1) \in 0 .. BucketSize(t) - 1
  BY <1>1, RemainderIndex
<1> QED
  BY <1>2, TableDomain DEF Home

\* A bucket is empty or links one node.
LEMMA OneNode ==
  ASSUME TypeOK, SizesOK, ShortChains, NEW t \in Tables, NEW i \in DOMAIN chain[t]
  PROVE  \/ chain[t][i] = <<>>
         \/ \E n \in Nodes : chain[t][i] = <<n>>
<1>1. chain[t][i] \in Seq(Nodes) /\ Len(chain[t][i]) \in Nat /\ Len(chain[t][i]) <= 1
  <2>1. chain[t][i] \in Seq(Nodes)
    BY TableDomain DEF TypeOK
  <2> QED
    BY <2>1 DEF ShortChains
<1> QED
  BY <1>1

\* Two tables without nodes.
EmptyState ==
  /\ DOMAIN chain = Tables
  /\ \A t \in Tables : \E n \in Nat : chain[t] = [i \in 0 .. n - 1 |-> <<>>]
  /\ nodeSize = [t \in Tables |-> 0]
  /\ rehashIdx \in Nat \cup {Nops}
  /\ status \in {"ok", "crashed", "freed"}

\* Tables without nodes satisfy the invariant.
LEMMA EmptyTables == EmptyState => DInv
<1> SUFFICES ASSUME EmptyState PROVE DInv
  OBVIOUS
<1> USE DEF EmptyState
<1>1. SizesOK
  BY DEF SizesOK
<1>2. \A t \in Tables : \A i \in DOMAIN chain[t] : chain[t][i] = <<>>
  OBVIOUS
<1>3. \A t \in Tables : chain[t] \in [0 .. BucketSize(t) - 1 -> Seq(Nodes)]
  <2> TAKE t \in Tables
  <2>1. PICK n \in Nat : chain[t] = [i \in 0 .. n - 1 |-> <<>>]
    OBVIOUS
  <2>2. BucketSize(t) = n
    BY <2>1, IntervalSize DEF BucketSize
  <2> QED
    BY <2>1, <2>2
<1>4. nodeSize \in [Tables -> 0 .. SizeMod - 1]
  BY DictAssumption
<1>5. TypeOK
  BY <1>3, <1>4 DEF TypeOK
<1>6. SecondEmpty /\ ShortChains /\ AtHome
  BY <1>2 DEF SecondEmpty, ShortChains, AtHome, Tables
<1>7. NoKeyTwice
  BY <1>1, <1>2, HomeType DEF NoKeyTwice, Has, Tables
<1>8. CountsEnough
  <2>1. Linked(0) = Cardinality({})
    BY <1>2 DEF Linked, Tables
  <2> QED
    BY <2>1, FS_EmptySet DEF CountsEnough, Tables
<1> QED
  BY <1>1, <1>5, <1>6, <1>7, <1>8 DEF DInv

\* The server starts with two empty tables.
LEMMA InitDInv == Init => DInv
<1> SUFFICES ASSUME Init PROVE DInv
  OBVIOUS
<1>1. \A t \in Tables : \E n \in Nat : chain[t] = [i \in 0 .. n - 1 |-> <<>>]
  BY DictAssumption DEF Init, Tables, NewTable
<1> QED
  BY <1>1, EmptyTables DEF Init, EmptyState

-------------------------------------------------------------------------------
\* What a bucket says about a key, when chains are short.
LEMMA HasMeans ==
  ASSUME DInv, NEW t \in Tables, NEW k \in Keys
  PROVE  Has(t, k) <=> /\ Usable(t)
                       /\ \E v \in Vals : chain[t][Home(t, k)] = <<[key |-> k, val |-> v]>>
<1>1. CASE ~Usable(t)
  BY <1>1 DEF Has
<1>2. CASE Usable(t)
  <2>1. Home(t, k) \in DOMAIN chain[t]
    BY <1>2, HomeType DEF DInv
  <2> DEFINE c == chain[t][Home(t, k)]
  <2>2. c = <<>> \/ \E n \in Nodes : c = <<n>>
    BY <2>1, OneNode DEF DInv
  <2>3. Has(t, k) <=> \E j \in DOMAIN c : c[j].key = k
    BY <1>2 DEF Has
  <2> HIDE DEF c
  <2>4. ASSUME NEW n \in Nodes, c = <<n>>
        PROVE  (\E j \in DOMAIN c : c[j].key = k) <=> \E v \in Vals : c = <<[key |-> k, val |-> v]>>
    BY <2>4 DEF Nodes
  <2>5. (\E j \in DOMAIN c : c[j].key = k) <=> \E v \in Vals : c = <<[key |-> k, val |-> v]>>
    BY <2>2, <2>4
  <2> QED
    BY <1>2, <2>3, <2>5 DEF c
<1> QED
  BY <1>1, <1>2

\* One bucket is given another chain.
SetBucket(t, i, c) ==
  /\ chain' = [chain EXCEPT ![t][i] = c]
  /\ \/ c = <<>>
     \/ \E n \in Nodes : c = <<n>> /\ Usable(t) /\ i = Home(t, n.key)

\* Sizes and homes do not depend on what a bucket links.
LEMMA SetBucketFrame ==
  ASSUME DInv, NEW t \in Tables, NEW i \in DOMAIN chain[t], NEW c, SetBucket(t, i, c)
  PROVE  /\ DOMAIN chain' = Tables
         /\ chain'[t][i] = c
         /\ \A u \in Tables :
              /\ DOMAIN chain'[u] = DOMAIN chain[u]
              /\ BucketSize(u)' = BucketSize(u)
              /\ Usable(u)' <=> Usable(u)
              /\ \A k \in Keys : Home(u, k)' = Home(u, k)
              /\ \A j \in DOMAIN chain[u] : <<u, j>> # <<t, i>> => chain'[u][j] = chain[u][j]
<1>1. DOMAIN chain = Tables
  BY DEF DInv, TypeOK
<1>2. /\ DOMAIN chain' = Tables /\ chain'[t][i] = c
      /\ \A u \in Tables : DOMAIN chain'[u] = DOMAIN chain[u]
      /\ \A u \in Tables : \A j \in DOMAIN chain[u] :
           <<u, j>> # <<t, i>> => chain'[u][j] = chain[u][j]
  BY <1>1 DEF SetBucket
<1>3. \A u \in Tables : BucketSize(u)' = BucketSize(u)
  BY <1>2 DEF BucketSize
<1> QED
  BY <1>2, <1>3 DEF Usable, Home

\* Giving a bucket no node, or one that belongs there, keeps what is said of buckets.
LEMMA SetBucketKeeps ==
  ASSUME DInv, NEW t \in Tables, NEW i \in DOMAIN chain[t], NEW c, SetBucket(t, i, c)
  PROVE  /\ \A u \in Tables : chain'[u] \in [0 .. BucketSize(u)' - 1 -> Seq(Nodes)]
         /\ SizesOK' /\ ShortChains' /\ AtHome'
<1>1. /\ DOMAIN chain' = Tables /\ chain'[t][i] = c
      /\ \A u \in Tables :
           /\ DOMAIN chain'[u] = DOMAIN chain[u]
           /\ BucketSize(u)' = BucketSize(u)
           /\ Usable(u)' <=> Usable(u)
           /\ \A k \in Keys : Home(u, k)' = Home(u, k)
           /\ \A j \in DOMAIN chain[u] : <<u, j>> # <<t, i>> => chain'[u][j] = chain[u][j]
  BY SetBucketFrame
<1>2. c \in Seq(Nodes) /\ Len(c) <= 1
      /\ \A j \in DOMAIN c : c[j] \in Nodes /\ Usable(t) /\ i = Home(t, c[j].key)
  <2>1. CASE c = <<>>
    BY <2>1
  <2>2. CASE \E n \in Nodes : c = <<n>> /\ Usable(t) /\ i = Home(t, n.key)
    <3>1. PICK n \in Nodes : c = <<n>> /\ Usable(t) /\ i = Home(t, n.key)
      BY <2>2
    <3>2. c \in Seq(Nodes) /\ Len(c) = 1 /\ DOMAIN c = {1} /\ c[1] = n
      BY <3>1
    <3> QED
      BY <3>1, <3>2
  <2> QED
    BY <2>1, <2>2 DEF SetBucket
<1>3. SizesOK'
  <2>1. \A u \in Tables : DOMAIN chain'[u] = DOMAIN chain[u]
    BY <1>1
  <2>2. SizesOK
    BY DEF DInv
  <2> QED
    BY <2>1, <2>2 DEF SizesOK
<1>4. \A u \in Tables : chain'[u] \in [0 .. BucketSize(u)' - 1 -> Seq(Nodes)]
  <2> TAKE u \in Tables
  <2>1. chain[u] \in [0 .. BucketSize(u) - 1 -> Seq(Nodes)]
    BY DEF DInv, TypeOK
  <2>2. DOMAIN chain[u] = 0 .. BucketSize(u) - 1
    BY <2>1
  <2>3. \A j \in DOMAIN chain[u] : chain'[u][j] \in Seq(Nodes)
    BY <1>1, <1>2, <2>1, <2>2
  <2>4. chain'[u] = [j \in DOMAIN chain[u] |-> chain'[u][j]]
    <3>1. chain' = [chain EXCEPT ![t] = [chain[t] EXCEPT ![i] = c]]
      BY DEF SetBucket
    <3> QED
      BY <1>1, <2>1, <2>2, <3>1 DEF DInv, TypeOK
  <2> QED
    BY <1>1, <2>2, <2>3, <2>4
<1>5. ShortChains'
  BY <1>1, <1>2 DEF ShortChains, DInv
<1>6. AtHome'
  <2> SUFFICES ASSUME NEW u \in Tables, NEW j \in DOMAIN chain'[u],
                      NEW l \in DOMAIN chain'[u][j]
               PROVE  Usable(u)' /\ j = Home(u, chain[u][j][l].key)'
    BY DEF AtHome
  <2>1. CASE u = t /\ j = i
    BY <1>1, <1>2, <2>1 DEF Nodes
  <2>2. CASE <<u, j>> # <<t, i>>
    <3>1. Usable(u) /\ j = Home(u, chain[u][j][l].key) /\ chain'[u][j] = chain[u][j]
      BY <1>1, <2>2 DEF AtHome, DInv
    <3>2. chain[u][j] \in Seq(Nodes)
      BY <1>1 DEF DInv, TypeOK
    <3>3. chain[u][j][l].key \in Keys
      <4> DEFINE d == chain[u][j]
      <4>1. d \in Seq(Nodes) /\ l \in DOMAIN d
        BY <3>1, <3>2
      <4> HIDE DEF d
      <4>2. d[l] \in Nodes
        BY <4>1
      <4>3. d[l].key \in Keys
        BY <4>2 DEF Nodes
      <4> QED
        BY <4>3 DEF d
    <3> QED
      BY <1>1, <3>1, <3>3
  <2> QED
    BY <2>1, <2>2
<1> QED
  BY <1>3, <1>4, <1>5, <1>6

\* The only key that can appear is the one of the new node.
LEMMA SetBucketHas ==
  ASSUME DInv, NEW t \in Tables, NEW i \in DOMAIN chain[t], NEW c, SetBucket(t, i, c),
         NEW u \in Tables, NEW k \in Keys, Has(u, k)'
  PROVE  \/ Has(u, k)
         \/ u = t /\ \E v \in Vals : c = <<[key |-> k, val |-> v]>>
<1> DEFINE h == Home(u, k)
<1>1. /\ DOMAIN chain' = Tables /\ chain'[t][i] = c
      /\ Usable(u)' <=> Usable(u)
      /\ h' = h
      /\ \A j \in DOMAIN chain[u] : <<u, j>> # <<t, i>> => chain'[u][j] = chain[u][j]
  BY SetBucketFrame
<1>2. Usable(u) /\ \E j \in DOMAIN chain'[u][h] : chain'[u][h][j].key = k
  BY <1>1 DEF Has
<1>3. h \in DOMAIN chain[u]
  BY <1>2, HomeType DEF DInv
<1>4. Has(u, k) <=> \E j \in DOMAIN chain[u][h] : chain[u][h][j].key = k
  BY <1>2 DEF Has
<1> HIDE DEF h
<1>5. CASE <<u, h>> # <<t, i>>
  BY <1>1, <1>2, <1>3, <1>4, <1>5
<1>6. CASE u = t /\ h = i
  <2>1. \E j \in DOMAIN c : c[j].key = k
    BY <1>1, <1>2, <1>6
  <2>2. PICK n \in Nodes : c = <<n>>
    BY <2>1 DEF SetBucket
  <2>3. n.key = k
    BY <2>1, <2>2
  <2> QED
    BY <1>6, <2>2, <2>3 DEF Nodes
<1> QED
  BY <1>5, <1>6

Filled == {i \in DOMAIN chain[0] : chain[0][i] # <<>>}

\* The filled buckets can be counted.
LEMMA FilledFinite ==
  ASSUME DInv
  PROVE  IsFiniteSet(Filled) /\ Cardinality(Filled) \in Nat /\ Linked(0) = Cardinality(Filled)
<1>1. BucketSize(0) \in Nat /\ DOMAIN chain[0] = 0 .. BucketSize(0) - 1
  BY TableDomain DEF DInv, Tables
<1>2. IsFiniteSet(DOMAIN chain[0])
  BY <1>1, FS_Interval
<1>3. IsFiniteSet(Filled)
  BY <1>2, FS_Subset DEF Filled
<1> QED
  BY <1>3, FS_CardinalityType DEF Filled, Linked

\* A bucket that is filled counts one more, a filled one that is emptied one less.
LEMMA SetBucketLinked ==
  ASSUME DInv, NEW t \in Tables, NEW i \in DOMAIN chain[t], NEW c, SetBucket(t, i, c)
  PROVE  /\ t = 1 => Linked(0)' = Linked(0)
         /\ t = 0 /\ c # <<>> => Linked(0)' <= Linked(0) + 1
         /\ t = 0 /\ c # <<>> /\ chain[t][i] # <<>> => Linked(0)' = Linked(0)
         /\ t = 0 /\ c = <<>> /\ chain[t][i] # <<>> => Linked(0)' = Linked(0) - 1
         /\ Linked(0)' \in Nat /\ Linked(0) \in Nat
<1>1. /\ DOMAIN chain' = Tables /\ chain'[t][i] = c
      /\ DOMAIN chain'[0] = DOMAIN chain[0]
      /\ \A j \in DOMAIN chain[0] : <<0, j>> # <<t, i>> => chain'[0][j] = chain[0][j]
  BY SetBucketFrame DEF Tables
<1>2. /\ IsFiniteSet(Filled) /\ Cardinality(Filled) \in Nat /\ Linked(0) = Cardinality(Filled)
  BY FilledFinite
<1>3. Linked(0)' = Cardinality(Filled')
  BY DEF Linked, Filled
<1>4. CASE t = 1
  <2>1. Filled' = Filled
    BY <1>1, <1>4 DEF Filled
  <2> QED
    BY <1>2, <1>3, <1>4, <2>1
<1>5. CASE t = 0 /\ c # <<>>
  <2>1. Filled' = Filled \cup {i}
    BY <1>1, <1>5 DEF Filled
  <2>2. Cardinality(Filled') = IF i \in Filled THEN Cardinality(Filled)
                                               ELSE Cardinality(Filled) + 1
    BY <1>2, <2>1, FS_AddElement
  <2>3. i \in Filled <=> chain[t][i] # <<>>
    BY <1>5 DEF Filled
  <2> QED
    BY <1>2, <1>3, <1>5, <2>2, <2>3
<1>6. CASE t = 0 /\ c = <<>>
  <2>1. Filled' = Filled \ {i}
    BY <1>1, <1>6 DEF Filled
  <2>2. Cardinality(Filled') = IF i \in Filled THEN Cardinality(Filled) - 1
                                               ELSE Cardinality(Filled)
    BY <1>2, <2>1, FS_RemoveElement
  <2>3. i \in Filled <=> chain[t][i] # <<>>
    BY <1>6 DEF Filled
  <2>4. Cardinality(Filled') \in Nat
    BY <1>2, <2>1, FS_RemoveElement, FS_CardinalityType
  <2> QED
    BY <1>2, <1>3, <1>6, <2>2, <2>3, <2>4
<1> QED
  BY <1>4, <1>5, <1>6 DEF Tables

-------------------------------------------------------------------------------
\* Both branches of insert leave the bucket with the one node inserted.
LEMMA InsertIntoSets ==
  ASSUME DInv, NEW t \in Tables, NEW k \in Keys, NEW v \in Vals,
         Usable(t), InsertInto(t, k, v)
  PROVE  /\ Home(t, k) \in DOMAIN chain[t]
         /\ SetBucket(t, Home(t, k), <<[key |-> k, val |-> v]>>)
         /\ IF Has(t, k) THEN nodeSize' = nodeSize
            ELSE nodeSize[t] < MaxNodes /\ nodeSize' = [nodeSize EXCEPT ![t] = @ + 1]
<1> DEFINE h == Home(t, k)
           new == [key |-> k, val |-> v]
           old == chain[t][h]
<1>1. h \in DOMAIN chain[t]
  BY HomeType DEF DInv
<1>2. new \in Nodes /\ new.key = k
  BY DEF Nodes
<1>3. chain' = [chain EXCEPT ![t][h] = <<new>>]
  <2>1. CASE Has(t, k)
    <3>1. PICK w \in Vals : old = <<[key |-> k, val |-> w]>>
      BY <2>1, HasMeans
    <3>2. [j \in DOMAIN old |-> IF old[j].key = k THEN [old[j] EXCEPT !.val = v] ELSE old[j]]
            = <<new>>
      BY <3>1
    <3>3. chain' = [chain EXCEPT ![t][h] =
            [j \in DOMAIN old |-> IF old[j].key = k THEN [old[j] EXCEPT !.val = v] ELSE old[j]]]
      BY <2>1, <1>1 DEF InsertInto, SetValue, DInv, TypeOK
    <3> HIDE DEF new, old, h
    <3> QED
      BY <3>2, <3>3
  <2>2. CASE ~Has(t, k)
    <3>1. old = <<>> \/ \E n \in Nodes : old = <<n>>
      BY <1>1, OneNode DEF DInv
    <3> HIDE DEF new
    <3>2. <<new>> \o (IF old = <<>> THEN <<>> ELSE Tail(old)) = <<new>>
      <4> HIDE DEF old, h
      <4>1. (IF old = <<>> THEN <<>> ELSE Tail(old)) = <<>>
        <5>1. ASSUME NEW n \in Nodes PROVE Tail(<<n>>) = <<>>
          OBVIOUS
        <5> QED
          BY <3>1, <5>1
      <4>2. <<new>> \o <<>> = <<new>>
        OBVIOUS
      <4> QED
        BY <4>1, <4>2
    <3>3. chain' = [chain EXCEPT ![t][h] =
                      <<new>> \o (IF old = <<>> THEN <<>> ELSE Tail(old))]
      BY <2>2, <1>1 DEF InsertInto, Link, DInv, TypeOK, new
    <3> HIDE DEF old, h
    <3> QED
      BY <3>2, <3>3
  <2> QED
    BY <2>1, <2>2
<1>4. SetBucket(t, h, <<new>>)
  <2> HIDE DEF new
  <2> QED
    BY <1>2, <1>3 DEF SetBucket
<1> QED
  BY <1>1, <1>4 DEF InsertInto, SetValue, Link

\* Insert changes one bucket of one table that has buckets, and the other table does
\* not have the key.
LEMMA InsertSets ==
  ASSUME DInv, NEW k \in Keys, NEW v \in Vals, Insert(k, v)
  PROVE  \E t \in Tables :
           /\ Usable(t) /\ InsertInto(t, k, v)
           /\ \A u \in Tables : u # t => ~Has(u, k)
           /\ t = 1 => Rehashing
<1>1. CASE Has(0, k) \/ ~Rehashing
  <2>1. Usable(0) /\ InsertInto(0, k, v)
    BY <1>1 DEF Insert
  <2>2. ~Has(1, k)
    <3>1. CASE Has(0, k)
      BY <3>1 DEF DInv, NoKeyTwice
    <3>2. CASE ~Rehashing
      <4>1. ASSUME Has(1, k) PROVE FALSE
        <5>1. Usable(1) /\ Home(1, k) \in DOMAIN chain[1]
          BY <4>1, HomeType DEF Has, DInv, Tables
        <5>2. chain[1][Home(1, k)] = <<>>
          BY <3>2, <5>1 DEF SecondEmpty, DInv
        <5> QED
          BY <4>1, <5>2 DEF Has
      <4> QED
        BY <4>1
    <3> QED
      BY <1>1, <3>1, <3>2
  <2> QED
    BY <2>1, <2>2 DEF Tables
<1>2. CASE ~Has(0, k) /\ Rehashing
  BY <1>2 DEF Insert, Tables
<1> QED
  BY <1>1, <1>2

\* An insert keeps the invariant.
LEMMA InsertKeeps ==
  ASSUME DInv, NEW k \in Keys, NEW v \in Vals, Insert(k, v)
  PROVE  DInv'
<1>1. PICK t \in Tables : /\ Usable(t) /\ InsertInto(t, k, v)
                          /\ \A u \in Tables : u # t => ~Has(u, k)
                          /\ t = 1 => Rehashing
  BY InsertSets
<1> DEFINE h == Home(t, k)
           c == <<[key |-> k, val |-> v]>>
<1>2. /\ h \in DOMAIN chain[t] /\ SetBucket(t, h, c)
      /\ IF Has(t, k) THEN nodeSize' = nodeSize
         ELSE nodeSize[t] < MaxNodes /\ nodeSize' = [nodeSize EXCEPT ![t] = @ + 1]
  BY <1>1, InsertIntoSets
<1>3. rehashIdx' = rehashIdx /\ status' = status
  BY DEF Insert
<1>4. c # <<>> /\ \A k2 \in Keys : (\E w \in Vals : c = <<[key |-> k2, val |-> w]>>) => k2 = k
  <2>1. ASSUME NEW k2 \in Keys, NEW w \in Vals, c = <<[key |-> k2, val |-> w]>> PROVE k2 = k
    <3>1. c[1].key = k /\ <<[key |-> k2, val |-> w]>>[1].key = k2
      OBVIOUS
    <3> QED
      BY <2>1, <3>1
  <2> QED
    BY <2>1
<1>5. Has(t, k) => chain[t][h] # <<>>
  BY <1>1 DEF Has
<1> HIDE DEF h, c
<1>6. /\ \A u \in Tables : chain'[u] \in [0 .. BucketSize(u)' - 1 -> Seq(Nodes)]
      /\ SizesOK' /\ ShortChains' /\ AtHome'
  BY <1>2, SetBucketKeeps
<1>7. /\ DOMAIN chain' = Tables
      /\ \A j \in DOMAIN chain[1] : <<1, j>> # <<t, h>> => chain'[1][j] = chain[1][j]
      /\ DOMAIN chain'[1] = DOMAIN chain[1]
  BY <1>2, SetBucketFrame DEF Tables
<1>8. nodeSize \in [Tables -> 0 .. SizeMod - 1] /\ rehashIdx \in Nat \cup {Nops}
  BY DEF DInv, TypeOK
<1>9. TypeOK'
  <2>1. nodeSize' \in [Tables -> 0 .. SizeMod - 1]
    <3>1. CASE Has(t, k)
      BY <1>2, <1>8, <3>1
    <3>2. CASE ~Has(t, k)
      <4>1. nodeSize[t] + 1 \in 0 .. SizeMod - 1
        BY <1>2, <1>8, <3>2, DictAssumption
      <4> QED
        BY <1>2, <1>8, <3>2, <4>1
    <3> QED
      BY <3>1, <3>2
  <2> QED
    BY <1>3, <1>6, <1>7, <2>1 DEF TypeOK, DInv
<1>10. SecondEmpty'
  BY <1>1, <1>3, <1>7 DEF SecondEmpty, DInv, Rehashing, Tables
<1>11. NoKeyTwice'
  <2> SUFFICES ASSUME NEW k2 \in Keys, Has(0, k2)', Has(1, k2)' PROVE FALSE
    BY DEF NoKeyTwice
  <2>1. \A u \in Tables : Has(u, k2) \/ (u = t /\ k2 = k)
    BY <1>2, <1>4, SetBucketHas DEF Tables
  <2>2. ~(Has(0, k2) /\ Has(1, k2))
    BY DEF DInv, NoKeyTwice
  <2> QED
    BY <1>1, <2>1, <2>2 DEF Tables
<1>12. CountsEnough'
  <2>1. /\ t = 1 => Linked(0)' = Linked(0)
        /\ t = 0 => Linked(0)' <= Linked(0) + 1
        /\ t = 0 /\ chain[t][h] # <<>> => Linked(0)' = Linked(0)
        /\ Linked(0)' \in Nat /\ Linked(0) \in Nat
    BY <1>2, <1>4, SetBucketLinked
  <2>2. nodeSize[0] >= Linked(0) /\ nodeSize[0] \in Nat
    BY <1>8 DEF DInv, CountsEnough, Tables
  <2>3. CASE Has(t, k)
    BY <1>2, <1>5, <2>1, <2>2, <2>3 DEF CountsEnough, Tables
  <2>4. CASE ~Has(t, k)
    <3>1. nodeSize'[0] = IF t = 0 THEN nodeSize[0] + 1 ELSE nodeSize[0]
      BY <1>2, <1>8, <2>4 DEF Tables
    <3> QED
      BY <2>1, <2>2, <3>1 DEF CountsEnough, Tables
  <2> QED
    BY <2>3, <2>4
<1> QED
  BY <1>6, <1>9, <1>10, <1>11, <1>12 DEF DInv

\* size_t minus one, of a counter that is not zero.
LEMMA DecrementByOne ==
  ASSUME NEW m \in Nat \ {0}, NEW n \in 1 .. m - 1
  PROVE  (n + m - 1) % m = n - 1
<1> DEFINE a == n + m - 1
<1>1. a \in Nat /\ a >= m /\ a < 2 * m
  OBVIOUS
<1> HIDE DEF a
<1>2. a % m = a - m
  BY <1>1
<1> QED
  BY <1>2 DEF a

\* size_t minus one stays a size_t.
LEMMA DecrementType ==
  ASSUME NEW m \in Nat \ {0}, NEW n \in 0 .. m - 1
  PROVE  (n + m - 1) % m \in 0 .. m - 1
<1> DEFINE a == n + m - 1
<1>1. a \in Nat
  OBVIOUS
<1> HIDE DEF a
<1>2. a % m \in 0 .. m - 1
  BY <1>1
<1> QED
  BY <1>2 DEF a

\* _nodeSize keeps its type when it is decremented, and counts one less when it
\* counted something.
LEMMA DecrementKeeps ==
  ASSUME DInv, NEW t \in Tables, Decrement(t)
  PROVE  /\ nodeSize' \in [Tables -> 0 .. SizeMod - 1]
         /\ \A u \in Tables \ {t} : nodeSize'[u] = nodeSize[u]
         /\ nodeSize[t] > 0 => nodeSize'[t] = nodeSize[t] - 1
<1>1. nodeSize \in [Tables -> 0 .. SizeMod - 1] /\ SizeMod \in Nat \ {0}
  BY DictAssumption DEF DInv, TypeOK
<1> DEFINE less == (nodeSize[t] + SizeMod - 1) % SizeMod
<1>2. less \in 0 .. SizeMod - 1
  BY <1>1, DecrementType
<1>3. nodeSize[t] > 0 => less = nodeSize[t] - 1
  <2>1. nodeSize[t] > 0 => nodeSize[t] \in 1 .. SizeMod - 1
    BY <1>1
  <2> QED
    BY <1>1, <2>1, DecrementByOne
<1>4. nodeSize' = [nodeSize EXCEPT ![t] = less]
  BY DEF Decrement
<1> HIDE DEF less
<1> QED
  BY <1>1, <1>2, <1>3, <1>4

\* Erasing from table 0 empties the bucket of the key.
LEMMA EraseFirstKeeps ==
  ASSUME DInv, NEW k \in Keys, EraseFirst(k)
  PROVE  DInv' /\ SetBucket(0, Home(0, k), <<>>) /\ Home(0, k) \in DOMAIN chain[0]
<1> DEFINE h == Home(0, k)
           old == chain[0][h]
<1>1. Usable(0) /\ h \in DOMAIN chain[0]
  BY HomeType DEF EraseFirst, Has, DInv, Tables
<1>2. \E v \in Vals : old = <<[key |-> k, val |-> v]>>
  BY HasMeans DEF EraseFirst, Tables
<1>3. old # <<>> /\ (IF Head(old).key = k THEN Tail(old) ELSE old) = <<>>
  <2> HIDE DEF old
  <2>1. PICK v \in Vals : old = <<[key |-> k, val |-> v]>>
    BY <1>2
  <2>2. Head(old).key = k
    BY <2>1
  <2>3. Tail(old) = <<>>
    BY <2>1
  <2> QED
    BY <2>1, <2>2, <2>3
<1>4. SetBucket(0, h, <<>>)
  <2>1. chain' = [chain EXCEPT ![0][h] = IF Head(old).key = k THEN Tail(old) ELSE old]
    BY <1>1 DEF EraseFirst, DInv, TypeOK, Tables
  <2> HIDE DEF old, h
  <2> QED
    BY <1>3, <2>1 DEF SetBucket
<1>5. rehashIdx' = rehashIdx /\ status' = status /\ Decrement(0)
  BY DEF EraseFirst
<1>6. old # <<>> => chain[0][h] # <<>>
  OBVIOUS
<1> HIDE DEF old, h
<1>7. /\ \A u \in Tables : chain'[u] \in [0 .. BucketSize(u)' - 1 -> Seq(Nodes)]
      /\ SizesOK' /\ ShortChains' /\ AtHome'
  BY <1>1, <1>4, SetBucketKeeps DEF Tables
<1>8. /\ DOMAIN chain' = Tables
      /\ \A j \in DOMAIN chain[1] : <<1, j>> # <<0, h>> => chain'[1][j] = chain[1][j]
      /\ DOMAIN chain'[1] = DOMAIN chain[1]
  BY <1>1, <1>4, SetBucketFrame DEF Tables
<1>9. /\ nodeSize' \in [Tables -> 0 .. SizeMod - 1]
      /\ nodeSize[0] > 0 => nodeSize'[0] = nodeSize[0] - 1
  BY <1>5, DecrementKeeps DEF Tables
<1>10. TypeOK'
  BY <1>5, <1>7, <1>8, <1>9 DEF TypeOK, DInv
<1>11. SecondEmpty'
  BY <1>5, <1>8 DEF SecondEmpty, DInv, Rehashing
<1>12. NoKeyTwice'
  <2> SUFFICES ASSUME NEW k2 \in Keys, Has(0, k2)', Has(1, k2)' PROVE FALSE
    BY DEF NoKeyTwice
  <2>1. \A v \in Vals : <<>> # <<[key |-> k2, val |-> v]>>
    OBVIOUS
  <2>2. Has(0, k2) /\ Has(1, k2)
    BY <1>1, <1>4, <2>1, SetBucketHas DEF Tables
  <2> QED
    BY <2>2 DEF DInv, NoKeyTwice
<1>13. CountsEnough'
  <2>1. Linked(0)' = Linked(0) - 1 /\ Linked(0)' \in Nat /\ Linked(0) \in Nat
    BY <1>1, <1>3, <1>4, <1>6, SetBucketLinked DEF Tables
  <2>2. nodeSize[0] >= Linked(0) /\ nodeSize[0] \in Nat
    BY DEF DInv, CountsEnough, Tables, TypeOK
  <2> QED
    BY <1>9, <2>1, <2>2 DEF CountsEnough
<1> QED
  BY <1>1, <1>4, <1>7, <1>10, <1>11, <1>12, <1>13 DEF DInv, h

\* Erasing from table 1 writes the head back: no bucket changes.
LEMMA EraseSecondKeeps ==
  ASSUME DInv, NEW k \in Keys, EraseSecond(k)
  PROVE  DInv'
<1> DEFINE h == Home(1, k)
           old == chain[1][h]
<1>1. Usable(1) /\ h \in DOMAIN chain[1] /\ Rehashing
  BY HomeType DEF EraseSecond, Has, DInv, Tables
<1>2. \E v \in Vals : old = <<[key |-> k, val |-> v]>>
  BY HasMeans DEF EraseSecond, Tables
<1>3. (\E j \in DOMAIN old : j <= 2 /\ old[j].key = k) /\ \E n \in Nodes : old = <<n>> /\ n.key = k
  <2> HIDE DEF old
  <2>1. PICK v \in Vals : old = <<[key |-> k, val |-> v]>>
    BY <1>2
  <2>2. 1 \in DOMAIN old /\ old[1].key = k
    BY <2>1
  <2>3. [key |-> k, val |-> v] \in Nodes /\ [key |-> k, val |-> v].key = k
    BY DEF Nodes
  <2> QED
    BY <2>1, <2>2, <2>3
<1>4. SetBucket(1, h, old)
  <2>1. chain' = [chain EXCEPT ![1][h] =
                    IF \E j \in DOMAIN old : j <= 2 /\ old[j].key = k
                    THEN old ELSE SelectSeq(old, LAMBDA n : n.key # k)]
    BY <1>1 DEF EraseSecond, DInv, TypeOK, Tables
  <2>2. chain' = [chain EXCEPT ![1][h] = old]
    BY <1>3, <2>1
  <2> HIDE DEF old
  <2> QED
    BY <1>1, <1>3, <2>2 DEF SetBucket, h
<1>5. /\ nodeSize' \in [Tables -> 0 .. SizeMod - 1]
      /\ nodeSize'[0] = nodeSize[0]
  BY DecrementKeeps DEF EraseSecond, Tables
<1>6. rehashIdx' = rehashIdx /\ status' = status
  BY DEF EraseSecond
<1>7. old = chain[1][h]
  OBVIOUS
<1> HIDE DEF old, h
<1>8. /\ \A u \in Tables : chain'[u] \in [0 .. BucketSize(u)' - 1 -> Seq(Nodes)]
      /\ SizesOK' /\ ShortChains' /\ AtHome'
  BY <1>1, <1>4, SetBucketKeeps DEF Tables
<1>9. DOMAIN chain' = Tables
  BY <1>1, <1>4, SetBucketFrame DEF Tables
<1>10. TypeOK'
  BY <1>5, <1>6, <1>8, <1>9 DEF TypeOK, DInv
<1>11. SecondEmpty'
  BY <1>1, <1>6 DEF SecondEmpty, Rehashing
<1>12. NoKeyTwice'
  <2> SUFFICES ASSUME NEW k2 \in Keys, Has(0, k2)', Has(1, k2)' PROVE FALSE
    BY DEF NoKeyTwice
  <2>1. Has(0, k2)
    BY <1>1, <1>4, SetBucketHas DEF Tables
  <2>2. Has(1, k2) \/ \E v \in Vals : old = <<[key |-> k2, val |-> v]>>
    BY <1>1, <1>4, SetBucketHas DEF Tables
  <2>3. ASSUME NEW v \in Vals, old = <<[key |-> k2, val |-> v]>> PROVE k2 = k
    <3>1. PICK w \in Vals : old = <<[key |-> k, val |-> w]>>
      BY <1>2 DEF old, h
    <3>2. old[1].key = k /\ <<[key |-> k2, val |-> v]>>[1].key = k2
      BY <3>1
    <3> QED
      BY <2>3, <3>2
  <2>4. Has(1, k) /\ ~Has(0, k)
    BY DEF EraseSecond
  <2>5. Has(1, k2)
    BY <2>2, <2>3, <2>4
  <2> QED
    BY <2>1, <2>5 DEF DInv, NoKeyTwice
<1>13. CountsEnough'
  <2>1. Linked(0)' = Linked(0)
    BY <1>1, <1>4, SetBucketLinked DEF Tables
  <2> QED
    BY <1>5, <2>1 DEF DInv, CountsEnough
<1> QED
  BY <1>8, <1>10, <1>11, <1>12, <1>13 DEF DInv

-------------------------------------------------------------------------------
\* A table that counts no node links none.
LEMMA CountedEmpty ==
  ASSUME DInv, nodeSize[0] = 0
  PROVE  \A i \in DOMAIN chain[0] : chain[0][i] = <<>>
<1>1. Linked(0) \in Nat /\ Linked(0) = Cardinality(Filled) /\ IsFiniteSet(Filled)
  BY FilledFinite
<1>2. Cardinality(Filled) = 0
  BY <1>1 DEF DInv, CountsEnough
<1>3. Filled = {}
  BY <1>1, <1>2, FS_EmptySet
<1> QED
  BY <1>3 DEF Filled

\* Table 1 as the first part of rehash() leaves it.
LEMMA SecondTable ==
  ASSUME DInv
  PROVE  /\ Rehashing => Second = chain[1] /\ SecondNodes = nodeSize[1]
         /\ ~Rehashing => /\ \E n \in Nat : Second = [i \in 0 .. n - 1 |-> <<>>]
                          /\ SecondNodes = 0
         /\ From \in Nat
<1>1. nodeSize[0] \in Nat /\ rehashIdx \in Nat \cup {Nops}
  BY DictAssumption DEF DInv, TypeOK, Tables
<1>2. NewSize \in Nat
  BY <1>1 DEF NewSize
<1> QED
  BY <1>1, <1>2 DEF Second, SecondNodes, From, NewTable, Rehashing

\* A rehash that walks over filled buckets moves nothing.
LEMMA RehashWalksKeeps ==
  ASSUME DInv, NEW n \in RehashArgs, RehashWalks(n)
  PROVE  DInv'
<1>1. /\ chain' = [chain EXCEPT ![1] = Second] /\ nodeSize' = [nodeSize EXCEPT ![1] = SecondNodes]
      /\ rehashIdx' \in Nat /\ status' = status
  BY SecondTable, DictAssumption DEF RehashWalks
<1>2. DOMAIN chain = Tables /\ nodeSize \in [Tables -> 0 .. SizeMod - 1]
  BY DEF DInv, TypeOK
<1>3. DOMAIN chain' = Tables /\ chain'[0] = chain[0] /\ chain'[1] = Second
  BY <1>1, <1>2 DEF Tables
<1>4. nodeSize' \in [Tables -> 0 .. SizeMod - 1] /\ nodeSize'[0] = nodeSize[0]
  <2>1. SecondNodes \in 0 .. SizeMod - 1
    BY <1>2, SecondTable, DictAssumption DEF Tables
  <2> QED
    BY <1>1, <1>2, <2>1 DEF Tables
<1>5. \/ chain'[1] = chain[1]
      \/ \E m \in Nat : chain'[1] = [i \in 0 .. m - 1 |-> <<>>]
  BY <1>3, SecondTable
<1>6. SizesOK'
  BY <1>3, <1>5 DEF SizesOK, DInv, Tables
<1>7. chain'[1] \in [0 .. BucketSize(1)' - 1 -> Seq(Nodes)]
  <2>1. CASE chain'[1] = chain[1]
    BY <2>1 DEF DInv, TypeOK, BucketSize, Tables
  <2>2. CASE \E m \in Nat : chain'[1] = [i \in 0 .. m - 1 |-> <<>>]
    <3>1. PICK m \in Nat : chain'[1] = [i \in 0 .. m - 1 |-> <<>>]
      BY <2>2
    <3>2. BucketSize(1)' = m
      BY <3>1, IntervalSize DEF BucketSize
    <3> QED
      BY <3>1, <3>2
  <2> QED
    BY <1>5, <2>1, <2>2
<1>8. chain'[0] \in [0 .. BucketSize(0)' - 1 -> Seq(Nodes)]
  BY <1>3 DEF DInv, TypeOK, BucketSize, Tables
<1>9. TypeOK'
  BY <1>1, <1>3, <1>4, <1>7, <1>8 DEF TypeOK, DInv, Tables
<1>10. SecondEmpty' /\ ShortChains'
  <2>1. rehashIdx' # Nops
    BY <1>1 DEF Nops
  <2> QED
    BY <1>3, <1>5, <2>1 DEF SecondEmpty, ShortChains, DInv, Tables, Rehashing
<1>11. /\ \A k \in Keys : Has(0, k)' <=> Has(0, k)
       /\ \A k \in Keys : Has(1, k)' => Has(1, k)
  <2>1. \A k \in Keys : Has(0, k)' <=> Has(0, k)
    BY <1>3 DEF Has, Usable, Home, BucketSize
  <2>2. ASSUME NEW k \in Keys, Has(1, k)' PROVE Has(1, k)
    <3>1. CASE chain'[1] = chain[1]
      BY <2>2, <3>1 DEF Has, Usable, Home, BucketSize
    <3>2. CASE \E m \in Nat : chain'[1] = [i \in 0 .. m - 1 |-> <<>>]
      <4>1. Home(1, k)' \in DOMAIN chain'[1]
        <5>1. PICK m \in Nat : chain'[1] = [i \in 0 .. m - 1 |-> <<>>]
          BY <3>2
        <5>2. BucketSize(1)' = m
          BY <5>1, IntervalSize DEF BucketSize
        <5>3. m >= 2 /\ Hash[k] \in Nat
          BY <2>2, <5>2, DictAssumption DEF Has, Usable
        <5>4. Hash[k] % (m - 1) \in 0 .. m - 1
          BY <5>3, RemainderIndex
        <5> QED
          BY <5>1, <5>2, <5>4 DEF Home
      <4> QED
        BY <2>2, <3>2, <4>1 DEF Has
    <3> QED
      BY <1>5, <3>1, <3>2
  <2> QED
    BY <2>1, <2>2
<1>12. AtHome'
  <2> SUFFICES ASSUME NEW u \in Tables, NEW j \in DOMAIN chain'[u],
                      NEW l \in DOMAIN chain'[u][j]
               PROVE  Usable(u)' /\ j = Home(u, chain[u][j][l].key)'
    BY DEF AtHome
  <2>1. chain'[u] = chain[u]
    <3>1. CASE u = 0
      BY <1>3, <3>1
    <3>2. CASE u = 1
      <4>1. chain'[1][j] # <<>>
        BY <3>2
      <4>2. ~ \E m \in Nat : chain'[1] = [i \in 0 .. m - 1 |-> <<>>]
        BY <3>2, <4>1
      <4> QED
        BY <1>5, <3>2, <4>2
    <3> QED
      BY <3>1, <3>2 DEF Tables
  <2>2. Usable(u) /\ j = Home(u, chain[u][j][l].key)
    BY <2>1 DEF AtHome, DInv
  <2> QED
    BY <2>1, <2>2 DEF Usable, Home, BucketSize
<1>13. NoKeyTwice'
  BY <1>11 DEF NoKeyTwice, DInv
<1>14. CountsEnough'
  BY <1>3, <1>4 DEF CountsEnough, Linked, DInv
<1> QED
  BY <1>6, <1>9, <1>10, <1>12, <1>13, <1>14 DEF DInv

\* The tables are swapped and cleared only when neither links a node that is lost.
LEMMA RehashEndsKeeps ==
  ASSUME DInv, RehashEnds
  PROVE  DInv'
<1>1. \A i \in DOMAIN chain[0] : chain[0][i] = <<>>
  BY CountedEmpty DEF RehashEnds
<1>2. \E n \in Nat : chain[0] = [i \in 0 .. n - 1 |-> <<>>]
  BY <1>1, TableDomain DEF DInv, TypeOK, Tables
<1>3. \E n \in Nat : DOMAIN Second = 0 .. n - 1
  BY SecondTable DEF DInv, SizesOK, Tables
<1>4. \A t \in Tables : \E n \in Nat : chain'[t] = [i \in 0 .. n - 1 |-> <<>>]
  BY <1>2, <1>3 DEF RehashEnds, Tables
<1>5. /\ DOMAIN chain' = Tables /\ nodeSize' = [t \in Tables |-> 0]
      /\ rehashIdx' \in Nat \cup {Nops} /\ status' \in {"ok", "crashed", "freed"}
  BY SecondTable DEF RehashEnds, DInv, TypeOK
<1>6. EmptyState'
  BY <1>4, <1>5 DEF EmptyState
<1> QED
  BY <1>6, EmptyTables, PTL

\* A step that leaves the tables alone keeps the invariant.
LEMMA TablesUnchanged ==
  ASSUME DInv, UNCHANGED <<chain, nodeSize, rehashIdx>>, status' \in {"ok", "crashed", "freed"}
  PROVE  DInv'
<1>1. TypeOK' /\ SizesOK' /\ SecondEmpty'
  BY DEF DInv, TypeOK, SizesOK, SecondEmpty, Rehashing, BucketSize
<1>2. ShortChains' /\ AtHome' /\ NoKeyTwice' /\ CountsEnough'
  BY DEF DInv, ShortChains, AtHome, NoKeyTwice, CountsEnough, Has, Usable, Home, BucketSize,
         Linked
<1> QED
  BY <1>1, <1>2 DEF DInv

\* The invariant is inductive.
LEMMA NextKeepsDInv == DInv /\ [Next]_dictVars => DInv'
<1> SUFFICES ASSUME DInv, [Next]_dictVars PROVE DInv'
  OBVIOUS
<1>1. CASE \E k \in Keys, v \in Vals : Insert(k, v)
  BY <1>1, InsertKeeps
<1>2. CASE \E k \in Keys : Erase(k)
  BY <1>2, EraseFirstKeeps, EraseSecondKeeps DEF Erase
<1>3. CASE \E n \in RehashArgs : Rehash(n)
  <2>1. PICK n \in RehashArgs : Rehash(n)
    BY <1>3
  <2>2. CASE RehashWalks(n)
    BY <2>2, RehashWalksKeeps
  <2>3. CASE RehashCrashes(n)
    BY <2>3, TablesUnchanged DEF RehashCrashes, Crash
  <2>4. CASE RehashEnds
    BY <2>4, RehashEndsKeeps
  <2> QED
    BY <2>1, <2>2, <2>3, <2>4 DEF Rehash
<1>4. CASE \E k \in Keys : UseCrashes(k)
  BY <1>4, TablesUnchanged DEF UseCrashes, Crash
<1>5. CASE Clear
  BY <1>5, TablesUnchanged DEF Clear
<1>6. CASE UNCHANGED dictVars
  BY <1>6, TablesUnchanged DEF dictVars, DInv, TypeOK
<1> QED
  BY <1>1, <1>2, <1>3, <1>4, <1>5, <1>6 DEF Next, LiveNext

-------------------------------------------------------------------------------
\* The invariant holds whatever public operations are called.
THEOREM DictInvariant == Spec => []DInv
<1> QED
  BY InitDInv, NextKeepsDInv, PTL DEF Spec

\* Every variable of a Dict keeps its type.
THEOREM DictTypeCorrect == Spec => []TypeOK
<1>1. DInv => TypeOK
  BY DEF DInv
<1> QED
  BY <1>1, DictInvariant, PTL

\* erase's and rehash's handling of a second node in a chain is never reached: no
\* sequence of calls links two nodes in a bucket.
THEOREM ChainsStayShort == Spec => []ShortChains
<1>1. DInv => ShortChains
  BY DEF DInv
<1> QED
  BY <1>1, DictInvariant, PTL

\* find never misses a node for looking in the wrong bucket, after any rehash.
THEOREM NodesStayHome == Spec => []AtHome
<1>1. DInv => AtHome
  BY DEF DInv
<1> QED
  BY <1>1, DictInvariant, PTL

\* A key is in one table only, so an update cannot be hidden by the other.
THEOREM OneTablePerKey == Spec => []NoKeyTwice
<1>1. DInv => NoKeyTwice
  BY DEF DInv
<1> QED
  BY <1>1, DictInvariant, PTL

\* A table that _nodeSize calls empty is empty, so the end of a rehash drops nothing.
THEOREM EmptyMeansEmpty == Spec => []CountsEnough
<1>1. DInv => CountsEnough
  BY DEF DInv
<1> QED
  BY <1>1, DictInvariant, PTL

-------------------------------------------------------------------------------
\* The value find reads in a chain of one node.
LEMMA ValueOfOne ==
  ASSUME NEW k, NEW v, NEW ch, ch = <<[key |-> k, val |-> v]>>
  PROVE  ch[CHOOSE j \in DOMAIN ch : ch[j].key = k /\ \A i \in 1 .. j - 1 : ch[i].key # k].val = v
<1>1. DOMAIN ch = {1} /\ ch[1].key = k /\ ch[1].val = v
  OBVIOUS
<1>2. (CHOOSE j \in DOMAIN ch : ch[j].key = k /\ \A i \in 1 .. j - 1 : ch[i].key # k) = 1
  BY <1>1
<1> QED
  BY <1>1, <1>2

\* find after insert, when the key went to table t and the other has no node for it.
LEMMA InsertedIsFound ==
  ASSUME DInv, NEW k \in Keys, NEW v \in Vals, Insert(k, v)
  PROVE  Lookup(k)' = v
<1>1. PICK t \in Tables : /\ Usable(t) /\ InsertInto(t, k, v)
                          /\ \A u \in Tables : u # t => ~Has(u, k)
                          /\ t = 1 => Rehashing
  BY InsertSets
<1> DEFINE h == Home(t, k)
           c == <<[key |-> k, val |-> v]>>
<1>2. h \in DOMAIN chain[t] /\ SetBucket(t, h, c)
  BY <1>1, InsertIntoSets
<1>3. /\ chain'[t][h] = c /\ (Usable(t)' <=> Usable(t)) /\ Home(t, k)' = h
  BY <1>2, SetBucketFrame
<1>4. 1 \in DOMAIN c /\ c[1].key = k
  OBVIOUS
<1>5. Has(t, k)'
  BY <1>1, <1>3, <1>4 DEF Has
<1>6. ValueIn(t, k)' = v
  <2>1. ValueIn(t, k)' = c[CHOOSE j \in DOMAIN c :
                             c[j].key = k /\ \A i \in 1 .. j - 1 : c[i].key # k].val
    BY <1>3 DEF ValueIn
  <2> QED
    BY <2>1, ValueOfOne
<1>7. \A u \in Tables : u # t => ~Has(u, k)'
  BY <1>1, <1>2, SetBucketHas
<1>8. rehashIdx' = rehashIdx
  BY DEF Insert
<1>9. CASE t = 0
  BY <1>5, <1>6, <1>9 DEF Lookup
<1>10. CASE t = 1
  BY <1>1, <1>5, <1>6, <1>7, <1>8, <1>10 DEF Lookup, Rehashing, Tables
<1> QED
  BY <1>9, <1>10 DEF Tables

\* What was inserted last is what find returns, in whichever table it is.
THEOREM LastWriteIsFound == Spec => LastWriteWins
<1>1. DInv /\ [Next]_dictVars
        => [\A k \in Keys, v \in Vals : Insert(k, v) => Lookup(k)' = v]_dictVars
  BY InsertedIsFound
<1> QED
  BY <1>1, DictInvariant, PTL DEF Spec, LastWriteWins

-------------------------------------------------------------------------------
\* As the server uses it: table 0 never changes its size and no rehash begins.
LiveInv == DInv /\ ~Rehashing /\ BucketSize(0) = InitialSize

\* What find answers, in terms of the one bucket it looks at.
FindIsBucket ==
  \A k \in Keys :
    \/ \E v \in Vals : chain[0][Home(0, k)] = <<[key |-> k, val |-> v]>> /\ Lookup(k) = v
    \/ /\ \A v \in Vals : chain[0][Home(0, k)] # <<[key |-> k, val |-> v]>>
       /\ Lookup(k) = Absent

\* find answers with the value of the node in the key's bucket, if it is the key's.
LEMMA FindMeans == LiveInv => FindIsBucket
<1> SUFFICES ASSUME LiveInv, NEW k \in Keys
             PROVE  \/ \E v \in Vals : /\ chain[0][Home(0, k)] = <<[key |-> k, val |-> v]>>
                                       /\ Lookup(k) = v
                    \/ /\ \A v \in Vals : chain[0][Home(0, k)] # <<[key |-> k, val |-> v]>>
                       /\ Lookup(k) = Absent
  BY DEF FindIsBucket
<1>1. Usable(0)
  BY DictAssumption DEF LiveInv, Usable
<1>2. Has(0, k) <=> \E v \in Vals : chain[0][Home(0, k)] = <<[key |-> k, val |-> v]>>
  BY <1>1, HasMeans DEF LiveInv, Tables
<1>3. CASE Has(0, k)
  <2>1. PICK v \in Vals : chain[0][Home(0, k)] = <<[key |-> k, val |-> v]>>
    BY <1>2, <1>3
  <2>2. ValueIn(0, k) = v
    BY <2>1, ValueOfOne DEF ValueIn
  <2> QED
    BY <1>3, <2>1, <2>2 DEF Lookup
<1>4. CASE ~Has(0, k)
  BY <1>2, <1>4 DEF Lookup, LiveInv
<1> QED
  BY <1>3, <1>4

\* A step that fills the bucket of key k with a node for k, or empties it.
LEMMA BucketStep ==
  ASSUME LiveInv, LiveInv', NEW k \in Keys, NEW c, SetBucket(0, Home(0, k), c),
         NEW x \in Keys
  PROVE  /\ Home(0, x) = Hash[x] % (InitialSize - 1)
         /\ Home(0, x) # Home(0, k) => Lookup(x)' = Lookup(x)
         /\ Home(0, x) = Home(0, k) =>
              /\ \A v \in Vals : c = <<[key |-> x, val |-> v]>> => Lookup(x)' = v
              /\ (\A v \in Vals : c # <<[key |-> x, val |-> v]>>) => Lookup(x)' = Absent
<1>1. Home(0, k) \in DOMAIN chain[0] /\ Home(0, x) \in DOMAIN chain[0]
  BY HomeType, DictAssumption DEF LiveInv, DInv, Usable, Tables
<1>2. /\ chain'[0][Home(0, k)] = c
      /\ Home(0, x)' = Home(0, x)
      /\ \A j \in DOMAIN chain[0] : <<0, j>> # <<0, Home(0, k)>> => chain'[0][j] = chain[0][j]
  BY <1>1, SetBucketFrame DEF LiveInv, Tables
<1>3. FindIsBucket /\ FindIsBucket'
  <2>1. FindIsBucket
    BY FindMeans
  <2>2. LiveInv' => FindIsBucket'
    BY FindMeans, PTL
  <2> QED
    BY <2>1, <2>2
<1> DEFINE b == chain[0][Home(0, x)]
<1>4. \/ \E v \in Vals : b = <<[key |-> x, val |-> v]>> /\ Lookup(x) = v
      \/ (\A v \in Vals : b # <<[key |-> x, val |-> v]>>) /\ Lookup(x) = Absent
  BY <1>3 DEF FindIsBucket
<1> DEFINE d == chain'[0][Home(0, x)]
<1>5. \/ \E v \in Vals : d = <<[key |-> x, val |-> v]>> /\ Lookup(x)' = v
      \/ (\A v \in Vals : d # <<[key |-> x, val |-> v]>>) /\ Lookup(x)' = Absent
  BY <1>2, <1>3 DEF FindIsBucket
<1>6. Home(0, x) # Home(0, k) => d = b
  BY <1>1, <1>2
<1>7. Home(0, x) = Home(0, k) => d = c
  BY <1>2
<1> HIDE DEF b, d
<1>8. \A v, w : <<[key |-> x, val |-> v]>> = <<[key |-> x, val |-> w]>> => v = w
  <2> SUFFICES ASSUME NEW v, NEW w, <<[key |-> x, val |-> v]>> = <<[key |-> x, val |-> w]>>
               PROVE  v = w
    OBVIOUS
  <2>1. <<[key |-> x, val |-> v]>>[1].val = v /\ <<[key |-> x, val |-> w]>>[1].val = w
    OBVIOUS
  <2> QED
    BY <2>1
<1>9. Home(0, x) # Home(0, k) => Lookup(x)' = Lookup(x)
  BY <1>4, <1>5, <1>6, <1>8
<1>10. Home(0, x) = Home(0, k) =>
         /\ \A v \in Vals : c = <<[key |-> x, val |-> v]>> => Lookup(x)' = v
         /\ (\A v \in Vals : c # <<[key |-> x, val |-> v]>>) => Lookup(x)' = Absent
  BY <1>5, <1>7, <1>8
<1>11. Home(0, x) = Hash[x] % (InitialSize - 1)
  BY DEF Home, LiveInv
<1> QED
  BY <1>9, <1>10, <1>11

\* The operations the server uses keep the sizes and begin no rehash.
LEMMA LiveKeeps == LiveInv /\ [LiveNext]_dictVars => LiveInv'
<1> SUFFICES ASSUME LiveInv, [LiveNext]_dictVars PROVE LiveInv'
  OBVIOUS
<1>1. DInv'
  BY NextKeepsDInv DEF LiveInv, Next
<1>2. rehashIdx' = rehashIdx
  BY DEF LiveNext, Insert, Erase, EraseFirst, EraseSecond, dictVars
<1>3. BucketSize(0)' = BucketSize(0)
  <2>1. CASE \E k \in Keys, v \in Vals : Insert(k, v)
    <3>1. PICK k \in Keys, v \in Vals : Insert(k, v)
      BY <2>1
    <3>2. Usable(0) /\ InsertInto(0, k, v)
      BY <3>1 DEF Insert, LiveInv
    <3>3. /\ Home(0, k) \in DOMAIN chain[0]
          /\ SetBucket(0, Home(0, k), <<[key |-> k, val |-> v]>>)
      BY <3>2, InsertIntoSets DEF LiveInv, Tables
    <3> QED
      BY <3>3, SetBucketFrame DEF LiveInv, Tables
  <2>2. CASE \E k \in Keys : Erase(k)
    <3>1. PICK k \in Keys : EraseFirst(k)
      BY <2>2 DEF Erase, EraseSecond, LiveInv
    <3>2. Home(0, k) \in DOMAIN chain[0] /\ SetBucket(0, Home(0, k), <<>>)
      BY <3>1, EraseFirstKeeps DEF LiveInv
    <3> QED
      BY <3>2, SetBucketFrame DEF LiveInv, Tables
  <2>3. CASE UNCHANGED dictVars
    BY <2>3 DEF dictVars, BucketSize
  <2> QED
    BY <2>1, <2>2, <2>3 DEF LiveNext
<1> QED
  BY <1>1, <1>2, <1>3 DEF LiveInv, Rehashing

\* insert is Put.
LEMMA InsertIsPut ==
  ASSUME LiveInv, LiveInv', NEW k \in Keys, NEW v \in Vals, Insert(k, v)
  PROVE  AbstractMap' = Abstract!MapInsert(AbstractMap, k, v)
<1>1. Usable(0) /\ InsertInto(0, k, v)
  BY DEF Insert, LiveInv
<1> DEFINE c == <<[key |-> k, val |-> v]>>
<1>2. SetBucket(0, Home(0, k), c)
  BY <1>1, InsertIntoSets DEF LiveInv, Tables
<1>3. c[1].key = k /\ \A x \in Keys, w \in Vals : <<[key |-> x, val |-> w]>>[1].key = x
  OBVIOUS
<1>4. \A x \in Keys, w \in Vals : c = <<[key |-> x, val |-> w]>> => x = k
  BY <1>3
<1>5. c = <<[key |-> k, val |-> v]>>
  OBVIOUS
<1> HIDE DEF c
<1>6. ASSUME NEW x \in Keys
      PROVE  Lookup(x)' = CASE x = k -> v
                            [] x \in Abstract!Neighbours(k) -> Absent
                            [] OTHER -> AbstractMap[x]
  <2>1. Home(0, k) = Hash[k] % (InitialSize - 1) /\ Lookup(k)' = v
    BY <1>2, <1>5, BucketStep
  <2>2. /\ Home(0, x) = Hash[x] % (InitialSize - 1)
        /\ Home(0, x) # Home(0, k) => Lookup(x)' = Lookup(x)
        /\ Home(0, x) = Home(0, k) =>
             ((\A w \in Vals : c # <<[key |-> x, val |-> w]>>) => Lookup(x)' = Absent)
    BY <1>2, BucketStep
  <2>3. x \in Abstract!Neighbours(k) <=> x # k /\ Home(0, x) = Home(0, k)
    BY <2>1, <2>2 DEF Abstract!Neighbours
  <2>4. CASE x = k
    BY <2>1, <2>3, <2>4
  <2>5. CASE x # k /\ Home(0, x) = Home(0, k)
    <3>1. \A w \in Vals : c # <<[key |-> x, val |-> w]>>
      BY <1>4, <2>5
    <3>2. Lookup(x)' = Absent
      BY <2>2, <2>5, <3>1
    <3> QED
      BY <2>3, <2>5, <3>2
  <2>6. CASE x # k /\ Home(0, x) # Home(0, k)
    <3>1. Lookup(x)' = AbstractMap[x]
      BY <2>2, <2>6 DEF AbstractMap
    <3> QED
      BY <2>3, <2>6, <3>1
  <2> QED
    BY <2>4, <2>5, <2>6
<1> QED
  BY <1>6 DEF Abstract!MapInsert, AbstractMap

\* erase of a key that is there is Delete.
LEMMA EraseIsDelete ==
  ASSUME LiveInv, LiveInv', NEW k \in Keys, EraseFirst(k)
  PROVE  AbstractMap' = Abstract!MapErase(AbstractMap, k)
<1>1. SetBucket(0, Home(0, k), <<>>) /\ Has(0, k)
  BY EraseFirstKeeps DEF LiveInv, EraseFirst
<1>2. \A x \in Keys, w \in Vals : <<>> # <<[key |-> x, val |-> w]>>
  OBVIOUS
<1>3. ASSUME NEW x \in Keys PROVE Lookup(x)' = IF x = k THEN Absent ELSE Lookup(x)
  <2>1. /\ Home(0, x) # Home(0, k) => Lookup(x)' = Lookup(x)
        /\ Home(0, x) = Home(0, k) => Lookup(x)' = Absent
    BY <1>1, <1>2, BucketStep
  <2>2. ASSUME x # k, Home(0, x) = Home(0, k) PROVE Lookup(x) = Absent
    <3>1. PICK v \in Vals : chain[0][Home(0, k)] = <<[key |-> k, val |-> v]>>
      BY <1>1, HasMeans DEF LiveInv, Tables
    <3>2. <<[key |-> k, val |-> v]>>[1].key = k
          /\ \A w \in Vals : <<[key |-> x, val |-> w]>>[1].key = x
      OBVIOUS
    <3>3. \A w \in Vals : chain[0][Home(0, x)] # <<[key |-> x, val |-> w]>>
      BY <2>2, <3>1, <3>2
    <3> QED
      BY <3>3, FindMeans DEF FindIsBucket
  <2> QED
    BY <2>1, <2>2
<1> QED
  BY <1>3 DEF Abstract!MapErase, AbstractMap

\* A table of empty buckets has no key.
LEMMA EmptyHasNone ==
  DInv => \A t \in Tables : (\A i \in DOMAIN chain[t] : chain[t][i] = <<>>)
                             => \A k \in Keys : ~Has(t, k)
<1> SUFFICES ASSUME DInv, NEW t \in Tables, \A i \in DOMAIN chain[t] : chain[t][i] = <<>>,
                    NEW k \in Keys, Usable(t)
             PROVE  ~Has(t, k)
  BY DEF Has
<1>1. Home(t, k) \in DOMAIN chain[t]
  BY HomeType DEF DInv
<1> QED
  BY <1>1 DEF Has

\* An empty dictionary is the empty map.
LEMMA InitIsLive == Init => LiveInv /\ Abstract!MapInit
<1>1. Init => LiveInv
  <2> SUFFICES ASSUME Init PROVE LiveInv
    OBVIOUS
  <2>1. BucketSize(0) = InitialSize
    BY IntervalSize, DictAssumption DEF Init, BucketSize, NewTable, Tables
  <2> QED
    BY <2>1, InitDInv DEF LiveInv, Init, Rehashing
<1>2. Init => Abstract!MapInit
  <2> SUFFICES ASSUME Init PROVE AbstractMap = [k \in Keys |-> Absent]
    BY DEF Abstract!MapInit, Abstract!EmptyMap, AbstractMap
  <2>1. LiveInv
    BY <1>1
  <2>2. ASSUME NEW k \in Keys PROVE Lookup(k) = Absent
    <3>1. Home(0, k) \in DOMAIN chain[0]
      BY <2>1, HomeType, DictAssumption DEF LiveInv, DInv, Usable, Tables
    <3>2. chain[0][Home(0, k)] = <<>>
      BY <3>1 DEF Init, NewTable, Tables
    <3>3. \A v \in Vals : <<>> # <<[key |-> k, val |-> v]>>
      OBVIOUS
    <3> QED
      BY <2>1, <3>2, <3>3, FindMeans DEF FindIsBucket
  <2> QED
    BY <2>2 DEF AbstractMap
<1> QED
  BY <1>1, <1>2

\* The sizes of table 0 do not change before a rehash begins.
UntilInv == DInv /\ (~Rehashing => LiveInv)

\* A rehash does not stop rehashing.
LEMMA RehashStaysOn ==
  ASSUME DInv, NEW n \in RehashArgs, RehashWalks(n) \/ RehashEnds
  PROVE  Rehashing'
<1>1. From \in Nat
  BY SecondTable
<1>2. rehashIdx' \in Nat
  BY <1>1, DictAssumption DEF RehashWalks, RehashEnds
<1> QED
  BY <1>2 DEF Rehashing, Nops

LEMMA UntilKeeps == UntilInv /\ [Next]_dictVars => UntilInv'
<1> SUFFICES ASSUME UntilInv, [Next]_dictVars PROVE UntilInv'
  OBVIOUS
<1>1. DInv'
  BY NextKeepsDInv DEF UntilInv
<1>2. ASSUME ~Rehashing' PROVE LiveInv'
  <2>1. CASE [LiveNext]_dictVars
    <3>1. rehashIdx' = rehashIdx
      BY <2>1 DEF LiveNext, Insert, Erase, EraseFirst, EraseSecond, dictVars
    <3>2. LiveInv
      BY <1>2, <3>1 DEF Rehashing, UntilInv
    <3> QED
      BY <2>1, <3>2, LiveKeeps
  <2>2. CASE UNCHANGED <<chain, rehashIdx>>
    BY <1>1, <1>2, <2>2 DEF Rehashing, UntilInv, LiveInv, BucketSize
  <2>3. CASE \E n \in RehashArgs : Rehash(n)
    <3>1. PICK n \in RehashArgs : Rehash(n)
      BY <2>3
    <3> QED
      BY <1>2, <2>2, <3>1, RehashStaysOn DEF Rehash, RehashCrashes, Crash, UntilInv
  <2> QED
    BY <2>1, <2>2, <2>3 DEF Next, UseCrashes, Crash, Clear
<1> QED
  BY <1>1, <1>2 DEF UntilInv

\* A rehash that begins links nothing in table 1, so find answers what it did.
LEMMA FirstWalkHidesNothing ==
  ASSUME LiveInv, DInv', NEW n \in RehashArgs, RehashWalks(n)
  PROVE  AbstractMap' = AbstractMap
<1>1. chain' = [chain EXCEPT ![1] = Second] /\ DOMAIN chain = Tables
  BY DEF RehashWalks, LiveInv, DInv, TypeOK
<1>2. chain'[0] = chain[0] /\ chain'[1] = NewTable(NewSize)
  BY <1>1 DEF Tables, Second, LiveInv
<1>3. \A i \in DOMAIN chain'[1] : chain'[1][i] = <<>>
  BY <1>2 DEF NewTable
<1>4. \A k \in Keys : ~Has(1, k)'
  <2>1. (\A t \in Tables : (\A i \in DOMAIN chain[t] : chain[t][i] = <<>>)
                             => \A k \in Keys : ~Has(t, k))'
    BY EmptyHasNone, PTL
  <2> QED
    BY <1>3, <2>1 DEF Tables
<1>5. ASSUME NEW k \in Keys PROVE Lookup(k)' = Lookup(k)
  <2>1. Has(0, k)' <=> Has(0, k)
    BY <1>2 DEF Has, Usable, Home, BucketSize
  <2>2. ValueIn(0, k)' = ValueIn(0, k)
    BY <1>2 DEF ValueIn, Home, BucketSize
  <2> QED
    BY <1>4, <2>1, <2>2 DEF Lookup, LiveInv
<1> QED
  BY <1>5 DEF AbstractMap

\* One that ends at once finds table 0 empty, and leaves both so.
LEMMA FirstEndHidesNothing ==
  ASSUME LiveInv, DInv', RehashEnds
  PROVE  AbstractMap' = AbstractMap
<1>1. \A i \in DOMAIN chain[0] : chain[0][i] = <<>>
  BY CountedEmpty DEF RehashEnds, LiveInv
<1>2. \A t \in Tables : \A i \in DOMAIN chain'[t] : chain'[t][i] = <<>>
  BY <1>1 DEF RehashEnds, Tables
<1>3. (\A t \in Tables : (\A i \in DOMAIN chain[t] : chain[t][i] = <<>>)
                           => \A k \in Keys : ~Has(t, k))'
  BY EmptyHasNone, PTL
<1>4. \A k \in Keys : ~Has(0, k) /\ ~Has(0, k)' /\ ~Has(1, k)'
  BY <1>1, <1>2, <1>3, EmptyHasNone DEF LiveInv, Tables
<1>5. ASSUME NEW k \in Keys PROVE Lookup(k)' = Lookup(k)
  BY <1>4 DEF Lookup, LiveInv
<1> QED
  BY <1>5 DEF AbstractMap

\* A call of the server is a step of the map.
LEMMA LiveStepIsMapStep ==
  LiveInv /\ LiveInv' /\ [LiveNext]_dictVars => [Abstract!MapNext]_AbstractMap
<1> SUFFICES ASSUME LiveInv, LiveInv', [LiveNext]_dictVars
             PROVE  [Abstract!MapNext]_AbstractMap
  OBVIOUS
<1>1. ASSUME NEW k \in Keys, NEW v \in Vals, Insert(k, v) PROVE Abstract!MapNext
  BY <1>1, InsertIsPut DEF Abstract!MapNext, Abstract!Put, AbstractMap
<1>2. ASSUME NEW k \in Keys, Erase(k) PROVE Abstract!MapNext
  <2>1. EraseFirst(k)
    BY <1>2 DEF Erase, EraseSecond, LiveInv
  <2> QED
    BY <2>1, EraseIsDelete DEF Abstract!MapNext, Abstract!Delete, AbstractMap
<1>3. CASE UNCHANGED dictVars
  BY <1>3 DEF dictVars, AbstractMap, Lookup, Has, ValueIn, Usable, Home, BucketSize, Rehashing
<1> QED
  BY <1>1, <1>2, <1>3 DEF LiveNext

(***************************************************************************)
(* Whatever is called, until the first rehash begins Dict is the lossy map *)
(* of the server: every call is one of its steps or changes nothing of it. *)
(***************************************************************************)
THEOREM DictIsLossyMapUntilRehash == Spec => MapStoreUntilRehash
<1>1. UntilInv /\ UntilInv' /\ [Next]_dictVars /\ ~Rehashing => [Abstract!MapNext]_AbstractMap
  <2> SUFFICES ASSUME UntilInv, UntilInv', [Next]_dictVars, ~Rehashing
               PROVE  [Abstract!MapNext]_AbstractMap
    OBVIOUS
  <2> USE DEF UntilInv
  <2>1. CASE [LiveNext]_dictVars
    <3>1. rehashIdx' = rehashIdx
      BY <2>1 DEF LiveNext, Insert, Erase, EraseFirst, EraseSecond, dictVars
    <3> QED
      BY <2>1, <3>1, LiveStepIsMapStep DEF Rehashing
  <2>2. CASE UNCHANGED <<chain, rehashIdx>>
    BY <2>2 DEF AbstractMap, Lookup, Has, ValueIn, Usable, Home, BucketSize, Rehashing
  <2>3. CASE \E n \in RehashArgs : Rehash(n)
    <3>1. PICK n \in RehashArgs : Rehash(n)
      BY <2>3
    <3> QED
      BY <2>2, <3>1, FirstWalkHidesNothing, FirstEndHidesNothing DEF Rehash, RehashCrashes, Crash
  <2> QED
    BY <2>1, <2>2, <2>3 DEF Next, UseCrashes, Crash, Clear
<1>2. Init => UntilInv /\ Abstract!MapInit
  BY InitIsLive DEF UntilInv, LiveInv
<1>3. Spec => []UntilInv
  BY <1>2, UntilKeeps, PTL DEF Spec
<1> QED
  BY <1>1, <1>2, <1>3, PTL DEF Spec, MapStoreUntilRehash

\* As the server uses it, Dict implements the lossy map: for every hash function and
\* every number of buckets.
THEOREM DictIsLossyMap == LiveSpec => ImplementsMapStore
<1>1. LiveSpec => []LiveInv
  BY InitIsLive, LiveKeeps, PTL DEF LiveSpec
<1> QED
  BY <1>1, InitIsLive, LiveStepIsMapStep, PTL DEF LiveSpec, ImplementsMapStore, Abstract!MapSpec
===============================================================================
