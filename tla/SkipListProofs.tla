---------------------------- MODULE SkipListProofs ----------------------------
(***************************************************************************)
(* Theorems about SkipList for every set of keys and values, any number of *)
(* levels, nodes and searchers.                                            *)
(*                                                                         *)
(* First a theory of one chain, given by the function that maps a place to *)
(* the next; then what the walks of the code find in it; then the          *)
(* invariants, action by action.                                           *)
(***************************************************************************)
EXTENDS SkipList, Induction, FiniteSetTheorems

-------------------------------------------------------------------------------
\* One chain.

Nexts == [Places -> NodeIds \cup {NULL}]

Closed(next, S) == Header \in S /\ \A p \in S : next[p] # NULL => next[p] \in S

\* The nodes a chain leads to from the header, and these with the header.
Linked(next) == {n \in NodeIds : \A S \in SUBSET Places : Closed(next, S) => n \in S}
OnChain(next) == Linked(next) \cup {Header}

Rising(next, rank) == \A p \in Places : next[p] # NULL => rank[p] < rank[next[p]]

\* Places and NULL do not meet.
LEMMA PlacesAre ==
  /\ Header \in Places /\ NULL \notin Places /\ Header \notin NodeIds
  /\ NodeIds \subseteq Nat /\ Places \subseteq Nat /\ MaxLevel \in Nat /\ MaxNodes \in Nat
<1>1. MaxLevel \in Nat /\ MaxNodes \in Nat
  BY SkipAssumption
<1> QED
  BY <1>1 DEF Places, NodeIds, Header, NULL

\* The chain is its places without the header.
LEMMA LinkedIs ==
  ASSUME NEW next PROVE Linked(next) = OnChain(next) \ {Header}
BY PlacesAre DEF OnChain, Linked

\* The chain is closed under its pointers.
LEMMA LinkedClosed ==
  ASSUME NEW next \in Nexts
  PROVE  Closed(next, OnChain(next)) /\ OnChain(next) \subseteq Places
<1>1. ASSUME NEW p \in OnChain(next), next[p] # NULL PROVE next[p] \in Linked(next)
  <2>1. p \in Places /\ next[p] \in NodeIds
    BY <1>1, PlacesAre DEF OnChain, Linked, Nexts, Places
  <2>2. ASSUME NEW S \in SUBSET Places, Closed(next, S) PROVE next[p] \in S
    BY <1>1, <2>2 DEF OnChain, Linked, Closed
  <2> QED
    BY <2>1, <2>2 DEF Linked
<1> QED
  BY <1>1 DEF Closed, OnChain, Linked, Places

\* It is the least such set.
LEMMA LinkedLeast ==
  ASSUME NEW next, NEW S, S \subseteq Places, Closed(next, S)
  PROVE  OnChain(next) \subseteq S
BY DEF OnChain, Linked, Closed

\* A node of the chain has a place before it.
LEMMA LinkedFrom ==
  ASSUME NEW next \in Nexts, NEW n \in Linked(next)
  PROVE  \E p \in OnChain(next) : next[p] = n
<1> DEFINE S == {q \in OnChain(next) : q = Header \/ \E p \in OnChain(next) : next[p] = q}
<1>1. Closed(next, S) /\ S \subseteq Places
  BY LinkedClosed DEF Closed, OnChain
<1>2. OnChain(next) \subseteq S
  BY <1>1, LinkedLeast
<1> QED
  BY <1>2, PlacesAre DEF OnChain, Linked

\* In a rising chain no place is passed over, and no two are equal.
LEMMA NoSkip ==
  ASSUME NEW next \in Nexts, NEW rank \in [Places -> Nat], rank[Header] = 0,
         Rising(next, rank)
  PROVE  \A a, b \in OnChain(next) :
           /\ rank[a] < rank[b] => next[a] # NULL /\ rank[next[a]] <= rank[b]
           /\ rank[a] = rank[b] => a = b
<1> DEFINE C == OnChain(next)
           Good(a, b) == /\ rank[a] < rank[b] => next[a] # NULL /\ rank[next[a]] <= rank[b]
                         /\ rank[a] = rank[b] => a = b
           S == {n \in Nat : \A a, b \in C : rank[a] <= n /\ rank[b] <= n => Good(a, b)}
<1>0. Header \in C
  BY DEF OnChain
<1>1. /\ C \subseteq Places /\ \A n \in C : rank[n] \in Nat
      /\ \A n \in C : next[n] # NULL => next[n] \in C
  BY LinkedClosed DEF Closed
<1>2. ASSUME NEW b \in C, b # Header
      PROVE  \E p \in C : next[p] = b /\ rank[p] < rank[b]
  <2>1. b \in Linked(next) /\ b # NULL
    BY <1>2, PlacesAre DEF OnChain, Linked, Places
  <2>2. PICK p \in C : next[p] = b
    BY <2>1, LinkedFrom
  <2> QED
    BY <1>1, <2>1, <2>2 DEF Rising
<1>3. ASSUME NEW b \in C, rank[b] = 0 PROVE b = Header
  BY <1>1, <1>2, <1>3
<1>4. 0 \in S
  BY <1>1, <1>3
<1>5. ASSUME NEW n \in Nat, n \in S PROVE n + 1 \in S
  <2> SUFFICES ASSUME NEW a \in C, NEW b \in C, rank[a] <= n + 1, rank[b] <= n + 1
               PROVE  Good(a, b)
    OBVIOUS
  <2>0. \A x, y \in C : rank[x] <= n /\ rank[y] <= n => Good(x, y)
    BY <1>5
  <2> HIDE DEF C
  <2>1. CASE rank[a] <= n /\ rank[b] <= n
    BY <2>0, <2>1
  <2>2. CASE rank[b] = n + 1 /\ rank[a] <= n
    <3>1. b # Header
      BY <1>0, <2>2
    <3>2. PICK p \in C : next[p] = b /\ rank[p] < rank[b]
      BY <1>2, <3>1
    <3>3. Good(p, a) /\ Good(a, p)
      BY <1>1, <2>0, <2>2, <3>2
    <3>4. rank[p] \in Nat /\ rank[a] \in Nat /\ rank[b] = n + 1 /\ b # NULL
      BY <1>1, <2>2, PlacesAre
    <3>5. CASE rank[a] < rank[p]
      <4>1. next[a] # NULL /\ rank[next[a]] <= rank[p] /\ rank[next[a]] \in Nat
        BY <1>1, <3>3, <3>5
      <4> QED
        BY <2>2, <3>2, <3>4, <4>1
    <3>6. CASE rank[a] = rank[p]
      <4>1. a = p
        BY <3>3, <3>6
      <4> QED
        BY <2>2, <3>2, <3>4, <4>1
    <3>7. CASE rank[p] < rank[a]
      <4>1. n + 1 <= rank[a]
        BY <3>2, <3>3, <3>4, <3>7
      <4> QED
        BY <2>2, <3>4, <4>1
    <3> QED
      BY <3>4, <3>5, <3>6, <3>7
  <2>3. CASE rank[a] = n + 1 /\ rank[b] <= n
    BY <1>1, <2>3
  <2>4. CASE rank[a] = n + 1 /\ rank[b] = n + 1
    <3>1. a # Header /\ b # Header
      BY <1>0, <2>4
    <3>2. PICK p \in C : next[p] = a /\ rank[p] < rank[a]
      BY <1>2, <3>1
    <3>3. PICK q \in C : next[q] = b /\ rank[q] < rank[b]
      BY <1>2, <3>1
    <3>4. Good(p, q) /\ Good(q, p)
      BY <1>1, <2>0, <2>4, <3>2, <3>3
    <3> QED
      BY <1>1, <2>4, <3>2, <3>3, <3>4, PlacesAre
  <2> QED
    BY <1>1, <2>1, <2>2, <2>3, <2>4
<1>6. Nat \subseteq S
  <2> HIDE DEF S
  <2> QED
    BY <1>4, <1>5, SetInduction
<1>7. ASSUME NEW a \in C, NEW b \in C PROVE Good(a, b)
  <2> DEFINE n == IF rank[a] <= rank[b] THEN rank[b] ELSE rank[a]
  <2>1. n \in S /\ rank[a] <= n /\ rank[b] <= n
    BY <1>1, <1>6
  <2> QED
    BY <2>1
<1> QED
  BY <1>7

\* A node linked behind p is one more node of the chain.
LEMMA LinkAdds ==
  ASSUME NEW next \in Nexts, NEW p \in OnChain(next), NEW n \in NodeIds \ Linked(next),
         NEW f, f = [next EXCEPT ![n] = next[p], ![p] = n]
  PROVE  f \in Nexts /\ Linked(f) = Linked(next) \cup {n}
<1>1. /\ p \in Places /\ n \in Places /\ n # p /\ n \notin OnChain(next)
      /\ Closed(next, OnChain(next)) /\ OnChain(next) \subseteq Places
      /\ NodeIds \subseteq Places /\ NULL \notin Places
  BY LinkedClosed, PlacesAre DEF OnChain, Places
<1>2. f \in Nexts /\ f[n] = next[p] /\ f[p] = n /\ \A q \in Places \ {n, p} : f[q] = next[q]
  BY <1>1 DEF Nexts
<1>3. OnChain(f) \subseteq OnChain(next) \cup {n}
  <2>1. Closed(f, OnChain(next) \cup {n})
    BY <1>1, <1>2 DEF Closed
  <2> QED
    BY <1>1, <2>1, LinkedLeast
<1>4. Closed(f, OnChain(f)) /\ OnChain(f) \subseteq Places
  BY <1>2, LinkedClosed
<1>5. OnChain(next) \subseteq OnChain(f)
  <2> DEFINE S == OnChain(f) \cap OnChain(next)
  <2>1. Closed(next, S)
    BY <1>1, <1>2, <1>4 DEF Closed
  <2> QED
    BY <1>1, <2>1, LinkedLeast
<1>6. n \in OnChain(f)
  BY <1>1, <1>2, <1>4, <1>5 DEF Closed
<1> QED
  BY <1>2, <1>3, <1>5, <1>6, LinkedIs, PlacesAre

\* The node behind p taken out of a rising chain is gone from it, and nothing else is.
LEMMA UnlinkRemoves ==
  ASSUME NEW next \in Nexts, NEW rank \in [Places -> Nat], rank[Header] = 0,
         Rising(next, rank), NEW p \in OnChain(next), next[p] # NULL
  PROVE  Linked([next EXCEPT ![p] = next[next[p]]]) = Linked(next) \ {next[p]}
<1> SUFFICES ASSUME NEW n, n = next[p], NEW f, f = [next EXCEPT ![p] = next[n]]
             PROVE  Linked(f) = Linked(next) \ {n}
  OBVIOUS
<1>1. /\ p \in Places /\ n \in OnChain(next) /\ n \in NodeIds
      /\ Closed(next, OnChain(next)) /\ OnChain(next) \subseteq Places
      /\ NodeIds \subseteq Places /\ NULL \notin Places
  BY LinkedClosed, PlacesAre DEF OnChain, Places, Closed, Nexts
<1>2. n # p /\ next[n] # n /\ n # Header
  BY <1>1, PlacesAre DEF Rising
<1>3. f \in Nexts /\ f[p] = next[n] /\ \A q \in Places \ {p} : f[q] = next[q]
  BY <1>1 DEF Nexts
<1>4. \A q \in OnChain(next) : next[q] = n => q = p
  <2> SUFFICES ASSUME NEW q \in OnChain(next), next[q] = n PROVE q = p
    OBVIOUS
  <2>1. /\ rank[q] < rank[p] => rank[n] <= rank[p]
        /\ rank[p] < rank[q] => rank[n] <= rank[q]
        /\ rank[p] = rank[q] => p = q
    BY NoSkip
  <2>2. rank[p] < rank[n] /\ rank[q] < rank[n]
    BY <1>1 DEF Rising
  <2>3. rank[p] \in Nat /\ rank[q] \in Nat /\ rank[n] \in Nat
    BY <1>1
  <2> QED
    BY <2>1, <2>2, <2>3
<1>5. OnChain(f) \subseteq OnChain(next) \ {n}
  <2>1. Closed(f, OnChain(next) \ {n})
    BY <1>1, <1>2, <1>3, <1>4, PlacesAre DEF Closed
  <2> QED
    BY <1>1, <2>1, LinkedLeast
<1>6. Closed(f, OnChain(f)) /\ OnChain(f) \subseteq Places
  BY <1>3, LinkedClosed
<1>7. OnChain(next) \subseteq OnChain(f) \cup {n}
  <2> DEFINE S == {q \in Places : q \in OnChain(f) \/ (q = n /\ p \in OnChain(f))}
  <2>1. Header \in S
    BY <1>1, <1>6 DEF Closed
  <2>2. ASSUME NEW q \in S, next[q] # NULL
        PROVE  next[q] \in S
    <3>1. next[q] \in Places
      BY <1>1, <2>2 DEF Nexts
    <3>2. CASE q = p
      BY <1>1, <1>2, <2>2, <3>2
    <3>3. CASE q = n
      BY <1>2, <1>3, <1>6, <2>2, <3>1, <3>3 DEF Closed
    <3>4. CASE q # p /\ q # n
      BY <1>3, <1>6, <2>2, <3>1, <3>4 DEF Closed
    <3> QED
      BY <3>2, <3>3, <3>4
  <2>3. Closed(next, S)
    BY <2>1, <2>2 DEF Closed
  <2> QED
    BY <1>1, <2>3, LinkedLeast
<1> QED
  BY <1>2, <1>3, <1>5, <1>7, LinkedIs

-------------------------------------------------------------------------------
\* The walks of the code.

NextAt(i) == [p \in Places |-> forward[p][i]]

\* What a walk goes up: the keys, with the header below them.
RankOf == [p \in Places |-> IF p \in DOMAIN nodes THEN KeyOf(p) + 1 ELSE 0]

ListTypes ==
  /\ forward \in [Places -> [Levels -> NodeIds \cup {NULL}]]
  /\ nodes \in UNION {[1 .. n -> [key : Keys, val : Vals]] : n \in 0 .. MaxNodes}
  /\ skipListLevel \in Levels

\* Pointers lead up, those of nodes that are not in the list any more too; a node that was
\* not created points nowhere, and nothing is linked on the level _max_level.
Ascending == \A i \in Levels : Rising(NextAt(i), RankOf)
Fresh == \A n \in NodeIds \ DOMAIN nodes : \A i \in Levels : forward[n][i] = NULL
TopUnused == \A p \in Places : forward[p][MaxLevel] = NULL

Shape == ListTypes /\ Ascending /\ Fresh /\ TopUnused

\* The nodes are numbered from 1.
LEMMA NodesAre ==
  ASSUME ListTypes
  PROVE  \E n \in 0 .. MaxNodes : DOMAIN nodes = 1 .. n /\ nodes \in [1 .. n -> [key : Keys, val : Vals]]
BY DEF ListTypes

\* Types of the functions of one level.
LEMMA LevelTypes ==
  ASSUME ListTypes
  PROVE  /\ \A i \in Levels : NextAt(i) \in Nexts
         /\ RankOf \in [Places -> Nat] /\ RankOf[Header] = 0
         /\ DOMAIN nodes \subseteq NodeIds
         /\ \A n \in DOMAIN nodes : KeyOf(n) \in Keys /\ nodes[n].val \in Vals /\ RankOf[n] = KeyOf(n) + 1
         /\ \A p \in Places \ DOMAIN nodes : RankOf[p] = 0
<1>1. PICK top \in 0 .. MaxNodes : DOMAIN nodes = 1 .. top /\ nodes \in [1 .. top -> [key : Keys, val : Vals]]
  BY NodesAre
<1>2. DOMAIN nodes \subseteq NodeIds /\ Header \notin DOMAIN nodes
  BY <1>1, PlacesAre DEF NodeIds, Header
<1>3. \A m \in DOMAIN nodes : KeyOf(m) \in Keys /\ nodes[m].val \in Vals
  BY <1>1 DEF KeyOf
<1>4. Keys \subseteq Nat
  BY SkipAssumption
<1>5. \A i \in Levels : NextAt(i) \in Nexts
  BY DEF NextAt, Nexts, ListTypes
<1>6. \A n \in DOMAIN nodes : KeyOf(n) \in Nat /\ RankOf[n] = KeyOf(n) + 1
  BY <1>2, <1>3, <1>4 DEF RankOf, Places
<1>7. \A p \in Places \ DOMAIN nodes : RankOf[p] = 0
  BY DEF RankOf
<1>8. RankOf = [p \in Places |-> RankOf[p]]
  BY DEF RankOf
<1>9. \A p \in Places : RankOf[p] \in Nat
  BY <1>6, <1>7
<1>10. RankOf \in [Places -> Nat]
  BY <1>8, <1>9
<1> QED
  BY <1>2, <1>3, <1>5, <1>6, <1>7, <1>10, PlacesAre

\* Finitely many places have a highest rank.
LEMMA RankBound ==
  ASSUME NEW rank \in [Places -> Nat]
  PROVE  \E bound \in Nat : \A p \in Places : rank[p] < bound
<1> DEFINE S == {n \in Nat : \E b \in Nat : \A p \in Places : p <= n => rank[p] < b}
<1>1. Places = 0 .. MaxNodes
  BY PlacesAre DEF Places, NodeIds, Header
<1>2. 0 \in S
  <2>1. rank[0] + 1 \in Nat
    BY <1>1, PlacesAre
  <2>2. \A p \in Places : p <= 0 => rank[p] < rank[0] + 1
    BY <1>1, <2>1
  <2> QED
    BY <2>1, <2>2
<1>3. ASSUME NEW n \in Nat, n \in S PROVE n + 1 \in S
  <2>1. PICK b \in Nat : \A p \in Places : p <= n => rank[p] < b
    BY <1>3
  <2>2. \A p \in Places : p <= n + 1 /\ ~(p <= n) => p = n + 1
    BY <1>1
  <2>3. CASE n + 1 \in Places
    <3>1. PICK c \in Nat : b <= c /\ rank[n + 1] < c
      <4> DEFINE r == rank[n + 1]
      <4>1. r \in Nat
        BY <2>3
      <4> HIDE DEF r
      <4>2. b + r + 1 \in Nat /\ b <= b + r + 1 /\ r < b + r + 1
        BY <4>1
      <4> QED
        BY <4>2 DEF r
    <3>2. \A p \in Places : p <= n + 1 => rank[p] < c
      BY <2>1, <2>2, <3>1
    <3> QED
      BY <3>2
  <2>4. CASE n + 1 \notin Places
    <3>1. \A p \in Places : p <= n + 1 => rank[p] < b
      BY <2>1, <2>2, <2>4
    <3> QED
      BY <3>1
  <2> QED
    BY <2>3, <2>4
<1>4. MaxNodes \in S
  <2> HIDE DEF S
  <2> QED
    BY <1>2, <1>3, SetInduction, PlacesAre
<1> QED
  BY <1>1, <1>4

\* A rank that goes down where another goes up.
LEMMA Reversed ==
  ASSUME NEW rank \in [Places -> Nat], NEW bound \in Nat, \A p \in Places : rank[p] < bound
  PROVE  LET down == [p \in Places |-> bound - rank[p]]
         IN  /\ down \in [Places -> Nat]
             /\ \A p \in Places : down[p] < bound + 1
             /\ \A p, q \in Places : rank[p] < rank[q] => down[q] < down[p]
OBVIOUS

\* A level of the list is a chain that rises.
LEMMA LevelRises ==
  ASSUME Shape, NEW i \in Levels
  PROVE  NextAt(i) \in Nexts /\ Rising(NextAt(i), RankOf)
BY LevelTypes DEF Shape, Ascending

\* What the definition of Chain asks for exists.
LEMMA AfterExists ==
  ASSUME Shape, NEW i \in Levels
  PROVE  \E after \in [Places -> SUBSET Places] :
           after = [p \in Places |-> IF forward[p][i] = NULL THEN {}
                                    ELSE {forward[p][i]} \cup after[forward[p][i]]]
<1> DEFINE next == NextAt(i)
           go == [p \in Places |-> next[p] # NULL]
           add == [p \in Places |-> [x \in SUBSET Places |->
                     IF next[p] = NULL THEN {} ELSE {next[p]} \cup x]]
           base == [p \in Places |-> {}]
<1>1. next \in Nexts /\ Rising(next, RankOf) /\ RankOf \in [Places -> Nat]
  BY LevelRises, LevelTypes DEF Shape
<1>2. PICK bound \in Nat : \A p \in Places : RankOf[p] < bound
  BY <1>1, RankBound
<1> DEFINE down == [p \in Places |-> bound - RankOf[p]]
<1>3. /\ down \in [Places -> Nat] /\ \A p \in Places : down[p] < bound + 1
      /\ \A p, q \in Places : RankOf[p] < RankOf[q] => down[q] < down[p]
  BY <1>1, <1>2, Reversed
<1>4. \A p \in Places : next[p] # NULL => next[p] \in Places /\ RankOf[p] < RankOf[next[p]]
  BY <1>1 DEF Nexts, Places, Rising
<1>5. add \in [Places -> [SUBSET Places -> SUBSET Places]] /\ base \in [Places -> SUBSET Places]
  BY <1>4
<1>6. \A p \in Places : go[p] => next[p] \in Places /\ down[next[p]] < down[p]
  BY <1>3, <1>4
<1>7. \E f \in [Places -> SUBSET Places] :
        \A p \in Places : f[p] = IF go[p] THEN add[p][f[next[p]]] ELSE base[p]
  <2> DEFINE V == SUBSET Places
             top == bound + 1
  <2>1. top \in Nat
    OBVIOUS
  <2>2. add \in [Places -> [V -> V]] /\ base \in [Places -> V]
    BY <1>5
  <2>3. down \in [Places -> Nat] /\ \A p \in Places : down[p] < top
    BY <1>3
  <2>4. Solvable(Places, V, go, next, add, base)
    <3> HIDE DEF go, add, base, down, next, V, top
    <3> QED
      BY <1>6, <2>1, <2>2, <2>3, RecursionExists
  <2> QED
    BY <2>4 DEF Solvable
<1>8. PICK f \in [Places -> SUBSET Places] :
        \A p \in Places : f[p] = IF go[p] THEN add[p][f[next[p]]] ELSE base[p]
  BY <1>7
<1>9. \A p \in Places : f[p] = IF forward[p][i] = NULL THEN {}
                               ELSE {forward[p][i]} \cup f[forward[p][i]]
  <2> SUFFICES ASSUME NEW p \in Places
               PROVE  f[p] = IF forward[p][i] = NULL THEN {}
                             ELSE {forward[p][i]} \cup f[forward[p][i]]
    OBVIOUS
  <2>1. next[p] = forward[p][i]
    BY DEF NextAt
  <2>2. CASE next[p] # NULL
    <3>1. f[next[p]] \in SUBSET Places
      BY <1>4, <2>2
    <3>2. add[p][f[next[p]]] = {next[p]} \cup f[next[p]]
      BY <2>2, <3>1
    <3> QED
      BY <1>8, <2>1, <2>2, <3>2
  <2>3. CASE next[p] = NULL
    BY <1>8, <2>1, <2>3
  <2> QED
    BY <2>2, <2>3
<1> QED
  BY <1>9

\* So Chain collects what is linked from the header.
LEMMA ChainIsLinked ==
  ASSUME Shape, NEW i \in Levels PROVE Chain(i) = Linked(NextAt(i))
<1> DEFINE next == NextAt(i)
           Is(after) == after = [p \in Places |-> IF forward[p][i] = NULL THEN {}
                                                 ELSE {forward[p][i]} \cup after[forward[p][i]]]
           After == CHOOSE after : Is(after)
<1>1. Chain(i) = After[Header]
  BY DEF Chain
<1>2. Is(After)
  <2>1. \E after : Is(after)
    BY AfterExists
  <2> QED
    BY <2>1
<1>3. \A p \in Places : After[p] = IF next[p] = NULL THEN {} ELSE {next[p]} \cup After[next[p]]
  BY <1>2 DEF NextAt
<1> HIDE DEF After
<1>4. next \in Nexts /\ Rising(next, RankOf) /\ RankOf \in [Places -> Nat]
  BY LevelRises, LevelTypes DEF Shape
<1>5. PICK bound \in Nat : \A p \in Places : RankOf[p] < bound
  BY <1>4, RankBound
<1> DEFINE down == [p \in Places |-> bound - RankOf[p]]
<1>6. /\ down \in [Places -> Nat]
      /\ \A p, q \in Places : RankOf[p] < RankOf[q] => down[q] < down[p]
  BY <1>4, <1>5, Reversed
<1>7. \A p \in Places : next[p] # NULL => next[p] \in Places /\ RankOf[p] < RankOf[next[p]]
  BY <1>4 DEF Nexts, Places, Rising
<1>8. Header \in Places
  BY PlacesAre
<1>9. Linked(next) \subseteq After[Header]
  <2> DEFINE Sound == {p \in Places : \A n \in After[p] : next[n] # NULL => next[n] \in After[p]}
  <2>1. ASSUME NEW p \in Places, \A q \in Places : down[q] < down[p] => q \in Sound
        PROVE  p \in Sound
    <3>1. CASE next[p] = NULL
      BY <1>3, <3>1
    <3>2. CASE next[p] # NULL
      <4>1. next[p] \in Sound
        BY <1>6, <1>7, <2>1, <3>2
      <4>2. After[p] = {next[p]} \cup After[next[p]]
        BY <1>3, <3>2
      <4>3. next[next[p]] # NULL => next[next[p]] \in After[next[p]]
        BY <1>3, <1>7, <3>2
      <4> QED
        BY <4>1, <4>2, <4>3
    <3> QED
      BY <3>1, <3>2
  <2>2. Places \subseteq Sound
    <3> HIDE DEF down, Sound
    <3> QED
      BY <1>6, <2>1, RankInduction
  <2> DEFINE S == {p \in Places : p = Header \/ p \in After[Header]}
  <2>3. Closed(next, S)
    BY <1>3, <1>7, <1>8, <2>2 DEF Closed
  <2>4. OnChain(next) \subseteq S
    BY <2>3, LinkedLeast
  <2> QED
    BY <2>4, PlacesAre DEF OnChain, Linked
<1>10. After[Header] \subseteq Linked(next)
  <2> DEFINE Within == {p \in Places : p \in OnChain(next) => After[p] \subseteq Linked(next)}
  <2>1. ASSUME NEW p \in Places, \A q \in Places : down[q] < down[p] => q \in Within
        PROVE  p \in Within
    <3>1. CASE next[p] = NULL \/ p \notin OnChain(next)
      BY <1>3, <3>1
    <3>2. CASE next[p] # NULL /\ p \in OnChain(next)
      <4>1. next[p] \in Within
        BY <1>6, <1>7, <2>1, <3>2
      <4>2. next[p] \in OnChain(next) /\ next[p] \in NodeIds
        BY <1>4, <3>2, LinkedClosed DEF Closed, Nexts
      <4>3. next[p] \in Linked(next)
        BY <4>2, LinkedIs, PlacesAre
      <4> QED
        BY <1>3, <3>2, <4>1, <4>2, <4>3
    <3> QED
      BY <3>1, <3>2
  <2>2. Places \subseteq Within
    <3> HIDE DEF down, Within
    <3> QED
      BY <1>6, <2>1, RankInduction
  <2> QED
    BY <1>8, <2>2 DEF OnChain
<1> QED
  BY <1>1, <1>9, <1>10

\* A pointer leads to a node that was created, and its rank tells its key.
LEMMA NextIs ==
  ASSUME Shape, NEW i \in Levels, NEW p \in Places, forward[p][i] # NULL
  PROVE  /\ forward[p][i] \in DOMAIN nodes /\ forward[p][i] \in NodeIds
         /\ forward[p][i] \in Places
         /\ KeyOf(forward[p][i]) \in Nat /\ RankOf[forward[p][i]] = KeyOf(forward[p][i]) + 1
         /\ RankOf[p] < RankOf[forward[p][i]]
<1> DEFINE n == forward[p][i]
<1>1. n \in NodeIds
  BY DEF Shape, ListTypes
<1>2. n \in Places
  BY <1>1 DEF Places
<1>3. RankOf[p] < RankOf[n]
  BY LevelRises DEF Rising, NextAt
<1>4. RankOf[p] \in Nat /\ RankOf[n] \in Nat
  BY <1>2, LevelTypes DEF Shape
<1>5. n \in DOMAIN nodes
  BY <1>2, <1>3, <1>4, LevelTypes DEF Shape
<1>6. KeyOf(n) \in Nat /\ RankOf[n] = KeyOf(n) + 1
  BY <1>5, LevelTypes, SkipAssumption DEF Shape
<1> QED
  BY <1>1, <1>2, <1>3, <1>5, <1>6

\* What the definition of LastBefore asks for exists.
LEMMA WalkExists ==
  ASSUME Shape, NEW i \in Levels, NEW k \in Nat
  PROVE  \E walk \in [Places -> Places] :
           walk = [q \in Places |->
                     IF forward[q][i] # NULL /\ KeyOf(forward[q][i]) < k
                     THEN walk[forward[q][i]] ELSE q]
<1> DEFINE next == NextAt(i)
           go == [p \in Places |-> next[p] # NULL /\ KeyOf(next[p]) < k]
           same == [p \in Places |-> [x \in Places |-> x]]
           base == [p \in Places |-> p]
<1>1. RankOf \in [Places -> Nat]
  BY LevelTypes DEF Shape
<1>2. PICK bound \in Nat : \A p \in Places : RankOf[p] < bound
  BY <1>1, RankBound
<1> DEFINE down == [p \in Places |-> bound - RankOf[p]]
<1>3. /\ down \in [Places -> Nat] /\ \A p \in Places : down[p] < bound + 1
      /\ \A p, q \in Places : RankOf[p] < RankOf[q] => down[q] < down[p]
  BY <1>1, <1>2, Reversed
<1>4. \A p \in Places : next[p] = forward[p][i]
  BY DEF NextAt
<1>5. \A p \in Places : next[p] # NULL => next[p] \in Places /\ RankOf[p] < RankOf[next[p]]
  BY <1>4, NextIs
<1>6. \A p \in Places : go[p] => next[p] \in Places /\ down[next[p]] < down[p]
  BY <1>3, <1>5
<1>7. Solvable(Places, Places, go, next, same, base)
  <2> DEFINE top == bound + 1
  <2>1. top \in Nat /\ \A p \in Places : down[p] < top
    BY <1>3
  <2>2. same \in [Places -> [Places -> Places]] /\ base \in [Places -> Places]
    OBVIOUS
  <2> HIDE DEF go, same, base, down, next, top
  <2> QED
    BY <1>3, <1>6, <2>1, <2>2, RecursionExists
<1>8. PICK f \in [Places -> Places] :
        \A p \in Places : f[p] = IF go[p] THEN same[p][f[next[p]]] ELSE base[p]
  BY <1>7 DEF Solvable
<1>9. \A p \in Places : f[p] = IF forward[p][i] # NULL /\ KeyOf(forward[p][i]) < k
                               THEN f[forward[p][i]] ELSE p
  <2> SUFFICES ASSUME NEW p \in Places
               PROVE  f[p] = IF forward[p][i] # NULL /\ KeyOf(forward[p][i]) < k
                             THEN f[forward[p][i]] ELSE p
    OBVIOUS
  <2>1. next[p] = forward[p][i]
    BY <1>4
  <2>2. CASE go[p]
    <3>1. f[next[p]] \in Places
      BY <1>6, <2>2
    <3>2. same[p][f[next[p]]] = f[next[p]]
      BY <3>1
    <3> QED
      BY <1>8, <2>1, <2>2, <3>2
  <2>3. CASE ~go[p]
    BY <1>8, <2>1, <2>3
  <2> QED
    BY <2>2, <2>3
<1> QED
  BY <1>9

\* A walk ends at a place of the chain, below the key, and what comes next is not below it.
LEMMA LastBeforeIs ==
  ASSUME Shape, NEW i \in Levels, NEW k \in Nat, NEW p \in Places
  PROVE  LET q == LastBefore(p, i, k)
         IN  /\ q \in Places
             /\ p \in OnChain(NextAt(i)) => q \in OnChain(NextAt(i))
             /\ RankOf[p] <= k => RankOf[q] <= k
             /\ forward[q][i] # NULL => k < RankOf[forward[q][i]]
<1> DEFINE next == NextAt(i)
           Is(walk) == walk = [q \in Places |->
                                 IF forward[q][i] # NULL /\ KeyOf(forward[q][i]) < k
                                 THEN walk[forward[q][i]] ELSE q]
           Walk == CHOOSE walk : Is(walk)
           Ends(a, q) == /\ q \in Places
                         /\ a \in OnChain(next) => q \in OnChain(next)
                         /\ RankOf[a] <= k => RankOf[q] <= k
                         /\ forward[q][i] # NULL => k < RankOf[forward[q][i]]
<1>1. LastBefore(p, i, k) = Walk[p]
  BY DEF LastBefore
<1>2. Is(Walk)
  <2>1. \E walk : Is(walk)
    BY WalkExists
  <2> QED
    BY <2>1
<1> HIDE DEF Walk
<1>3. RankOf \in [Places -> Nat] /\ next \in Nexts
  BY LevelRises, LevelTypes DEF Shape
<1>4. PICK bound \in Nat : \A a \in Places : RankOf[a] < bound
  BY <1>3, RankBound
<1> DEFINE down == [a \in Places |-> bound - RankOf[a]]
<1>5. /\ down \in [Places -> Nat]
      /\ \A a, b \in Places : RankOf[a] < RankOf[b] => down[b] < down[a]
  BY <1>3, <1>4, Reversed
<1> DEFINE Good == {a \in Places : Ends(a, Walk[a])}
<1>6. ASSUME NEW a \in Places, \A b \in Places : down[b] < down[a] => b \in Good
      PROVE  a \in Good
  <2> DEFINE n == forward[a][i]
  <2>1. CASE n # NULL /\ KeyOf(n) < k
    <3>1. /\ n \in Places /\ RankOf[a] < RankOf[n]
          /\ KeyOf(n) \in Nat /\ RankOf[n] = KeyOf(n) + 1
      BY <2>1, NextIs
    <3>2. n \in Good
      BY <1>5, <1>6, <3>1
    <3>3. Walk[a] = Walk[n]
      BY <1>2, <2>1
    <3>4. a \in OnChain(next) => n \in OnChain(next)
      BY <1>3, <2>1, LinkedClosed DEF Closed, NextAt
    <3>5. RankOf[n] <= k
      BY <2>1, <3>1
    <3> QED
      BY <3>2, <3>3, <3>4, <3>5
  <2>2. CASE n = NULL
    BY <1>2, <2>2
  <2>3. CASE n # NULL /\ ~(KeyOf(n) < k)
    <3>1. KeyOf(n) \in Nat /\ RankOf[n] = KeyOf(n) + 1
      BY <2>3, NextIs
    <3>2. k < RankOf[n]
      BY <2>3, <3>1
    <3> QED
      BY <1>2, <2>3, <3>2
  <2> QED
    BY <2>1, <2>2, <2>3
<1>7. Places \subseteq Good
  <2> HIDE DEF down, Good
  <2> QED
    BY <1>5, <1>6, RankInduction
<1>8. p \in Good
  BY <1>7
<1> QED
  BY <1>1, <1>8

-------------------------------------------------------------------------------
\* The invariant.

At(i) == Chain(i) \cup {Header}

\* Besides what LevelsNested says: a node of the list that has a pointer on a level is in
\* the chain of that level.
Levelled ==
  /\ LevelsNested
  /\ \A n \in Chain(0) : \A i \in Levels : forward[n][i] # NULL => n \in Chain(i)

OpTypes ==
  /\ op \in [name : {"idle", "link", "unlink"}, node : NodeIds \cup {NULL},
             height : Levels, level : Levels, update : [Levels -> Places]]
  /\ op.name = "idle" => op = Idle

\* In the middle of insert_element: below op.level the node is linked, from there on it is
\* not, and update[] still names the place it goes behind.
Linking == op.name = "link" =>
  /\ op.node \in DOMAIN nodes /\ op.level < op.height /\ op.height <= skipListLevel
  /\ \A i \in Levels : i < op.level => op.node \in Chain(i)
  /\ \A i \in Levels : i >= op.level => op.node \notin Chain(i) /\ forward[op.node][i] = NULL
  /\ \A i \in Levels : op.level <= i /\ i < op.height =>
       LET u == op.update[i]
       IN  /\ u \in At(i) /\ RankOf[u] < RankOf[op.node]
           /\ forward[u][i] # NULL => RankOf[op.node] < RankOf[forward[u][i]]

\* In the middle of delete_element: below op.level the node is unlinked; where it is not,
\* update[] names the place before it.  What it points to is in the list.
Unlinking == op.name = "unlink" =>
  /\ op.node \in DOMAIN nodes
  /\ \A i \in Levels : i < op.level => op.node \notin Chain(i)
  /\ \A i \in Levels : op.level < i /\ op.node \in Chain(i) => op.node \in Chain(i - 1)
  /\ \A i \in Levels : op.level <= i /\ i <= skipListLevel =>
       LET u == op.update[i]
       IN  /\ u \in At(i) /\ RankOf[u] < RankOf[op.node]
           /\ forward[u][i] # NULL => RankOf[op.node] <= RankOf[forward[u][i]]
  /\ op.level = 0 => forward[op.update[0]][0] = op.node
  /\ \A i \in Levels : forward[op.node][i] # NULL => forward[op.node][i] \in Chain(i)

\* The counter is behind level 0 while a call is under way.
Counted ==
  elementCount = CASE op.name = "link" /\ op.level > 0 -> Cardinality(Chain(0)) - 1
                   [] op.name = "unlink" /\ op.level > 0 -> Cardinality(Chain(0)) + 1
                   [] OTHER -> Cardinality(Chain(0))

Structure == Shape /\ OpTypes /\ Levelled /\ Linking /\ Unlinking /\ Counted

SearchTypes ==
  /\ search \in [Searchers ->
                   [at : {"rest", "test", "compare", "advance", "answer", "answered"},
                    key : Keys, cur : Places, level : Levels, found : BOOLEAN]]
  /\ crashed \in BOOLEAN
  /\ saw \in [Searchers -> SUBSET BOOLEAN]

\* A searcher walks in the nodes B that were in the list at some moment of its search and
\* the nodes G that a delete was taking out as it began; from none of them it gets to one
\* of G on level 0, where it looks for its answer.
Roams(s, B, G) ==
  /\ Chain(0) \subseteq B /\ B \subseteq DOMAIN nodes /\ G \subseteq DOMAIN nodes
  /\ search[s].cur \in B \cup G \cup {Header}
  /\ \A p \in B \cup G \cup {Header} : forward[p][0] # NULL => forward[p][0] \in B
  /\ \A p \in B \cup G \cup {Header} : \A i \in Levels :
       forward[p][i] # NULL => forward[p][i] \in B \cup G
  /\ \A m \in B : KeyOf(m) = search[s].key => TRUE \in saw[s]

Roaming ==
  \A s \in Searchers : search[s].at \in {"test", "compare", "advance", "answer"} =>
    \E B, G \in SUBSET NodeIds : Roams(s, B, G)

ListInv == Structure /\ SearchTypes /\ Roaming /\ FoundWasThere

\* What the walks make of a list whose shape is right: the ranks, and the places of a level.
ListRanks ==
  /\ RankOf \in [Places -> Nat] /\ RankOf[Header] = 0
  /\ DOMAIN nodes \subseteq NodeIds
  /\ \A n \in DOMAIN nodes : KeyOf(n) \in Keys /\ nodes[n].val \in Vals /\ RankOf[n] = KeyOf(n) + 1
  /\ \A p \in Places \ DOMAIN nodes : RankOf[p] = 0

LevelsAre ==
  \A i \in Levels :
    /\ NextAt(i) \in Nexts /\ Rising(NextAt(i), RankOf)
    /\ Chain(i) = Linked(NextAt(i)) /\ At(i) = OnChain(NextAt(i))
    /\ Chain(i) \subseteq DOMAIN nodes /\ Chain(i) \subseteq NodeIds /\ At(i) \subseteq Places
    /\ Header \in At(i) /\ Chain(i) = At(i) \ {Header}
    /\ \A p \in At(i) : forward[p][i] # NULL => forward[p][i] \in Chain(i)

\* The ranks of places are numbers, those of the nodes above those of their keys.
LEMMA ListFacts == Shape => ListRanks
BY LevelTypes DEF Shape, ListRanks

\* Every level is a rising chain of nodes that exist.
LEMMA LevelFacts == Shape => LevelsAre
<1> SUFFICES ASSUME Shape, NEW i \in Levels
             PROVE  /\ NextAt(i) \in Nexts /\ Rising(NextAt(i), RankOf)
                    /\ Chain(i) = Linked(NextAt(i)) /\ At(i) = OnChain(NextAt(i))
                    /\ Chain(i) \subseteq DOMAIN nodes /\ Chain(i) \subseteq NodeIds
                    /\ At(i) \subseteq Places
                    /\ Header \in At(i) /\ Chain(i) = At(i) \ {Header}
                    /\ \A p \in At(i) : forward[p][i] # NULL => forward[p][i] \in Chain(i)
  BY DEF LevelsAre
<1>1. NextAt(i) \in Nexts /\ Rising(NextAt(i), RankOf)
  BY LevelRises
<1>2. Chain(i) = Linked(NextAt(i)) /\ At(i) = OnChain(NextAt(i))
  BY ChainIsLinked DEF At, OnChain
<1>3. At(i) \subseteq Places /\ Header \in At(i) /\ Chain(i) = At(i) \ {Header}
  BY <1>1, <1>2, LinkedClosed, LinkedIs DEF OnChain
<1>4. Chain(i) \subseteq NodeIds
  BY <1>2 DEF Linked
<1>5. \A p \in At(i) : NextAt(i)[p] = forward[p][i]
  BY <1>3 DEF NextAt
<1>6. \A p \in At(i) : forward[p][i] # NULL => forward[p][i] \in Chain(i)
  <2> SUFFICES ASSUME NEW p \in At(i), forward[p][i] # NULL PROVE forward[p][i] \in Chain(i)
    OBVIOUS
  <2>1. forward[p][i] \in At(i)
    BY <1>1, <1>2, <1>5, LinkedClosed DEF Closed
  <2>2. forward[p][i] \in NodeIds
    BY <1>3, NextIs
  <2> QED
    BY <1>3, <2>1, <2>2, PlacesAre
<1>7. Chain(i) \subseteq DOMAIN nodes
  <2> SUFFICES ASSUME NEW n \in Chain(i) PROVE n \in DOMAIN nodes
    OBVIOUS
  <2>1. PICK p \in At(i) : NextAt(i)[p] = n
    BY <1>1, <1>2, LinkedFrom
  <2>2. forward[p][i] = n /\ n # NULL
    BY <1>4, <1>5, <2>1, PlacesAre DEF Places
  <2> QED
    BY <1>3, <2>2, NextIs
<1> QED
  BY <1>1, <1>2, <1>3, <1>4, <1>6, <1>7

\* On a level keys tell nodes apart, and whoever stands below a node has one after him that
\* is not above it.
LEMMA Between ==
  ASSUME Shape, NEW i \in Levels, NEW a \in At(i), NEW b \in At(i)
  PROVE  /\ RankOf[a] < RankOf[b] => forward[a][i] # NULL /\ RankOf[forward[a][i]] <= RankOf[b]
         /\ RankOf[a] = RankOf[b] => a = b
<1>1. /\ NextAt(i) \in Nexts /\ Rising(NextAt(i), RankOf) /\ At(i) = OnChain(NextAt(i))
      /\ At(i) \subseteq Places
  BY LevelFacts DEF LevelsAre
<1>2. RankOf \in [Places -> Nat] /\ RankOf[Header] = 0
  BY ListFacts DEF ListRanks
<1>3. NextAt(i)[a] = forward[a][i]
  BY <1>1 DEF NextAt
<1> QED
  BY <1>1, <1>2, <1>3, NoSkip

\* What the definition of Update asks for exists.
LEMMA UpdateExists ==
  ASSUME Shape, NEW k \in Nat
  PROVE  \E update \in [Levels -> Places] :
           update = [i \in Levels |->
                       IF i > skipListLevel THEN Header
                       ELSE LastBefore(IF i = MaxLevel THEN Header ELSE update[i + 1], i, k)]
<1> DEFINE rank == [i \in Levels |-> MaxLevel - i]
           go == [i \in Levels |-> i <= skipListLevel /\ i # MaxLevel]
           above == [i \in Levels |-> i + 1]
           step == [i \in Levels |-> [x \in Places |-> LastBefore(x, i, k)]]
           base == [i \in Levels |-> IF i > skipListLevel THEN Header ELSE LastBefore(Header, i, k)]
           top == MaxLevel + 1
<1>1. MaxLevel \in Nat /\ top \in Nat /\ skipListLevel \in Levels
  BY PlacesAre DEF Shape, ListTypes
<1>2. skipListLevel \in Nat /\ \A i \in Levels : i \in Nat /\ i <= MaxLevel
  BY <1>1 DEF Levels
<1>3. rank \in [Levels -> Nat] /\ \A i \in Levels : rank[i] < top
  BY <1>1, <1>2
<1>4. \A i \in Levels : go[i] => above[i] \in Levels /\ rank[above[i]] < rank[i]
  <2> SUFFICES ASSUME NEW i \in Levels, go[i]
               PROVE  above[i] \in Levels /\ rank[above[i]] < rank[i]
    OBVIOUS
  <2>0. i <= skipListLevel /\ i # MaxLevel
    OBVIOUS
  <2>1. i + 1 \in Levels /\ above[i] = i + 1
    BY <1>1, <1>2, <2>0 DEF Levels
  <2>2. rank[i + 1] = MaxLevel - (i + 1) /\ rank[i] = MaxLevel - i
    BY <2>1
  <2> QED
    BY <1>1, <1>2, <2>1, <2>2
<1>5. \A i \in Levels, x \in Places : LastBefore(x, i, k) \in Places
  BY LastBeforeIs
<1>6. step \in [Levels -> [Places -> Places]] /\ base \in [Levels -> Places]
  BY <1>5, PlacesAre
<1>7. Solvable(Levels, Places, go, above, step, base)
  <2> HIDE DEF rank, go, above, step, base, top
  <2> QED
    BY <1>1, <1>3, <1>4, <1>6, RecursionExists
<1>8. PICK f \in [Levels -> Places] :
        \A i \in Levels : f[i] = IF go[i] THEN step[i][f[above[i]]] ELSE base[i]
  BY <1>7 DEF Solvable
<1>9. \A i \in Levels : f[i] = IF i > skipListLevel THEN Header
                               ELSE LastBefore(IF i = MaxLevel THEN Header ELSE f[i + 1], i, k)
  <2> SUFFICES ASSUME NEW i \in Levels
               PROVE  f[i] = IF i > skipListLevel THEN Header
                             ELSE LastBefore(IF i = MaxLevel THEN Header ELSE f[i + 1], i, k)
    OBVIOUS
  <2> DEFINE x == IF i = MaxLevel THEN Header ELSE f[i + 1]
  <2>1. CASE go[i]
    <3>0. i <= skipListLevel /\ i # MaxLevel
      BY <2>1
    <3>1. f[i + 1] \in Places /\ ~(i > skipListLevel) /\ x = f[i + 1] /\ above[i] = i + 1
      <4>1. above[i] = i + 1
        OBVIOUS
      <4>2. i + 1 \in Levels
        BY <1>4, <2>1, <4>1
      <4> QED
        BY <1>1, <1>2, <3>0, <4>1, <4>2
    <3>2. step[i][f[i + 1]] = LastBefore(f[i + 1], i, k)
      BY <3>1
    <3> QED
      BY <1>8, <2>1, <3>1, <3>2
  <2>2. CASE ~go[i]
    <3>0. ~(i <= skipListLevel) \/ i = MaxLevel
      BY <2>2
    <3>1. i > skipListLevel \/ x = Header
      BY <1>1, <1>2, <3>0
    <3>2. f[i] = base[i]
      BY <1>8, <2>2
    <3> QED
      BY <3>1, <3>2
  <2> QED
    BY <2>1, <2>2
<1> QED
  BY <1>9

\* Between two calls of writers every chain is within the one below.
LEMMA NestedWhenIdle ==
  ASSUME LevelsNested, op.name # "unlink", NEW i \in Levels, i + 1 \in Levels
  PROVE  At(i + 1) \subseteq At(i)
<1>1. i \in Nat /\ i + 1 # 0 /\ i + 1 - 1 = i
  BY PlacesAre DEF Levels
<1> QED
  BY <1>1 DEF LevelsNested, At

\* update[] names, on every level, the last place below the key.
LEMMA UpdateIs ==
  ASSUME Shape, LevelsNested, op.name # "unlink", NEW k \in Nat
  PROVE  /\ Update(k) \in [Levels -> Places]
         /\ \A i \in Levels :
              LET u == Update(k)[i]
              IN  /\ u \in At(i) /\ RankOf[u] <= k
                  /\ forward[u][i] # NULL => k < RankOf[forward[u][i]]
<1> DEFINE Is(update) == update = [i \in Levels |->
                       IF i > skipListLevel THEN Header
                       ELSE LastBefore(IF i = MaxLevel THEN Header ELSE update[i + 1], i, k)]
           U == CHOOSE update : Is(update)
           Ends(i, u) == /\ u \in Places /\ u \in At(i) /\ RankOf[u] <= k
                         /\ forward[u][i] # NULL => k < RankOf[forward[u][i]]
           rank == [i \in Levels |-> MaxLevel - i]
           Good == {i \in Levels : Ends(i, U[i])}
<1>1. Update(k) = U
  BY DEF Update
<1>2. Is(U)
  <2>1. \E update : Is(update)
    BY UpdateExists
  <2> QED
    BY <2>1
<1> HIDE DEF U
<1>3. /\ MaxLevel \in Nat /\ skipListLevel \in Nat /\ rank \in [Levels -> Nat]
      /\ \A i \in Levels : i \in Nat /\ i <= MaxLevel
  BY PlacesAre DEF Levels, Shape, ListTypes
<1>4. \A i \in Levels : Header \in At(i) /\ At(i) = OnChain(NextAt(i)) /\ At(i) \subseteq Places
  BY LevelFacts DEF LevelsAre
<1>5. RankOf[Header] = 0 /\ Header \in Places
  BY ListFacts, PlacesAre DEF ListRanks
<1>6. ASSUME NEW i \in Levels, \A j \in Levels : rank[j] < rank[i] => j \in Good
      PROVE  i \in Good
  <2>1. CASE i > skipListLevel
    <3>1. U[i] = Header
      BY <1>2, <2>1
    <3>2. Chain(i) = {}
      BY <1>3, <2>1 DEF LevelsNested
    <3>3. forward[Header][i] = NULL
      BY <1>4, <3>2, LevelFacts DEF LevelsAre
    <3> QED
      BY <1>4, <1>5, <3>1, <3>3
  <2>2. CASE ~(i > skipListLevel)
    <3> DEFINE x == IF i = MaxLevel THEN Header ELSE U[i + 1]
    <3>1. U[i] = LastBefore(x, i, k)
      BY <1>2, <2>2
    <3>2. x \in Places /\ x \in At(i) /\ RankOf[x] <= k
      <4>1. CASE i = MaxLevel
        BY <1>4, <1>5, <4>1
      <4>2. CASE i # MaxLevel
        <5>1. i + 1 \in Levels
          BY <1>3, <4>2 DEF Levels
        <5>2. rank[i + 1] < rank[i]
          BY <1>3, <5>1
        <5>3. i + 1 \in Good
          BY <1>6, <5>1, <5>2
        <5>4. At(i + 1) \subseteq At(i)
          BY <5>1, NestedWhenIdle
        <5> QED
          BY <4>2, <5>3, <5>4
      <4> QED
        BY <4>1, <4>2
    <3> HIDE DEF x
    <3>3. /\ U[i] \in Places /\ U[i] \in At(i) /\ RankOf[U[i]] <= k
          /\ forward[U[i]][i] # NULL => k < RankOf[forward[U[i]][i]]
      BY <1>4, <3>1, <3>2, LastBeforeIs
    <3> QED
      BY <3>3
  <2> QED
    BY <2>1, <2>2
<1>7. Levels \subseteq Good
  <2> HIDE DEF rank, Good
  <2> QED
    BY <1>3, <1>6, RankInduction
<1>8. U = [i \in Levels |-> U[i]]
  BY <1>2
<1> QED
  BY <1>1, <1>7, <1>8

\* Find finds the node of level 0 with the key, behind update[0], and NULL when there is none.
LEMMA FindIs ==
  ASSUME Shape, LevelsNested, op.name # "unlink", NEW k \in Nat
  PROVE  /\ Find(k) = NULL => \A n \in Chain(0) : KeyOf(n) # k
         /\ Find(k) # NULL => /\ Find(k) \in Chain(0) /\ KeyOf(Find(k)) = k
                              /\ Find(k) = forward[Update(k)[0]][0]
<1> DEFINE u == Update(k)[0]
           n == forward[u][0]
<1>1. 0 \in Levels
  BY PlacesAre DEF Levels
<1>2. /\ u \in At(0) /\ RankOf[u] <= k
      /\ n # NULL => k < RankOf[n]
  BY <1>1, UpdateIs
<1>3. Find(k) = IF n # NULL /\ KeyOf(n) = k THEN n ELSE NULL
  BY DEF Find
<1> HIDE DEF u
<1>4. /\ n # NULL => n \in Chain(0)
      /\ Chain(0) = At(0) \ {Header} /\ Chain(0) \subseteq DOMAIN nodes
      /\ At(0) \subseteq Places /\ Chain(0) \subseteq Places
  BY <1>1, <1>2, LevelFacts DEF LevelsAre
<1>5. ASSUME NEW m \in Chain(0), KeyOf(m) = k PROVE n = m
  <2>1. RankOf[m] = k + 1 /\ m \in At(0)
    BY <1>4, <1>5, ListFacts DEF ListRanks
  <2>2. RankOf[u] \in Nat
    BY <1>2, <1>4, ListFacts DEF ListRanks
  <2>3. n # NULL /\ RankOf[n] <= k + 1
    BY <1>1, <1>2, <2>1, <2>2, Between
  <2>4. RankOf[n] \in Nat /\ n \in At(0)
    BY <1>4, <2>3, ListFacts DEF ListRanks
  <2>5. RankOf[n] = RankOf[m]
    BY <1>2, <2>1, <2>3, <2>4
  <2> QED
    BY <1>1, <2>1, <2>4, <2>5, Between
<1>6. Find(k) = NULL => \A m \in Chain(0) : KeyOf(m) # k
  <2> SUFFICES ASSUME Find(k) = NULL, NEW m \in Chain(0), KeyOf(m) = k PROVE FALSE
    OBVIOUS
  <2>1. n = m
    BY <1>5
  <2>2. m # NULL
    BY <1>4, PlacesAre
  <2> QED
    BY <1>3, <2>1, <2>2
<1> QED
  BY <1>3, <1>4, <1>6 DEF u

\* A node of any chain is in that of level 0, if it is not the one that is taken out.
LEMMA AllOnLevelZero ==
  ASSUME LevelsNested, NEW i \in Levels, NEW n \in Chain(i)
  PROVE  n \in Chain(0) \/ (op.name = "unlink" /\ op.node = n)
<1> DEFINE S == {j \in Nat : j \in Levels =>
                   \A m \in Chain(j) : m \in Chain(0) \/ (op.name = "unlink" /\ op.node = m)}
<1>1. 0 \in S
  OBVIOUS
<1>2. ASSUME NEW j \in Nat, j \in S PROVE j + 1 \in S
  <2> SUFFICES ASSUME j + 1 \in Levels, NEW m \in Chain(j + 1)
               PROVE  m \in Chain(0) \/ (op.name = "unlink" /\ op.node = m)
    OBVIOUS
  <2>1. j \in Levels /\ j + 1 \in Levels \ {0} /\ j + 1 - 1 = j
    BY PlacesAre DEF Levels
  <2>2. m \in Chain(j) \/ (op.name = "unlink" /\ op.node = m)
    BY <2>1 DEF LevelsNested
  <2> QED
    BY <1>2, <2>1, <2>2
<1>3. Nat \subseteq S
  <2> HIDE DEF S
  <2> QED
    BY <1>1, <1>2, SetInduction
<1>4. i \in S
  BY <1>3, PlacesAre DEF Levels
<1> QED
  BY <1>4

\* The same facts after a step.
LEMMA FactsAfter ==
  ASSUME Shape'
  PROVE  /\ RankOf' \in [Places -> Nat] /\ RankOf'[Header] = 0
         /\ DOMAIN nodes' \subseteq NodeIds
         /\ \A i \in Levels :
              /\ NextAt(i)' \in Nexts /\ Rising(NextAt(i)', RankOf')
              /\ Chain(i)' = Linked(NextAt(i)') /\ At(i)' = OnChain(NextAt(i)')
              /\ Chain(i)' \subseteq DOMAIN nodes' /\ Chain(i)' \subseteq NodeIds
              /\ Header \in At(i)' /\ Chain(i)' = At(i)' \ {Header}
<1>1. (Shape => ListRanks)'
  BY ListFacts, PTL
<1>2. (Shape => LevelsAre)'
  BY LevelFacts, PTL
<1> QED
  BY <1>1, <1>2 DEF ListRanks, LevelsAre

\* The header is not a node.
LEMMA HeaderIsNoNode == ListTypes => Header \notin DOMAIN nodes
BY LevelTypes, PlacesAre

\* Where neither chains nor pointers change, the levels stay nested, and so they do when
\* the list gets a level more.
LEMMA LevelledKept ==
  ASSUME Levelled, op.name # "unlink", forward' = forward, \A i \in Levels : Chain(i)' = Chain(i),
         skipListLevel \in Nat, skipListLevel' \in Nat, skipListLevel <= skipListLevel'
  PROVE  Levelled'
<1>1. 0 \in Levels /\ \A i \in Levels : i \in Nat
  BY PlacesAre DEF Levels
<1>2. \A i \in Levels \ {0} : i - 1 \in Levels
  BY PlacesAre DEF Levels
<1>3. \A i \in Levels \ {0} : \A m \in Chain(i)' : m \in Chain(i - 1)'
  BY <1>2 DEF Levelled, LevelsNested
<1>4. \A i \in Levels : Chain(i)' # {} => i <= skipListLevel'
  BY <1>1 DEF Levelled, LevelsNested
<1> QED
  BY <1>1, <1>3, <1>4 DEF Levelled, LevelsNested

\* What a step that writes no pointer does to the chains, when it keeps the keys of the
\* nodes there are.
LEMMA PointersKept ==
  ASSUME Shape, ListTypes', forward' = forward, DOMAIN nodes \subseteq DOMAIN nodes',
         \A n \in DOMAIN nodes : KeyOf(n)' = KeyOf(n)
  PROVE  /\ Shape'
         /\ \A i \in Levels : Chain(i)' = Chain(i) /\ At(i)' = At(i)
         /\ RankOf'[Header] = RankOf[Header]
         /\ \A n \in DOMAIN nodes : RankOf'[n] = RankOf[n]
<1>1. RankOf'[Header] = RankOf[Header]
  <2>1. (ListTypes => Header \notin DOMAIN nodes)'
    BY HeaderIsNoNode, PTL
  <2>2. ListTypes => Header \notin DOMAIN nodes
    BY HeaderIsNoNode
  <2> QED
    BY <2>1, <2>2, PlacesAre DEF RankOf, Shape
<1>2. \A n \in DOMAIN nodes : RankOf'[n] = RankOf[n]
  BY ListFacts, PlacesAre DEF ListRanks, RankOf, Places
<1>3. \A i \in Levels : NextAt(i)' = NextAt(i)
  BY DEF NextAt
<1>4. Ascending'
  <2> SUFFICES ASSUME NEW i \in Levels, NEW p \in Places, NextAt(i)[p] # NULL
               PROVE  RankOf'[p] < RankOf'[NextAt(i)[p]]
    BY <1>3 DEF Ascending, Rising
  <2>1. NextAt(i)[p] = forward[p][i]
    BY DEF NextAt
  <2>2. forward[p][i] \in DOMAIN nodes /\ RankOf[p] < RankOf[forward[p][i]]
    BY <2>1, NextIs
  <2>3. p = Header \/ p \in DOMAIN nodes
    BY <2>1 DEF Shape, Fresh, Places
  <2> QED
    BY <1>1, <1>2, <2>1, <2>2, <2>3
<1>5. Fresh' /\ TopUnused'
  BY DEF Shape, Fresh, TopUnused
<1>6. Shape'
  BY <1>4, <1>5 DEF Shape
<1>7. \A i \in Levels : Chain(i)' = Chain(i) /\ At(i)' = At(i)
  BY <1>3, <1>6, LevelFacts, FactsAfter DEF LevelsAre
<1> QED
  BY <1>1, <1>2, <1>6, <1>7

\* A value is written into a node of the list.
LEMMA SetKeeps ==
  ASSUME Structure, NEW k \in Keys, NEW v \in Vals, SetExisting(k, v)
  PROVE  Structure' /\ \A i \in Levels : Chain(i)' = Chain(i)
<1> DEFINE n == Find(k)
<1>1. Shape /\ LevelsNested /\ op = Idle /\ op.name = "idle" /\ k \in Nat
  BY SkipAssumption DEF SetExisting, Structure, Levelled, Idle
<1>2. n \in Chain(0)
  BY <1>1, FindIs DEF SetExisting
<1> HIDE DEF n
<1>3. n \in DOMAIN nodes
  BY <1>1, <1>2, LevelFacts, PlacesAre DEF LevelsAre, Levels
<1>4. PICK top \in 0 .. MaxNodes : DOMAIN nodes = 1 .. top /\ nodes \in [1 .. top -> [key : Keys, val : Vals]]
  BY <1>1, NodesAre DEF Shape
<1>5. /\ nodes' = [nodes EXCEPT ![n].val = v]
      /\ forward' = forward /\ skipListLevel' = skipListLevel /\ elementCount' = elementCount
      /\ op' = op
  BY DEF SetExisting, n
<1>6. nodes' \in [1 .. top -> [key : Keys, val : Vals]] /\ DOMAIN nodes' = DOMAIN nodes
  BY <1>3, <1>4, <1>5
<1>7. ListTypes'
  BY <1>1, <1>5, <1>6 DEF ListTypes, Shape
<1>8. \A m \in DOMAIN nodes : KeyOf(m)' = KeyOf(m)
  BY <1>3, <1>4, <1>5 DEF KeyOf
<1>9. Shape' /\ \A i \in Levels : Chain(i)' = Chain(i)
  BY <1>1, <1>5, <1>6, <1>7, <1>8, PointersKept
<1>10. 0 \in Levels
  BY PlacesAre DEF Levels
<1>11. OpTypes' /\ op'.name = "idle"
  BY <1>1, <1>5 DEF Structure, OpTypes
<1>12. Levelled'
  BY <1>1, <1>5, <1>9, LevelledKept, PlacesAre DEF Structure, Shape, ListTypes, Levels
<1>13. Counted'
  BY <1>1, <1>5, <1>9, <1>10 DEF Structure, Counted
<1> QED
  BY <1>9, <1>11, <1>12, <1>13 DEF Structure, Linking, Unlinking

\* A node is created; it is not in the list yet.
LEMMA InsertBeginsKeeps ==
  ASSUME Structure, NEW k \in Keys, NEW v \in Vals, NEW h \in Heights, InsertBegins(k, v, h)
  PROVE  /\ Structure' /\ \A i \in Levels : Chain(i)' = Chain(i)
         /\ DOMAIN nodes \subseteq DOMAIN nodes'
         /\ \A m \in DOMAIN nodes : nodes'[m] = nodes[m]
<1> DEFINE n == Cardinality(DOMAIN nodes) + 1
<1>1. Shape /\ LevelsNested /\ op = Idle /\ op.name = "idle" /\ k \in Nat
  BY SkipAssumption DEF InsertBegins, Structure, Levelled, Idle
<1>2. PICK top \in 0 .. MaxNodes : DOMAIN nodes = 1 .. top /\ nodes \in [1 .. top -> [key : Keys, val : Vals]]
  BY <1>1, NodesAre DEF Shape
<1>3. n = top + 1 /\ top < MaxNodes
  <2>1. top \in Nat
    BY <1>2, PlacesAre
  <2>2. Cardinality(1 .. top) = top
    BY <2>1, FS_Interval
  <2> QED
    BY <1>2, <2>1, <2>2 DEF InsertBegins
<1> HIDE DEF n
<1>4. /\ nodes' = [m \in 1 .. n |-> IF m = n THEN [key |-> k, val |-> v] ELSE nodes[m]]
      /\ op' = [name |-> "link", node |-> n, height |-> h, level |-> 0, update |-> Update(k)]
      /\ skipListLevel' = IF h > skipListLevel THEN h ELSE skipListLevel
      /\ forward' = forward /\ elementCount' = elementCount
  BY DEF InsertBegins, n
<1>5. /\ n \in Nat /\ n \in NodeIds /\ n \notin DOMAIN nodes /\ n \in DOMAIN nodes'
      /\ DOMAIN nodes' = 1 .. n /\ DOMAIN nodes \subseteq DOMAIN nodes'
      /\ \A m \in DOMAIN nodes : nodes'[m] = nodes[m]
      /\ nodes'[n] = [key |-> k, val |-> v]
  BY <1>2, <1>3, <1>4, PlacesAre DEF NodeIds
<1>6. nodes' \in [1 .. n -> [key : Keys, val : Vals]] /\ n \in 0 .. MaxNodes
  BY <1>2, <1>3, <1>4, PlacesAre
<1>7. /\ skipListLevel \in Nat /\ h \in Nat /\ h > 0 /\ h \in Levels /\ skipListLevel' \in Levels
      /\ h <= skipListLevel' /\ skipListLevel <= skipListLevel'
  BY <1>1, <1>4, PlacesAre DEF Heights, Levels, Shape, ListTypes
<1>8. ListTypes'
  BY <1>1, <1>4, <1>6, <1>7 DEF ListTypes, Shape
<1>9. \A m \in DOMAIN nodes : KeyOf(m)' = KeyOf(m)
  BY <1>5 DEF KeyOf
<1>10. /\ Shape' /\ \A i \in Levels : Chain(i)' = Chain(i) /\ At(i)' = At(i)
       /\ RankOf'[Header] = RankOf[Header]
       /\ \A m \in DOMAIN nodes : RankOf'[m] = RankOf[m]
  BY <1>1, <1>4, <1>5, <1>8, <1>9, PointersKept
<1>11. 0 \in Levels /\ \A i \in Levels : i \in Nat
  BY PlacesAre DEF Levels
<1>12. RankOf'[n] = k + 1
  BY <1>5 DEF RankOf, KeyOf, Places
<1>13. /\ Update(k) \in [Levels -> Places]
       /\ \A i \in Levels :
            LET u == Update(k)[i]
            IN  /\ u \in At(i) /\ RankOf[u] <= k
                /\ forward[u][i] # NULL => k < RankOf[forward[u][i]]
  BY <1>1, UpdateIs
<1>14. OpTypes'
  BY <1>4, <1>5, <1>7, <1>11, <1>13 DEF OpTypes
<1>15. Levelled'
  BY <1>1, <1>4, <1>7, <1>10, LevelledKept, PlacesAre DEF Structure, Levels
<1>16. Linking'
  <2>1. op'.node \in DOMAIN nodes' /\ op'.level < op'.height /\ op'.height <= skipListLevel'
    BY <1>4, <1>5, <1>7
  <2>2. \A i \in Levels : ~(i < op'.level)
    BY <1>4, <1>11
  <2>3. \A i \in Levels : op'.node \notin Chain(i)' /\ forward'[op'.node][i] = NULL
    <3>1. \A i \in Levels : n \notin Chain(i)
      BY <1>1, <1>5, LevelFacts DEF LevelsAre
    <3>2. \A i \in Levels : forward[n][i] = NULL
      BY <1>1, <1>5 DEF Shape, Fresh
    <3> QED
      BY <1>4, <1>10, <3>1, <3>2
  <2>4. ASSUME NEW i \in Levels
        PROVE  LET u == op'.update[i]
               IN  /\ u \in At(i)' /\ RankOf'[u] < RankOf'[op'.node]
                   /\ forward'[u][i] # NULL => RankOf'[op'.node] < RankOf'[forward'[u][i]]
    <3> DEFINE u == Update(k)[i]
               w == forward[u][i]
    <3>1. u \in At(i) /\ RankOf[u] <= k /\ (w # NULL => k < RankOf[w])
      BY <1>13
    <3> HIDE DEF u
    <3>2. u = Header \/ u \in DOMAIN nodes
      BY <1>1, <3>1, LevelFacts DEF LevelsAre, At
    <3>3. RankOf'[u] = RankOf[u] /\ RankOf[u] \in Nat
      BY <1>1, <1>10, <3>1, <3>2, LevelFacts, ListFacts DEF LevelsAre, ListRanks
    <3>4. RankOf'[u] < k + 1
      BY <1>1, <3>1, <3>3
    <3>5. ASSUME w # NULL PROVE k + 1 < RankOf'[w]
      <4>1. w \in Chain(i) /\ w \in DOMAIN nodes
        BY <1>1, <3>1, <3>5, LevelFacts DEF LevelsAre
      <4>2. w \in Chain(0)
        BY <1>1, <4>1, AllOnLevelZero
      <4>3. KeyOf(w) # k
        BY <1>1, <4>2, FindIs DEF InsertBegins
      <4>4. RankOf[w] = KeyOf(w) + 1 /\ KeyOf(w) \in Nat
        BY <1>1, <4>1, ListFacts, SkipAssumption DEF ListRanks
      <4> QED
        BY <1>1, <1>10, <3>1, <3>5, <4>1, <4>3, <4>4
    <3> QED
      BY <1>4, <1>10, <1>12, <3>1, <3>4, <3>5 DEF u
  <2> QED
    BY <2>1, <2>2, <2>3, <2>4 DEF Linking
<1>17. Unlinking'
  BY <1>4 DEF Unlinking
<1>18. Counted'
  BY <1>1, <1>4, <1>10, <1>11 DEF Structure, Counted
<1> QED
  BY <1>5, <1>10, <1>14, <1>15, <1>16, <1>17, <1>18 DEF Structure

\* A level on which no pointer changes keeps its chain.
LEMMA OtherLevels ==
  ASSUME Shape, Shape', NEW i \in Levels, \A q \in Places : forward'[q][i] = forward[q][i]
  PROVE  Chain(i)' = Chain(i) /\ At(i)' = At(i) /\ NextAt(i)' = NextAt(i)
<1>1. NextAt(i)' = NextAt(i)
  BY DEF NextAt
<1> QED
  BY <1>1, LevelFacts, FactsAfter DEF LevelsAre

\* The list stays in shape when pointers of one level below the top change so that they
\* lead up, and only at places that exist.
LEMMA ShapeKept ==
  ASSUME Shape, NEW l \in Levels, l # MaxLevel, nodes' = nodes, skipListLevel' \in Levels,
         forward' \in [Places -> [Levels -> NodeIds \cup {NULL}]],
         \A q \in Places, i \in Levels : i # l => forward'[q][i] = forward[q][i],
         \A q \in NodeIds \ DOMAIN nodes : forward'[q][l] = forward[q][l],
         \A q \in Places : forward'[q][l] # NULL => RankOf[q] < RankOf[forward'[q][l]]
  PROVE  /\ Shape' /\ RankOf' = RankOf
         /\ \A i \in Levels : i # l => Chain(i)' = Chain(i) /\ At(i)' = At(i)
<1>1. RankOf' = RankOf
  BY DEF RankOf, KeyOf
<1>2. ListTypes'
  BY DEF Shape, ListTypes
<1>3. Ascending'
  <2> SUFFICES ASSUME NEW i \in Levels, NEW q \in Places, NextAt(i)'[q] # NULL
               PROVE  RankOf[q] < RankOf[NextAt(i)'[q]]
    BY <1>1 DEF Ascending, Rising
  <2>1. NextAt(i)'[q] = forward'[q][i]
    BY DEF NextAt
  <2>2. CASE i = l
    BY <2>1, <2>2
  <2>3. CASE i # l
    BY <2>1, <2>3, NextIs
  <2> QED
    BY <2>2, <2>3
<1>4. Fresh'
  <2> SUFFICES ASSUME NEW q \in NodeIds \ DOMAIN nodes, NEW i \in Levels
               PROVE  forward'[q][i] = NULL
    BY DEF Fresh
  <2>1. forward[q][i] = NULL /\ q \in Places
    BY DEF Shape, Fresh, Places
  <2> QED
    BY <2>1
<1>5. TopUnused'
  BY PlacesAre DEF Shape, TopUnused, Levels
<1>6. Shape'
  BY <1>2, <1>3, <1>4, <1>5 DEF Shape
<1> QED
  BY <1>1, <1>6, OtherLevels

\* The chain of level 0 is finite, and one node more or less counts.
LEMMA CountFacts ==
  ASSUME Shape
  PROVE  /\ IsFiniteSet(Chain(0)) /\ Cardinality(Chain(0)) \in 0 .. MaxNodes
         /\ \A n : n \notin Chain(0) => Cardinality(Chain(0) \cup {n}) = Cardinality(Chain(0)) + 1
         /\ \A n \in Chain(0) : Cardinality(Chain(0) \ {n}) = Cardinality(Chain(0)) - 1
<1>1. Chain(0) \subseteq NodeIds
  BY LevelFacts, PlacesAre DEF LevelsAre, Levels
<1>2. IsFiniteSet(NodeIds) /\ Cardinality(NodeIds) = MaxNodes
  BY PlacesAre, FS_Interval DEF NodeIds
<1>3. IsFiniteSet(Chain(0)) /\ Cardinality(Chain(0)) <= MaxNodes
  BY <1>1, <1>2, FS_Subset
<1>4. Cardinality(Chain(0)) \in Nat
  BY <1>3, FS_CardinalityType
<1>5. \A n : n \notin Chain(0) => Cardinality(Chain(0) \cup {n}) = Cardinality(Chain(0)) + 1
  BY <1>3, FS_AddElement
<1>6. \A n \in Chain(0) : Cardinality(Chain(0) \ {n}) = Cardinality(Chain(0)) - 1
  BY <1>3, FS_RemoveElement
<1> QED
  BY <1>3, <1>4, <1>5, <1>6, PlacesAre

\* What one turn of the linking loop does to pointers and chains.
LEMMA LinkEffect ==
  ASSUME Structure, Link,
         NEW l, l = op.level, NEW n, n = op.node, NEW p, p = op.update[l]
  PROVE  /\ Shape' /\ RankOf' = RankOf /\ nodes' = nodes /\ skipListLevel' = skipListLevel
         /\ l \in Levels /\ l \in Nat /\ l < skipListLevel
         /\ n \in DOMAIN nodes /\ n \in NodeIds /\ n \notin Chain(l)
         /\ p \in Places /\ p \in At(l) /\ n # p
         /\ \A q \in Places, i \in Levels :
              forward'[q][i] = CASE i = l /\ q = p -> n
                                 [] i = l /\ q = n -> forward[p][l]
                                 [] OTHER -> forward[q][i]
         /\ Chain(l)' = Chain(l) \cup {n}
         /\ \A i \in Levels : i # l => Chain(i)' = Chain(i) /\ At(i)' = At(i)
<1> DEFINE w == forward[p][l]
<1>1. /\ Shape /\ OpTypes /\ op.name = "link"
      /\ forward' = [forward EXCEPT ![n][l] = w, ![p][l] = n]
      /\ nodes' = nodes /\ skipListLevel' = skipListLevel
  BY DEF Structure, Link, LinkWith
<1>2. /\ l \in Levels /\ l \in Nat /\ l < skipListLevel /\ l # MaxLevel
      /\ n \in DOMAIN nodes /\ n \in NodeIds /\ n \in Places /\ p \in Places
      /\ skipListLevel \in Levels
  <2>1. l \in Levels /\ op.height \in Levels /\ skipListLevel \in Levels /\ p \in Places
    BY <1>1 DEF OpTypes, Shape, ListTypes
  <2>2. n \in DOMAIN nodes /\ l < op.height /\ op.height <= skipListLevel
    BY <1>1 DEF Structure, Linking
  <2> QED
    BY <1>1, <2>1, <2>2, ListFacts, PlacesAre DEF ListRanks, Levels, Places
<1>3. l >= l /\ l <= l /\ l < op.height
  BY <1>1, <1>2 DEF Structure, Linking
<1>4. /\ n \notin Chain(l) /\ forward[n][l] = NULL
      /\ p \in At(l) /\ RankOf[p] < RankOf[n] /\ (w # NULL => RankOf[n] < RankOf[w])
  BY <1>1, <1>2, <1>3 DEF Structure, Linking
<1> HIDE DEF w
<1>5. RankOf[n] \in Nat /\ RankOf[p] \in Nat
  BY <1>1, <1>2, ListFacts DEF ListRanks
<1>6. n # p
  BY <1>4, <1>5
<1>7. w \in NodeIds \cup {NULL}
  BY <1>1, <1>2 DEF w, Shape, ListTypes
<1>8. forward \in [Places -> [Levels -> NodeIds \cup {NULL}]]
  BY <1>1 DEF Shape, ListTypes
<1>9. forward' \in [Places -> [Levels -> NodeIds \cup {NULL}]]
  BY <1>1, <1>2, <1>7, <1>8
<1>10. \A q \in Places, i \in Levels :
         forward'[q][i] = CASE i = l /\ q = p -> n
                            [] i = l /\ q = n -> w
                            [] OTHER -> forward[q][i]
  BY <1>1, <1>2, <1>6, <1>8
<1>11. p = Header \/ p \in DOMAIN nodes
  BY <1>1, <1>2, <1>4, LevelFacts DEF LevelsAre, At
<1>12. \A q \in NodeIds \ DOMAIN nodes : forward'[q][l] = forward[q][l]
  BY <1>2, <1>10, <1>11, PlacesAre DEF Places
<1>13. \A q \in Places : forward'[q][l] # NULL => RankOf[q] < RankOf[forward'[q][l]]
  <2> SUFFICES ASSUME NEW q \in Places, forward'[q][l] # NULL
               PROVE  RankOf[q] < RankOf[forward'[q][l]]
    OBVIOUS
  <2>1. CASE q = p
    BY <1>2, <1>4, <1>10, <2>1
  <2>2. CASE q = n /\ q # p
    BY <1>2, <1>4, <1>10, <2>2
  <2>3. CASE q # n /\ q # p
    <3>1. forward'[q][l] = forward[q][l]
      BY <1>2, <1>10, <2>3
    <3> QED
      BY <1>1, <1>2, <3>1, NextIs
  <2> QED
    BY <2>1, <2>2, <2>3
<1>14. /\ Shape' /\ RankOf' = RankOf
       /\ \A i \in Levels : i # l => Chain(i)' = Chain(i) /\ At(i)' = At(i)
  <2>1. \A q \in Places, i \in Levels : i # l => forward'[q][i] = forward[q][i]
    BY <1>10
  <2>2. skipListLevel' \in Levels
    BY <1>1, <1>2
  <2> QED
    BY <1>1, <1>2, <1>9, <1>12, <1>13, <2>1, <2>2, ShapeKept
<1>15. Chain(l)' = Chain(l) \cup {n}
  <2>1. NextAt(l) \in Nexts /\ Chain(l) = Linked(NextAt(l)) /\ At(l) = OnChain(NextAt(l))
    BY <1>1, <1>2, LevelFacts DEF LevelsAre
  <2>2. NextAt(l)' = [q \in Places |-> forward'[q][l]] /\ NextAt(l) = [q \in Places |-> forward[q][l]]
    BY DEF NextAt
  <2>3. NextAt(l)' = [NextAt(l) EXCEPT ![n] = NextAt(l)[p], ![p] = n]
    BY <1>2, <1>6, <1>10, <2>2 DEF w
  <2>4. Linked(NextAt(l)') = Linked(NextAt(l)) \cup {n}
    BY <1>2, <1>4, <2>1, <2>3, LinkAdds
  <2> QED
    BY <1>2, <1>14, <2>1, <2>4, FactsAfter
<1> QED
  BY <1>1, <1>2, <1>4, <1>6, <1>10, <1>14, <1>15 DEF w

\* One more turn of the linking loop.
LEMMA LinkKeeps ==
  ASSUME Structure, Link PROVE Structure'
<1> SUFFICES ASSUME NEW l, l = op.level, NEW n, n = op.node, NEW p, p = op.update[l]
             PROVE  Structure'
  OBVIOUS
<1>1. /\ Shape /\ Shape' /\ RankOf' = RankOf /\ nodes' = nodes /\ skipListLevel' = skipListLevel
      /\ l \in Levels /\ l \in Nat /\ l < skipListLevel
      /\ n \in DOMAIN nodes /\ n \in NodeIds /\ n \notin Chain(l)
      /\ p \in Places /\ p \in At(l) /\ n # p
  BY LinkEffect DEF Structure
<1>2. \A q \in Places, i \in Levels :
        forward'[q][i] = CASE i = l /\ q = p -> n
                           [] i = l /\ q = n -> forward[p][l]
                           [] OTHER -> forward[q][i]
  BY LinkEffect
<1>3. /\ Chain(l)' = Chain(l) \cup {n}
      /\ \A i \in Levels : i # l => Chain(i)' = Chain(i) /\ At(i)' = At(i)
  BY LinkEffect
<1>4. /\ 0 \in Levels /\ \A i \in Levels : i \in Nat /\ i <= MaxLevel
      /\ \A i \in Levels \ {0} : i - 1 \in Levels
      /\ MaxLevel \in Nat
  BY PlacesAre DEF Levels
<1>5. /\ op.name = "link" /\ OpTypes
      /\ op' = IF l + 1 = op.height THEN Idle ELSE [op EXCEPT !.level = l + 1]
      /\ elementCount' = IF l + 1 = op.height THEN elementCount + 1 ELSE elementCount
  BY DEF Link, LinkWith, Structure
<1>6. /\ l < op.height /\ op.height <= skipListLevel /\ op.height \in Levels /\ skipListLevel \in Levels
      /\ \A i \in Levels : i < l => n \in Chain(i)
      /\ \A i \in Levels : i >= l => n \notin Chain(i) /\ forward[n][i] = NULL
  BY <1>1, <1>5 DEF Structure, Linking, OpTypes, Shape, ListTypes
<1>7. /\ op'.name # "unlink"
      /\ op'.name = "link" => /\ l + 1 < op.height /\ op' = [op EXCEPT !.level = l + 1]
                              /\ op'.level = l + 1 /\ op'.node = n /\ op'.height = op.height
                              /\ op'.update = op.update
  BY <1>1, <1>4, <1>5, <1>6 DEF Idle, OpTypes
<1>8. OpTypes'
  <2>1. CASE l + 1 = op.height
    BY <1>4, <1>5, <2>1, PlacesAre DEF OpTypes, Idle
  <2>2. CASE l + 1 # op.height
    <3>1. l + 1 \in Levels
      BY <1>1, <1>4, <1>6 DEF Levels
    <3> QED
      BY <1>5, <2>2, <3>1 DEF OpTypes
  <2> QED
    BY <2>1, <2>2
<1>9. Levelled'
  <2>0. LevelsNested /\ \A m \in Chain(0) : \A i \in Levels : forward[m][i] # NULL => m \in Chain(i)
    BY DEF Structure, Levelled
  <2>1. ASSUME NEW i \in Levels \ {0}, NEW m \in Chain(i)' PROVE m \in Chain(i - 1)'
    <3>1. i \in Levels /\ i - 1 \in Levels /\ i \in Nat /\ i # 0
      BY <1>4
    <3>2. CASE m \in Chain(i)
      <4>1. m \in Chain(i - 1)
        BY <1>5, <2>0, <3>2 DEF LevelsNested
      <4> QED
        BY <1>3, <3>1, <4>1
    <3>3. CASE m \notin Chain(i)
      <4>1. i = l /\ m = n
        BY <1>3, <2>1, <3>1, <3>3
      <4>2. n \in Chain(i - 1) /\ i - 1 # l
        BY <1>1, <1>6, <3>1, <4>1
      <4> QED
        BY <1>3, <3>1, <4>1, <4>2
    <3> QED
      BY <3>2, <3>3
  <2>2. \A i \in Levels : Chain(i)' # {} => i <= skipListLevel'
    BY <1>1, <1>3, <1>4, <1>6, <2>0 DEF LevelsNested
  <2>3. ASSUME NEW m \in Chain(0)', NEW i \in Levels, forward'[m][i] # NULL PROVE m \in Chain(i)'
    <3>1. m \in Places
      BY <1>1, <1>4, <2>3, FactsAfter DEF Places
    <3>2. CASE i = l /\ m = p
      BY <1>1, <1>3, <1>4, <2>3, <3>2, FactsAfter, LevelFacts DEF LevelsAre, At
    <3>3. CASE i = l /\ m = n
      BY <1>3, <3>3
    <3>4. CASE ~(i = l /\ (m = p \/ m = n))
      <4>1. forward'[m][i] = forward[m][i]
        BY <1>2, <3>1, <3>4
      <4>2. CASE m = n
        BY <1>1, <1>3, <1>4, <1>6, <2>3, <3>4, <4>1, <4>2
      <4>3. CASE m # n
        <5>1. m \in Chain(0)
          BY <1>3, <1>4, <2>3, <4>3
        <5> QED
          BY <1>3, <2>0, <2>3, <4>1, <5>1
      <4> QED
        BY <4>2, <4>3
    <3> QED
      BY <3>2, <3>3, <3>4
  <2> QED
    BY <2>1, <2>2, <2>3 DEF Levelled, LevelsNested
<1>10. Linking'
  <2> SUFFICES ASSUME op'.name = "link" PROVE Linking'
    BY DEF Linking
  <2>1. op'.node \in DOMAIN nodes' /\ op'.level < op'.height /\ op'.height <= skipListLevel'
    BY <1>1, <1>6, <1>7
  <2>2. \A i \in Levels : i < l + 1 => n \in Chain(i)'
    BY <1>1, <1>3, <1>4, <1>6
  <2>3. \A i \in Levels : i >= l + 1 => n \notin Chain(i)' /\ forward'[n][i] = NULL
    <3> SUFFICES ASSUME NEW i \in Levels, i >= l + 1
                 PROVE  n \notin Chain(i)' /\ forward'[n][i] = NULL
      OBVIOUS
    <3>1. i # l /\ i >= l /\ n \in Places
      BY <1>1, <1>4 DEF Places
    <3> QED
      BY <1>2, <1>3, <1>6, <3>1
  <2>4. ASSUME NEW i \in Levels, l + 1 <= i, i < op.height
        PROVE  LET u == op.update[i]
               IN  /\ u \in At(i)' /\ RankOf[u] < RankOf[n]
                   /\ forward'[u][i] # NULL => RankOf[n] < RankOf[forward'[u][i]]
    <3> DEFINE u == op.update[i]
    <3>1. i # l /\ l <= i
      BY <1>1, <1>4, <2>4
    <3>2. /\ u \in At(i) /\ RankOf[u] < RankOf[n]
          /\ forward[u][i] # NULL => RankOf[n] < RankOf[forward[u][i]]
      BY <1>5, <2>4, <3>1 DEF Structure, Linking
    <3>3. u \in Places
      BY <1>5 DEF OpTypes
    <3> HIDE DEF u
    <3>4. forward'[u][i] = forward[u][i]
      BY <1>2, <3>1, <3>3
    <3> QED
      BY <1>3, <3>1, <3>2, <3>4 DEF u
  <2> QED
    BY <1>1, <1>7, <2>1, <2>2, <2>3, <2>4 DEF Linking
<1>11. Unlinking'
  BY <1>7 DEF Unlinking
<1>12. Counted'
  <2>1. /\ Cardinality(Chain(0)) \in Nat
        /\ n \notin Chain(0) => Cardinality(Chain(0) \cup {n}) = Cardinality(Chain(0)) + 1
    BY <1>1, CountFacts, PlacesAre
  <2>2. elementCount = IF l > 0 THEN Cardinality(Chain(0)) - 1 ELSE Cardinality(Chain(0))
    BY <1>5 DEF Structure, Counted
  <2>3. Cardinality(Chain(0)') = IF l > 0 THEN Cardinality(Chain(0)) ELSE Cardinality(Chain(0)) + 1
    <3>1. CASE l = 0
      <4>1. Chain(0)' = Chain(0) \cup {n} /\ n \notin Chain(0)
        BY <1>1, <1>3, <3>1
      <4>2. Cardinality(Chain(0) \cup {n}) = Cardinality(Chain(0)) + 1
        BY <2>1, <4>1
      <4>3. Cardinality(Chain(0)') = Cardinality(Chain(0)) + 1
        BY <4>1, <4>2
      <4> QED
        BY <3>1, <4>3
    <3>2. CASE l # 0
      <4>1. Chain(0)' = Chain(0) /\ l > 0
        BY <1>1, <1>3, <1>4, <3>2
      <4> QED
        BY <4>1
    <3> QED
      BY <3>1, <3>2
  <2>4. CASE l + 1 = op.height
    <3>1. op'.name = "idle" /\ elementCount' = elementCount + 1
      BY <1>5, <2>4 DEF Idle
    <3>2. elementCount' = Cardinality(Chain(0)')
      BY <1>1, <2>1, <2>2, <2>3, <3>1
    <3> QED
      BY <3>1, <3>2 DEF Counted
  <2>5. CASE l + 1 # op.height
    <3>1. op'.name = "link" /\ op'.level = l + 1 /\ elementCount' = elementCount
      BY <1>5, <2>5 DEF OpTypes
    <3>2. elementCount' = Cardinality(Chain(0)') - 1
      BY <1>1, <2>1, <2>2, <2>3, <3>1
    <3> QED
      BY <1>1, <3>1, <3>2 DEF Counted
  <2> QED
    BY <2>4, <2>5
<1> QED
  BY <1>1, <1>8, <1>9, <1>10, <1>11, <1>12 DEF Structure

\* delete_element has found the node.
LEMMA DeleteBeginsKeeps ==
  ASSUME Structure, NEW k \in Keys, DeleteBegins(k)
  PROVE  Structure' /\ \A i \in Levels : Chain(i)' = Chain(i)
<1> SUFFICES ASSUME NEW n, n = Find(k)
             PROVE  Structure' /\ \A i \in Levels : Chain(i)' = Chain(i)
  OBVIOUS
<1>1. Shape /\ LevelsNested /\ op = Idle /\ op.name = "idle" /\ k \in Nat /\ n # NULL
  BY SkipAssumption DEF DeleteBegins, Structure, Levelled, Idle
<1>2. /\ op' = [name |-> "unlink", node |-> n, height |-> 0, level |-> 0, update |-> Update(k)]
      /\ forward' = forward /\ nodes' = nodes /\ skipListLevel' = skipListLevel
      /\ elementCount' = elementCount
  BY DEF DeleteBegins, listVars
<1>3. 0 \in Levels /\ skipListLevel \in Nat /\ \A i \in Levels : i \in Nat
  BY <1>1, PlacesAre DEF Levels, Shape, ListTypes
<1>4. n \in Chain(0) /\ KeyOf(n) = k /\ n = forward[Update(k)[0]][0]
  BY <1>1, FindIs
<1>5. n \in DOMAIN nodes /\ n \in NodeIds
  BY <1>1, <1>3, <1>4, LevelFacts DEF LevelsAre
<1>6. RankOf[n] = k + 1
  BY <1>1, <1>4, <1>5, ListFacts DEF ListRanks
<1>7. /\ Shape' /\ RankOf' = RankOf
      /\ \A i \in Levels : Chain(i)' = Chain(i) /\ At(i)' = At(i)
  <2>1. ListTypes'
    BY <1>1, <1>2 DEF Shape, ListTypes
  <2>2. \A m \in DOMAIN nodes : KeyOf(m)' = KeyOf(m)
    BY <1>2 DEF KeyOf
  <2>3. RankOf' = RankOf
    BY <1>2 DEF RankOf, KeyOf
  <2> QED
    BY <1>1, <1>2, <2>1, <2>2, <2>3, PointersKept
<1>8. /\ Update(k) \in [Levels -> Places]
      /\ \A i \in Levels :
           LET u == Update(k)[i]
           IN  /\ u \in At(i) /\ RankOf[u] <= k
               /\ forward[u][i] # NULL => k < RankOf[forward[u][i]]
  BY <1>1, UpdateIs
<1>9. OpTypes'
  BY <1>2, <1>3, <1>5, <1>8 DEF OpTypes
<1>10. Levelled'
  BY <1>1, <1>2, <1>3, <1>7, LevelledKept DEF Structure
<1>11. Unlinking'
  <2>1. \A i \in Levels : ~(i < 0)
    BY <1>3
  <2>2. \A i \in Levels : 0 < i /\ n \in Chain(i)' => n \in Chain(i - 1)'
    <3> SUFFICES ASSUME NEW i \in Levels, 0 < i, n \in Chain(i) PROVE n \in Chain(i - 1)'
      BY <1>7
    <3>1. i - 1 \in Levels /\ i \in Levels \ {0}
      BY <1>3, PlacesAre DEF Levels
    <3> QED
      BY <1>1, <1>7, <3>1 DEF LevelsNested
  <2>3. ASSUME NEW i \in Levels
        PROVE  LET u == Update(k)[i]
               IN  /\ u \in At(i) /\ RankOf[u] < RankOf[n]
                   /\ forward[u][i] # NULL => RankOf[n] <= RankOf[forward[u][i]]
    <3> DEFINE u == Update(k)[i]
    <3>1. u \in At(i) /\ RankOf[u] <= k /\ (forward[u][i] # NULL => k < RankOf[forward[u][i]])
      BY <1>8
    <3>2. u \in Places
      BY <1>8
    <3> HIDE DEF u
    <3>3. RankOf[u] \in Nat
      BY <1>1, <3>2, ListFacts DEF ListRanks
    <3>4. forward[u][i] # NULL => RankOf[forward[u][i]] \in Nat
      BY <1>1, <3>2, NextIs
    <3>5. RankOf[u] < k + 1 /\ (forward[u][i] # NULL => k + 1 <= RankOf[forward[u][i]])
      BY <1>1, <3>1, <3>3, <3>4
    <3> QED
      BY <1>6, <3>1, <3>5 DEF u
  <2>4. \A i \in Levels : forward[n][i] # NULL => forward[n][i] \in Chain(i)
    <3> SUFFICES ASSUME NEW i \in Levels, forward[n][i] # NULL PROVE forward[n][i] \in Chain(i)
      OBVIOUS
    <3>1. n \in Chain(i) /\ n \in At(i)
      BY <1>4 DEF Structure, Levelled, At
    <3> QED
      BY <1>1, <3>1, LevelFacts DEF LevelsAre
  <2> QED
    BY <1>2, <1>4, <1>5, <1>7, <2>1, <2>2, <2>3, <2>4 DEF Unlinking
<1>12. Linking'
  BY <1>2 DEF Linking
<1>13. Counted'
  BY <1>1, <1>2, <1>3, <1>7 DEF Structure, Counted
<1> QED
  BY <1>7, <1>9, <1>10, <1>11, <1>12, <1>13 DEF Structure

\* What one turn of the unlinking loop does to pointers and chains.
LEMMA UnlinkEffect ==
  ASSUME Structure, Unlink,
         NEW l, l = op.level, NEW n, n = op.node, NEW p, p = op.update[l]
  PROVE  /\ Shape' /\ RankOf' = RankOf /\ nodes' = nodes /\ skipListLevel' = skipListLevel
         /\ l \in Levels /\ l \in Nat /\ l <= skipListLevel /\ l < MaxLevel
         /\ n \in DOMAIN nodes /\ n \in NodeIds /\ n \in Chain(l)
         /\ p \in Places /\ p \in At(l) /\ n # p
         /\ forward[n][l] # NULL => forward[n][l] # n /\ forward[n][l] \in Chain(l)
         /\ \A q \in Places, i \in Levels :
              forward'[q][i] = IF i = l /\ q = p THEN forward[n][l] ELSE forward[q][i]
         /\ Chain(l)' = Chain(l) \ {n}
         /\ \A i \in Levels : i # l => Chain(i)' = Chain(i) /\ At(i)' = At(i)
<1> DEFINE w == forward[n][l]
<1>1. /\ Shape /\ OpTypes /\ op.name = "unlink"
      /\ forward' = [forward EXCEPT ![p][l] = w]
      /\ nodes' = nodes /\ skipListLevel' = skipListLevel
      /\ l <= skipListLevel /\ forward[p][l] = n
  BY DEF Structure, Unlink, AtNode
<1>2. /\ l \in Levels /\ l \in Nat /\ p \in Places /\ skipListLevel \in Levels
      /\ n \in DOMAIN nodes /\ n \in NodeIds /\ n \in Places /\ n # NULL
  <2>1. l \in Levels /\ skipListLevel \in Levels /\ p \in Places
    BY <1>1 DEF OpTypes, Shape, ListTypes
  <2>2. n \in DOMAIN nodes
    BY <1>1 DEF Structure, Unlinking
  <2> QED
    BY <1>1, <2>1, <2>2, ListFacts, PlacesAre DEF ListRanks, Levels, Places
<1>3. l # MaxLevel
  BY <1>1, <1>2 DEF Shape, TopUnused
<1>4. l < MaxLevel
  BY <1>2, <1>3, PlacesAre DEF Levels
<1>5. p \in At(l) /\ RankOf[p] < RankOf[n]
  BY <1>1, <1>2 DEF Structure, Unlinking
<1>6. n \in Chain(l)
  BY <1>1, <1>2, <1>5, LevelFacts DEF LevelsAre
<1>7. n \in At(l)
  BY <1>6 DEF At
<1> HIDE DEF w
<1>8. RankOf[n] \in Nat /\ RankOf[p] \in Nat
  BY <1>1, <1>2, ListFacts DEF ListRanks
<1>9. n # p
  BY <1>5, <1>8
<1>10. w # NULL => /\ w \in Chain(l) /\ RankOf[n] < RankOf[w] /\ RankOf[w] \in Nat
                   /\ w # n
  <2> SUFFICES ASSUME w # NULL
               PROVE  w \in Chain(l) /\ RankOf[n] < RankOf[w] /\ RankOf[w] \in Nat /\ w # n
    OBVIOUS
  <2>1. w \in Chain(l)
    BY <1>1, <1>2, <1>7, LevelFacts DEF LevelsAre, w
  <2>2. RankOf[n] < RankOf[w] /\ w \in Places
    BY <1>1, <1>2, NextIs DEF w
  <2>3. RankOf[w] \in Nat
    BY <1>1, <2>2, ListFacts DEF ListRanks
  <2> QED
    BY <1>8, <2>1, <2>2, <2>3
<1>11. w \in NodeIds \cup {NULL}
  BY <1>1, <1>2 DEF w, Shape, ListTypes
<1>12. forward \in [Places -> [Levels -> NodeIds \cup {NULL}]]
  BY <1>1 DEF Shape, ListTypes
<1>13. forward' \in [Places -> [Levels -> NodeIds \cup {NULL}]]
  BY <1>1, <1>2, <1>11, <1>12
<1>14. \A q \in Places, i \in Levels :
         forward'[q][i] = IF i = l /\ q = p THEN w ELSE forward[q][i]
  BY <1>1, <1>2, <1>12
<1>15. p = Header \/ p \in DOMAIN nodes
  BY <1>1, <1>2, <1>5, LevelFacts DEF LevelsAre, At
<1>16. \A q \in NodeIds \ DOMAIN nodes : forward'[q][l] = forward[q][l]
  BY <1>2, <1>14, <1>15, PlacesAre DEF Places
<1>17. \A q \in Places : forward'[q][l] # NULL => RankOf[q] < RankOf[forward'[q][l]]
  <2> SUFFICES ASSUME NEW q \in Places, forward'[q][l] # NULL
               PROVE  RankOf[q] < RankOf[forward'[q][l]]
    OBVIOUS
  <2>1. CASE q = p
    BY <1>2, <1>5, <1>8, <1>10, <1>14, <2>1
  <2>2. CASE q # p
    <3>1. forward'[q][l] = forward[q][l]
      BY <1>2, <1>14, <2>2
    <3> QED
      BY <1>1, <1>2, <3>1, NextIs
  <2> QED
    BY <2>1, <2>2
<1>18. /\ Shape' /\ RankOf' = RankOf
       /\ \A i \in Levels : i # l => Chain(i)' = Chain(i) /\ At(i)' = At(i)
  <2>1. \A q \in Places, i \in Levels : i # l => forward'[q][i] = forward[q][i]
    BY <1>14
  <2>2. skipListLevel' \in Levels
    BY <1>1, <1>2
  <2> QED
    BY <1>1, <1>2, <1>3, <1>13, <1>16, <1>17, <2>1, <2>2, ShapeKept
<1>19. Chain(l)' = Chain(l) \ {n}
  <2>1. /\ NextAt(l) \in Nexts /\ Rising(NextAt(l), RankOf)
        /\ Chain(l) = Linked(NextAt(l)) /\ At(l) = OnChain(NextAt(l))
    BY <1>1, <1>2, LevelFacts DEF LevelsAre
  <2>2. NextAt(l)' = [q \in Places |-> forward'[q][l]] /\ NextAt(l) = [q \in Places |-> forward[q][l]]
    BY DEF NextAt
  <2>3. n = NextAt(l)[p] /\ NextAt(l)[n] = w
    BY <1>1, <1>2, <2>2 DEF w
  <2>4. RankOf \in [Places -> Nat] /\ RankOf[Header] = 0
    BY <1>1, ListFacts DEF ListRanks
  <2>5. NextAt(l)' = [NextAt(l) EXCEPT ![p] = NextAt(l)[n]]
    <3>1. \A q \in Places : NextAt(l)'[q] = IF q = p THEN w ELSE NextAt(l)[q]
      BY <1>2, <1>14, <2>2
    <3> QED
      BY <2>2, <2>3, <3>1
  <2>6. p \in OnChain(NextAt(l)) /\ n # NULL
    BY <1>2, <1>5, <2>1
  <2>7. Linked(NextAt(l)') = Linked(NextAt(l)) \ {n}
    <3> DEFINE f == NextAt(l)'
               g == NextAt(l)
               r == RankOf
    <3>1. f = [g EXCEPT ![p] = g[n]] /\ n = g[p]
      BY <2>3, <2>5
    <3>2. g \in Nexts /\ p \in OnChain(g) /\ n # NULL
      BY <2>1, <2>6
    <3>3. r \in [Places -> Nat] /\ r[Header] = 0 /\ Rising(g, r)
      BY <2>1, <2>4
    <3> HIDE DEF f, g, r
    <3>4. Linked([g EXCEPT ![p] = g[g[p]]]) = Linked(g) \ {g[p]}
      BY <3>1, <3>2, <3>3, UnlinkRemoves
    <3>5. Linked(f) = Linked(g) \ {n}
      BY <3>1, <3>4
    <3> QED
      BY <3>5 DEF f, g
  <2> QED
    BY <1>2, <1>18, <2>1, <2>7, FactsAfter
<1> QED
  BY <1>1, <1>2, <1>4, <1>5, <1>6, <1>9, <1>10, <1>14, <1>18, <1>19 DEF w

\* One more turn of the unlinking loop.
LEMMA UnlinkKeeps ==
  ASSUME Structure, Unlink PROVE Structure'
<1> SUFFICES ASSUME NEW l, l = op.level, NEW n, n = op.node, NEW p, p = op.update[l]
             PROVE  Structure'
  OBVIOUS
<1>1. /\ Shape /\ Shape' /\ RankOf' = RankOf /\ nodes' = nodes /\ skipListLevel' = skipListLevel
      /\ l \in Levels /\ l \in Nat /\ l <= skipListLevel /\ l < MaxLevel
      /\ n \in DOMAIN nodes /\ n \in NodeIds /\ n \in Chain(l)
      /\ p \in Places /\ p \in At(l) /\ n # p
      /\ forward[n][l] # NULL => forward[n][l] # n /\ forward[n][l] \in Chain(l)
  BY UnlinkEffect DEF Structure
<1>2. \A q \in Places, i \in Levels :
        forward'[q][i] = IF i = l /\ q = p THEN forward[n][l] ELSE forward[q][i]
  BY UnlinkEffect
<1>3. /\ Chain(l)' = Chain(l) \ {n}
      /\ \A i \in Levels : i # l => Chain(i)' = Chain(i) /\ At(i)' = At(i)
  BY UnlinkEffect
<1>4. /\ 0 \in Levels /\ \A i \in Levels : i \in Nat /\ i <= MaxLevel
      /\ \A i \in Levels \ {0} : i - 1 \in Levels
      /\ MaxLevel \in Nat /\ l + 1 \in Levels
  BY <1>1, PlacesAre DEF Levels
<1>5. /\ op.name = "unlink" /\ OpTypes /\ op' = [op EXCEPT !.level = l + 1]
      /\ elementCount' = elementCount
  BY DEF Unlink, Structure
<1>6. /\ OpTypes' /\ op'.name = "unlink" /\ op'.level = l + 1 /\ op'.node = n
      /\ op'.update = op.update
  BY <1>4, <1>5 DEF OpTypes
<1>7. /\ \A i \in Levels : i < l => n \notin Chain(i)
      /\ \A i \in Levels : l < i /\ n \in Chain(i) => n \in Chain(i - 1)
      /\ \A i \in Levels : forward[n][i] # NULL => forward[n][i] \in Chain(i)
  BY <1>5 DEF Structure, Unlinking
<1>8. Levelled'
  <2>0. LevelsNested /\ \A m \in Chain(0) : \A i \in Levels : forward[m][i] # NULL => m \in Chain(i)
    BY DEF Structure, Levelled
  <2>1. ASSUME NEW i \in Levels \ {0}, NEW m \in Chain(i)', m # n PROVE m \in Chain(i - 1)'
    <3>1. i \in Levels /\ i - 1 \in Levels
      BY <1>4
    <3>2. m \in Chain(i)
      BY <1>3, <2>1, <3>1
    <3>3. m \in Chain(i - 1)
      BY <1>5, <2>0, <2>1, <3>2 DEF LevelsNested
    <3> QED
      BY <1>3, <2>1, <3>1, <3>3
  <2>2. \A i \in Levels : Chain(i)' # {} => i <= skipListLevel'
    BY <1>1, <1>3, <1>4, <2>0 DEF LevelsNested
  <2>3. LevelsNested'
    BY <1>6, <2>1, <2>2 DEF LevelsNested
  <2>4. ASSUME NEW m \in Chain(0)', NEW i \in Levels, forward'[m][i] # NULL PROVE m \in Chain(i)'
    <3>1. m \in Chain(0) /\ m # n
      <4>1. CASE l = 0
        BY <1>3, <2>4, <4>1
      <4>2. CASE l # 0
        BY <1>1, <1>3, <1>4, <1>7, <2>4, <4>2
      <4> QED
        BY <4>1, <4>2
    <3>2. m \in Places /\ m # Header
      BY <1>1, <1>4, <3>1, LevelFacts, PlacesAre DEF LevelsAre
    <3>3. CASE i = l /\ m = p
      BY <1>1, <1>3, <3>1, <3>2, <3>3 DEF At
    <3>4. CASE ~(i = l /\ m = p)
      <4>1. forward'[m][i] = forward[m][i]
        BY <1>2, <3>2, <3>4
      <4>2. m \in Chain(i)
        BY <2>0, <2>4, <3>1, <4>1
      <4> QED
        BY <1>3, <3>1, <4>2
    <3> QED
      BY <3>3, <3>4
  <2> QED
    BY <2>3, <2>4 DEF Levelled
<1>9. Unlinking'
  <2>1. \A i \in Levels : i < l + 1 => n \notin Chain(i)'
    <3> SUFFICES ASSUME NEW i \in Levels, i < l + 1 PROVE n \notin Chain(i)'
      OBVIOUS
    <3>1. CASE i = l
      BY <1>3, <3>1
    <3>2. CASE i # l
      BY <1>1, <1>3, <1>4, <1>7, <3>2
    <3> QED
      BY <3>1, <3>2
  <2>2. \A i \in Levels : l + 1 < i /\ n \in Chain(i)' => n \in Chain(i - 1)'
    <3> SUFFICES ASSUME NEW i \in Levels, l + 1 < i, n \in Chain(i)' PROVE n \in Chain(i - 1)'
      OBVIOUS
    <3>1. i # l /\ l < i /\ i - 1 \in Levels /\ i - 1 # l
      BY <1>1, <1>4
    <3> QED
      BY <1>3, <1>7, <3>1
  <2>3. ASSUME NEW i \in Levels, l + 1 <= i, i <= skipListLevel
        PROVE  LET u == op.update[i]
               IN  /\ u \in At(i)' /\ RankOf[u] < RankOf[n]
                   /\ forward'[u][i] # NULL => RankOf[n] <= RankOf[forward'[u][i]]
    <3> DEFINE u == op.update[i]
    <3>1. i # l /\ l <= i
      BY <1>1, <1>4, <2>3
    <3>2. /\ u \in At(i) /\ RankOf[u] < RankOf[n]
          /\ forward[u][i] # NULL => RankOf[n] <= RankOf[forward[u][i]]
      BY <1>5, <2>3, <3>1 DEF Structure, Unlinking
    <3>3. u \in Places
      BY <1>5 DEF OpTypes
    <3> HIDE DEF u
    <3>4. forward'[u][i] = forward[u][i]
      BY <1>2, <3>1, <3>3
    <3> QED
      BY <1>3, <3>1, <3>2, <3>4 DEF u
  <2>4. l + 1 # 0
    BY <1>1
  <2>5. \A i \in Levels : forward'[n][i] # NULL => forward'[n][i] \in Chain(i)'
    <3> SUFFICES ASSUME NEW i \in Levels, forward'[n][i] # NULL PROVE forward'[n][i] \in Chain(i)'
      OBVIOUS
    <3>1. forward'[n][i] = forward[n][i]
      BY <1>1, <1>2 DEF Places
    <3> QED
      BY <1>1, <1>3, <1>7, <3>1
  <2> QED
    BY <1>1, <1>6, <2>1, <2>2, <2>3, <2>4, <2>5 DEF Unlinking
<1>10. Linking'
  BY <1>6 DEF Linking
<1>11. Counted'
  <2>1. /\ Cardinality(Chain(0)) \in Nat
        /\ n \in Chain(0) => Cardinality(Chain(0) \ {n}) = Cardinality(Chain(0)) - 1
    BY <1>1, CountFacts, PlacesAre
  <2>2. elementCount = IF l > 0 THEN Cardinality(Chain(0)) + 1 ELSE Cardinality(Chain(0))
    BY <1>5 DEF Structure, Counted
  <2>3. elementCount = Cardinality(Chain(0)') + 1
    <3>1. CASE l = 0
      <4>1. Chain(0)' = Chain(0) \ {n} /\ n \in Chain(0)
        BY <1>1, <1>3, <3>1
      <4>2. Cardinality(Chain(0) \ {n}) = Cardinality(Chain(0)) - 1
        BY <2>1, <4>1
      <4>3. Cardinality(Chain(0)') = Cardinality(Chain(0)) - 1
        BY <4>1, <4>2
      <4> QED
        BY <2>1, <2>2, <3>1, <4>3
    <3>2. CASE l # 0
      <4>1. Chain(0)' = Chain(0) /\ l > 0
        BY <1>1, <1>3, <1>4, <3>2
      <4> QED
        BY <2>2, <4>1
    <3> QED
      BY <3>1, <3>2
  <2> QED
    BY <1>1, <1>5, <1>6, <2>3 DEF Counted
<1> QED
  BY <1>1, <1>6, <1>8, <1>9, <1>10, <1>11 DEF Structure

\* A chain is empty when the header points nowhere.
LEMMA EmptyChain ==
  ASSUME Shape, NEW i \in Levels, forward[Header][i] = NULL
  PROVE  Chain(i) = {}
<1>1. Closed(NextAt(i), {Header}) /\ {Header} \subseteq Places
  BY PlacesAre DEF Closed, NextAt
<1>2. OnChain(NextAt(i)) \subseteq {Header}
  BY <1>1, LinkedLeast
<1> QED
  BY <1>2, LevelFacts DEF LevelsAre

\* The same for every level, in a form that can be used of a later state.
LEMMA EmptyChains == Shape => \A i \in Levels : forward[Header][i] = NULL => Chain(i) = {}
BY EmptyChain

\* Where the unlinking loop breaks off the node is in no chain any more.
LEMMA NodeIsGone ==
  ASSUME Structure, op.name = "unlink", ~AtNode
  PROVE  op.level > 0 /\ \A i \in Levels : op.node \notin Chain(i)
<1> SUFFICES ASSUME NEW l, l = op.level, NEW n, n = op.node, NEW p, p = op.update[l]
             PROVE  l > 0 /\ \A i \in Levels : n \notin Chain(i)
  OBVIOUS
<1>1. Shape /\ OpTypes /\ LevelsNested /\ ~(l <= skipListLevel /\ forward[p][l] = n)
  BY DEF Structure, Levelled, AtNode
<1>2. /\ l \in Levels /\ l \in Nat /\ p \in Places /\ skipListLevel \in Nat
      /\ 0 \in Levels /\ \A i \in Levels : i \in Nat
  BY <1>1, PlacesAre DEF OpTypes, Levels, Shape, ListTypes
<1>3. /\ \A i \in Levels : i < l => n \notin Chain(i)
      /\ \A i \in Levels : l < i /\ n \in Chain(i) => n \in Chain(i - 1)
      /\ l = 0 => forward[p][0] = n
      /\ n \in DOMAIN nodes
  BY DEF Structure, Unlinking
<1>4. l > 0
  BY <1>1, <1>2, <1>3
<1>5. n \notin Chain(l)
  <2>1. CASE l > skipListLevel
    BY <1>1, <1>2, <2>1 DEF LevelsNested
  <2>2. CASE l <= skipListLevel
    <3>1. /\ p \in At(l) /\ RankOf[p] < RankOf[n]
          /\ forward[p][l] # NULL => RankOf[n] <= RankOf[forward[p][l]]
      BY <1>2, <2>2 DEF Structure, Unlinking
    <3>2. SUFFICES ASSUME n \in Chain(l) PROVE FALSE
      OBVIOUS
    <3>3. n \in At(l)
      BY <3>2 DEF At
    <3>4. forward[p][l] # NULL /\ RankOf[forward[p][l]] <= RankOf[n]
      BY <1>1, <1>2, <3>1, <3>3, Between
    <3>5. forward[p][l] \in Chain(l) /\ forward[p][l] \in At(l) /\ At(l) \subseteq Places
      BY <1>1, <1>2, <3>1, <3>4, LevelFacts DEF LevelsAre, At
    <3>6. RankOf[forward[p][l]] = RankOf[n]
      BY <1>1, <3>1, <3>3, <3>4, <3>5, ListFacts DEF ListRanks
    <3>7. forward[p][l] = n
      BY <1>1, <1>2, <3>3, <3>5, <3>6, Between
    <3> QED
      BY <1>1, <2>2, <3>7
  <2> QED
    BY <1>2, <2>1, <2>2
<1> DEFINE S == {j \in Nat : l + j \in Levels => n \notin Chain(l + j)}
<1>6. 0 \in S
  BY <1>2, <1>5
<1>7. ASSUME NEW j \in Nat, j \in S PROVE j + 1 \in S
  <2> SUFFICES ASSUME NEW m \in Levels, m = l + (j + 1), n \in Chain(m) PROVE FALSE
    OBVIOUS
  <2>1. l + j \in Levels /\ m - 1 = l + j /\ l < m
    BY <1>2, PlacesAre DEF Levels
  <2>2. n \in Chain(m - 1)
    BY <1>3, <2>1
  <2>3. n \in Chain(l + j)
    BY <2>1, <2>2
  <2> QED
    BY <1>7, <2>1, <2>3
<1>8. Nat \subseteq S
  <2> HIDE DEF S
  <2> QED
    BY <1>6, <1>7, SetInduction
<1>9. ASSUME NEW i \in Levels PROVE n \notin Chain(i)
  <2> HIDE DEF S
  <2>1. CASE i < l
    <3>1. \A j \in Levels : j < l => n \notin Chain(j)
      BY <1>3
    <3> QED
      BY <2>1, <3>1
  <2>2. CASE ~(i < l)
    <3>1. i - l \in Nat /\ l + (i - l) = i
      BY <1>2, <2>2
    <3>2. i - l \in S
      BY <1>8, <3>1
    <3> QED
      BY <3>1, <3>2 DEF S
  <2> QED
    BY <2>1, <2>2
<1> QED
  BY <1>4, <1>9

\* The level of the list goes down by one.
LEMMA LowerKeeps ==
  ASSUME Structure, Lower
  PROVE  Structure' /\ \A i \in Levels : Chain(i)' = Chain(i)
<1>1. /\ Shape /\ OpTypes /\ Levelled /\ op.name = "unlink" /\ ~AtNode
      /\ skipListLevel > 0 /\ forward[Header][skipListLevel] = NULL
      /\ skipListLevel' = skipListLevel - 1
      /\ forward' = forward /\ nodes' = nodes /\ elementCount' = elementCount /\ op' = op
  BY DEF Structure, Lower, EmptyTop
<1>2. /\ skipListLevel \in Levels /\ skipListLevel \in Nat /\ skipListLevel' \in Levels
      /\ 0 \in Levels /\ \A i \in Levels : i \in Nat
  BY <1>1, PlacesAre DEF Levels, Shape, ListTypes
<1>3. /\ Shape' /\ RankOf' = RankOf
      /\ \A i \in Levels : Chain(i)' = Chain(i) /\ At(i)' = At(i)
  <2>1. ListTypes'
    BY <1>1, <1>2 DEF Shape, ListTypes
  <2>2. \A m \in DOMAIN nodes : KeyOf(m)' = KeyOf(m)
    BY <1>1 DEF KeyOf
  <2>3. RankOf' = RankOf
    BY <1>1 DEF RankOf, KeyOf
  <2> QED
    BY <1>1, <2>1, <2>2, <2>3, PointersKept
<1>4. OpTypes'
  BY <1>1 DEF OpTypes
<1>5. Levelled'
  <2>0. \A i \in Levels \ {0} : i - 1 \in Levels
    BY PlacesAre DEF Levels
  <2>1. \A i \in Levels : Chain(i) # {} => i <= skipListLevel /\ i # skipListLevel
    BY <1>1, <1>2, EmptyChain DEF Levelled, LevelsNested
  <2>2. \A i \in Levels : Chain(i)' # {} => i <= skipListLevel'
    BY <1>1, <1>2, <1>3, <2>1
  <2>3. \A i \in Levels \ {0} : \A m \in Chain(i)' :
          m \in Chain(i - 1)' \/ (op'.name = "unlink" /\ op'.node = m)
    BY <1>1, <1>3, <2>0 DEF Levelled, LevelsNested
  <2> QED
    BY <1>1, <1>2, <1>3, <2>2, <2>3 DEF Levelled, LevelsNested
<1>6. Unlinking'
  <2>1. \A i \in Levels : op.level < i => i - 1 \in Levels
    BY <1>1, PlacesAre DEF Levels, OpTypes
  <2>2. \A i \in Levels : i <= skipListLevel' => i <= skipListLevel
    BY <1>1, <1>2
  <2> QED
    BY <1>1, <1>2, <1>3, <2>1, <2>2 DEF Structure, Unlinking
<1>7. Linking'
  BY <1>1 DEF Linking
<1>8. Counted'
  BY <1>1, <1>2, <1>3 DEF Structure, Counted
<1> QED
  BY <1>3, <1>4, <1>5, <1>6, <1>7, <1>8 DEF Structure

\* delete_element counts the node and returns.
LEMMA DeleteEndsKeeps ==
  ASSUME Structure, DeleteEnds
  PROVE  Structure' /\ \A i \in Levels : Chain(i)' = Chain(i)
<1>1. /\ Shape /\ OpTypes /\ Levelled /\ op.name = "unlink" /\ ~AtNode
      /\ forward' = forward /\ nodes' = nodes /\ skipListLevel' = skipListLevel
      /\ elementCount' = elementCount - 1 /\ op' = Idle
  BY DEF Structure, DeleteEnds
<1>2. /\ skipListLevel \in Nat /\ 0 \in Levels /\ \A i \in Levels : i \in Nat
      /\ \A i \in Levels \ {0} : i - 1 \in Levels
  BY <1>1, PlacesAre DEF Levels, Shape, ListTypes
<1>3. op.level > 0 /\ \A i \in Levels : op.node \notin Chain(i)
  BY <1>1, NodeIsGone
<1>4. /\ Shape' /\ RankOf' = RankOf
      /\ \A i \in Levels : Chain(i)' = Chain(i) /\ At(i)' = At(i)
  <2>1. ListTypes'
    BY <1>1 DEF Shape, ListTypes
  <2>2. \A m \in DOMAIN nodes : KeyOf(m)' = KeyOf(m)
    BY <1>1 DEF KeyOf
  <2>3. RankOf' = RankOf
    BY <1>1 DEF RankOf, KeyOf
  <2> QED
    BY <1>1, <2>1, <2>2, <2>3, PointersKept
<1>5. OpTypes' /\ op'.name = "idle"
  BY <1>1, <1>2, PlacesAre DEF OpTypes, Idle
<1>6. Levelled'
  <2>1. \A i \in Levels \ {0} : \A m \in Chain(i)' : m \in Chain(i - 1)'
    BY <1>1, <1>2, <1>3, <1>4 DEF Levelled, LevelsNested
  <2>2. \A i \in Levels : Chain(i)' # {} => i <= skipListLevel'
    BY <1>1, <1>4 DEF Levelled, LevelsNested
  <2> QED
    BY <1>1, <1>2, <1>4, <2>1, <2>2 DEF Levelled, LevelsNested
<1>7. Linking' /\ Unlinking'
  BY <1>5 DEF Linking, Unlinking
<1>8. Counted'
  <2>1. Cardinality(Chain(0)) \in Nat
    BY <1>1, CountFacts, PlacesAre
  <2>2. elementCount = Cardinality(Chain(0)) + 1
    BY <1>1, <1>3 DEF Structure, Counted
  <2>3. elementCount' = Cardinality(Chain(0)')
    BY <1>1, <1>2, <1>4, <2>1, <2>2
  <2> QED
    BY <1>5, <2>3 DEF Counted
<1> QED
  BY <1>4, <1>5, <1>6, <1>7, <1>8 DEF Structure

\* clear() leaves an empty list.
LEMMA ClearKeeps ==
  ASSUME Structure, Clear
  PROVE  Structure' /\ \A i \in Levels : Chain(i)' = {}
<1>1. /\ Shape /\ op = Idle /\ op' = op
      /\ elementCount' = elementCount - Cardinality(Chain(0))
      /\ forward' = [q \in Places |-> [i \in Levels |-> IF q = Header /\ i = MaxLevel
                                                        THEN forward[q][i] ELSE NULL]]
      /\ nodes' = <<>> /\ skipListLevel' = 0
  BY DEF Structure, Clear, ClearTo
<1>2. /\ 0 \in Levels /\ \A i \in Levels : i \in Nat
      /\ Header \in Places /\ MaxLevel \in Levels /\ MaxNodes \in Nat
  BY PlacesAre DEF Levels
<1>3. \A q \in Places, i \in Levels : forward'[q][i] = NULL
  BY <1>1, <1>2 DEF Shape, TopUnused
<1>4. ListTypes'
  <2>1. forward' = [q \in Places |-> [i \in Levels |-> NULL]]
    BY <1>1, <1>2 DEF Shape, TopUnused
  <2>2. nodes' \in [1 .. 0 -> [key : Keys, val : Vals]] /\ 0 \in 0 .. MaxNodes
    BY <1>1, <1>2
  <2> QED
    BY <1>1, <1>2, <2>1, <2>2 DEF ListTypes
<1>5. Shape'
  <2>1. \A i \in Levels : \A q \in Places : NextAt(i)'[q] = NULL
    BY <1>3 DEF NextAt
  <2>2. Ascending'
    BY <2>1 DEF Ascending, Rising
  <2>3. Fresh' /\ TopUnused'
    BY <1>2, <1>3 DEF Fresh, TopUnused, Places
  <2> QED
    BY <1>4, <2>2, <2>3 DEF Shape
<1>6. \A i \in Levels : Chain(i)' = {}
  <2>1. (Shape => \A i \in Levels : forward[Header][i] = NULL => Chain(i) = {})'
    BY EmptyChains, PTL
  <2> QED
    BY <1>2, <1>3, <1>5, <2>1
<1>7. OpTypes' /\ op'.name = "idle"
  BY <1>1 DEF Structure, OpTypes, Idle
<1>8. Levelled'
  BY <1>2, <1>6 DEF Levelled, LevelsNested
<1>9. Counted'
  <2>1. elementCount = Cardinality(Chain(0)) /\ Cardinality(Chain(0)) \in Nat
    BY <1>1, CountFacts, PlacesAre DEF Structure, Counted, Idle
  <2>2. elementCount' = Cardinality(Chain(0)')
    <3>1. Chain(0)' = {}
      BY <1>2, <1>6
    <3>2. Cardinality(Chain(0)') = 0
      BY <3>1, FS_EmptySet
    <3> QED
      BY <1>1, <2>1, <3>2
  <2> QED
    BY <1>7, <2>2 DEF Counted
<1> QED
  BY <1>5, <1>6, <1>7, <1>8, <1>9 DEF Structure, Linking, Unlinking

\* A step of a searcher does not touch the list.
LEMMA ReadersKeep ==
  ASSUME Structure, UNCHANGED <<listVars, op>>
  PROVE  Structure' /\ \A i \in Levels : Chain(i)' = Chain(i)
<1>1. /\ Shape /\ forward' = forward /\ nodes' = nodes /\ skipListLevel' = skipListLevel
      /\ elementCount' = elementCount /\ op' = op
  BY DEF Structure, listVars
<1>2. /\ 0 \in Levels /\ skipListLevel \in Levels
      /\ \A i \in Levels : i \in Nat
      /\ \A i \in Levels \ {0} : i - 1 \in Levels
  BY <1>1, PlacesAre DEF Levels, Shape, ListTypes
<1>3. /\ Shape' /\ RankOf' = RankOf
      /\ \A i \in Levels : Chain(i)' = Chain(i) /\ At(i)' = At(i)
  <2>1. ListTypes'
    BY <1>1 DEF Shape, ListTypes
  <2>2. \A m \in DOMAIN nodes : KeyOf(m)' = KeyOf(m)
    BY <1>1 DEF KeyOf
  <2>3. RankOf' = RankOf
    BY <1>1 DEF RankOf, KeyOf
  <2> QED
    BY <1>1, <2>1, <2>2, <2>3, PointersKept
<1>4. OpTypes'
  BY <1>1 DEF Structure, OpTypes
<1>5. Levelled'
  BY <1>1, <1>2, <1>3 DEF Structure, Levelled, LevelsNested
<1>6. Linking'
  BY <1>1, <1>2, <1>3 DEF Structure, Linking
<1>7. Unlinking'
  <2>1. \A i \in Levels : op.level < i => i - 1 \in Levels
    BY <1>1, <1>2 DEF Structure, OpTypes, Levels
  <2> QED
    BY <1>1, <1>2, <1>3, <2>1 DEF Structure, Unlinking
<1>8. Counted'
  BY <1>1, <1>2, <1>3 DEF Structure, Counted
<1> QED
  BY <1>3, <1>4, <1>5, <1>6, <1>7, <1>8 DEF Structure

\* The empty list.
LEMMA InitStructure ==
  ASSUME Init PROVE Structure /\ \A i \in Levels : Chain(i) = {}
<1>1. /\ forward = [p \in Places |-> [i \in Levels |-> NULL]]
      /\ nodes = <<>> /\ skipListLevel = 0 /\ elementCount = 0 /\ op = Idle
  BY DEF Init
<1>2. 0 \in Levels /\ Header \in Places /\ MaxNodes \in Nat /\ MaxLevel \in Levels
  BY PlacesAre DEF Levels
<1>3. ListTypes
  <2>1. nodes \in [1 .. 0 -> [key : Keys, val : Vals]] /\ 0 \in 0 .. MaxNodes
    BY <1>1, <1>2
  <2> QED
    BY <1>1, <1>2, <2>1 DEF ListTypes
<1>4. Shape
  <2>1. \A p \in Places, i \in Levels : forward[p][i] = NULL /\ NextAt(i)[p] = NULL
    BY <1>1 DEF NextAt
  <2> QED
    BY <1>2, <1>3, <2>1 DEF Shape, Ascending, Rising, Fresh, TopUnused, Places
<1>5. \A i \in Levels : Chain(i) = {}
  BY <1>1, <1>2, <1>4, EmptyChain
<1>6. OpTypes /\ op.name = "idle"
  BY <1>1, <1>2 DEF OpTypes, Idle
<1>7. Levelled
  BY <1>2, <1>5 DEF Levelled, LevelsNested
<1>8. Counted
  BY <1>1, <1>2, <1>5, <1>6, FS_EmptySet DEF Counted
<1> QED
  BY <1>4, <1>5, <1>6, <1>7, <1>8 DEF Structure, Linking, Unlinking

\* The writers' steps.
Writes ==
  \/ \E k \in Keys, v \in Vals :
       SetExisting(k, v) \/ \E h \in Heights : InsertBegins(k, v, h)
  \/ Link
  \/ \E k \in Keys : DeleteBegins(k)
  \/ Unlink \/ Lower \/ DeleteEnds \/ Clear

\* Every writer's step keeps the structure.
LEMMA WritesKeep ==
  ASSUME Structure, Writes PROVE Structure'
BY SetKeeps, InsertBeginsKeeps, LinkKeeps, DeleteBeginsKeeps, UnlinkKeeps, LowerKeeps,
   DeleteEndsKeeps, ClearKeeps DEF Writes

-------------------------------------------------------------------------------
\* Searchers.

\* What a writer's step may do under a searcher: nodes keep their keys, and what is new to
\* a pointer, or to a node that comes into the list, is in the list or NULL.
Harmless ==
  /\ DOMAIN nodes \subseteq DOMAIN nodes'
  /\ \A m \in DOMAIN nodes : KeyOf(m)' = KeyOf(m)
  /\ \A q \in Places, i \in Levels :
       \/ forward'[q][i] = forward[q][i] /\ (q \in Chain(0)' => q \in Chain(0))
       \/ forward'[q][i] = NULL
       \/ forward'[q][i] \in Chain(0)'

\* A step that writes no pointer is harmless.
LEMMA QuietHarmless ==
  ASSUME Structure, forward' = forward, Chain(0)' = Chain(0), DOMAIN nodes \subseteq DOMAIN nodes',
         \A m \in DOMAIN nodes : KeyOf(m)' = KeyOf(m)
  PROVE  Harmless
BY DEF Harmless

\* Linking is: the pointers it writes lead to the node and to the one after it.
LEMMA LinkHarmless ==
  ASSUME Structure, Link PROVE Harmless
<1> SUFFICES ASSUME NEW l, l = op.level, NEW n, n = op.node, NEW p, p = op.update[l]
             PROVE  Harmless
  OBVIOUS
<1>1. /\ Shape /\ nodes' = nodes /\ l \in Levels /\ l \in Nat
      /\ n \in DOMAIN nodes /\ p \in Places /\ p \in At(l)
  BY LinkEffect DEF Structure
<1>2. \A q \in Places, i \in Levels :
        forward'[q][i] = CASE i = l /\ q = p -> n
                           [] i = l /\ q = n -> forward[p][l]
                           [] OTHER -> forward[q][i]
  BY LinkEffect
<1>3. /\ Chain(l)' = Chain(l) \cup {n}
      /\ \A i \in Levels : i # l => Chain(i)' = Chain(i)
  BY LinkEffect
<1>4. 0 \in Levels /\ \A i \in Levels : i \in Nat
  BY PlacesAre DEF Levels
<1>5. /\ op.name = "link" /\ LevelsNested
      /\ \A i \in Levels : i < l => n \in Chain(i)
      /\ \A i \in Levels : i >= l => n \notin Chain(i) /\ forward[n][i] = NULL
  BY DEF Link, LinkWith, Structure, Levelled, Linking
<1>6. n \in Chain(0)' /\ Chain(0) \subseteq Chain(0)' /\ Chain(0)' \subseteq Chain(0) \cup {n}
  BY <1>1, <1>3, <1>4, <1>5
<1>7. forward[p][l] # NULL => forward[p][l] \in Chain(0)'
  <2>1. forward[p][l] # NULL => forward[p][l] \in Chain(l)
    BY <1>1, LevelFacts DEF LevelsAre
  <2> QED
    BY <1>1, <1>5, <1>6, <2>1, AllOnLevelZero
<1>8. n \in Chain(0) \/ l = 0
  BY <1>1, <1>4, <1>5
<1>9. ASSUME NEW q \in Places, NEW i \in Levels
      PROVE  \/ forward'[q][i] = forward[q][i] /\ (q \in Chain(0)' => q \in Chain(0))
             \/ forward'[q][i] = NULL
             \/ forward'[q][i] \in Chain(0)'
  <2>1. CASE i = l /\ (q = p \/ q = n)
    BY <1>2, <1>6, <1>7, <2>1
  <2>2. CASE ~(i = l /\ (q = p \/ q = n))
    <3>1. forward'[q][i] = forward[q][i]
      BY <1>2, <2>2
    <3>2. CASE q = n /\ l = 0
      BY <1>4, <1>5, <3>1, <3>2
    <3>3. CASE ~(q = n /\ l = 0)
      BY <1>6, <1>8, <3>1, <3>3
    <3> QED
      BY <3>2, <3>3
  <2> QED
    BY <2>1, <2>2
<1> QED
  BY <1>1, <1>9 DEF Harmless, KeyOf

\* Unlinking is: the pointer it writes leads to the one after the node.
LEMMA UnlinkHarmless ==
  ASSUME Structure, Unlink PROVE Harmless
<1> SUFFICES ASSUME NEW l, l = op.level, NEW n, n = op.node, NEW p, p = op.update[l]
             PROVE  Harmless
  OBVIOUS
<1>1. /\ Shape /\ nodes' = nodes /\ l \in Levels /\ l \in Nat
      /\ forward[n][l] # NULL => forward[n][l] # n /\ forward[n][l] \in Chain(l)
  BY UnlinkEffect DEF Structure
<1>2. \A q \in Places, i \in Levels :
        forward'[q][i] = IF i = l /\ q = p THEN forward[n][l] ELSE forward[q][i]
  BY UnlinkEffect
<1>3. /\ Chain(l)' = Chain(l) \ {n}
      /\ \A i \in Levels : i # l => Chain(i)' = Chain(i)
  BY UnlinkEffect
<1>4. 0 \in Levels /\ op.name = "unlink" /\ LevelsNested
  BY PlacesAre DEF Levels, Unlink, Structure, Levelled
<1>5. Chain(0)' \subseteq Chain(0) /\ Chain(0) \ {n} \subseteq Chain(0)'
  BY <1>3, <1>4
<1>6. forward[n][l] # NULL => forward[n][l] \in Chain(0)'
  BY <1>1, <1>4, <1>5, AllOnLevelZero
<1> QED
  BY <1>1, <1>2, <1>5, <1>6 DEF Harmless, KeyOf

\* So is every step of a writer but clear().
LEMMA WritesHarmless ==
  ASSUME Structure, Writes, ~Clear PROVE Harmless
<1>0. 0 \in Levels /\ Shape
  BY PlacesAre DEF Levels, Structure
<1>1. CASE \E k \in Keys, v \in Vals : SetExisting(k, v)
  <2>1. PICK k \in Keys, v \in Vals : SetExisting(k, v)
    BY <1>1
  <2>2. forward' = forward /\ nodes' = [nodes EXCEPT ![Find(k)].val = v]
    BY <2>1 DEF SetExisting
  <2>3. Chain(0)' = Chain(0)
    BY <1>0, <2>1, SetKeeps
  <2>4. Find(k) \in Chain(0)
    BY <1>0, <2>1, FindIs, SkipAssumption DEF SetExisting, Structure, Levelled, Idle
  <2>5. Find(k) \in DOMAIN nodes
    BY <1>0, <2>4, LevelFacts DEF LevelsAre
  <2>6. DOMAIN nodes' = DOMAIN nodes
    BY <2>2
  <2>7. PICK top \in 0 .. MaxNodes :
          DOMAIN nodes = 1 .. top /\ nodes \in [1 .. top -> [key : Keys, val : Vals]]
    BY <1>0, NodesAre DEF Shape
  <2>8. \A m \in DOMAIN nodes : KeyOf(m)' = KeyOf(m)
    BY <2>2, <2>5, <2>7 DEF KeyOf
  <2> QED
    BY <2>2, <2>3, <2>6, <2>8, QuietHarmless
<1>2. CASE \E k \in Keys, v \in Vals, h \in Heights : InsertBegins(k, v, h)
  <2>1. PICK k \in Keys, v \in Vals, h \in Heights : InsertBegins(k, v, h)
    BY <1>2
  <2>2. forward' = forward
    BY <2>1 DEF InsertBegins
  <2>3. /\ Chain(0)' = Chain(0) /\ DOMAIN nodes \subseteq DOMAIN nodes'
        /\ \A m \in DOMAIN nodes : nodes'[m] = nodes[m]
    BY <1>0, <2>1, InsertBeginsKeeps
  <2> QED
    BY <2>2, <2>3, QuietHarmless DEF KeyOf
<1>3. CASE \E k \in Keys : DeleteBegins(k)
  BY <1>0, <1>3, DeleteBeginsKeeps, QuietHarmless DEF DeleteBegins, listVars, KeyOf
<1>4. CASE Lower
  BY <1>0, <1>4, LowerKeeps, QuietHarmless DEF Lower, KeyOf
<1>5. CASE DeleteEnds
  BY <1>0, <1>5, DeleteEndsKeeps, QuietHarmless DEF DeleteEnds, KeyOf
<1> QED
  BY <1>1, <1>2, <1>3, <1>4, <1>5, LinkHarmless, UnlinkHarmless DEF Writes

Searching(s) == search[s].at \in {"test", "compare", "advance", "answer"}

\* A searcher that is on its way stays among the nodes it may meet: those of the list are
\* added to them.
LEMMA RoamsOn ==
  ASSUME Structure, Structure', Harmless, NEW s \in Searchers,
         NEW B \in SUBSET NodeIds, NEW G \in SUBSET NodeIds, Roams(s, B, G),
         search'[s].key = search[s].key, search'[s].cur \in B \cup G \cup {Header},
         saw'[s] = saw[s] \cup {Present(search[s].key)'}
  PROVE  \E C \in SUBSET NodeIds : Roams(s, C, G)'
<1>1. Chain(0)' \subseteq NodeIds /\ Chain(0)' \subseteq DOMAIN nodes'
  BY FactsAfter, PlacesAre DEF Structure, Levels
<1>2. PICK C \in SUBSET NodeIds : C = B \cup Chain(0)'
  BY <1>1
<1>3. /\ Chain(0) \subseteq B /\ B \subseteq DOMAIN nodes /\ G \subseteq DOMAIN nodes
      /\ \A p \in B \cup G \cup {Header} : forward[p][0] # NULL => forward[p][0] \in B
      /\ \A p \in B \cup G \cup {Header} : \A i \in Levels :
           forward[p][i] # NULL => forward[p][i] \in B \cup G
      /\ \A m \in B : KeyOf(m) = search[s].key => TRUE \in saw[s]
  BY DEF Roams
<1>4. /\ DOMAIN nodes \subseteq DOMAIN nodes'
      /\ \A m \in DOMAIN nodes : KeyOf(m)' = KeyOf(m)
  BY DEF Harmless
<1>5. \A p \in C \cup G \cup {Header} : p \in Places /\ (p \in B \cup G \cup {Header} \/ p \in Chain(0)')
  BY <1>2, PlacesAre DEF Places
<1>6. 0 \in Levels
  BY PlacesAre DEF Levels
<1>7. ASSUME NEW p \in C \cup G \cup {Header}, forward'[p][0] # NULL PROVE forward'[p][0] \in C
  <2>1. CASE forward'[p][0] \in Chain(0)'
    BY <1>2, <2>1
  <2>2. CASE forward'[p][0] = forward[p][0] /\ (p \in Chain(0)' => p \in Chain(0))
    <3>1. p \in B \cup G \cup {Header}
      BY <1>3, <1>5, <2>2
    <3> QED
      BY <1>2, <1>3, <1>7, <2>2, <3>1
  <2> QED
    BY <1>5, <1>6, <1>7, <2>1, <2>2 DEF Harmless
<1>8. ASSUME NEW p \in C \cup G \cup {Header}, NEW i \in Levels, forward'[p][i] # NULL
      PROVE  forward'[p][i] \in C \cup G
  <2>1. CASE forward'[p][i] \in Chain(0)'
    BY <1>2, <2>1
  <2>2. CASE forward'[p][i] = forward[p][i] /\ (p \in Chain(0)' => p \in Chain(0))
    <3>1. p \in B \cup G \cup {Header}
      BY <1>3, <1>5, <2>2
    <3> QED
      BY <1>2, <1>3, <1>8, <2>2, <3>1
  <2> QED
    BY <1>5, <1>8, <2>1, <2>2 DEF Harmless
<1>9. ASSUME NEW m \in C, KeyOf(m)' = search'[s].key PROVE TRUE \in saw'[s]
  <2>1. CASE m \in B
    BY <1>3, <1>4, <1>9, <2>1
  <2>2. CASE m \in Chain(0)'
    <3>1. Present(search[s].key)' = TRUE
      BY <1>9, <2>2 DEF Present
    <3> QED
      BY <3>1
  <2> QED
    BY <1>2, <2>1, <2>2
<1>10. Chain(0)' \subseteq C /\ C \subseteq DOMAIN nodes' /\ G \subseteq DOMAIN nodes'
  BY <1>1, <1>2, <1>3, <1>4
<1>11. search'[s].cur \in C \cup G \cup {Header}
  BY <1>2
<1> QED
  BY <1>7, <1>8, <1>9, <1>10, <1>11 DEF Roams

\* What Observe records for a searcher.
LEMMA Observed ==
  ASSUME Observe, NEW s \in Searchers
  PROVE  /\ search'[s].at = "rest" => saw'[s] = {}
         /\ search[s].at \in {"answer", "answered"} /\ search'[s].at = "answered" => saw'[s] = saw[s]
         /\ search'[s].at # "rest" /\ search'[s].at # "answered"
              => saw'[s] = saw[s] \cup {Present(search[s].key)'}
BY DEF Observe

\* A search begins among the nodes of the list and the one that is being taken out.
LEMMA SearchBeginsRoams ==
  ASSUME Structure, Structure', SearchTypes, NEW s \in Searchers, NEW k \in Keys,
         SearchBegins(s, k), Observe
  PROVE  \E B, G \in SUBSET NodeIds : Roams(s, B, G)'
<1>1. /\ forward' = forward /\ nodes' = nodes /\ op' = op
      /\ search'[s].at = "test" /\ search'[s].key = k /\ search'[s].cur = Header
  BY DEF SearchBegins, listVars, SearchTypes, Resting
<1>2. 0 \in Levels /\ Shape /\ LevelsNested
  BY PlacesAre DEF Levels, Structure, Levelled
<1>3. Chain(0)' = Chain(0)
  BY <1>2, ReadersKeep DEF SearchBegins
<1>4. /\ LevelsAre /\ DOMAIN nodes \subseteq NodeIds
  BY <1>2, LevelFacts, ListFacts DEF ListRanks
<1> DEFINE Out == IF op.name = "unlink" THEN {op.node} ELSE {}
<1>5. Chain(0) \in SUBSET NodeIds /\ Chain(0) \subseteq DOMAIN nodes /\ Chain(0) \subseteq Places
  BY <1>2, <1>4, PlacesAre DEF LevelsAre, Places
<1>6. Out \subseteq DOMAIN nodes
  BY DEF Structure, Unlinking
<1>7. \A i \in Levels : Chain(i) \subseteq Chain(0) \cup Out
  BY <1>2, AllOnLevelZero
<1>8. ASSUME NEW p \in Chain(0) \cup Out \cup {Header}, NEW i \in Levels, forward[p][i] # NULL
      PROVE  forward[p][i] \in Chain(i)
  <2>1. CASE p = Header
    BY <1>4, <1>8, <2>1 DEF LevelsAre
  <2>2. CASE p \in Chain(0)
    <3>1. p \in At(i)
      BY <1>8, <2>2 DEF Structure, Levelled, At
    <3> QED
      BY <1>4, <1>8, <3>1 DEF LevelsAre
  <2>3. CASE op.name = "unlink" /\ p = op.node
    BY <1>8, <2>3 DEF Structure, Unlinking
  <2> QED
    BY <2>1, <2>2, <2>3
<1>9. PICK B \in SUBSET NodeIds, G \in SUBSET NodeIds : B = Chain(0) /\ G = Out
  BY <1>4, <1>5, <1>6
<1> HIDE DEF Out
<1>10. /\ \A p \in B \cup G \cup {Header} : forward'[p][0] # NULL => forward'[p][0] \in B
       /\ \A p \in B \cup G \cup {Header} : \A i \in Levels :
            forward'[p][i] # NULL => forward'[p][i] \in B \cup G
  BY <1>1, <1>2, <1>7, <1>8, <1>9
<1>11. ASSUME NEW m \in B, KeyOf(m)' = search'[s].key PROVE TRUE \in saw'[s]
  <2>1. Present(search[s].key)' = TRUE
    BY <1>3, <1>9, <1>11 DEF Present
  <2>2. saw'[s] = saw[s] \cup {Present(search[s].key)'}
    BY <1>1, Observed
  <2> QED
    BY <2>1, <2>2
<1> QED
  BY <1>1, <1>3, <1>5, <1>6, <1>9, <1>10, <1>11 DEF Roams

Fine(s) ==
  /\ Searching(s) => \E B, G \in SUBSET NodeIds : Roams(s, B, G)
  /\ search[s].at = "answered" /\ search[s].found => TRUE \in saw[s]

\* A searcher keeps what holds of it while others move.
LEMMA OthersFine ==
  ASSUME Structure, Structure', Harmless, Observe,
         NEW s \in Searchers, Fine(s), search'[s] = search[s]
  PROVE  Fine(s)'
<1>1. ASSUME Searching(s) PROVE \E B, G \in SUBSET NodeIds : Roams(s, B, G)'
  <2>1. PICK B \in SUBSET NodeIds, G \in SUBSET NodeIds : Roams(s, B, G)
    BY <1>1 DEF Fine
  <2>2. search[s].cur \in B \cup G \cup {Header}
    BY <2>1 DEF Roams
  <2>3. saw'[s] = saw[s] \cup {Present(search[s].key)'}
    BY <1>1, Observed DEF Searching
  <2>4. search'[s].key = search[s].key /\ search'[s].cur \in B \cup G \cup {Header}
    BY <2>2
  <2> QED
    BY <2>1, <2>3, <2>4, RoamsOn
<1>2. search[s].at = "answered" => saw'[s] = saw[s]
  BY Observed
<1> QED
  BY <1>1, <1>2 DEF Fine, Searching

\* What the steps of a search do to its record.
LEMMA SearchSteps ==
  ASSUME SearchTypes, NEW s \in Searchers, SearchElement(s)
  PROVE  /\ UNCHANGED <<listVars, op>>
         /\ \A t \in Searchers : t # s => search'[t] = search[t]
         /\ \/ \E k \in Keys : SearchBegins(s, k)
            \/ /\ Searching(s) /\ Searching(s)' /\ search'[s].key = search[s].key
               /\ \/ search'[s].cur = search[s].cur
                  \/ Read(s) # NULL /\ search'[s].cur = Read(s)
            \/ /\ search[s].at = "answer" /\ search'[s].at = "answered" /\ search'[s].found = Found(s)
            \/ search'[s].at = "rest"
<1>1. /\ search \in [Searchers ->
                   [at : {"rest", "test", "compare", "advance", "answer", "answered"},
                    key : Keys, cur : Places, level : Levels, found : BOOLEAN]]
  BY DEF SearchTypes
<1>2. CASE \E k \in Keys : SearchBegins(s, k)
  BY <1>1, <1>2 DEF SearchBegins
<1>3. CASE Test(s)
  <2>1. CASE Read(s) = NULL
    BY <1>1, <1>3, <2>1 DEF Test, NextLevel, Searching
  <2>2. CASE Read(s) # NULL
    BY <1>1, <1>3, <2>2 DEF Test, Goto, Searching
  <2> QED
    BY <2>1, <2>2
<1>4. CASE Compare(s)
  <2>1. CASE KeyOf(Read(s)) < search[s].key
    BY <1>1, <1>4, <2>1 DEF Compare, Goto, Searching
  <2>2. CASE ~(KeyOf(Read(s)) < search[s].key)
    BY <1>1, <1>4, <2>2 DEF Compare, NextLevel, Searching
  <2> QED
    BY <2>1, <2>2
<1>5. CASE Advance(s)
  BY <1>1, <1>5 DEF Advance, Searching
<1>6. CASE FollowNull(s)
  BY <1>1, <1>6 DEF FollowNull, Searching
<1>7. CASE Answer(s)
  BY <1>1, <1>7 DEF Answer, Resting
<1>8. CASE Return(s)
  BY <1>1, <1>8 DEF Return, Resting
<1> QED
  BY <1>2, <1>3, <1>4, <1>5, <1>6, <1>7, <1>8 DEF SearchElement

\* A searcher keeps it in its own steps: its answer rests on a node that was in the list.
LEMMA OwnFine ==
  ASSUME Structure, Structure', SearchTypes, Observe,
         NEW s \in Searchers, Fine(s), SearchElement(s)
  PROVE  Fine(s)'
<1>1. UNCHANGED <<listVars, op>>
  BY SearchSteps
<1>2. forward' = forward /\ nodes' = nodes /\ 0 \in Levels
  BY <1>1, PlacesAre DEF listVars, Levels
<1>3. Chain(0)' = Chain(0)
  BY <1>1, <1>2, ReadersKeep
<1>4. Harmless
  BY <1>2, <1>3, QuietHarmless DEF KeyOf
<1>5. CASE \E k \in Keys : SearchBegins(s, k)
  <2>1. PICK k \in Keys : SearchBegins(s, k)
    BY <1>5
  <2>2. search'[s].at = "test"
    BY <2>1 DEF SearchBegins, SearchTypes, Resting
  <2> QED
    BY <2>1, <2>2, SearchBeginsRoams DEF Fine
<1>6. CASE /\ Searching(s) /\ Searching(s)' /\ search'[s].key = search[s].key
           /\ \/ search'[s].cur = search[s].cur
              \/ Read(s) # NULL /\ search'[s].cur = Read(s)
  <2>1. PICK B \in SUBSET NodeIds, G \in SUBSET NodeIds : Roams(s, B, G)
    BY <1>6 DEF Fine
  <2>2. search'[s].cur \in B \cup G \cup {Header}
    <3>1. search[s].cur \in B \cup G \cup {Header} /\ search[s].level \in Levels
      BY <2>1 DEF Roams, SearchTypes
    <3>2. Read(s) # NULL => Read(s) \in B \cup G
      BY <2>1, <3>1 DEF Roams, Read
    <3> QED
      BY <1>6, <3>1, <3>2
  <2>3. search'[s].at # "rest" /\ search'[s].at # "answered"
    BY <1>6 DEF Searching
  <2>4. saw'[s] = saw[s] \cup {Present(search[s].key)'}
    <3>1. CASE search'[s].at # "answer"
      BY <2>3, <3>1, Observed
    <3>2. CASE search'[s].at = "answer"
      BY <3>2 DEF Observe
    <3> QED
      BY <3>1, <3>2
  <2>5. \E C \in SUBSET NodeIds : Roams(s, C, G)'
    BY <1>4, <1>6, <2>1, <2>2, <2>4, RoamsOn
  <2> QED
    BY <2>3, <2>5 DEF Fine
<1>7. CASE /\ search[s].at = "answer" /\ search'[s].at = "answered" /\ search'[s].found = Found(s)
  <2>1. PICK B \in SUBSET NodeIds, G \in SUBSET NodeIds : Roams(s, B, G)
    BY <1>7 DEF Fine, Searching
  <2>2. saw'[s] = saw[s]
    BY <1>7, Observed
  <2>3. ASSUME Found(s) PROVE TRUE \in saw[s]
    <3>1. forward[search[s].cur][0] # NULL /\ KeyOf(forward[search[s].cur][0]) = search[s].key
      BY <2>3 DEF Found
    <3> QED
      BY <2>1, <3>1 DEF Roams
  <2> QED
    BY <1>7, <2>2, <2>3 DEF Fine, Searching
<1>8. CASE search'[s].at = "rest"
  BY <1>8 DEF Fine, Searching
<1> QED
  BY <1>5, <1>6, <1>7, <1>8, SearchSteps

\* Observe writes sets of answers.
LEMMA SawTypes ==
  ASSUME saw \in [Searchers -> SUBSET BOOLEAN], Observe
  PROVE  saw' \in [Searchers -> SUBSET BOOLEAN]
<1>1. \A t \in Searchers : {Present(search[t].key)'} \subseteq BOOLEAN
  BY DEF Present
<1>2. \A t \in Searchers : saw'[t] \in SUBSET BOOLEAN
  BY <1>1 DEF Observe
<1> QED
  BY <1>2 DEF Observe

\* The types of the searchers' variables.
LEMMA SearchTypesKeep ==
  ASSUME Structure, SearchTypes, NEW s \in Searchers, SearchElement(s), Observe
  PROVE  SearchTypes'
<1> DEFINE R == [at : {"rest", "test", "compare", "advance", "answer", "answered"},
                 key : Keys, cur : Places, level : Levels, found : BOOLEAN]
<1>1. search \in [Searchers -> R] /\ search[s] \in R /\ crashed \in BOOLEAN
      /\ saw \in [Searchers -> SUBSET BOOLEAN]
  BY DEF SearchTypes
<1>2. Resting \in R
  BY SkipAssumption, PlacesAre DEF Resting, Levels
<1>3. 0 \in Levels /\ skipListLevel \in Levels /\ \A i \in Levels \ {0} : i - 1 \in Levels
  BY PlacesAre DEF Levels, Structure, Shape, ListTypes
<1>4. Read(s) \in NodeIds \cup {NULL}
  BY <1>1 DEF Read, Structure, Shape, ListTypes
<1> DEFINE keeps == search' \in [Searchers -> R]
<1> HIDE DEF R
<1>5. ASSUME \E k \in Keys : SearchBegins(s, k) PROVE keeps
  <2>1. PICK k \in Keys : SearchBegins(s, k)
    BY <1>5
  <2> DEFINE new == [Resting EXCEPT !.at = "test", !.key = k, !.level = skipListLevel]
  <2>2. new \in R
    BY <1>3, PlacesAre DEF R, Resting
  <2>3. search' = [search EXCEPT ![s] = new]
    BY <2>1 DEF SearchBegins
  <2> HIDE DEF new
  <2> QED
    BY <1>1, <2>2, <2>3
<1>6. ASSUME NextLevel(s) PROVE keeps
  BY <1>1, <1>3, <1>6 DEF NextLevel, R
<1>7. ASSUME Goto(s, "compare") \/ Goto(s, "advance") PROVE keeps
  BY <1>1, <1>7 DEF Goto, R
<1>8. ASSUME Test(s) PROVE keeps
  <2>1. NextLevel(s) \/ Goto(s, "compare")
    BY <1>8 DEF Test
  <2> QED
    BY <1>6, <1>7, <2>1
<1>9. ASSUME Compare(s) PROVE keeps
  <2>1. NextLevel(s) \/ Goto(s, "advance")
    BY <1>9 DEF Compare
  <2> QED
    BY <1>6, <1>7, <2>1
<1>10. ASSUME Advance(s) PROVE keeps
  BY <1>1, <1>4, <1>10 DEF Advance, Places, R
<1>11. ASSUME FollowNull(s) PROVE keeps
  BY <1>1, <1>11 DEF FollowNull
<1>12. ASSUME Answer(s) PROVE keeps
  <2>1. Found(s) \in BOOLEAN
    BY DEF Found
  <2> DEFINE new == [Resting EXCEPT !.at = "answered", !.found = Found(s)]
  <2>2. new \in R
    <3> DEFINE found == Found(s)
    <3>1. found \in BOOLEAN
      BY <2>1
    <3>2. Resting.key \in Keys
      BY SkipAssumption DEF Resting
    <3> HIDE DEF found
    <3>3. [Resting EXCEPT !.at = "answered", !.found = found] \in R
      BY <1>3, <3>1, <3>2, PlacesAre DEF R, Resting
    <3> QED
      BY <3>3 DEF found
  <2>3. search' = [search EXCEPT ![s] = new]
    BY <1>12 DEF Answer
  <2> HIDE DEF new
  <2> QED
    BY <1>1, <2>2, <2>3
<1>13. ASSUME Return(s) PROVE keeps
  <2>1. search' = [search EXCEPT ![s] = Resting]
    BY <1>13 DEF Return
  <2> QED
    BY <1>1, <1>2, <2>1
<1>14. keeps
  BY <1>5, <1>8, <1>9, <1>10, <1>11, <1>12, <1>13 DEF SearchElement
<1>16. crashed' = crashed \/ crashed' = TRUE
  BY DEF SearchElement, SearchBegins, Test, Compare, Advance, FollowNull, Answer, Return
<1>17. crashed' \in BOOLEAN
  BY <1>1, <1>16
<1>15. saw' \in [Searchers -> SUBSET BOOLEAN]
  BY <1>1, SawTypes
<1> QED
  BY <1>14, <1>15, <1>17 DEF SearchTypes, R

-------------------------------------------------------------------------------
\* The invariant holds, and what the runs check follows.

\* A step leaves the searchers alone or is one of a searcher.
LEMMA StepIs ==
  ASSUME Next
  PROVE  /\ Observe
         /\ \/ Writes /\ UNCHANGED readVars
            \/ \E s \in Searchers : SearchElement(s)
<1>1. Observe /\ (InsertElement \/ DeleteElement \/ Clear \/ \E s \in Searchers : SearchElement(s))
  BY DEF Next
<1>2. CASE InsertElement
  BY <1>1, <1>2 DEF InsertElement, Writes, SetExisting, InsertBegins, Link, LinkWith
<1>3. CASE DeleteElement
  BY <1>1, <1>3 DEF DeleteElement, Writes, DeleteBegins, Unlink, Lower, DeleteEnds
<1>4. CASE Clear
  BY <1>1, <1>4 DEF Clear, ClearTo, Writes
<1> QED
  BY <1>1, <1>2, <1>3, <1>4

\* The invariant, with what it says of the searchers gathered for each one.
LEMMA InvIs ==
  ListInv <=> Structure /\ SearchTypes /\ \A s \in Searchers : Fine(s)
BY DEF ListInv, Roaming, FoundWasThere, Fine, Searching

\* Every step keeps the invariant.
LEMMA StepKeeps ==
  ASSUME Structure, SearchTypes, \A s \in Searchers : Fine(s), Next
  PROVE  Structure' /\ SearchTypes' /\ \A s \in Searchers : Fine(s)'
<1>1. Observe
  BY StepIs
<1>2. CASE Writes /\ UNCHANGED readVars
  <2>1. Structure'
    BY <1>2, WritesKeep
  <2>2. search' = search /\ crashed' = crashed
    BY <1>2 DEF readVars
  <2>3. SearchTypes'
    BY <1>1, <2>2, SawTypes DEF SearchTypes
  <2>4. ASSUME NEW s \in Searchers PROVE Fine(s)'
    <3>1. CASE Clear
      <4>1. search'[s].at = "rest"
        BY <2>2, <3>1 DEF Clear, ClearTo
      <4> QED
        BY <4>1 DEF Fine, Searching
    <3>2. CASE ~Clear
      BY <1>1, <1>2, <2>1, <2>2, <3>2, WritesHarmless, OthersFine
    <3> QED
      BY <3>1, <3>2
  <2> QED
    BY <2>1, <2>3, <2>4
<1>3. CASE \E s \in Searchers : SearchElement(s)
  <2>1. PICK t \in Searchers : SearchElement(t)
    BY <1>3
  <2>2. UNCHANGED <<listVars, op>> /\ \A s \in Searchers : s # t => search'[s] = search[s]
    BY <2>1, SearchSteps
  <2>3. Structure' /\ Harmless
    <3>1. 0 \in Levels
      BY PlacesAre DEF Levels
    <3> QED
      BY <2>2, <3>1, ReadersKeep, QuietHarmless DEF listVars, KeyOf
  <2>4. SearchTypes'
    BY <1>1, <2>1, SearchTypesKeep
  <2>5. ASSUME NEW s \in Searchers PROVE Fine(s)'
    BY <1>1, <2>1, <2>2, <2>3, OwnFine, OthersFine
  <2> QED
    BY <2>3, <2>4, <2>5
<1> QED
  BY <1>2, <1>3, StepIs

\* In every state the levels are chains of ascending keys, one within the other but for the
\* node a delete takes out, the counter and the call under way agree with them, and each
\* searcher walks among nodes that were in the list since it began.
THEOREM ListInvariant == Spec => []ListInv
<1>1. Init => ListInv
  <2> SUFFICES ASSUME Init PROVE ListInv
    OBVIOUS
  <2>1. Structure
    BY InitStructure
  <2>2. Resting.at = "rest" /\ Resting \in
          [at : {"rest", "test", "compare", "advance", "answer", "answered"},
           key : Keys, cur : Places, level : Levels, found : BOOLEAN]
    BY SkipAssumption, PlacesAre DEF Resting, Levels
  <2>3. search = [s \in Searchers |-> Resting] /\ crashed = FALSE /\ saw = [s \in Searchers |-> {}]
    BY DEF Init
  <2>4. SearchTypes
    BY <2>2, <2>3 DEF SearchTypes
  <2>5. \A s \in Searchers : Fine(s)
    BY <2>2, <2>3 DEF Fine, Searching
  <2> QED
    BY <2>1, <2>4, <2>5, InvIs
<1>2. ListInv /\ [Next]_vars => ListInv'
  <2> SUFFICES ASSUME ListInv, [Next]_vars PROVE ListInv'
    OBVIOUS
  <2>1. Structure /\ SearchTypes /\ \A s \in Searchers : Fine(s)
    BY InvIs
  <2>2. Structure' /\ SearchTypes' /\ \A s \in Searchers : Fine(s)'
    <3>1. CASE Next
      BY <2>1, <3>1, StepKeeps
    <3>2. CASE UNCHANGED vars
      <4>1. UNCHANGED <<listVars, op>> /\ search' = search /\ crashed' = crashed /\ saw' = saw
        BY <3>2 DEF vars, readVars
      <4>2. Structure' /\ \A i \in Levels : Chain(i)' = Chain(i)
        BY <2>1, <4>1, ReadersKeep
      <4>3. SearchTypes'
        BY <2>1, <4>1 DEF SearchTypes
      <4>4. \A s \in Searchers, B \in SUBSET NodeIds, G \in SUBSET NodeIds :
               Roams(s, B, G) => Roams(s, B, G)'
        <5> SUFFICES ASSUME NEW s \in Searchers, NEW B \in SUBSET NodeIds,
                            NEW G \in SUBSET NodeIds, Roams(s, B, G)
                     PROVE  Roams(s, B, G)'
          OBVIOUS
        <5>1. 0 \in Levels
          BY PlacesAre DEF Levels
        <5>2. Chain(0)' = Chain(0) /\ forward' = forward /\ nodes' = nodes
          BY <4>1, <4>2, <5>1 DEF listVars
        <5> QED
          BY <4>1, <5>2 DEF Roams, KeyOf
      <4>5. \A s \in Searchers : Fine(s)'
        BY <2>1, <4>1, <4>4 DEF Fine, Searching
      <4> QED
        BY <4>2, <4>3, <4>5
    <3> QED
      BY <3>1, <3>2
  <2>3. (ListInv <=> Structure /\ SearchTypes /\ \A s \in Searchers : Fine(s))'
    BY InvIs, PTL
  <2> QED
    BY <2>2, <2>3
<1> QED
  BY <1>1, <1>2, PTL DEF Spec

\* The variables keep their types: in particular no walk leaves the nodes, and the counter
\* stays within the nodes there are.
THEOREM TypesRight == Spec => []TypeOK
<1>1. ListInv => TypeOK
  <2> SUFFICES ASSUME ListInv PROVE TypeOK
    OBVIOUS
  <2>1. Structure /\ SearchTypes /\ Shape /\ OpTypes /\ Counted /\ Linking /\ Unlinking
    BY DEF ListInv, Structure
  <2>2. elementCount \in 0 .. MaxNodes
    <3>1. IsFiniteSet(Chain(0)) /\ Cardinality(Chain(0)) \in 0 .. MaxNodes /\ MaxNodes \in Nat
      BY <2>1, CountFacts, PlacesAre
    <3>2. CASE op.name = "link" /\ op.level > 0
      <4>1. op.node \in Chain(0)
        BY <2>1, <3>2, PlacesAre DEF Linking, Levels
      <4>2. Cardinality(Chain(0)) # 0
        BY <3>1, <4>1, FS_EmptySet
      <4> QED
        BY <2>1, <3>1, <3>2, <4>2 DEF Counted
    <3>3. CASE op.name = "unlink" /\ op.level > 0
      <4>1. op.node \notin Chain(0) /\ op.node \in NodeIds /\ Chain(0) \subseteq NodeIds
        BY <2>1, <3>3, ListFacts, LevelFacts, PlacesAre DEF Unlinking, Levels, ListRanks, LevelsAre
      <4>2. Cardinality(Chain(0) \cup {op.node}) = Cardinality(Chain(0)) + 1
        BY <3>1, <4>1, FS_AddElement
      <4>3. Cardinality(Chain(0) \cup {op.node}) <= Cardinality(NodeIds)
        <5>1. IsFiniteSet(NodeIds)
          BY <3>1, FS_Interval DEF NodeIds
        <5>2. Chain(0) \cup {op.node} \in SUBSET NodeIds
          BY <4>1
        <5> QED
          BY <5>1, <5>2, FS_Subset
      <4>4. Cardinality(NodeIds) = MaxNodes
        BY <3>1, FS_Interval DEF NodeIds
      <4> QED
        BY <2>1, <3>1, <3>3, <4>2, <4>3, <4>4 DEF Counted
    <3>4. CASE ~(op.name = "link" /\ op.level > 0) /\ ~(op.name = "unlink" /\ op.level > 0)
      BY <2>1, <3>1, <3>4 DEF Counted
    <3> QED
      BY <3>2, <3>3, <3>4
  <2> QED
    BY <2>1, <2>2 DEF TypeOK, Shape, ListTypes, OpTypes, SearchTypes
<1> QED
  BY <1>1, ListInvariant, PTL

\* A searcher that looks at any moment, in the middle of an insert or of a delete, finds
\* every level in ascending order of keys.
THEOREM SortedAlways == Spec => []ChainsSorted
<1>1. ListInv => ChainsSorted
  <2> SUFFICES ASSUME Shape, NEW i \in Levels, NEW n \in Chain(i), forward[n][i] # NULL
               PROVE  KeyOf(n) < KeyOf(forward[n][i])
    BY DEF ListInv, Structure, ChainsSorted
  <2>1. n \in DOMAIN nodes /\ n \in Places
    BY LevelFacts DEF LevelsAre, Places
  <2>2. RankOf[n] = KeyOf(n) + 1 /\ KeyOf(n) \in Nat
    BY <2>1, ListFacts, SkipAssumption DEF ListRanks
  <2>3. /\ KeyOf(forward[n][i]) \in Nat /\ RankOf[forward[n][i]] = KeyOf(forward[n][i]) + 1
        /\ RankOf[n] < RankOf[forward[n][i]]
    BY <2>1, NextIs
  <2> QED
    BY <2>2, <2>3
<1> QED
  BY <1>1, ListInvariant, PTL

\* A search that descends misses no node, and insert and delete set update[] on every level
\* that has nodes.
THEOREM NestedAlways == Spec => []LevelsNested
<1>1. ListInv => LevelsNested
  BY DEF ListInv, Structure, Levelled
<1> QED
  BY <1>1, ListInvariant, PTL

\* When no call runs the counter is the number of nodes of the list.
THEOREM CountAlwaysExact == Spec => []CountIsExact
<1>1. ListInv => CountIsExact
  BY DEF ListInv, Structure, Counted, CountIsExact, Idle
<1> QED
  BY <1>1, ListInvariant, PTL

\* A search that takes no lock says "found" only of a key that was there while it ran,
\* whatever inserts and deletes it overlaps with.
THEOREM FoundAlwaysWasThere == Spec => []FoundWasThere
<1>1. ListInv => FoundWasThere
  BY DEF ListInv
<1> QED
  BY <1>1, ListInvariant, PTL

-------------------------------------------------------------------------------
\* The list is a sorted map.

\* The view of a key is the value of its only node on level 0.
ViewIs ==
  /\ View = [k \in Keys |-> View[k]]
  /\ \A k \in Keys : (\A n \in Chain(0) : KeyOf(n) # k) => View[k] = NoVal
  /\ \A n \in Chain(0) : KeyOf(n) \in Keys /\ nodes[n].val \in Vals /\ View[KeyOf(n)] = nodes[n].val
  /\ \A m, n \in Chain(0) : KeyOf(m) = KeyOf(n) => m = n

\* Keys tell the nodes of level 0 apart, so the view is well defined.
LEMMA ViewFacts == Shape => ViewIs
<1> SUFFICES ASSUME Shape PROVE ViewIs
  OBVIOUS
<1>1. 0 \in Levels /\ Chain(0) \subseteq DOMAIN nodes /\ Chain(0) \subseteq At(0)
  BY LevelFacts, PlacesAre DEF Levels, LevelsAre, At
<1>2. \A n \in Chain(0) : KeyOf(n) \in Keys /\ nodes[n].val \in Vals /\ RankOf[n] = KeyOf(n) + 1
  BY <1>1, ListFacts DEF ListRanks
<1>3. \A m, n \in Chain(0) : KeyOf(m) = KeyOf(n) => m = n
  <2> SUFFICES ASSUME NEW m \in Chain(0), NEW n \in Chain(0), KeyOf(m) = KeyOf(n) PROVE m = n
    OBVIOUS
  <2>1. RankOf[m] = RankOf[n]
    BY <1>2
  <2> QED
    BY <1>1, <2>1, Between
<1> DEFINE with(k) == {n \in Chain(0) : KeyOf(n) = k}
<1>4. View = [k \in Keys |-> IF with(k) = {} THEN NoVal ELSE nodes[CHOOSE n \in with(k) : TRUE].val]
  BY DEF View
<1>5. \A k \in Keys : View[k] = IF with(k) = {} THEN NoVal ELSE nodes[CHOOSE n \in with(k) : TRUE].val
  BY <1>4
<1>6. View = [k \in Keys |-> View[k]]
  BY <1>4
<1>7. ASSUME NEW k \in Keys, \A n \in Chain(0) : KeyOf(n) # k PROVE View[k] = NoVal
  BY <1>5, <1>7
<1>8. ASSUME NEW n \in Chain(0) PROVE View[KeyOf(n)] = nodes[n].val
  <2>1. KeyOf(n) \in Keys /\ n \in with(KeyOf(n))
    BY <1>2
  <2>2. (CHOOSE m \in with(KeyOf(n)) : TRUE) \in with(KeyOf(n))
    BY <2>1
  <2>3. (CHOOSE m \in with(KeyOf(n)) : TRUE) = n
    BY <1>3, <2>2
  <2> QED
    BY <1>5, <2>1, <2>3
<1> QED
  BY <1>2, <1>3, <1>6, <1>7, <1>8 DEF ViewIs

\* ViewFacts of the state after a step.
LEMMA ViewAfter ==
  ASSUME Shape'
  PROVE  /\ View' = [k \in Keys |-> View'[k]]
         /\ \A k \in Keys : (\A n \in Chain(0)' : KeyOf(n)' # k) => View'[k] = NoVal
         /\ \A n \in Chain(0)' : /\ KeyOf(n)' \in Keys /\ nodes'[n].val \in Vals
                                 /\ View'[KeyOf(n)'] = nodes'[n].val
<1>1. (Shape => ViewIs)'
  BY ViewFacts, PTL
<1> QED
  BY <1>1 DEF ViewIs

\* A step that changes neither level 0 nor its nodes changes no value.
LEMMA SameView ==
  ASSUME Shape, Shape', Chain(0)' = Chain(0), \A n \in Chain(0) : nodes'[n] = nodes[n]
  PROVE  View' = View
<1>1. \A n \in Chain(0) : KeyOf(n)' = KeyOf(n)
  BY DEF KeyOf
<1>2. ASSUME NEW k \in Keys PROVE View'[k] = View[k]
  <2>1. CASE \A n \in Chain(0) : KeyOf(n) # k
    BY <1>1, <2>1, ViewFacts, ViewAfter DEF ViewIs
  <2>2. CASE \E n \in Chain(0) : KeyOf(n) = k
    <3>1. PICK n \in Chain(0) : KeyOf(n) = k
      BY <2>2
    <3>2. View[k] = nodes[n].val
      BY <3>1, ViewFacts DEF ViewIs
    <3>3. View'[k] = nodes'[n].val
      BY <1>1, <3>1, ViewAfter
    <3> QED
      BY <3>2, <3>3
  <2> QED
    BY <2>1, <2>2
<1> QED
  BY <1>2, ViewFacts, ViewAfter DEF ViewIs

\* A value is written: Put.
LEMMA SetPuts ==
  ASSUME Structure, NEW k \in Keys, NEW v \in Vals, SetExisting(k, v)
  PROVE  View' = [View EXCEPT ![k] = v]
<1>1. Shape /\ Shape' /\ Chain(0)' = Chain(0)
  BY SetKeeps, PlacesAre DEF Structure, Levels
<1>2. PICK n : n = Find(k)
  OBVIOUS
<1>3. n \in Chain(0) /\ KeyOf(n) = k
  BY <1>1, <1>2, FindIs, SkipAssumption DEF SetExisting, Structure, Levelled, Idle
<1>4. nodes' = [nodes EXCEPT ![n].val = v]
  BY <1>2 DEF SetExisting
<1>5. PICK top \in 0 .. MaxNodes :
        DOMAIN nodes = 1 .. top /\ nodes \in [1 .. top -> [key : Keys, val : Vals]]
  BY <1>1, NodesAre DEF Shape
<1>6. Chain(0) \subseteq DOMAIN nodes
  BY <1>1, LevelFacts, PlacesAre DEF LevelsAre, Levels
<1>7. /\ nodes'[n].val = v
      /\ \A m \in Chain(0) : KeyOf(m)' = KeyOf(m) /\ (m # n => nodes'[m] = nodes[m])
  BY <1>3, <1>4, <1>5, <1>6 DEF KeyOf
<1>8. ASSUME NEW j \in Keys PROVE View'[j] = IF j = k THEN v ELSE View[j]
  <2>1. CASE j = k
    BY <1>1, <1>3, <1>7, <2>1, ViewAfter
  <2>2. CASE j # k /\ \A m \in Chain(0) : KeyOf(m) # j
    BY <1>1, <1>7, <2>2, ViewFacts, ViewAfter DEF ViewIs
  <2>3. CASE j # k /\ \E m \in Chain(0) : KeyOf(m) = j
    <3>1. PICK m \in Chain(0) : KeyOf(m) = j
      BY <2>3
    <3>2. m # n /\ nodes'[m] = nodes[m] /\ KeyOf(m)' = j
      BY <1>3, <1>7, <2>3, <3>1
    <3>3. View[j] = nodes[m].val
      BY <1>1, <3>1, ViewFacts DEF ViewIs
    <3>4. View'[j] = nodes'[m].val
      BY <1>1, <3>1, <3>2, ViewAfter
    <3> QED
      BY <2>3, <3>2, <3>3, <3>4
  <2> QED
    BY <2>1, <2>2, <2>3
<1> QED
  BY <1>1, <1>8, ViewFacts, ViewAfter DEF ViewIs

\* A node is linked on level 0: Put.
LEMMA LinkPuts ==
  ASSUME Structure, Link, op.level = 0, NEW n, n = op.node
  PROVE  KeyOf(n) \in Keys /\ nodes[n].val \in Vals /\ View' = [View EXCEPT ![KeyOf(n)] = nodes[n].val]
<1>1. PICK l, p : l = op.level /\ p = op.update[l]
  OBVIOUS
<1>2. /\ Shape /\ Shape' /\ nodes' = nodes /\ n \in DOMAIN nodes
      /\ Chain(0)' = Chain(0) \cup {n}
  BY <1>1, LinkEffect DEF Structure
<1>3. \A m : KeyOf(m)' = KeyOf(m)
  BY <1>2 DEF KeyOf
<1>4. KeyOf(n) \in Keys /\ nodes[n].val \in Vals
  BY <1>2, ListFacts DEF ListRanks
<1>5. ASSUME NEW j \in Keys PROVE View'[j] = IF j = KeyOf(n) THEN nodes[n].val ELSE View[j]
  <2>1. CASE j = KeyOf(n)
    BY <1>2, <1>3, <2>1, ViewAfter
  <2>2. CASE j # KeyOf(n) /\ \A m \in Chain(0) : KeyOf(m) # j
    BY <1>2, <1>3, <2>2, ViewFacts, ViewAfter DEF ViewIs
  <2>3. CASE j # KeyOf(n) /\ \E m \in Chain(0) : KeyOf(m) = j
    <3>1. PICK m \in Chain(0) : KeyOf(m) = j
      BY <2>3
    <3>2. View[j] = nodes[m].val
      BY <1>2, <3>1, ViewFacts DEF ViewIs
    <3>3. View'[j] = nodes'[m].val
      BY <1>2, <1>3, <3>1, ViewAfter
    <3> QED
      BY <1>2, <2>3, <3>2, <3>3
  <2> QED
    BY <2>1, <2>2, <2>3
<1> QED
  BY <1>2, <1>4, <1>5, ViewFacts, ViewAfter DEF ViewIs

\* A node is unlinked from level 0: Remove.
LEMMA UnlinkRemovesKey ==
  ASSUME Structure, Unlink, op.level = 0, NEW n, n = op.node
  PROVE  KeyOf(n) \in Keys /\ View' = [View EXCEPT ![KeyOf(n)] = NoVal]
<1>1. PICK l, p : l = op.level /\ p = op.update[l]
  OBVIOUS
<1>2. /\ Shape /\ Shape' /\ nodes' = nodes /\ n \in DOMAIN nodes /\ n \in Chain(0)
      /\ Chain(0)' = Chain(0) \ {n}
  BY <1>1, UnlinkEffect DEF Structure
<1>3. \A m : KeyOf(m)' = KeyOf(m)
  BY <1>2 DEF KeyOf
<1>4. KeyOf(n) \in Keys
  BY <1>2, ListFacts DEF ListRanks
<1>5. ASSUME NEW j \in Keys PROVE View'[j] = IF j = KeyOf(n) THEN NoVal ELSE View[j]
  <2>1. CASE j = KeyOf(n)
    BY <1>2, <1>3, <2>1, ViewFacts, ViewAfter DEF ViewIs
  <2>2. CASE j # KeyOf(n) /\ \A m \in Chain(0) : KeyOf(m) # j
    BY <1>2, <1>3, <2>2, ViewFacts, ViewAfter DEF ViewIs
  <2>3. CASE j # KeyOf(n) /\ \E m \in Chain(0) : KeyOf(m) = j
    <3>1. PICK m \in Chain(0) : KeyOf(m) = j
      BY <2>3
    <3>2. View[j] = nodes[m].val
      BY <1>2, <3>1, ViewFacts DEF ViewIs
    <3>3. View'[j] = nodes'[m].val
      BY <1>2, <1>3, <2>3, <3>1, ViewAfter
    <3> QED
      BY <1>2, <2>3, <3>2, <3>3
  <2> QED
    BY <2>1, <2>2, <2>3
<1> QED
  BY <1>2, <1>4, <1>5, ViewFacts, ViewAfter DEF ViewIs

\* Each step of a writer writes one value, removes one, empties the map, or leaves it alone.
LEMMA WritesMap ==
  ASSUME Structure, Writes PROVE [AbstractMap!SmNext]_View
<1>0. Shape /\ Shape' /\ 0 \in Levels
  BY WritesKeep, PlacesAre DEF Levels, Structure
<1>1. CASE \E k \in Keys, v \in Vals : SetExisting(k, v)
  <2>1. PICK k \in Keys, v \in Vals : SetExisting(k, v)
    BY <1>1
  <2>2. View' = [View EXCEPT ![k] = v]
    BY <2>1, SetPuts
  <2> QED
    BY <2>2 DEF AbstractMap!SmNext, AbstractMap!Put
<1>2. CASE \E k \in Keys, v \in Vals, h \in Heights : InsertBegins(k, v, h)
  <2>1. Chain(0)' = Chain(0) /\ \A m \in DOMAIN nodes : nodes'[m] = nodes[m]
    BY <1>0, <1>2, InsertBeginsKeeps
  <2>2. Chain(0) \subseteq DOMAIN nodes
    BY <1>0, LevelFacts DEF LevelsAre
  <2> QED
    BY <1>0, <2>1, <2>2, SameView
<1>3. CASE Link
  <2>1. CASE op.level = 0
    BY <1>3, <2>1, LinkPuts DEF AbstractMap!SmNext, AbstractMap!Put
  <2>2. CASE op.level # 0
    <3>1. PICK l, n, p : l = op.level /\ n = op.node /\ p = op.update[l]
      OBVIOUS
    <3>2. Chain(0)' = Chain(0) /\ nodes' = nodes
      BY <1>0, <1>3, <2>2, <3>1, LinkEffect
    <3> QED
      BY <1>0, <3>2, SameView
  <2> QED
    BY <2>1, <2>2
<1>4. CASE Unlink
  <2>1. CASE op.level = 0
    BY <1>4, <2>1, UnlinkRemovesKey DEF AbstractMap!SmNext, AbstractMap!Remove
  <2>2. CASE op.level # 0
    <3>1. PICK l, n, p : l = op.level /\ n = op.node /\ p = op.update[l]
      OBVIOUS
    <3>2. Chain(0)' = Chain(0) /\ nodes' = nodes
      BY <1>0, <1>4, <2>2, <3>1, UnlinkEffect
    <3> QED
      BY <1>0, <3>2, SameView
  <2> QED
    BY <2>1, <2>2
<1>5. CASE \E k \in Keys : DeleteBegins(k)
  <2>1. Chain(0)' = Chain(0) /\ nodes' = nodes
    BY <1>0, <1>5, DeleteBeginsKeeps DEF DeleteBegins, listVars
  <2> QED
    BY <1>0, <2>1, SameView
<1>6. CASE Lower
  <2>1. Chain(0)' = Chain(0) /\ nodes' = nodes
    BY <1>0, <1>6, LowerKeeps DEF Lower
  <2> QED
    BY <1>0, <2>1, SameView
<1>7. CASE DeleteEnds
  <2>1. Chain(0)' = Chain(0) /\ nodes' = nodes
    BY <1>0, <1>7, DeleteEndsKeeps DEF DeleteEnds
  <2> QED
    BY <1>0, <2>1, SameView
<1>8. CASE Clear
  <2>1. Chain(0)' = {}
    BY <1>0, <1>8, ClearKeeps
  <2>2. View' = [k \in Keys |-> NoVal]
    BY <1>0, <2>1, ViewAfter
  <2> QED
    BY <2>2 DEF AbstractMap!SmNext, AbstractMap!Empty, AbstractMap!Nothing
<1> QED
  BY <1>1, <1>2, <1>3, <1>4, <1>5, <1>6, <1>7, <1>8 DEF Writes

\* The skip list implements a sorted map: although an insert and a delete take many steps,
\* the map changes in one of them, where level 0 does, or where a value is written.
THEOREM ListIsMap == Spec => ImplementsSortedMap
<1>1. Init => AbstractMap!SmInit
  <2> SUFFICES ASSUME Init PROVE View = [k \in Keys |-> NoVal]
    BY DEF AbstractMap!SmInit, AbstractMap!Nothing
  <2>1. Shape /\ Chain(0) = {}
    BY InitStructure, PlacesAre DEF Structure, Levels
  <2> QED
    BY <2>1, ViewFacts DEF ViewIs
<1>2. ListInv /\ [Next]_vars => [AbstractMap!SmNext]_View
  <2> SUFFICES ASSUME ListInv, [Next]_vars PROVE [AbstractMap!SmNext]_View
    OBVIOUS
  <2>1. Structure /\ SearchTypes /\ Shape
    BY InvIs DEF Structure
  <2>2. CASE Writes
    BY <2>1, <2>2, WritesMap
  <2>3. CASE UNCHANGED <<listVars, op>>
    <3>1. Structure' /\ Chain(0)' = Chain(0) /\ nodes' = nodes
      BY <2>1, <2>3, ReadersKeep, PlacesAre DEF Levels, listVars
    <3>2. Shape'
      BY <3>1 DEF Structure
    <3> QED
      BY <2>1, <3>1, <3>2, SameView
  <2>4. CASE Next
    <3>1. Writes \/ UNCHANGED <<listVars, op>>
      BY <2>1, <2>4, StepIs, SearchSteps
    <3> QED
      BY <2>2, <2>3, <3>1
  <2>5. CASE UNCHANGED vars
    BY <2>3, <2>5 DEF vars
  <2> QED
    BY <2>4, <2>5
<1> QED
  BY <1>1, <1>2, ListInvariant, PTL DEF Spec, ImplementsSortedMap, AbstractMap!SmSpec
===============================================================================
