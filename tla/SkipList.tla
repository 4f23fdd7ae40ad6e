------------------------------- MODULE SkipList -------------------------------
(***************************************************************************)
(* SkipList of skiplist.h: nodes in sorted chains, one chain per level, a  *)
(* node of height h in the levels 0 .. h-1.  insert_element and            *)
(* delete_element hold the mutex; search_element does not.  So a step is   *)
(* one write of a writer to what searchers can reach, or one read of a     *)
(* searcher.  Reads and writes of pointers are taken as atomic and         *)
(* in program order, and insert_element's update[] as large as it is used: *)
(* the source declares it one pointer too small (skiplist.h:162).          *)
(*                                                                         *)
(* A deleted node is not freed, and keeps its pointers: its place is not   *)
(* used again.  clear() frees nodes and takes no lock; it is called when   *)
(* nobody else uses the list.                                              *)
(***************************************************************************)
EXTENDS Integers, FiniteSets

CONSTANTS
  Keys, Vals,
  NoVal,      \* a key without a node
  MaxLevel,   \* _max_level
  MaxNodes,   \* bound on the nodes ever created
  Searchers   \* threads in search_element

ASSUME SkipAssumption ==
  /\ Keys \subseteq Nat /\ Keys # {}
  /\ MaxLevel \in Nat \ {0} /\ MaxNodes \in Nat
  /\ NoVal \notin Vals

Header == 0
NULL == -1
NodeIds == 1 .. MaxNodes
Places == NodeIds \cup {Header}
Levels == 0 .. MaxLevel

VARIABLES
  forward,          \* place -> level -> the next node there
  nodes,            \* node -> its key and value, for nodes created so far
  skipListLevel,    \* _skip_list_level
  elementCount,     \* _element_count
  op,               \* what the holder of the mutex does
  search,           \* searcher -> what it does
  crashed,          \* a searcher followed a null pointer
  saw               \* history: searcher -> answers that were true during its search

listVars == <<forward, nodes, skipListLevel, elementCount>>
readVars == <<search, crashed>>
vars == <<listVars, op, readVars, saw>>

\* update[] of a call that holds the mutex, the node it links or unlinks, its height
\* when it is new, and the level it has come to.
Idle == [name |-> "idle", node |-> NULL, height |-> 0, level |-> 0,
         update |-> [i \in Levels |-> Header]]

\* key, current and i of search_element, and its answer.
Resting == [at |-> "rest", key |-> CHOOSE k \in Keys : TRUE, cur |-> Header,
            level |-> 0, found |-> FALSE]

Init ==
  /\ forward = [p \in Places |-> [i \in Levels |-> NULL]]
  /\ nodes = <<>>
  /\ skipListLevel = 0
  /\ elementCount = 0
  /\ op = Idle
  /\ search = [s \in Searchers |-> Resting]
  /\ crashed = FALSE
  /\ saw = [s \in Searchers |-> {}]

KeyOf(n) == nodes[n].key

\* Mutation of LastBefore: equal keys are passed too.
LastBeforeOrAt(p, i, k) ==
  LET walk[q \in Places] ==
        IF forward[q][i] # NULL /\ KeyOf(forward[q][i]) <= k THEN walk[forward[q][i]] ELSE q
  IN  walk[p]

\* The last node before key k in the chain of level i, from place p on.
LastBefore(p, i, k) ==
  LET walk[q \in Places] ==
        IF forward[q][i] # NULL /\ KeyOf(forward[q][i]) < k THEN walk[forward[q][i]] ELSE q
  IN  walk[p]

\* What the first loop of insert_element and delete_element leaves in update[]: above
\* the list's level it is not written, and insert_element puts the header there.
Update(k) ==
  LET update[i \in Levels] ==
        IF i > skipListLevel THEN Header
        ELSE LastBefore(IF i = MaxLevel THEN Header ELSE update[i + 1], i, k)
  IN  update

\* The node with key k, or NULL.
Find(k) ==
  LET n == forward[Update(k)[0]][0]
  IN  IF n # NULL /\ KeyOf(n) = k THEN n ELSE NULL

\* Mutation of Heights: the cap is forgotten.
HeightsUncapped == 1 .. MaxLevel + 1

\* What get_random_level may return.
Heights == 1 .. MaxLevel

\* insert_element finds the key.
SetExisting(k, v) ==
  /\ op = Idle /\ Find(k) # NULL
  /\ nodes' = [nodes EXCEPT ![Find(k)].val = v]
  /\ UNCHANGED <<forward, skipListLevel, elementCount, op, readVars>>

\* get_random_level and create_node: nobody else can reach the node yet, but
\* searchers can already see the new level.
InsertBegins(k, v, h) ==
  /\ op = Idle /\ Find(k) = NULL
  /\ Cardinality(DOMAIN nodes) < MaxNodes
  /\ LET n == Cardinality(DOMAIN nodes) + 1
     IN  /\ nodes' = [m \in 1 .. n |-> IF m = n THEN [key |-> k, val |-> v] ELSE nodes[m]]
         /\ op' = [name |-> "link", node |-> n, height |-> h, level |-> 0,
                   update |-> Update(k)]
  /\ skipListLevel' = IF h > skipListLevel THEN h ELSE skipListLevel
  /\ UNCHANGED <<forward, elementCount, readVars>>

\* One turn of the loop that links the node, from level 0 up, with these next nodes.
LinkWith(next) ==
  LET p == op.update[op.level]
      last == op.level + 1 = op.height
  IN  /\ op.name = "link"
      /\ forward' = [forward EXCEPT ![op.node][op.level] = next, ![p][op.level] = op.node]
      /\ op' = IF last THEN Idle ELSE [op EXCEPT !.level = @ + 1]
      /\ elementCount' = IF last THEN elementCount + 1 ELSE elementCount
      /\ UNCHANGED <<nodes, skipListLevel, readVars>>

\* Mutation of Link: the node's pointers stay as its constructor set them.
LinkCutting == LinkWith(NULL)

Link == LinkWith(forward[op.update[op.level]][op.level])

\* delete_element finds the key; when it does not it changes nothing.
DeleteBegins(k) ==
  /\ op = Idle /\ Find(k) # NULL
  /\ op' = [name |-> "unlink", node |-> Find(k), height |-> 0, level |-> 0,
            update |-> Update(k)]
  /\ UNCHANGED <<listVars, readVars>>

\* Mutation of AtNode: the loop stops one level early.
AtNodeBelow ==
  op.level + 1 < skipListLevel /\ forward[op.update[op.level]][op.level] = op.node

\* The loop over the levels breaks where update[i] does not point to the node.
AtNode ==
  op.level <= skipListLevel /\ forward[op.update[op.level]][op.level] = op.node

\* One turn of the loop that unlinks the node, from level 0 up.
Unlink ==
  /\ op.name = "unlink" /\ AtNode
  /\ forward' = [forward EXCEPT ![op.update[op.level]][op.level] = forward[op.node][op.level]]
  /\ op' = [op EXCEPT !.level = @ + 1]
  /\ UNCHANGED <<nodes, skipListLevel, elementCount, readVars>>

EmptyTop == skipListLevel > 0 /\ forward[Header][skipListLevel] = NULL

\* One turn of the loop that lowers _skip_list_level.
Lower ==
  /\ op.name = "unlink" /\ ~AtNode /\ EmptyTop
  /\ skipListLevel' = skipListLevel - 1
  /\ UNCHANGED <<forward, nodes, elementCount, op, readVars>>

DeleteEnds ==
  /\ op.name = "unlink" /\ ~AtNode /\ ~EmptyTop
  /\ elementCount' = elementCount - 1
  /\ op' = Idle
  /\ UNCHANGED <<forward, nodes, skipListLevel, readVars>>

\* The nodes of the chain of level i.
Chain(i) ==
  LET after[p \in Places] ==
        IF forward[p][i] = NULL THEN {}
        ELSE {forward[p][i]} \cup after[forward[p][i]]
  IN  after[Header]

\* clear() takes no lock: no call runs.  What it frees may be used again.
ClearTo(count) ==
  /\ op = Idle /\ \A s \in Searchers : search[s].at = "rest"
  /\ elementCount' = count
  /\ forward' = [p \in Places |->
                   [i \in Levels |-> IF p = Header /\ i = MaxLevel
                                     THEN forward[p][i] ELSE NULL]]
  /\ nodes' = <<>>
  /\ skipListLevel' = 0
  /\ UNCHANGED <<op, readVars>>

\* Mutation of Clear: the nodes are not counted down.
ClearKeepingCount == ClearTo(elementCount)

Clear == ClearTo(elementCount - Cardinality(Chain(0)))

-----------------------------------------------------------------------------
\* search_element, one read of a pointer per step.
Read(s) == forward[search[s].cur][search[s].level]

Goto(s, at) == search' = [search EXCEPT ![s].at = at]

SearchBegins(s, k) ==
  /\ search[s].at = "rest"
  /\ search' = [search EXCEPT ![s] = [Resting EXCEPT !.at = "test", !.key = k,
                                                  !.level = skipListLevel]]
  /\ UNCHANGED <<listVars, op, crashed>>

\* The while loop of a level ends.
NextLevel(s) ==
  search' = IF search[s].level = 0
            THEN [search EXCEPT ![s].at = "answer"]
            ELSE [search EXCEPT ![s].at = "test", ![s].level = @ - 1]

\* The condition's first read: is there a next node?
Test(s) ==
  /\ search[s].at = "test"
  /\ IF Read(s) = NULL THEN NextLevel(s) ELSE Goto(s, "compare")
  /\ UNCHANGED <<listVars, op, crashed>>

\* Its second read, which may return another pointer than the first.
Compare(s) ==
  /\ search[s].at = "compare" /\ Read(s) # NULL
  /\ IF KeyOf(Read(s)) < search[s].key THEN Goto(s, "advance") ELSE NextLevel(s)
  /\ UNCHANGED <<listVars, op, crashed>>

\* The assignment in the loop reads the pointer a third time.
Advance(s) ==
  /\ search[s].at = "advance" /\ Read(s) # NULL
  /\ search' = [search EXCEPT ![s].cur = Read(s), ![s].at = "test"]
  /\ UNCHANGED <<listVars, op, crashed>>

\* Either of them may meet the null pointer of a node that was deleted meanwhile.
FollowNull(s) ==
  /\ search[s].at \in {"compare", "advance"} /\ Read(s) = NULL
  /\ crashed' = TRUE
  /\ UNCHANGED <<listVars, op, search>>

\* Mutation of Found: any node after current is an answer.
FoundAny(s) == forward[search[s].cur][0] # NULL

\* The node after current has the key.
Found(s) ==
  LET n == forward[search[s].cur][0] IN n # NULL /\ KeyOf(n) = search[s].key

Answer(s) ==
  /\ search[s].at = "answer"
  /\ search' = [search EXCEPT ![s] = [Resting EXCEPT !.at = "answered", !.found = Found(s)]]
  /\ UNCHANGED <<listVars, op, crashed>>

\* The answer is printed and returned; the locals are not read again.
Return(s) ==
  /\ search[s].at = "answered"
  /\ search' = [search EXCEPT ![s] = Resting]
  /\ UNCHANGED <<listVars, op, crashed>>

SearchElement(s) ==
  \/ \E k \in Keys : SearchBegins(s, k)
  \/ Test(s) \/ Compare(s) \/ Advance(s) \/ FollowNull(s) \/ Answer(s) \/ Return(s)

InsertElement ==
  \/ \E k \in Keys, v \in Vals :
       SetExisting(k, v) \/ \E h \in Heights : InsertBegins(k, v, h)
  \/ Link

DeleteElement ==
  (\E k \in Keys : DeleteBegins(k)) \/ Unlink \/ Lower \/ DeleteEnds

Present(k) == \E n \in Chain(0) : KeyOf(n) = k

\* The view of a map: the value of the node in the chain of level 0.
View ==
  LET at(k) == {n \in Chain(0) : KeyOf(n) = k}
  IN  [k \in Keys |-> IF at(k) = {} THEN NoVal ELSE nodes[CHOOSE n \in at(k) : TRUE].val]

\* History: whether the key was there at some moment since the search began.
Observe ==
  saw' = [s \in Searchers |->
           CASE search'[s].at = "rest" -> {}
             [] search[s].at \in {"answer", "answered"} /\ search'[s].at = "answered" -> saw[s]
             [] OTHER -> saw[s] \cup {Present(search[s].key)'}]

Next ==
  /\ ~crashed
  /\ \/ InsertElement \/ DeleteElement \/ Clear
     \/ \E s \in Searchers : SearchElement(s)
  /\ Observe

Spec == Init /\ [][Next]_vars

-----------------------------------------------------------------------------
TypeOK ==
  /\ forward \in [Places -> [Levels -> NodeIds \cup {NULL}]]
  /\ nodes \in UNION {[1 .. n -> [key : Keys, val : Vals]] : n \in 0 .. MaxNodes}
  /\ skipListLevel \in Levels
  /\ elementCount \in 0 .. MaxNodes
  /\ op \in [name : {"idle", "link", "unlink"}, node : NodeIds \cup {NULL},
             height : Levels, level : Levels, update : [Levels -> Places]]
  /\ search \in [Searchers ->
                   [at : {"rest", "test", "compare", "advance", "answer", "answered"},
                    key : Keys, cur : Places, level : Levels, found : BOOLEAN]]
  /\ crashed \in BOOLEAN
  /\ saw \in [Searchers -> SUBSET BOOLEAN]

\* Every chain is in ascending order of keys at every moment a searcher can look, also
\* in the middle of an insert or a delete (skiplist.h:196, 325).
ChainsSorted ==
  \A i \in Levels : \A n \in Chain(i) :
    forward[n][i] # NULL => KeyOf(n) < KeyOf(forward[n][i])

\* A node a higher level leads to is in the chain below, except the one that a delete is
\* taking out from level 0 up (skiplist.h:321), so a search that descends misses nothing;
\* and _skip_list_level is no lower than any level with nodes, or insert and delete would
\* not set update[] there (skiplist.h:165, 328).
LevelsNested ==
  /\ \A i \in Levels \ {0} : \A n \in Chain(i) :
       n \in Chain(i - 1) \/ (op.name = "unlink" /\ op.node = n)
  /\ \A i \in Levels : Chain(i) # {} => i <= skipListLevel

\* Between calls _element_count is the number of nodes of level 0 (skiplist.h:200, 333, 401).
CountIsExact == op = Idle => elementCount = Cardinality(Chain(0))

\* search_element, which takes no lock, says "found" only of a key that was in the list at
\* some moment of the search, though it may walk over deleted nodes (skiplist.h:354).
FoundWasThere ==
  \A s \in Searchers : search[s].at = "answered" /\ search[s].found => TRUE \in saw[s]

\* It says "not found" only of a key that was missing at some moment of the search: what
\* the mutex would give ("keeps the threads in sync", skiplist.h:90).  A searcher that
\* stands before a node linked since, or advances over one deleted since, misses its key.
MissedWasMissing ==
  \A s \in Searchers : search[s].at = "answered" /\ ~search[s].found => FALSE \in saw[s]

\* An insert, a delete and a clear change the map of the keys at one moment: when level 0
\* changes, or the value.  The map has no search.
AbstractMap == INSTANCE SortedMap WITH SmKeys <- Keys, SmVals <- Vals, SmAbsent <- NoVal,
                                       map <- View
ImplementsSortedMap == AbstractMap!SmSpec
===============================================================================
