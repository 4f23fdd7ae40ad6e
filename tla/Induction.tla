------------------------------- MODULE Induction -------------------------------
(***************************************************************************)
(* Induction over numbers and along chains, and the existence of           *)
(* recursively defined functions, stated with sets and functions instead   *)
(* of predicates: the form in which the provers at hand can use them.      *)
(***************************************************************************)
EXTENDS Integers, WellFoundedInduction, TLAPS

\* Induction over the natural numbers: a set that holds 0 and is closed under the
\* successor holds them all.
LEMMA SetInduction ==
  ASSUME NEW S, 0 \in S, \A n \in Nat : n \in S => n + 1 \in S
  PROVE  Nat \subseteq S
<1> DEFINE T == Nat \ S
<1>1. ASSUME T # {} PROVE FALSE
  <2>1. PICK x \in T : \A y \in T : ~(<<y, x>> \in OpToRel(<, Nat))
    <3> HIDE DEF T
    <3>1. T \subseteq Nat
      BY DEF T
    <3> QED
      BY <1>1, <3>1, WFMin, NatLessThanWellFounded
  <2>2. x # 0 /\ x \in Nat
    OBVIOUS
  <2>3. x - 1 \in T
    BY <2>2
  <2>4. <<x - 1, x>> \in OpToRel(<, Nat)
    BY <2>2 DEF OpToRel
  <2> QED
    BY <2>1, <2>3, <2>4
<1> QED
  BY <1>1

\* Induction along a rank: a set that holds every element of which it holds all that
\* rank lower holds them all.
LEMMA RankInduction ==
  ASSUME NEW P, NEW rank \in [P -> Nat], NEW S,
         \A p \in P : (\A q \in P : rank[q] < rank[p] => q \in S) => p \in S
  PROVE  P \subseteq S
<1> DEFINE Below == {n \in Nat : \A q \in P : rank[q] < n => q \in S}
<1>1. 0 \in Below
  OBVIOUS
<1>2. ASSUME NEW n \in Nat, n \in Below PROVE n + 1 \in Below
  <2>1. ASSUME NEW p \in P, rank[p] < n + 1 PROVE p \in S
    <3>1. \A q \in P : rank[q] < rank[p] => q \in S
      BY <1>2, <2>1
    <3> QED
      BY <3>1
  <2> QED
    BY <2>1
<1>3. Nat \subseteq Below
  <2> HIDE DEF Below
  <2> QED
    BY <1>1, <1>2, SetInduction
<1>4. ASSUME NEW p \in P PROVE p \in S
  <2>1. rank[p] + 1 \in Below
    BY <1>3
  <2> QED
    BY <2>1
<1> QED
  BY <1>4

\* A function on P to V is defined along a chain: by the value at the next element where
\* the chain goes on, and without it where it does not.
Solvable(P, V, go, next, step, base) ==
  \E f \in [P -> V] : \A p \in P : f[p] = IF go[p] THEN step[p][f[next[p]]] ELSE base[p]

\* Such a function exists when the chain goes on to an element of lower rank and the
\* ranks are bounded.
LEMMA BoundedRecursionExists ==
  ASSUME NEW P, NEW V, NEW rank \in [P -> Nat], NEW bound \in Nat,
         NEW go, NEW next, NEW step \in [P -> [V -> V]], NEW base \in [P -> V],
         \A p \in P : rank[p] < bound,
         \A p \in P : go[p] => next[p] \in P /\ rank[next[p]] < rank[p]
  PROVE  Solvable(P, V, go, next, step, base)
<1> DEFINE Part(n) == {p \in P : rank[p] < n}
           Solves(f, n) == \A p \in Part(n) : f[p] = IF go[p] THEN step[p][f[next[p]]] ELSE base[p]
           Solved == {n \in Nat : \E f \in [Part(n) -> V] : Solves(f, n)}
<1>1. 0 \in Solved
  <2>1. Part(0) = {}
    OBVIOUS
  <2>2. [p \in Part(0) |-> base[p]] \in [Part(0) -> V]
    OBVIOUS
  <2>3. Solves([p \in Part(0) |-> base[p]], 0)
    BY <2>1
  <2> QED
    BY <2>2, <2>3
<1>2. ASSUME NEW n \in Nat, n \in Solved PROVE n + 1 \in Solved
  <2>1. PICK f \in [Part(n) -> V] : Solves(f, n)
    BY <1>2
  <2> DEFINE g == [p \in Part(n + 1) |-> IF go[p] THEN step[p][f[next[p]]] ELSE base[p]]
  <2>2. \A p \in Part(n + 1) : go[p] => next[p] \in Part(n)
    OBVIOUS
  <2>3. g \in [Part(n + 1) -> V]
    BY <2>2
  <2>4. \A p \in Part(n) : g[p] = f[p]
    BY <2>1
  <2>5. Solves(g, n + 1)
    <3> SUFFICES ASSUME NEW p \in Part(n + 1)
                 PROVE  g[p] = IF go[p] THEN step[p][g[next[p]]] ELSE base[p]
      OBVIOUS
    <3>1. CASE go[p]
      <4>1. g[next[p]] = f[next[p]]
        BY <3>1, <2>2, <2>4
      <4>2. g[p] = step[p][f[next[p]]]
        BY <3>1
      <4> QED
        BY <3>1, <4>1, <4>2
    <3> QED
      BY <3>1
  <2>6. \E h \in [Part(n + 1) -> V] : Solves(h, n + 1)
    <3> HIDE DEF g, Part, Solves
    <3> QED
      BY <2>3, <2>5
  <2> QED
    <3> HIDE DEF Part, Solves
    <3> QED
      BY <2>6
<1>3. bound \in Solved
  <2> HIDE DEF Solved
  <2> QED
    BY <1>1, <1>2, SetInduction
<1>4. Part(bound) = P
  OBVIOUS
<1> QED
  BY <1>3, <1>4 DEF Solvable

\* The equations at the elements of D.
Solves(f, D, go, next, step, base) ==
  \A p \in D : f[p] = IF go[p] THEN step[p][f[next[p]]] ELSE base[p]

\* Such functions agree where both are defined, if the chain stays there.
LEMMA RecursionIsUnique ==
  ASSUME NEW P, NEW rank \in [P -> Nat], NEW go, NEW next, NEW step, NEW base,
         \A p \in P : go[p] => next[p] \in P /\ rank[next[p]] < rank[p],
         NEW f, Solves(f, P, go, next, step, base),
         NEW g, Solves(g, P, go, next, step, base)
  PROVE  \A p \in P : f[p] = g[p]
<1> DEFINE S == {p \in P : f[p] = g[p]}
<1>1. ASSUME NEW p \in P, \A q \in P : rank[q] < rank[p] => q \in S
      PROVE  p \in S
  <2>1. go[p] => f[next[p]] = g[next[p]]
    BY <1>1
  <2>2. f[p] = g[p]
    BY <2>1 DEF Solves
  <2> QED
    BY <2>2
<1>2. P \subseteq S
  <2> HIDE DEF S
  <2> QED
    BY <1>1, RankInduction
<1> QED
  BY <1>2

\* Such a function exists when the chain goes on to an element of lower rank.
LEMMA RecursionExists ==
  ASSUME NEW P, NEW V, NEW rank \in [P -> Nat],
         NEW go, NEW next, NEW step \in [P -> [V -> V]], NEW base \in [P -> V],
         \A p \in P : go[p] => next[p] \in P /\ rank[next[p]] < rank[p]
  PROVE  Solvable(P, V, go, next, step, base)
<1> DEFINE Part(n) == {p \in P : rank[p] < n}
           Sol(f, D) == Solves(f, D, go, next, step, base)
           sol == [n \in Nat |-> CHOOSE f \in [Part(n) -> V] : Sol(f, Part(n))]
           f == [p \in P |-> sol[rank[p] + 1][p]]
<1>1. ASSUME NEW n \in Nat
      PROVE  \A p \in Part(n) : p \in P /\ rank[p] \in Nat /\ rank[p] < n
                                /\ (go[p] => next[p] \in Part(n) /\ rank[next[p]] < rank[p])
  OBVIOUS
<1>2. ASSUME NEW n \in Nat
      PROVE  sol[n] \in [Part(n) -> V] /\ Sol(sol[n], Part(n))
  <2>1. PICK D : D = Part(n)
    OBVIOUS
  <2>2. PICK r, s, b : /\ r = [p \in D |-> rank[p]] /\ s = [p \in D |-> step[p]]
                       /\ b = [p \in D |-> base[p]]
    OBVIOUS
  <2>3. /\ r \in [D -> Nat] /\ s \in [D -> [V -> V]] /\ b \in [D -> V]
        /\ \A p \in D : r[p] = rank[p] /\ s[p] = step[p] /\ b[p] = base[p] /\ r[p] < n
    BY <2>1, <2>2
  <2>4. \A p \in D : go[p] => next[p] \in D /\ r[next[p]] < r[p]
    BY <1>1, <2>1, <2>3
  <2>5. Solvable(D, V, go, next, s, b)
    <3> HIDE DEF Part
    <3> QED
      BY <2>3, <2>4, BoundedRecursionExists
  <2>6. PICK g \in [D -> V] : \A p \in D : g[p] = IF go[p] THEN s[p][g[next[p]]] ELSE b[p]
    BY <2>5 DEF Solvable
  <2>7. Sol(g, D)
    BY <2>3, <2>6 DEF Solves
  <2> HIDE DEF Sol, Part
  <2>8. \E h \in [Part(n) -> V] : Sol(h, Part(n))
    BY <2>1, <2>6, <2>7
  <2> QED
    BY <2>8
<1>3. ASSUME NEW p \in P, go[p]
      PROVE  sol[rank[p] + 1][next[p]] = f[next[p]]
  <2>1. PICK n, m : n = rank[p] + 1 /\ m = rank[next[p]] + 1
    OBVIOUS
  <2>2. n \in Nat /\ m \in Nat /\ m <= n /\ next[p] \in P
    BY <1>3, <2>1
  <2>3. \A q \in Part(m) : q \in Part(n)
    BY <2>2
  <2>4. PICK D, g, h : D = Part(m) /\ g = sol[m] /\ h = sol[n]
    OBVIOUS
  <2>5. PICK r : r = [q \in D |-> rank[q]]
    OBVIOUS
  <2>6. r \in [D -> Nat] /\ \A q \in D : r[q] = rank[q]
    BY <2>4, <2>5
  <2>7. \A q \in D : go[q] => next[q] \in D /\ r[next[q]] < r[q]
    BY <1>1, <2>2, <2>4, <2>6
  <2>8. Sol(g, D) /\ Sol(h, D)
    <3>1. Sol(sol[m], Part(m)) /\ Sol(sol[n], Part(n))
      BY <1>2, <2>2
    <3> HIDE DEF sol, Part
    <3> QED
      BY <2>3, <2>4, <3>1 DEF Solves
  <2>9. \A q \in D : g[q] = h[q]
    <3> HIDE DEF sol, Part, f
    <3> QED
      BY <2>6, <2>7, <2>8, RecursionIsUnique
  <2>10. next[p] \in D /\ f[next[p]] = sol[m][next[p]]
    BY <2>1, <2>2, <2>4
  <2> QED
    <3> HIDE DEF sol, Part, f
    <3> QED
      BY <2>1, <2>4, <2>9, <2>10
<1>4. ASSUME NEW p \in P
      PROVE  f[p] = (IF go[p] THEN step[p][f[next[p]]] ELSE base[p]) /\ f[p] \in V
  <2>1. PICK n : n = rank[p] + 1
    OBVIOUS
  <2>2. n \in Nat /\ p \in Part(n) /\ f[p] = sol[n][p]
    BY <2>1
  <2>3. sol[n] \in [Part(n) -> V] /\ Sol(sol[n], Part(n))
    BY <1>2, <2>2
  <2> HIDE DEF sol, Part, f
  <2> QED
    BY <1>3, <2>1, <2>2, <2>3 DEF Solves
<1>5. f \in [P -> V]
  <2>1. \A p \in P : sol[rank[p] + 1][p] \in V
    <3>1. \A p \in P : f[p] = sol[rank[p] + 1][p]
      OBVIOUS
    <3> HIDE DEF f, sol
    <3> QED
      BY <1>4, <3>1
  <2> HIDE DEF sol
  <2> QED
    BY <2>1
<1> QED
  <2> HIDE DEF f
  <2> QED
    BY <1>4, <1>5 DEF Solvable
===============================================================================
