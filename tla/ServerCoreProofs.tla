--------------------------- MODULE ServerCoreProofs ---------------------------
(***************************************************************************)
(* Theorems about the command rings and the append-only file, for every    *)
(* length of the rings, every rate of the cron and every number of         *)
(* commands.                                                               *)
(***************************************************************************)
EXTENDS ServerCore, Induction, SequenceTheorems

-------------------------------------------------------------------------------
\* Rings.

\* The slot i places behind slot s.
LEMMA SlotOf ==
  ASSUME NEW n \in Nat \ {0}, NEW s \in 0 .. n - 1, NEW i \in 0 .. n
  PROVE  (s + i) % n = IF s + i < n THEN s + i ELSE s + i - n
<1> DEFINE a == s + i
<1>1. a \in Nat /\ a < 2 * n
  OBVIOUS
<1> HIDE DEF a
<1>2. a < n => a % n = a
  BY <1>1
<1>3. a >= n => a % n = a - n
  BY <1>1
<1>4. a % n = IF a < n THEN a ELSE a - n
  BY <1>1, <1>2, <1>3
<1> QED
  BY <1>4 DEF a

\* The slot behind slot s.
LEMMA NextSlot ==
  ASSUME NEW n \in Nat \ {0}, NEW s \in 0 .. n - 1
  PROVE  (s + 1) % n = IF s + 1 < n THEN s + 1 ELSE 0
OBVIOUS

\* Slots counted from the one behind s.
LEMMA NextSlots ==
  ASSUME NEW n \in Nat \ {0}, NEW s \in 0 .. n - 1, NEW u, u = (s + 1) % n,
         NEW i \in 0 .. n - 1
  PROVE  /\ u \in 0 .. n - 1
         /\ (u + i) % n = IF s + 1 + i < n THEN s + 1 + i ELSE s + 1 + i - n
<1>1. u = IF s + 1 < n THEN s + 1 ELSE 0
  BY NextSlot
<1>2. u \in 0 .. n - 1
  BY <1>1
<1>3. i \in 0 .. n
  OBVIOUS
<1>4. (u + i) % n = IF u + i < n THEN u + i ELSE u + i - n
  BY <1>2, <1>3, SlotOf
<1> QED
  BY <1>1, <1>2, <1>4

\* push_back keeps the types of a ring.
LEMMA PushBackType ==
  ASSUME NEW n \in Nat \ {0}, NEW S, NEW b \in Rings(n, S), NEW cmd \in S
  PROVE  PushBack(b, cmd) \in Rings(n, S)
<1>1. (b.end + 1) % n \in 0 .. n - 1 /\ (b.start + 1) % n \in 0 .. n - 1
  BY DEF Rings
<1> QED
  BY <1>1 DEF PushBack, Rings

\* clear keeps the types of a ring.
LEMMA ClearedType ==
  ASSUME NEW n \in Nat \ {0}, NEW S, NEW b \in Rings(n, S)
  PROVE  Cleared(b) \in Rings(n, S)
BY DEF Cleared, Rings

\* start, end and size of a ring agree, and it holds commands only.
Coherent(b, n, S) ==
  /\ b.size < n => b.start = 0 /\ b.end = b.size
  /\ b.size = n => b.end = b.start
  /\ \A i \in 1 .. b.size : b.v[(b.start + (i - 1)) % n] \in S

\* A command pushed into a ring with room becomes its last.
LEMMA PushBackRoom ==
  ASSUME NEW n \in Nat \ {0}, NEW S, NEW T, S \subseteq T,
         NEW b \in Rings(n, T), Coherent(b, n, S), NEW cmd \in S, b.size < n
  PROVE  /\ Coherent(PushBack(b, cmd), n, S)
         /\ Contents(PushBack(b, cmd)) = Append(Contents(b), cmd)
         /\ Contents(b) \in Seq(S)
<1> DEFINE r == PushBack(b, cmd)
           m == b.size
<1>1. /\ b.capacity = n /\ b.v \in [0 .. n - 1 -> T] /\ m \in 0 .. n - 1
      /\ b.start = 0 /\ b.end = m
  BY DEF Rings, Coherent
<1>2. /\ r.v = [b.v EXCEPT ![m] = cmd] /\ r.start = 0 /\ r.size = m + 1
      /\ r.end = (m + 1) % n /\ r.capacity = n
  BY <1>1 DEF PushBack
<1>3. \A i \in 1 .. m + 1 : (0 + (i - 1)) % n = i - 1
  <2> SUFFICES ASSUME NEW i \in 1 .. m + 1 PROVE (0 + (i - 1)) % n = i - 1
    OBVIOUS
  <2>1. 0 \in 0 .. n - 1 /\ i - 1 \in 0 .. n
    BY <1>1
  <2>2. (0 + (i - 1)) % n = IF 0 + (i - 1) < n THEN 0 + (i - 1) ELSE 0 + (i - 1) - n
    BY <2>1, SlotOf
  <2> QED
    BY <1>1, <2>2
<1>4. Contents(b) = [i \in 1 .. m |-> b.v[i - 1]] /\ Contents(b) \in Seq(S)
  <2>1. \A i \in 1 .. m : b.v[(b.start + (i - 1)) % n] = b.v[i - 1]
    <3> SUFFICES ASSUME NEW i \in 1 .. m PROVE b.v[(b.start + (i - 1)) % n] = b.v[i - 1]
      OBVIOUS
    <3>1. i \in 1 .. m + 1
      BY <1>1
    <3>2. (0 + (i - 1)) % n = i - 1
      BY <1>3, <3>1
    <3> QED
      BY <1>1, <3>2
  <2>2. \A i \in 1 .. m : b.v[i - 1] \in S
    BY <2>1 DEF Coherent
  <2>3. Contents(b) = [i \in 1 .. m |-> b.v[i - 1]]
    BY <1>1, <2>1 DEF Contents
  <2> QED
    BY <1>1, <2>2, <2>3
<1>5. Contents(r) = [i \in 1 .. m + 1 |-> r.v[i - 1]]
  <2> HIDE DEF r
  <2>1. \A i \in 1 .. m + 1 : r.v[(r.start + (i - 1)) % n] = r.v[i - 1]
    BY <1>2, <1>3
  <2> QED
    BY <1>2, <2>1 DEF Contents
<1>6. /\ \A i \in 1 .. m : r.v[i - 1] = b.v[i - 1]
      /\ r.v[m] = cmd
  BY <1>1, <1>2
<1>7. Contents(r) = Append(Contents(b), cmd)
  BY <1>1, <1>4, <1>5, <1>6
<1>8. Coherent(r, n, S)
  <2>1. (m + 1) % n = IF m + 1 < n THEN m + 1 ELSE 0
    BY <1>1, NextSlot
  <2>2. \A i \in 1 .. m + 1 : r.v[i - 1] \in S
    <3>1. \A i \in 1 .. m : b.v[i - 1] \in S
      BY <1>1, <1>3 DEF Coherent
    <3>2. m \in Nat /\ cmd \in S
      BY <1>1
    <3> HIDE DEF r, m
    <3>3. ASSUME NEW i \in 1 .. m + 1 PROVE r.v[i - 1] \in S
      <4>1. CASE i \in 1 .. m
        BY <1>6, <3>1, <4>1
      <4>2. CASE i = m + 1
        <5>1. i - 1 = m
          BY <3>2, <4>2
        <5> QED
          BY <1>6, <3>2, <5>1
      <4> QED
        BY <3>2, <4>1, <4>2
    <3> QED
      BY <3>3
  <2>3. \A i \in 1 .. m + 1 : r.v[(r.start + (i - 1)) % n] \in S
    BY <1>2, <1>3, <2>2
  <2> HIDE DEF r
  <2> QED
    BY <1>1, <1>2, <2>1, <2>3 DEF Coherent
<1> QED
  BY <1>4, <1>7, <1>8

\* A command pushed into a full ring becomes its last, and the first is gone.
LEMMA PushBackFull ==
  ASSUME NEW n \in Nat \ {0}, NEW S, NEW T, S \subseteq T,
         NEW b \in Rings(n, T), Coherent(b, n, S), NEW cmd \in S, b.size = n
  PROVE  /\ Coherent(PushBack(b, cmd), n, S)
         /\ Contents(PushBack(b, cmd)) = Append(Tail(Contents(b)), cmd)
         /\ Contents(b) \in Seq(S) /\ Len(Contents(b)) = n
<1> DEFINE r == PushBack(b, cmd)
           s == b.start
           u == (s + 1) % n
<1>1. /\ b.capacity = n /\ b.v \in [0 .. n - 1 -> T] /\ s \in 0 .. n - 1
      /\ b.end = s
  BY DEF Rings, Coherent
<1>2. /\ r.v = [b.v EXCEPT ![s] = cmd] /\ r.start = u /\ r.size = n
      /\ r.end = u /\ r.capacity = n
  BY <1>1 DEF PushBack
<1>3. \A i \in 1 .. n - 1 : /\ (u + (i - 1)) % n = (s + i) % n
                           /\ (s + i) % n # s /\ (s + i) % n \in 0 .. n - 1
  <2> SUFFICES ASSUME NEW i \in 1 .. n - 1
               PROVE  /\ (u + (i - 1)) % n = (s + i) % n
                      /\ (s + i) % n # s /\ (s + i) % n \in 0 .. n - 1
    OBVIOUS
  <2>1. i - 1 \in 0 .. n - 1 /\ i \in 0 .. n
    OBVIOUS
  <2>2. (s + i) % n = IF s + i < n THEN s + i ELSE s + i - n
    BY <1>1, <2>1, SlotOf
  <2>3. (u + (i - 1)) % n = IF s + 1 + (i - 1) < n THEN s + 1 + (i - 1)
                                                 ELSE s + 1 + (i - 1) - n
    BY <1>1, <2>1, NextSlots
  <2> HIDE DEF u, s
  <2> QED
    BY <1>1, <2>2, <2>3
<1>4. (u + (n - 1)) % n = s
  <2>1. n - 1 \in 0 .. n - 1
    OBVIOUS
  <2>2. (u + (n - 1)) % n = IF s + 1 + (n - 1) < n THEN s + 1 + (n - 1)
                                                 ELSE s + 1 + (n - 1) - n
    BY <1>1, <2>1, NextSlots, SMTT(30)
  <2> HIDE DEF u, s
  <2> QED
    BY <1>1, <2>2
<1> HIDE DEF r, s, u
<1>5. \A i \in 1 .. n : (s + (i - 1)) % n \in 0 .. n - 1
  BY <1>1
<1>6. /\ \A i \in 1 .. n - 1 : r.v[(u + (i - 1)) % n] = b.v[(s + i) % n]
      /\ r.v[(u + (n - 1)) % n] = cmd
  BY <1>1, <1>2, <1>3, <1>4
<1>7. Contents(b) = [i \in 1 .. n |-> b.v[(s + (i - 1)) % n]]
  BY <1>1 DEF Contents, s
<1>8. Contents(b) \in Seq(S) /\ Len(Contents(b)) = n
  BY <1>7 DEF Coherent, s
<1>9. \A i \in 1 .. n - 1 : Tail(Contents(b))[i] = b.v[(s + i) % n]
  <2> SUFFICES ASSUME NEW i \in 1 .. n - 1
               PROVE  Tail(Contents(b))[i] = b.v[(s + i) % n]
    OBVIOUS
  <2>1. Tail(Contents(b))[i] = Contents(b)[i + 1]
    BY <1>8
  <2>2. i + 1 \in 1 .. n /\ (i + 1) - 1 = i
    OBVIOUS
  <2> QED
    BY <1>7, <2>1, <2>2
<1>10. Contents(r) = [i \in 1 .. n |-> r.v[(u + (i - 1)) % n]]
  BY <1>2 DEF Contents
<1>11. Contents(r) = Append(Tail(Contents(b)), cmd)
  <2>1. Tail(Contents(b)) \in Seq(S) /\ Len(Tail(Contents(b))) = n - 1
    BY <1>8
  <2>2. Contents(r) \in Seq(T) /\ Len(Contents(r)) = n
    <3>1. \A i \in 1 .. n : r.v[(u + (i - 1)) % n] \in T
      <4>1. r.v \in [0 .. n - 1 -> T]
        BY <1>1, <1>2
      <4>2. u \in 0 .. n - 1
        BY <1>1 DEF u
      <4>3. \A i \in 1 .. n : (u + (i - 1)) % n \in 0 .. n - 1
        BY <4>2
      <4> QED
        BY <4>1, <4>3
    <3> QED
      BY <1>10, <3>1
  <2>3. \A i \in 1 .. n - 1 : Contents(r)[i] = Tail(Contents(b))[i]
    <3> SUFFICES ASSUME NEW i \in 1 .. n - 1 PROVE Contents(r)[i] = Tail(Contents(b))[i]
      OBVIOUS
    <3>1. Contents(r)[i] = r.v[(u + (i - 1)) % n]
      BY <1>10
    <3> QED
      BY <1>6, <1>9, <3>1
  <2>4. Contents(r)[n] = cmd
    BY <1>6, <1>10
  <2> QED
    BY <2>1, <2>2, <2>3, <2>4
<1>12. Coherent(r, n, S)
  <2>1. \A i \in 1 .. n - 1 : b.v[(s + i) % n] \in S
    BY <1>8, <1>9
  <2>2. \A i \in 1 .. n : r.v[(u + (i - 1)) % n] \in S
    BY <1>6, <2>1
  <2> QED
    BY <1>2, <2>2 DEF Coherent
<1> QED
  BY <1>8, <1>11, <1>12 DEF r

\* A ring that starts at slot 0 is written in the order of arrival.
LEMMA ScannedIsContents ==
  ASSUME NEW n \in Nat \ {0}, NEW S, NEW T, S \subseteq T,
         NEW b \in Rings(n, T), Coherent(b, n, S), b.start = 0
  PROVE  Scanned(b) = Contents(b) /\ Scanned(b) \in Seq(S)
<1>1. b.capacity = n /\ b.size \in 0 .. n
  BY DEF Rings
<1>2. \A i \in 1 .. b.size : b.v[(b.start + (i - 1)) % n] = b.v[i - 1]
  <2> SUFFICES ASSUME NEW i \in 1 .. b.size
               PROVE  (0 + (i - 1)) % n = i - 1
    OBVIOUS
  <2>1. 0 \in 0 .. n - 1 /\ i - 1 \in 0 .. n
    BY <1>1
  <2>2. (0 + (i - 1)) % n = IF 0 + (i - 1) < n THEN 0 + (i - 1) ELSE 0 + (i - 1) - n
    BY <2>1, SlotOf
  <2> QED
    BY <1>1, <2>1, <2>2
<1>3. \A i \in 1 .. b.size : b.v[i - 1] \in S
  BY <1>2 DEF Coherent
<1>4. Contents(b) = [i \in 1 .. b.size |-> b.v[i - 1]]
  BY <1>1, <1>2 DEF Contents
<1> QED
  BY <1>1, <1>3, <1>4 DEF Scanned

\* An empty ring scans as the empty sequence.
LEMMA ClearedRing ==
  ASSUME NEW n \in Nat \ {0}, NEW S, NEW T, NEW b \in Rings(n, T)
  PROVE  /\ Cleared(b) \in Rings(n, T) /\ Coherent(Cleared(b), n, S)
         /\ Cleared(b).start = 0 /\ Cleared(b).size = 0
         /\ Contents(Cleared(b)) = <<>> /\ Scanned(Cleared(b)) = <<>>
<1>1. Cleared(b).start = 0 /\ Cleared(b).size = 0 /\ Cleared(b).end = 0
  BY DEF Cleared
<1> QED
  BY <1>1, ClearedType DEF Coherent, Contents, Scanned

\* The last n commands after one more.
LEMMA LastOfAppend ==
  ASSUME NEW S, NEW s \in Seq(S), NEW e \in S, NEW n \in Nat \ {0}
  PROVE  /\ Len(s) < n => LastOf(Append(s, e), n) = Append(LastOf(s, n), e)
         /\ Len(s) >= n => LastOf(Append(s, e), n) = Append(Tail(LastOf(s, n)), e)
         /\ Len(LastOf(s, n)) = IF Len(s) < n THEN Len(s) ELSE n
<1> DEFINE m == Len(s)
           a == Append(s, e)
<1>1. m \in Nat /\ a \in Seq(S) /\ Len(a) = m + 1 /\ a[m + 1] = e
      /\ \A i \in 1 .. m : a[i] = s[i]
  OBVIOUS
<1> HIDE DEF a
<1>2. CASE m < n
  <2>1. LastOf(s, n) = s
    BY <1>1, <1>2 DEF LastOf
  <2>2. LastOf(a, n) = SubSeq(a, 1, m + 1)
    <3> DEFINE k == IF Len(a) < n THEN Len(a) ELSE n
    <3>1. Len(a) - k + 1 = 1
      BY <1>1, <1>2
    <3>2. LastOf(a, n) = SubSeq(a, Len(a) - k + 1, Len(a))
      BY DEF LastOf
    <3> QED
      BY <1>1, <3>1, <3>2
  <2>3. LastOf(a, n) = a
    BY <1>1, <2>2
  <2> QED
    BY <1>2, <2>1, <2>3 DEF a
<1>3. CASE m >= n
  <2> DEFINE old == SubSeq(s, m - n + 1, m)
             new == SubSeq(a, m - n + 2, m + 1)
  <2>1. LastOf(s, n) = old
    <3> DEFINE k == IF Len(s) < n THEN Len(s) ELSE n
    <3>1. k = n
      BY <1>1, <1>3
    <3>2. LastOf(s, n) = SubSeq(s, Len(s) - k + 1, Len(s))
      BY DEF LastOf
    <3> QED
      BY <3>1, <3>2
  <2>2. LastOf(a, n) = new
    <3> DEFINE k == IF Len(a) < n THEN Len(a) ELSE n
    <3>1. Len(a) = m + 1 /\ ~(m + 1 < n)
      BY <1>1, <1>3
    <3>2. k = n
      BY <3>1
    <3>3. LastOf(a, n) = SubSeq(a, Len(a) - k + 1, Len(a))
      BY DEF LastOf
    <3>4. LastOf(a, n) = SubSeq(a, (m + 1) - n + 1, m + 1)
      BY <3>1, <3>2, <3>3
    <3>5. (m + 1) - n + 1 = m - n + 2
      BY <1>1
    <3> QED
      BY <3>4, <3>5
  <2>3. /\ old \in Seq(S) /\ Len(old) = n
        /\ \A i \in 1 .. n : old[i] = s[m - n + i]
    BY <1>1, <1>3
  <2>4. /\ new \in Seq(S) /\ Len(new) = n
        /\ \A i \in 1 .. n : new[i] = a[m - n + 1 + i]
    BY <1>1, <1>3
  <2> HIDE DEF old, new
  <2>5. /\ Tail(old) \in Seq(S) /\ Len(Tail(old)) = n - 1
        /\ \A i \in 1 .. n - 1 : Tail(old)[i] = old[i + 1]
    BY <2>3
  <2>6. \A i \in 1 .. n - 1 : new[i] = Tail(old)[i]
    <3> SUFFICES ASSUME NEW i \in 1 .. n - 1 PROVE new[i] = Tail(old)[i]
      OBVIOUS
    <3>1. new[i] = a[m - n + 1 + i]
      BY <2>4
    <3>2. Tail(old)[i] = s[m - n + (i + 1)]
      BY <2>3, <2>5
    <3>3. m - n + 1 + i \in 1 .. m /\ m - n + 1 + i = m - n + (i + 1)
      BY <1>1, <1>3
    <3> QED
      BY <1>1, <3>1, <3>2, <3>3
  <2>7. new[n] = e
    BY <1>1, <1>3, <2>4
  <2>8. new = Append(Tail(old), e)
    BY <2>4, <2>5, <2>6, <2>7
  <2> QED
    BY <1>1, <1>3, <2>1, <2>2, <2>3, <2>8 DEF a
<1> QED
  BY <1>1, <1>2, <1>3

-------------------------------------------------------------------------------
\* The rings and the file.

\* Both rings are coherent, and aof_buff is only ever filled from slot 0.
RingsOK ==
  /\ Coherent(cmdbuff, ReplBuffLen, SetCmds)
  /\ Coherent(aof_buff, AofBuffLen, SetCmds)
  /\ aof_buff.start = 0

CoreInv == TypeOK /\ RingsOK /\ NothingSkipped /\ FileIsPrefix /\ CmdbuffIsTail

\* A sequence is a prefix of every continuation of it.
LEMMA PrefixOfConcat ==
  ASSUME NEW S, NEW s \in Seq(S), NEW u \in Seq(S)
  PROVE  IsPrefixOf(s, s \o u)
BY DEF IsPrefixOf

\* What aof_buff holds is a sequence of commands.
LEMMA ScannedAofType ==
  ASSUME CoreInv
  PROVE  Scanned(aof_buff) = Contents(aof_buff) /\ Scanned(aof_buff) \in Seq(SetCmds)
<1> DEFINE T == SetCmds \cup {NoCommand}
<1>1. /\ AofBuffLen \in Nat \ {0} /\ aof_buff \in Rings(AofBuffLen, T)
      /\ Coherent(aof_buff, AofBuffLen, SetCmds) /\ aof_buff.start = 0
  BY CoreAssumption DEF CoreInv, TypeOK, RingsOK
<1>2. SetCmds \subseteq T
  OBVIOUS
<1> HIDE DEF T
<1> QED
  BY <1>1, <1>2, ScannedIsContents

LEMMA InitCoreInv == Init => CoreInv
<1> SUFFICES ASSUME Init PROVE CoreInv
  OBVIOUS
<1>1. \A n \in Nat \ {0} :
        LET b == EmptyRing(n, NoCommand)
        IN  /\ b \in Rings(n, SetCmds \cup {NoCommand})
            /\ Coherent(b, n, SetCmds) /\ b.start = 0 /\ b.size = 0
            /\ Scanned(b) = <<>> /\ Contents(b) = <<>>
  BY DEF EmptyRing, Rings, Coherent, Scanned, Contents
<1>2. ReplBuffLen \in Nat \ {0} /\ AofBuffLen \in Nat \ {0}
  BY CoreAssumption
<1>3. TypeOK
  <2>1. db \in Maps
    BY DEF Init, EmptyMap, Maps
  <2>2. cronloops \in 0 .. CronCycle - 1
    BY CoreAssumption DEF Init
  <2>3. /\ cmdbuff \in Rings(ReplBuffLen, SetCmds \cup {NoCommand})
        /\ aof_buff \in Rings(AofBuffLen, SetCmds \cup {NoCommand})
    BY <1>1, <1>2 DEF Init
  <2>4. stream \in Seq(SetCmds) /\ file \in Seq(SetCmds) /\ log \in Seq(SetCmds)
    BY DEF Init
  <2>5. hz \in Rates \cup {InitialHz} /\ serverStop \in BOOLEAN
        /\ turn \in {"cron", "exec"} /\ status \in {"up", "stopped", "killed"}
    BY DEF Init
  <2> QED
    BY <2>1, <2>2, <2>3, <2>4, <2>5 DEF TypeOK
<1>4. RingsOK
  BY <1>1, <1>2 DEF Init, RingsOK
<1>5. Scanned(aof_buff) = <<>> /\ Contents(cmdbuff) = <<>>
  BY <1>1, <1>2 DEF Init
<1>6. NothingSkipped /\ FileIsPrefix
  BY <1>5 DEF Init, NothingSkipped, FileIsPrefix, IsPrefixOf
<1>7. CmdbuffIsTail
  BY <1>2, <1>5 DEF Init, CmdbuffIsTail, LastOf
<1> QED
  BY <1>3, <1>4, <1>6, <1>7 DEF CoreInv

\* A SET is the last of both rings, and a full aof_buff went to the stream first.
LEMMA ExecSetKept ==
  ASSUME CoreInv, NEW cmd \in SetCmds, ExecSet(cmd)
  PROVE  CoreInv'
<1> DEFINE T == SetCmds \cup {NoCommand}
<1>1. /\ ReplBuffLen \in Nat \ {0} /\ AofBuffLen \in Nat \ {0}
      /\ SetCmds \subseteq T /\ cmd \in T
  BY CoreAssumption
<1>2. /\ cmdbuff \in Rings(ReplBuffLen, T) /\ aof_buff \in Rings(AofBuffLen, T)
      /\ Coherent(cmdbuff, ReplBuffLen, SetCmds)
      /\ Coherent(aof_buff, AofBuffLen, SetCmds)
      /\ aof_buff.start = 0
      /\ stream \in Seq(SetCmds) /\ file \in Seq(SetCmds) /\ log \in Seq(SetCmds)
  BY DEF CoreInv, TypeOK, RingsOK
<1>3. /\ cmdbuff' = PushBack(cmdbuff, cmd) /\ log' = Append(log, cmd)
      /\ db' = MapInsert(db, cmd.key, cmd.val) /\ LogSet(cmd)
      /\ Up /\ UNCHANGED <<file, hz, cronloops, serverStop, turn, status>>
  BY DEF ExecSet
<1>4. aof_buff.capacity = AofBuffLen /\ aof_buff.size \in 0 .. AofBuffLen
      /\ cmdbuff.size \in 0 .. ReplBuffLen
  BY <1>2 DEF Rings
<1>5. status # "killed" /\ file \o stream \o Scanned(aof_buff) = log
  BY DEF CoreInv, NothingSkipped, ExecSet, Up
<1> DEFINE sc == Scanned(aof_buff)
<1>6. sc \in Seq(SetCmds) /\ sc = Contents(aof_buff)
  BY ScannedAofType
<1> HIDE DEF T
<1> DEFINE from == IF aof_buff.size = AofBuffLen THEN Cleared(aof_buff) ELSE aof_buff
<1>7. /\ aof_buff' = PushBack(from, cmd)
      /\ from \in Rings(AofBuffLen, T) /\ Coherent(from, AofBuffLen, SetCmds)
      /\ from.start = 0 /\ from.size < AofBuffLen
      /\ stream' \in Seq(SetCmds)
      /\ Contents(from) \in Seq(SetCmds)
      /\ file \o stream' \o Contents(from) = log
  <2>1. CASE aof_buff.size = AofBuffLen
    <3>1. stream' = stream \o sc /\ aof_buff' = PushBack(from, cmd)
      BY <1>3, <1>4, <2>1 DEF LogSet
    <3>2. /\ from \in Rings(AofBuffLen, T) /\ Coherent(from, AofBuffLen, SetCmds)
          /\ from.start = 0 /\ from.size = 0 /\ Contents(from) = <<>>
      BY <1>1, <1>2, <2>1, ClearedRing
    <3>3. file \o (stream \o sc) \o <<>> = file \o stream \o sc
      BY <1>2, <1>6
    <3>4. stream \o sc \in Seq(SetCmds)
      BY <1>2, <1>6
    <3> HIDE DEF from, sc
    <3> QED
      BY <1>1, <1>5, <3>1, <3>2, <3>3, <3>4 DEF sc
  <2>2. CASE aof_buff.size # AofBuffLen
    <3>1. stream' = stream /\ aof_buff' = PushBack(from, cmd) /\ from = aof_buff
      BY <1>3, <1>4, <2>2 DEF LogSet
    <3> HIDE DEF from
    <3>2. from.size < AofBuffLen
      BY <1>1, <1>4, <2>2, <3>1
    <3> QED
      BY <1>2, <1>5, <1>6, <3>1, <3>2
  <2> QED
    BY <2>1, <2>2
<1> HIDE DEF from, sc
<1>8. /\ aof_buff' \in Rings(AofBuffLen, T)
      /\ Coherent(aof_buff', AofBuffLen, SetCmds)
      /\ Contents(aof_buff') = Append(Contents(from), cmd)
      /\ aof_buff'.start = 0
  <2>1. from.capacity = AofBuffLen
    BY <1>7 DEF Rings
  <2>2. PushBack(from, cmd).start = 0
    BY <1>7, <2>1 DEF PushBack
  <2>3. PushBack(from, cmd) \in Rings(AofBuffLen, T)
    BY <1>1, <1>7, PushBackType
  <2>4. /\ Coherent(PushBack(from, cmd), AofBuffLen, SetCmds)
        /\ Contents(PushBack(from, cmd)) = Append(Contents(from), cmd)
    BY <1>1, <1>7, PushBackRoom
  <2> QED
    BY <1>7, <2>2, <2>3, <2>4
<1>9. Scanned(aof_buff') = Append(Contents(from), cmd)
  BY <1>1, <1>8, ScannedIsContents
<1>10. NothingSkipped'
  <2>1. file \o stream' \o Append(Contents(from), cmd)
          = Append(file \o stream' \o Contents(from), cmd)
    BY <1>2, <1>7, SMTT(30)
  <2> QED
    BY <1>3, <1>7, <1>9, <2>1 DEF NothingSkipped, Up
<1>11. cmdbuff' \in Rings(ReplBuffLen, T) /\ Coherent(cmdbuff', ReplBuffLen, SetCmds)
  <2>1. PushBack(cmdbuff, cmd) \in Rings(ReplBuffLen, T)
    BY <1>1, <1>2, PushBackType
  <2>2. cmdbuff.size < ReplBuffLen => Coherent(PushBack(cmdbuff, cmd), ReplBuffLen, SetCmds)
    BY <1>1, <1>2, PushBackRoom
  <2>3. cmdbuff.size = ReplBuffLen => Coherent(PushBack(cmdbuff, cmd), ReplBuffLen, SetCmds)
    BY <1>1, <1>2, PushBackFull
  <2>4. cmdbuff.size < ReplBuffLen \/ cmdbuff.size = ReplBuffLen
    BY <1>1, <1>4
  <2> QED
    BY <1>3, <2>1, <2>2, <2>3, <2>4
<1>12. CmdbuffIsTail'
  <2>1. Contents(cmdbuff) = LastOf(log, ReplBuffLen)
    BY DEF CoreInv, CmdbuffIsTail
  <2>2. Len(Contents(cmdbuff)) = cmdbuff.size
    BY <1>4 DEF Contents
  <2>3. Len(LastOf(log, ReplBuffLen)) = IF Len(log) < ReplBuffLen THEN Len(log) ELSE ReplBuffLen
    BY <1>1, <1>2, LastOfAppend
  <2>4. Len(log) \in Nat
    BY <1>2
  <2>5. CASE cmdbuff.size < ReplBuffLen
    <3>1. Len(log) < ReplBuffLen
      BY <1>1, <2>1, <2>2, <2>3, <2>4, <2>5
    <3>2. Contents(PushBack(cmdbuff, cmd)) = Append(Contents(cmdbuff), cmd)
      BY <1>1, <1>2, <2>5, PushBackRoom
    <3> QED
      BY <1>1, <1>2, <1>3, <2>1, <3>1, <3>2, LastOfAppend DEF CmdbuffIsTail
  <2>6. CASE cmdbuff.size = ReplBuffLen
    <3>1. Len(log) >= ReplBuffLen
      BY <1>1, <2>1, <2>2, <2>3, <2>4, <2>6
    <3>2. Contents(cmdbuff') = Append(Tail(Contents(cmdbuff)), cmd)
      BY <1>1, <1>2, <1>3, <2>6, PushBackFull, SMTT(30)
    <3> QED
      BY <1>1, <1>2, <1>3, <2>1, <3>1, <3>2, LastOfAppend DEF CmdbuffIsTail
  <2> QED
    BY <1>1, <1>4, <2>5, <2>6
<1>13. log' \in Seq(SetCmds)
  BY <1>2, <1>3
<1>14. FileIsPrefix'
  <2> DEFINE u == stream' \o Scanned(aof_buff')
  <2>1. u \in Seq(SetCmds)
    BY <1>7, <1>9
  <2>2. log' = file \o u
    <3>1. log' = file \o stream' \o Scanned(aof_buff')
      BY <1>3, <1>5, <1>10 DEF NothingSkipped
    <3>2. Scanned(aof_buff') \in Seq(SetCmds)
      BY <1>7, <1>9
    <3>3. (file \o stream') \o Scanned(aof_buff') = file \o (stream' \o Scanned(aof_buff'))
      <4>1. file \in Seq(SetCmds) /\ stream' \in Seq(SetCmds)
            /\ Scanned(aof_buff') \in Seq(SetCmds)
        BY <1>2, <1>7, <3>2
      <4> QED
        BY <4>1, ConcatAssociative
    <3> QED
      BY <3>1, <3>3
  <2> HIDE DEF u
  <2> QED
    BY <1>2, <1>3, <2>1, <2>2, PrefixOfConcat DEF FileIsPrefix
<1>15. TypeOK'
  <2>1. db' \in Maps
    BY <1>3 DEF CoreInv, TypeOK, Maps, MapInsert, SetCmds
  <2> QED
    BY <1>3, <1>7, <1>8, <1>11, <1>13, <2>1 DEF CoreInv, TypeOK, T
<1> QED
  BY <1>8, <1>10, <1>11, <1>12, <1>14, <1>15 DEF CoreInv, RingsOK

\* serverCron moves aof_buff to the stream, or leaves both alone.
LEMMA ServerCronKept ==
  ASSUME CoreInv, ServerCron
  PROVE  CoreInv'
<1> DEFINE T == SetCmds \cup {NoCommand}
           sc == Scanned(aof_buff)
<1>1. /\ AofBuffLen \in Nat \ {0} /\ aof_buff \in Rings(AofBuffLen, T)
      /\ stream \in Seq(SetCmds) /\ file \in Seq(SetCmds)
  BY CoreAssumption DEF CoreInv, TypeOK
<1>2. /\ UNCHANGED <<db, cmdbuff, file, hz, serverStop, status, log>>
      /\ cronloops' = (cronloops + 1) % CronCycle /\ turn' = "exec"
      /\ status = "up"
  BY DEF ServerCron, Up
<1>3. cronloops' \in 0 .. CronCycle - 1
  BY <1>2, CoreAssumption DEF CoreInv, TypeOK
<1>4. sc \in Seq(SetCmds) /\ file \o stream \o sc = log
  BY <1>2, ScannedAofType DEF CoreInv, NothingSkipped
<1>5. /\ stream' \in Seq(SetCmds) /\ aof_buff' \in Rings(AofBuffLen, T)
      /\ Coherent(aof_buff', AofBuffLen, SetCmds) /\ aof_buff'.start = 0
      /\ file \o stream' \o Scanned(aof_buff') = log
  <2>1. CASE PeriodElapsed
    <3>1. stream' = stream \o sc /\ aof_buff' = Cleared(aof_buff)
      BY <2>1 DEF ServerCron
    <3> HIDE DEF T, sc
    <3>2. /\ Cleared(aof_buff) \in Rings(AofBuffLen, T)
          /\ Coherent(Cleared(aof_buff), AofBuffLen, SetCmds)
          /\ Cleared(aof_buff).start = 0 /\ Scanned(Cleared(aof_buff)) = <<>>
      BY <1>1, ClearedRing
    <3>3. stream \o sc \in Seq(SetCmds) /\ file \o (stream \o sc) \o <<>> = log
      <4>1. stream \o sc \in Seq(SetCmds)
        BY <1>1, <1>4
      <4>2. (file \o stream) \o sc = file \o (stream \o sc)
        <5>1. file \in Seq(SetCmds) /\ stream \in Seq(SetCmds) /\ sc \in Seq(SetCmds)
          BY <1>1, <1>4
        <5> QED
          BY <5>1, ConcatAssociative
      <4>3. file \o (stream \o sc) \in Seq(SetCmds)
        BY <1>1, <4>1
      <4> QED
        BY <1>4, <4>1, <4>2, <4>3
    <3> QED
      BY <3>1, <3>2, <3>3
  <2>2. CASE ~PeriodElapsed
    <3>1. UNCHANGED <<stream, aof_buff>>
      BY <2>2 DEF ServerCron
    <3> QED
      BY <1>1, <1>4, <3>1 DEF CoreInv, RingsOK
  <2> QED
    BY <2>1, <2>2
<1>6. TypeOK'
  BY <1>2, <1>3, <1>5 DEF CoreInv, TypeOK
<1>7. RingsOK'
  BY <1>2, <1>5 DEF CoreInv, RingsOK
<1>8. NothingSkipped'
  BY <1>2, <1>5 DEF NothingSkipped
<1>9. FileIsPrefix' /\ CmdbuffIsTail'
  BY <1>2 DEF CoreInv, FileIsPrefix, CmdbuffIsTail
<1> QED
  BY <1>6, <1>7, <1>8, <1>9 DEF CoreInv

\* What the stream writes out stays in front of what it keeps.
LEMMA StreamFlushKept ==
  ASSUME CoreInv, StreamFlush
  PROVE  CoreInv'
<1>1. PICK n \in 1 .. Len(stream) :
        /\ file' = file \o SubSeq(stream, 1, n)
        /\ stream' = SubSeq(stream, n + 1, Len(stream))
  BY DEF StreamFlush
<1>2. /\ UNCHANGED <<db, cmdbuff, aof_buff, hz, cronloops, serverStop, turn, status, log>>
      /\ status = "up"
  BY DEF StreamFlush, Up
<1> DEFINE sc == Scanned(aof_buff)
<1>3. /\ stream \in Seq(SetCmds) /\ file \in Seq(SetCmds) /\ sc \in Seq(SetCmds)
      /\ file \o stream \o sc = log
  BY <1>2, ScannedAofType DEF CoreInv, TypeOK, NothingSkipped
<1> HIDE DEF sc
<1>4. /\ SubSeq(stream, 1, n) \in Seq(SetCmds) /\ stream' \in Seq(SetCmds)
      /\ SubSeq(stream, 1, n) \o stream' = stream
  <2>1. n \in 0 .. Len(stream) /\ n \in Int /\ Len(stream) \in Nat
    BY <1>3
  <2>2. SubSeq(stream, 1, n) \o SubSeq(stream, n + 1, Len(stream)) = stream
    <3>1. ASSUME NEW s \in Seq(SetCmds), NEW k \in 0 .. Len(s)
          PROVE  SubSeq(s, 1, k) \o SubSeq(s, k + 1, Len(s)) = s
      <4>1. SubSeq(s, 1, k) \o SubSeq(s, k + 1, Len(s)) = SubSeq(s, 1, Len(s))
        <5>1. 1 \in 1 .. Len(s) + 1 /\ k \in 1 - 1 .. Len(s) /\ Len(s) \in k .. Len(s)
          OBVIOUS
        <5> QED
          BY <5>1, ConcatAdjacentSubSeq
      <4> QED
        BY <4>1, SubSeqFull
    <3> QED
      BY <1>3, <2>1, <3>1
  <2>3. \A i \in 1 .. Len(stream) : stream[i] \in SetCmds
    BY <1>3
  <2>4. SubSeq(stream, 1, n) \in Seq(SetCmds)
    BY <2>1, <2>3, SubSeqProperties
  <2>5. SubSeq(stream, n + 1, Len(stream)) \in Seq(SetCmds)
    BY <2>1, <2>3, SubSeqProperties
  <2> QED
    BY <1>1, <2>2, <2>4, <2>5
<1>5. file' \in Seq(SetCmds) /\ file' \o stream' = file \o stream
  <2> DEFINE p == SubSeq(stream, 1, n)
  <2>1. p \in Seq(SetCmds) /\ file' = file \o p /\ p \o stream' = stream
    BY <1>1, <1>4
  <2> HIDE DEF p
  <2>2. (file \o p) \o stream' = file \o (p \o stream')
    <3>1. file \in Seq(SetCmds) /\ p \in Seq(SetCmds) /\ stream' \in Seq(SetCmds)
      BY <1>3, <1>4, <2>1
    <3> QED
      BY <3>1, ConcatAssociative, SMTT(30)
  <2> QED
    BY <1>3, <2>1, <2>2
<1>6. TypeOK' /\ RingsOK' /\ CmdbuffIsTail'
  BY <1>2, <1>4, <1>5 DEF CoreInv, TypeOK, RingsOK, CmdbuffIsTail
<1>7. file' \o stream' \o sc = log
  BY <1>3, <1>5
<1>8. NothingSkipped'
  BY <1>2, <1>7 DEF NothingSkipped, sc
<1>9. FileIsPrefix'
  <2> DEFINE u == stream' \o sc
  <2>1. u \in Seq(SetCmds)
    BY <1>3, <1>4
  <2>2. log' = file' \o u
    <3>1. file' \in Seq(SetCmds) /\ stream' \in Seq(SetCmds) /\ sc \in Seq(SetCmds)
      BY <1>3, <1>4, <1>5
    <3>2. (file' \o stream') \o sc = file' \o (stream' \o sc)
      BY <3>1, ConcatAssociative, SMTT(30)
    <3> QED
      BY <1>2, <1>7, <3>2
  <2> HIDE DEF u
  <2> QED
    BY <1>5, <2>1, <2>2, PrefixOfConcat DEF FileIsPrefix
<1> QED
  BY <1>6, <1>8, <1>9 DEF CoreInv

\* ~Server closes the stream, which writes out all of it.
LEMMA StopKept ==
  ASSUME CoreInv, Stop
  PROVE  CoreInv'
<1>1. /\ UNCHANGED <<db, cmdbuff, aof_buff, hz, cronloops, serverStop, turn, log>>
      /\ status = "up" /\ status' = "stopped"
      /\ file' = file \o stream /\ stream' = <<>>
  BY DEF Stop, Up
<1> DEFINE sc == Scanned(aof_buff)
<1>2. /\ stream \in Seq(SetCmds) /\ file \in Seq(SetCmds) /\ sc \in Seq(SetCmds)
      /\ file \o stream \o sc = log
  BY <1>1, ScannedAofType DEF CoreInv, TypeOK, NothingSkipped
<1> HIDE DEF sc
<1>3. file' \in Seq(SetCmds) /\ file' \o stream' \o sc = log /\ file' \o sc = log
  BY <1>1, <1>2
<1>4. TypeOK' /\ RingsOK' /\ CmdbuffIsTail'
  BY <1>1, <1>3 DEF CoreInv, TypeOK, RingsOK, CmdbuffIsTail
<1>5. NothingSkipped'
  BY <1>1, <1>3 DEF NothingSkipped, sc
<1>6. FileIsPrefix'
  BY <1>1, <1>2, <1>3, PrefixOfConcat DEF FileIsPrefix
<1> QED
  BY <1>4, <1>5, <1>6 DEF CoreInv

\* The death of the process leaves the file as it is.
LEMMA KillKept ==
  ASSUME CoreInv, Kill
  PROVE  CoreInv'
<1>1. /\ UNCHANGED <<db, cmdbuff, file, hz, cronloops, serverStop, turn, log>>
      /\ status' = "killed" /\ stream' = <<>> /\ aof_buff' = Cleared(aof_buff)
  BY DEF Kill
<1> DEFINE T == SetCmds \cup {NoCommand}
<1>2. AofBuffLen \in Nat \ {0} /\ aof_buff \in Rings(AofBuffLen, T)
  BY CoreAssumption DEF CoreInv, TypeOK
<1>3. /\ aof_buff' \in Rings(AofBuffLen, T) /\ Coherent(aof_buff', AofBuffLen, SetCmds)
      /\ aof_buff'.start = 0
  <2> HIDE DEF T
  <2> QED
    BY <1>1, <1>2, ClearedRing
<1>4. TypeOK' /\ RingsOK' /\ CmdbuffIsTail'
  BY <1>1, <1>3 DEF CoreInv, TypeOK, RingsOK, CmdbuffIsTail
<1>5. NothingSkipped' /\ FileIsPrefix'
  BY <1>1 DEF CoreInv, NothingSkipped, FileIsPrefix
<1> QED
  BY <1>4, <1>5 DEF CoreInv

\* CoreInv is inductive.
LEMMA CoreInvKept == CoreInv /\ [Next]_coreVars => CoreInv'
<1>1. ASSUME CoreInv, ExecShutdown \/ EndRound \/ UNCHANGED coreVars
      PROVE  CoreInv'
  <2>1. UNCHANGED <<db, cmdbuff, aof_buff, stream, file, cronloops, status, log>>
    BY <1>1 DEF ExecShutdown, EndRound, coreVars
  <2>2. TypeOK'
    BY <1>1, <2>1 DEF CoreInv, TypeOK, ExecShutdown, EndRound, coreVars
  <2> QED
    BY <1>1, <2>1, <2>2 DEF CoreInv, RingsOK, NothingSkipped, FileIsPrefix, CmdbuffIsTail
<1> QED
  BY <1>1, ExecSetKept, ServerCronKept, StreamFlushKept, StopKept, KillKept DEF Next

\* The rings, the stream and the file agree with what was executed at every moment.
THEOREM CoreInvariant == Spec => []CoreInv
BY InitCoreInv, CoreInvKept, PTL DEF Spec

\* The types of the rings, the counters of the cron and the rest.
THEOREM CoreTypeCorrect == Spec => []TypeOK
<1>1. CoreInv => TypeOK
  BY DEF CoreInv
<1> QED
  BY <1>1, CoreInvariant, PTL

\* No SET is skipped, repeated or reordered on its way through aof_buff and the stream
\* to the file, whatever the length of the ring and whenever the cron comes.
THEOREM LogIsComplete == Spec => []NothingSkipped
<1>1. CoreInv => NothingSkipped
  BY DEF CoreInv
<1> QED
  BY <1>1, CoreInvariant, PTL

\* Also a killed server leaves a file with the first SETs it executed, in order.
THEOREM FileIsAlwaysPrefix == Spec => []FileIsPrefix
<1>1. CoreInv => FileIsPrefix
  BY DEF CoreInv
<1> QED
  BY <1>1, CoreInvariant, PTL

\* cmdbuff always holds the last REPL_BUFF_LEN commands, oldest first, however often
\* its indices passed the end.
THEOREM RingIsTail == Spec => []CmdbuffIsTail
<1>1. CoreInv => CmdbuffIsTail
  BY DEF CoreInv
<1> QED
  BY <1>1, CoreInvariant, PTL

-------------------------------------------------------------------------------
\* The log and the database.

\* Writing to a map of the database leaves a map of the database.
LEMMA MapInsertType ==
  ASSUME NEW m \in Maps, NEW cmd \in SetCmds
  PROVE  MapInsert(m, cmd.key, cmd.val) \in Maps
BY DEF Maps, MapInsert, SetCmds

\* m holds the maps after the first 0, 1, ..., Len(s) commands of s.
Replays(m, s) ==
  m = [i \in 0 .. Len(s) |-> IF i = 0 THEN EmptyMap
                             ELSE MapInsert(m[i - 1], s[i].key, s[i].val)]

\* There is such a function, and it holds maps of the database.
LEMMA ReplaysExists ==
  ASSUME NEW s \in Seq(SetCmds)
  PROVE  \E m \in [0 .. Len(s) -> Maps] : Replays(m, s)
<1> DEFINE P == 0 .. Len(s)
           top == Len(s) + 1
           rank == [i \in P |-> i]
           go == [i \in P |-> i # 0]
           next == [i \in P |-> i - 1]
           step == [i \in P |-> [m \in Maps |-> IF i = 0 THEN m
                                                ELSE MapInsert(m, s[i].key, s[i].val)]]
           base == [i \in P |-> EmptyMap]
<1>1. EmptyMap \in Maps
  BY DEF EmptyMap, Maps
<1>2. Len(s) \in Nat /\ \A i \in P : i # 0 => s[i] \in SetCmds /\ i - 1 \in P
  OBVIOUS
<1>3. base \in [P -> Maps] /\ rank \in [P -> Nat] /\ top \in Nat
  BY <1>1, <1>2
<1>4. step \in [P -> [Maps -> Maps]]
  <2>1. \A i \in P, m \in Maps : i # 0 => MapInsert(m, s[i].key, s[i].val) \in Maps
    BY <1>2, MapInsertType
  <2> QED
    BY <2>1
<1>5. \A i \in P : rank[i] < top
  OBVIOUS
<1>6. \A i \in P : go[i] => next[i] \in P /\ rank[next[i]] < rank[i]
  OBVIOUS
<1>7. Solvable(P, Maps, go, next, step, base)
  <2> HIDE DEF P, top, rank, go, next, step, base
  <2> QED
    BY <1>3, <1>4, <1>5, <1>6, RecursionExists
<1>8. PICK m \in [P -> Maps] :
        \A i \in P : m[i] = IF go[i] THEN step[i][m[next[i]]] ELSE base[i]
  BY <1>7 DEF Solvable
<1>9. \A i \in P : m[i] = IF i = 0 THEN EmptyMap ELSE MapInsert(m[i - 1], s[i].key, s[i].val)
  <2> SUFFICES ASSUME NEW i \in P
               PROVE  m[i] = IF i = 0 THEN EmptyMap
                             ELSE MapInsert(m[i - 1], s[i].key, s[i].val)
    OBVIOUS
  <2>1. CASE i = 0
    BY <1>8, <2>1
  <2>2. CASE i # 0
    <3>1. m[i - 1] \in Maps
      BY <1>2, <2>2
    <3>2. m[i] = step[i][m[i - 1]]
      BY <1>8, <2>2
    <3> QED
      BY <2>2, <3>1, <3>2
  <2> QED
    BY <2>1, <2>2
<1> QED
  BY <1>9 DEF Replays

\* The function that Replay takes the last value of.
ReplayMap(s) == CHOOSE m : Replays(m, s)

LEMMA ReplayIs ==
  ASSUME NEW s \in Seq(SetCmds)
  PROVE  Replays(ReplayMap(s), s) /\ Replay(s) = ReplayMap(s)[Len(s)]
<1>1. \E m : Replays(m, s)
  BY ReplaysExists
<1>2. Replays(ReplayMap(s), s)
  BY <1>1 DEF ReplayMap
<1>3. Replay(s) = ReplayMap(s)[Len(s)]
  BY DEF Replay, ReplayMap, Replays
<1> QED
  BY <1>2, <1>3

\* Replaying nothing leaves the empty database.
LEMMA ReplayEmpty == Replay(<<>>) = EmptyMap
<1>1. <<>> \in Seq(SetCmds) /\ Len(<<>>) = 0
  OBVIOUS
<1>2. Replays(ReplayMap(<<>>), <<>>) /\ Replay(<<>>) = ReplayMap(<<>>)[0]
  BY <1>1, ReplayIs
<1> QED
  BY <1>1, <1>2 DEF Replays

\* Replaying one command more writes it to the database of the others.
LEMMA ReplayAppend ==
  ASSUME NEW s \in Seq(SetCmds), NEW cmd \in SetCmds
  PROVE  Replay(Append(s, cmd)) = MapInsert(Replay(s), cmd.key, cmd.val)
<1> DEFINE more == Append(s, cmd)
           n == Len(s)
           old == ReplayMap(s)
           new == ReplayMap(more)
           Agree == {i \in Nat : i <= n => new[i] = old[i]}
<1>1. /\ n \in Nat /\ more \in Seq(SetCmds) /\ Len(more) = n + 1
      /\ more[n + 1] = cmd /\ \A i \in 1 .. n : more[i] = s[i]
  OBVIOUS
<1>2. Replays(old, s) /\ Replay(s) = old[n]
  BY ReplayIs
<1>3. Replays(new, more) /\ Replay(more) = new[n + 1]
  <2> HIDE DEF more
  <2> QED
    BY <1>1, ReplayIs
<1> HIDE DEF more, old, new, n
<1>4. /\ old[0] = EmptyMap
      /\ \A i \in 1 .. n : old[i] = MapInsert(old[i - 1], s[i].key, s[i].val)
  BY <1>1, <1>2 DEF Replays, n
<1>5. /\ new[0] = EmptyMap
      /\ \A i \in 1 .. n + 1 : new[i] = MapInsert(new[i - 1], more[i].key, more[i].val)
  BY <1>1, <1>3 DEF Replays
<1>6. 0 \in Agree
  BY <1>4, <1>5
<1>7. ASSUME NEW i \in Nat, i \in Agree PROVE i + 1 \in Agree
  <2>1. CASE i + 1 <= n
    <3>1. new[i] = old[i] /\ i + 1 \in 1 .. n /\ i + 1 \in 1 .. n + 1 /\ (i + 1) - 1 = i
      BY <1>1, <1>7, <2>1
    <3>2. more[i + 1] = s[i + 1]
      BY <1>1, <3>1
    <3> QED
      BY <1>4, <1>5, <3>1, <3>2
  <2> QED
    BY <2>1
<1>8. n \in Agree
  <2> HIDE DEF Agree
  <2>1. Nat \subseteq Agree
    BY <1>6, <1>7, SetInduction
  <2> QED
    BY <1>1, <2>1
<1>9. new[n] = old[n]
  BY <1>1, <1>8
<1>10. new[n + 1] = MapInsert(new[n], cmd.key, cmd.val)
  <2>1. n + 1 \in 1 .. n + 1 /\ (n + 1) - 1 = n
    BY <1>1
  <2> QED
    BY <1>1, <1>5, <2>1
<1> QED
  BY <1>2, <1>3, <1>9, <1>10 DEF more

\* The database is what its log says: also when a SET pushes another key out of its
\* bucket, since the replay does the same.
DbIsReplay == db = Replay(log)

LEMMA DbIsReplayKept == CoreInv /\ DbIsReplay /\ [Next]_coreVars => DbIsReplay'
<1> SUFFICES ASSUME CoreInv, DbIsReplay, [Next]_coreVars PROVE DbIsReplay'
  OBVIOUS
<1>1. log \in Seq(SetCmds)
  BY DEF CoreInv, TypeOK
<1>2. ASSUME NEW cmd \in SetCmds, ExecSet(cmd) PROVE DbIsReplay'
  <2>1. db' = MapInsert(db, cmd.key, cmd.val) /\ log' = Append(log, cmd)
    BY <1>2 DEF ExecSet
  <2>2. Replay(Append(log, cmd)) = MapInsert(Replay(log), cmd.key, cmd.val)
    BY <1>1, ReplayAppend
  <2> QED
    BY <2>1, <2>2 DEF DbIsReplay
<1>3. UNCHANGED <<db, log>> => DbIsReplay'
  BY DEF DbIsReplay
<1>4. ASSUME \/ ExecShutdown \/ ServerCron \/ EndRound \/ StreamFlush \/ Stop \/ Kill
             \/ UNCHANGED coreVars
      PROVE  UNCHANGED <<db, log>>
  BY <1>4 DEF ExecShutdown, ServerCron, EndRound, StreamFlush, Stop, Kill, coreVars
<1> QED
  BY <1>2, <1>3, <1>4 DEF Next

\* What the file, the stream and the ring hold together replays to the database, for
\* every table and every log, although both lose keys whose buckets collide: nothing is
\* lost on the way to the file, and the replay loses the same keys as the execution.
THEOREM LogRebuildsDb == Spec => []ReplayRebuildsDb
<1>1. Init => DbIsReplay
  BY ReplayEmpty DEF Init, DbIsReplay
<1>2. CoreInv /\ DbIsReplay => ReplayRebuildsDb
  BY DEF CoreInv, NothingSkipped, DbIsReplay, ReplayRebuildsDb
<1> QED
  BY <1>1, <1>2, CoreInvariant, DbIsReplayKept, PTL DEF Spec
===============================================================================
