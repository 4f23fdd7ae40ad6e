--------------------------- MODULE ReplicationProofs ---------------------------
(***************************************************************************)
(* What holds of Replication for all offsets, any number of file threads,  *)
(* files in any number of pieces and any modulus of size_t.                *)
(***************************************************************************)
EXTENDS Replication, SequenceTheorems, FiniteSetTheorems, TLAPS

HasStatus(i, status) == toSlave[i].kind = "pack" /\ toSlave[i].status = status

\* An incremental transfer is written in one go.
IncrIsWhole ==
  \A i \in DOMAIN toSlave :
    HasStatus(i, "incr") =>
      /\ i + 2 \in DOMAIN toSlave
      /\ toSlave[i + 1].kind = "count" /\ toSlave[i + 2].kind = "data"

\* The slave that closed the connection does nothing more, and what one that still
\* shakes hands will read is the answer to that.
Sides ==
  /\ conn = "slave" => spc \in {"left", "dead"}
  /\ mpc = "shake" => files = <<>>
  /\ conn = "none" => mpc = "start" /\ spc = "start" /\ toSlave = <<>> /\ toMaster = <<>> /\ files = <<>>
  /\ spc \in {"shake", "shaking"} =>
       IF toSlave = <<>> THEN mpc = "shake" ELSE HasStatus(1, "check")

\* Who waits for a reply may start a thread.
Room == mpc = "reply" => Len(files) < MaxThreads

TInv == TypeOK /\ IncrIsWhole /\ Sides /\ Room

\* Once the slave has answered 0 the master never sends an increment: its offset
\* stays, and what the slave takes or has taken from it is that one.
FullPhase ==
  /\ \A i \in DOMAIN toMaster : toMaster[i] \in {0, moff}
  /\ soff \in {0, moff}
  /\ \A i \in DOMAIN toSlave : ~HasStatus(i, "incr") /\ (HasStatus(i, "full") => toSlave[i].val = moff)
  /\ spc \in {"len", "content"} \/ Own \notin sdb => soff = moff

\* Until then it never sends a file.
IncrPhase ==
  /\ soff # 0 /\ \A i \in DOMAIN toMaster : toMaster[i] # 0
  /\ \A i \in DOMAIN toSlave : ~HasStatus(i, "full")
  /\ spc \notin {"len", "content"} /\ Own \in sdb

PhaseInv == FullPhase \/ IncrPhase

\* Without a handshake a reply is on its way only while the master waits for it and
\* nothing that moves the slave's offset is.
ReplyInv ==
  ~shake =>
    /\ \A i \in DOMAIN toMaster : toMaster[i] = soff
    /\ mpc # "shake" /\ spc \notin {"shake", "shaking"}
    /\ conn # "slave" =>
         /\ toMaster # <<>> =>
              /\ mpc = "reply" /\ Len(toMaster) = 1
              /\ \A i \in DOMAIN toSlave : toSlave[i].kind # "pack"
         /\ \A i \in DOMAIN toSlave :
              HasStatus(i, "check") =>
                /\ mpc = "reply" /\ toMaster = <<>>
                /\ \A j \in DOMAIN toSlave : j > i => toSlave[j].kind # "pack"

\* What may follow an item of the stream, before the master or a read has been hasty.
Hasty == early \/ short
Is(item, status) == item.kind = "pack" /\ item.status = status

\* What of a file has to come behind an item, and what of it the slave waits for.
Left(item) ==
  IF Is(item, "full") THEN FileParts
  ELSE IF item.kind = "len" THEN dump
  ELSE IF item.kind = "content" THEN item.val - 1 ELSE 0
Due == IF spc = "len" THEN FileParts ELSE IF spc = "content" THEN dump ELSE 0

MayFollow(item, next) ==
  /\ item.kind # "ping"
  /\ Left(item) > 0 => next = FilePart(Left(item))
  /\ Is(item, "incr") => next.kind = "count"
  /\ item.kind = "count" => next.kind = "data"
  /\ Left(item) = 0 /\ ~Is(item, "incr") /\ item.kind # "count" => next.kind \in {"pack", "ping"}

\* The content that follows place i is all of a file's, or the beginning of it.
FileAhead(i) ==
  \A j \in 1 .. dump : i + j \in DOMAIN toSlave => toSlave[i + j] = Word("content", dump - j + 1)

Chain ==
  \A i \in DOMAIN toSlave :
    /\ i + 1 \in DOMAIN toSlave => MayFollow(toSlave[i], toSlave[i + 1])
    /\ toSlave[i].kind = "count" => i + 1 \in DOMAIN toSlave
    /\ toSlave[i].kind = "content" => toSlave[i].val \in 1 .. dump
    /\ toSlave[i].kind = "len" => FileAhead(i)

\* The slave is where the first item belongs.
Fits(item) == IF Due > 0 THEN item = FilePart(Due) ELSE item.kind \in {"pack", "ping"}
FirstOK == toSlave # <<>> => Fits(toSlave[1])
Begun == spc = "content" => dump > 0 /\ FileAhead(0)
Stream == Chain /\ FirstOK /\ Begun

\* The thread writes what belongs behind the last item.
LastItem == toSlave[Len(toSlave)]
LeftNow == IF toSlave = <<>> THEN Due ELSE Left(LastItem)
LastOK == files = IF LeftNow = 0 THEN <<>> ELSE <<LeftNow>>

NoPing == \A i \in DOMAIN toSlave : toSlave[i].kind # "ping"
Framed ==
  /\ spc # "lost"
  /\ mpc = "reply" => files = <<>> /\ NoPing
  /\ mpc = "shake" => toSlave = <<>>
  /\ conn # "slave" => Stream
  /\ conn = "open" => LastOK
FrameInv ==
  /\ conn = "master" => mpc = "idle"
  /\ mpc = "dead" => conn = "slave"
  /\ ~Hasty => Framed

-------------------------------------------------------------------------------
\* Sequences.

\* What Tail leaves, by index.
LEMMA TailItems ==
  ASSUME NEW S, NEW s \in Seq(S), s # <<>>
  PROVE  /\ Head(s) = s[1] /\ 1 \in DOMAIN s /\ s[1] \in S
         /\ Tail(s) \in Seq(S)
         /\ \A i \in Int : i \in DOMAIN Tail(s) <=> i \in Nat \ {0} /\ i + 1 \in DOMAIN s
         /\ \A i \in DOMAIN Tail(s) : Tail(s)[i] = s[i + 1]
<1>1. Len(s) \in Nat \ {0} /\ DOMAIN s = 1 .. Len(s) /\ Len(Tail(s)) = Len(s) - 1
  BY EmptySeq, LenProperties, HeadTailProperties
<1>2. DOMAIN Tail(s) = 1 .. Len(s) - 1
  BY <1>1, LenProperties, HeadTailProperties
<1>3. Head(s) = s[1]
  BY <1>1
<1> QED
  BY <1>1, <1>2, <1>3, HeadTailProperties, ElementOfSeq

\* What is there after more was written.
LEMMA WrittenItems ==
  ASSUME NEW S, NEW s \in Seq(S), NEW t \in Seq(S)
  PROVE  /\ s \o t \in Seq(S)
         /\ DOMAIN s = 1 .. Len(s) /\ Len(s) \in Nat /\ Len(t) \in Nat
         /\ DOMAIN (s \o t) = 1 .. Len(s) + Len(t)
         /\ \A i \in DOMAIN s : (s \o t)[i] = s[i]
         /\ \A i \in 1 .. Len(t) : (s \o t)[Len(s) + i] = t[i]
<1>1. Len(s) \in Nat /\ Len(t) \in Nat /\ DOMAIN s = 1 .. Len(s)
  BY LenProperties
<1>2. s \o t \in Seq(S) /\ Len(s \o t) = Len(s) + Len(t)
  BY ConcatProperties
<1>3. DOMAIN (s \o t) = 1 .. Len(s) + Len(t)
  BY <1>2, LenProperties
<1>4. ASSUME NEW i \in DOMAIN s PROVE (s \o t)[i] = s[i]
  BY <1>1, ConcatProperties
<1>5. ASSUME NEW i \in 1 .. Len(t) PROVE (s \o t)[Len(s) + i] = t[i]
  BY <1>1, ConcatProperties
<1> QED
  BY <1>1, <1>2, <1>3, <1>4, <1>5

\* The same for one item.
LEMMA WrittenOne ==
  ASSUME NEW S, NEW s \in Seq(S), NEW a \in S
  PROVE  /\ s \o <<a>> \in Seq(S) /\ s \o <<a>> # <<>>
         /\ DOMAIN s = 1 .. Len(s) /\ Len(s) \in Nat
         /\ Len(s \o <<a>>) = Len(s) + 1 /\ DOMAIN (s \o <<a>>) = 1 .. Len(s) + 1
         /\ \A i \in DOMAIN s : (s \o <<a>>)[i] = s[i]
         /\ (s \o <<a>>)[Len(s) + 1] = a
<1>1. s \o <<a>> = Append(s, a)
  BY AppendIsConcat
<1>2. Len(s) \in Nat /\ DOMAIN s = 1 .. Len(s)
  BY LenProperties
<1>3. /\ Append(s, a) \in Seq(S) /\ Append(s, a) # <<>> /\ Len(Append(s, a)) = Len(s) + 1
      /\ \A i \in 1 .. Len(s) : Append(s, a)[i] = s[i]
      /\ Append(s, a)[Len(s) + 1] = a
  BY AppendProperties
<1>4. DOMAIN Append(s, a) = 1 .. Len(s) + 1
  BY <1>3, LenProperties
<1> QED
  BY <1>1, <1>2, <1>3, <1>4

\* What is left when the first d items have been read.
LEMMA AfterSome ==
  ASSUME NEW S, NEW s \in Seq(S), NEW d \in 1 .. Len(s)
  PROVE  /\ SubSeq(s, d + 1, Len(s)) \in Seq(S) /\ Len(SubSeq(s, d + 1, Len(s))) = Len(s) - d
         /\ \A i \in 1 .. Len(s) - d : SubSeq(s, d + 1, Len(s))[i] = s[i + d]
<1> DEFINE r == SubSeq(s, d + 1, Len(s))
<1>1. Len(s) \in Nat /\ d \in Nat /\ 1 <= d /\ d <= Len(s) /\ \A i \in 1 .. Len(s) : s[i] \in S
  BY LenProperties, ElementOfSeq
<1>2. \A i \in d + 1 .. Len(s) : s[i] \in S
  BY <1>1
<1>3. /\ r \in Seq(S) /\ Len(r) = IF d + 1 <= Len(s) THEN Len(s) - (d + 1) + 1 ELSE 0
      /\ \A i \in 1 .. Len(s) - (d + 1) + 1 : r[i] = s[(d + 1) + i - 1]
  BY <1>1, <1>2, SubSeqProperties
<1>4. Len(r) = Len(s) - d
  BY <1>1, <1>3
<1>5. ASSUME NEW i \in 1 .. Len(s) - d PROVE r[i] = s[i + d]
  <2>1. i \in 1 .. Len(s) - (d + 1) + 1 /\ (d + 1) + i - 1 = i + d
    BY <1>1
  <2> QED
    BY <1>3, <2>1
<1> QED
  BY <1>3, <1>4, <1>5

\* One element less.
LEMMA Removed ==
  ASSUME NEW S, NEW s \in Seq(S), NEW i \in 1 .. Len(s)
  PROVE  RemoveAt(s, i) \in Seq(S) /\ Len(RemoveAt(s, i)) = Len(s) - 1
<1> DEFINE a == SubSeq(s, 1, i - 1)
           b == SubSeq(s, i + 1, Len(s))
<1>1. Len(s) \in Nat /\ i \in Nat /\ 1 <= i /\ i <= Len(s) /\ \A j \in 1 .. Len(s) : s[j] \in S
  BY LenProperties, ElementOfSeq
<1>2. a \in Seq(S) /\ Len(a) = i - 1
  <2>1. \A j \in 1 .. i - 1 : s[j] \in S
    BY <1>1
  <2>2. a \in Seq(S) /\ Len(a) = IF 1 <= i - 1 THEN i - 1 - 1 + 1 ELSE 0
    BY <1>1, <2>1, SubSeqProperties
  <2> QED
    BY <1>1, <2>2
<1>3. b \in Seq(S) /\ Len(b) = Len(s) - i
  <2>1. \A j \in i + 1 .. Len(s) : s[j] \in S
    BY <1>1
  <2>2. b \in Seq(S) /\ Len(b) = IF i + 1 <= Len(s) THEN Len(s) - (i + 1) + 1 ELSE 0
    BY <1>1, <2>1, SubSeqProperties
  <2> QED
    BY <1>1, <2>2
<1>4. RemoveAt(s, i) = a \o b
  BY DEF RemoveAt
<1> HIDE DEF a, b
<1>5. a \o b \in Seq(S) /\ Len(a \o b) = Len(a) + Len(b)
  BY <1>2, <1>3, ConcatProperties
<1> QED
  BY <1>1, <1>2, <1>3, <1>4, <1>5

-------------------------------------------------------------------------------
\* Types.

\* What a thread may still have to write.
FileStates == 1 .. FileParts

\* What the master writes.
LEMMA ItemTypes ==
  ASSUME NEW n \in Nat, NEW m \in Nat, NEW k \in Nat
  PROVE  /\ Pack("check", n) \in Items /\ Pack("full", n) \in Items /\ Pack("incr", n) \in Items
         /\ \A w \in {"ping", "len", "content", "count", "data"} : Word(w, n) \in Items
         /\ <<Pack("check", n)>> \in Seq(Items) /\ <<Pack("full", n)>> \in Seq(Items)
         /\ <<Word("ping", n)>> \in Seq(Items)
         /\ <<Pack("incr", n), Word("count", m), Word("data", k)>> \in Seq(Items)
<1>1. /\ Pack("check", n) \in Items /\ Pack("full", n) \in Items /\ Pack("incr", n) \in Items
      /\ \A w \in {"ping", "len", "content", "count", "data"} : \A i \in Nat : Word(w, i) \in Items
  BY DEF Pack, Word, Items
<1>2. \A a, b, c \in Items : <<a>> \in Seq(Items) /\ <<a, b, c>> \in Seq(Items)
  OBVIOUS
<1> QED
  BY <1>1, <1>2

\* The server starts with TInv.
LEMMA InitTInv == Init => TInv
<1> SUFFICES ASSUME Init PROVE TInv
  OBVIOUS
<1>1. /\ files \in Seq(FileStates) /\ toSlave \in Seq(Items) /\ toMaster \in Seq(Nat)
      /\ DOMAIN toSlave = {} /\ Len(files) = 0 /\ dump \in Nat
  BY EmptySeq, ReplicationAssumption DEF Init
<1>2. /\ moff \in 0 .. SizeMod - 1 /\ soff \in Nat /\ sdb \subseteq {Own, EmptyKey}
      /\ 0 <= MaxThreads
  BY ReplicationAssumption DEF Init
<1>3. TypeOK
  BY <1>1, <1>2 DEF Init, TypeOK, FileStates
<1> QED
  BY <1>1, <1>3 DEF TInv, IncrIsWhole, Sides, Room, Init

\* A write of the master appends whole transfers, and to an empty stream only what
\* a slave that shakes hands waits for.
LEMMA MasterWritesKeeps ==
  ASSUME TInv, NEW items \in Seq(Items), NEW next \in {"idle", "ping", "reply"},
         MasterWrites(items, next), mpc # "start", spc' = spc, conn' = conn,
         \/ Len(items) = 1 /\ items[1].status # "incr"
         \/ Len(items) = 3 /\ items[2].kind = "count" /\ items[3].kind = "data",
         mpc = "shake" => items[1].kind = "pack" /\ items[1].status = "check" /\ Len(items) = 1,
         mpc # "shake" \/ files' = files
  PROVE  /\ toSlave' \in Seq(Items) /\ mpc' \in {next, "dead"}
         /\ IncrIsWhole' /\ Sides'
<1>1. toSlave \in Seq(Items) /\ conn # "none"
  BY DEF TInv, TypeOK, Sides
<1>2. CASE conn = "slave"
  <2>1. toSlave' = toSlave /\ mpc' \in {next, "dead"}
    BY <1>2 DEF MasterWrites
  <2>2. IncrIsWhole'
    BY <2>1 DEF TInv, IncrIsWhole, HasStatus
  <2>3. Sides'
    BY <2>1, <1>2 DEF TInv, Sides
  <2> QED
    BY <2>1, <2>2, <2>3, <1>1
<1>3. CASE conn # "slave"
  <2>1. toSlave' = toSlave \o items /\ mpc' = next
    BY <1>3 DEF MasterWrites
  <2> DEFINE n == Len(toSlave)
  <2>2. /\ toSlave' \in Seq(Items) /\ n \in Nat /\ DOMAIN toSlave = 1 .. n
        /\ DOMAIN toSlave' = 1 .. n + Len(items)
        /\ \A i \in 1 .. n : toSlave'[i] = toSlave[i]
        /\ \A i \in 1 .. Len(items) : toSlave'[n + i] = items[i]
    BY <1>1, <2>1, WrittenItems
  <2> HIDE DEF n
  <2>3. IncrIsWhole'
    <3> SUFFICES ASSUME NEW i \in DOMAIN toSlave', HasStatus(i, "incr")'
                 PROVE  /\ i + 2 \in DOMAIN toSlave'
                        /\ toSlave'[i + 1].kind = "count" /\ toSlave'[i + 2].kind = "data"
      BY DEF IncrIsWhole
    <3>1. CASE i \in 1 .. n
      <4>1. i + 2 \in 1 .. n /\ toSlave[i + 1].kind = "count" /\ toSlave[i + 2].kind = "data"
        BY <2>2, <3>1 DEF TInv, IncrIsWhole, HasStatus
      <4> QED
        BY <4>1, <3>1, <2>2
    <3>2. CASE i \notin 1 .. n
      <4>1. PICK k \in 1 .. Len(items) : i = n + k
        <5>1. i - n \in 1 .. Len(items) /\ i = n + (i - n)
          BY <3>2, <2>2
        <5> QED
          BY <5>1
      <4>2. items[k].kind = "pack" /\ items[k].status = "incr"
        BY <4>1, <2>2 DEF HasStatus
      <4>3. k = 1 /\ Len(items) = 3
        BY <4>2
      <4> QED
        BY <4>1, <4>3, <2>2
    <3> QED
      BY <3>1, <3>2
  <2>4. ASSUME spc \in {"shake", "shaking"}
        PROVE  toSlave' # <<>> /\ HasStatus(1, "check")'
    <3>1. 1 \in DOMAIN toSlave'
      BY <2>2
    <3>2. CASE toSlave = <<>>
      <4>1. mpc = "shake" /\ n = 0
        BY <2>4, <3>2 DEF TInv, Sides, n
      <4> QED
        BY <4>1, <2>2, <3>1 DEF HasStatus
    <3>3. CASE toSlave # <<>>
      <4>1. HasStatus(1, "check") /\ n > 0
        BY <2>4, <3>3, <1>1, EmptySeq DEF TInv, Sides, n
      <4> QED
        BY <4>1, <2>2, <3>1 DEF HasStatus
    <3> QED
      BY <3>2, <3>3
  <2>5. Sides'
    BY <2>1, <2>4, <1>1, <1>3 DEF TInv, Sides
  <2> QED
    BY <2>1, <2>2, <2>3, <2>5
<1> QED
  BY <1>2, <1>3

\* Whoever reads a reply reads a number.
LEMMA ReadReplyType ==
  ASSUME TInv, NEW offset \in Replies, ReadReply(offset)
  PROVE  offset \in Nat /\ toMaster' \in Seq(Nat) /\ (conn # "slave" => toMaster # <<>>)
<1>1. toMaster \in Seq(Nat)
  BY DEF TInv, TypeOK
<1>2. \A i \in DOMAIN toMaster : toMaster[i] \in Nat
  BY <1>1, LenProperties, ElementOfSeq
<1>3. toMaster' \in Seq(Nat)
  <2>1. <<>> \in Seq(Nat)
    BY EmptySeq
  <2>2. toMaster # <<>> => Tail(toMaster) \in Seq(Nat)
    BY <1>1, TailItems
  <2> QED
    BY <2>1, <2>2 DEF ReadReply
<1>4. offset \in Nat
  BY <1>2 DEF Replies
<1>5. conn # "slave" => toMaster # <<>>
  BY DEF ReadReply
<1> QED
  BY <1>3, <1>4, <1>5

\* The master's calls.
LEMMA MasterKeepsTInv ==
  ASSUME TInv, Connect \/ Master \/ SendPing \/ SendCheck \/ DisconnectToSlave
  PROVE  TInv'
<1> USE DEF TInv
<1>0. moff \in Nat /\ soff \in Nat /\ SizeMod \in Nat \ {0} /\ moff \in 0 .. SizeMod - 1
  BY ReplicationAssumption DEF TypeOK
<1>1. CASE Connect
  <2>1. TypeOK'
    BY <1>1 DEF TypeOK, FileParts, Connect
  <2>2. IncrIsWhole' /\ Sides' /\ Room'
    BY <1>1 DEF IncrIsWhole, HasStatus, Sides, Room, Connect
  <2> QED
    BY <2>1, <2>2
<1>2. CASE ShakeHandWithSlave
  <2> DEFINE items == <<Pack("check", moff)>>
  <2>1. PICK reply \in Replies : ReadReply(reply)
    BY <1>2 DEF ShakeHandWithSlave
  <2>2. toMaster' \in Seq(Nat)
    BY <2>1, ReadReplyType
  <2>3. /\ items \in Seq(Items) /\ Len(items) = 1
        /\ items[1].kind = "pack" /\ items[1].status = "check" /\ items[1].status # "incr"
    BY <1>0, ItemTypes DEF Pack
  <2>4. MasterWrites(items, "idle") /\ mpc = "shake"
    BY <1>2 DEF ShakeHandWithSlave
  <2> HIDE DEF items
  <2>5. /\ toSlave' \in Seq(Items) /\ mpc' \in {"idle", "dead"}
        /\ IncrIsWhole' /\ Sides'
    BY <2>3, <2>4, <1>2, MasterWritesKeeps DEF ShakeHandWithSlave
  <2>6. TypeOK'
    BY <2>2, <2>5, <1>2 DEF TypeOK, FileParts, ShakeHandWithSlave
  <2> QED
    BY <2>5, <2>6 DEF Room
<1>3. CASE ReadPong
  <2>1. toMaster' \in Seq(Nat)
    BY <1>3, EmptySeq DEF ReadPong
  <2>2. TypeOK'
    BY <1>3, <2>1 DEF TypeOK, FileParts, ReadPong
  <2>3. IncrIsWhole' /\ Sides' /\ Room'
    BY <1>3 DEF IncrIsWhole, HasStatus, Sides, Room, ReadPong
  <2> QED
    BY <2>2, <2>3
<1>4. CASE ReadSlaveConn
  <2>1. PICK offset \in Replies :
          ReadReply(offset) /\ (NoSync(offset) \/ FullSync(offset) \/ IncrSync(offset))
    BY <1>4 DEF ReadSlaveConn
  <2>2. offset \in Nat /\ toMaster' \in Seq(Nat)
    BY <2>1, ReadReplyType
  <2>3. CASE NoSync(offset)
    <3>1. TypeOK'
      BY <1>4, <2>2, <2>3 DEF TypeOK, FileParts, ReadSlaveConn, NoSync
    <3>2. IncrIsWhole' /\ Sides' /\ Room'
      BY <1>4, <2>3 DEF IncrIsWhole, HasStatus, Sides, Room, ReadSlaveConn, NoSync
    <3> QED
      BY <3>1, <3>2
  <2>4. CASE FullSync(offset)
    <3> DEFINE items == <<Pack("full", moff)>>
    <3>1. /\ items \in Seq(Items) /\ Len(items) = 1 /\ items[1].status # "incr"
      BY <1>0, ItemTypes DEF Pack
    <3>2. MasterWrites(items, "idle") /\ mpc = "reply"
      BY <1>4, <2>4 DEF ReadSlaveConn, FullSync
    <3> HIDE DEF items
    <3>3. /\ toSlave' \in Seq(Items) /\ mpc' \in {"idle", "dead"}
          /\ IncrIsWhole' /\ Sides'
      BY <3>1, <3>2, <1>4, MasterWritesKeeps DEF ReadSlaveConn
    <3>4. files' \in Seq(FileStates) /\ Len(files') <= MaxThreads
      <4>1. files \in Seq(FileStates) /\ Len(files) < MaxThreads
        BY <1>4 DEF TypeOK, FileStates, Room, ReadSlaveConn
      <4>2. FileParts \in FileStates /\ MaxThreads \in Nat
        BY ReplicationAssumption DEF TypeOK, FileParts, FileStates
      <4>3. files' = <<>> \/ files' = Append(files, FileParts)
        BY <2>4 DEF FullSync
      <4>4. Len(files) \in Nat
        BY <4>1, LenProperties
      <4>5. CASE files' = <<>>
        BY <4>2, <4>5, EmptySeq
      <4>6. CASE files' = Append(files, FileParts)
        BY <4>1, <4>2, <4>4, <4>6, AppendProperties
      <4> QED
        BY <4>3, <4>5, <4>6
    <3>5. TypeOK'
      BY <2>2, <3>3, <3>4, <1>4, <2>4 DEF TypeOK, FileStates, FileParts, ReadSlaveConn, FullSync
    <3> QED
      BY <3>3, <3>5 DEF Room
  <2>5. CASE IncrSync(offset)
    <3> DEFINE items == <<Pack("incr", moff), Word("count", SendLen(offset)), Word("data", offset)>>
    <3>1. SendLen(offset) \in Nat /\ (moff + SendLen(offset)) % SizeMod \in 0 .. SizeMod - 1
      BY <1>0, <2>2 DEF SendLen
    <3>2. /\ items \in Seq(Items) /\ Len(items) = 3
          /\ items[2].kind = "count" /\ items[3].kind = "data"
      BY <1>0, <2>2, <3>1, ItemTypes DEF Pack, Word
    <3>3. MasterWrites(items, "idle") /\ mpc = "reply"
      BY <1>4, <2>5 DEF ReadSlaveConn, IncrSync
    <3> HIDE DEF items
    <3>4. /\ toSlave' \in Seq(Items) /\ mpc' \in {"idle", "dead"}
          /\ IncrIsWhole' /\ Sides'
      BY <3>2, <3>3, <1>4, MasterWritesKeeps DEF ReadSlaveConn
    <3>5. moff' \in 0 .. SizeMod - 1
      BY <3>1, <2>5 DEF IncrSync
    <3>6. TypeOK'
      BY <2>2, <3>4, <3>5, <1>4, <2>5 DEF TypeOK, FileParts, ReadSlaveConn, IncrSync
    <3> QED
      BY <3>4, <3>6 DEF Room
  <2> QED
    BY <2>1, <2>3, <2>4, <2>5
<1>5. CASE SendPing
  <2> DEFINE items == <<Word("ping", 0)>>
  <2>1. items \in Seq(Items) /\ Len(items) = 1 /\ items[1].status # "incr"
    BY ItemTypes DEF Word
  <2>2. MasterWrites(items, "ping") /\ mpc = "idle"
    BY <1>5 DEF SendPing
  <2> HIDE DEF items
  <2>3. toSlave' \in Seq(Items) /\ mpc' \in {"ping", "dead"} /\ IncrIsWhole' /\ Sides'
    BY <2>1, <2>2, <1>5, MasterWritesKeeps DEF SendPing
  <2>4. TypeOK'
    BY <2>3, <1>5 DEF TypeOK, FileParts, SendPing, Unfinished
  <2> QED
    BY <2>3, <2>4 DEF Room
<1>6. CASE SendCheck
  <2> DEFINE items == <<Pack("check", moff)>>
  <2>1. items \in Seq(Items) /\ Len(items) = 1 /\ items[1].status # "incr"
    BY <1>0, ItemTypes DEF Pack
  <2>2. MasterWrites(items, "reply") /\ mpc = "idle"
    BY <1>6 DEF SendCheck
  <2> HIDE DEF items
  <2>3. toSlave' \in Seq(Items) /\ mpc' \in {"reply", "dead"} /\ IncrIsWhole' /\ Sides'
    BY <2>1, <2>2, <1>6, MasterWritesKeeps DEF SendCheck
  <2>4. TypeOK'
    BY <2>3, <1>6 DEF TypeOK, FileParts, SendCheck, Unfinished
  <2> QED
    BY <2>3, <2>4, <1>6 DEF Room, SendCheck
<1>7. CASE DisconnectToSlave
  <2>1. TypeOK'
    BY <1>7 DEF TypeOK, FileParts, DisconnectToSlave
  <2>2. IncrIsWhole' /\ Sides' /\ Room'
    BY <1>7 DEF IncrIsWhole, HasStatus, Sides, Room, DisconnectToSlave
  <2> QED
    BY <2>1, <2>2
<1> QED
  BY <1>1, <1>2, <1>3, <1>4, <1>5, <1>6, <1>7 DEF Master

\* What a file thread writes.
LEMMA FilePartType ==
  ASSUME TInv, NEW left \in FileStates
  PROVE  /\ FilePart(left) \in Items /\ FilePart(left).kind \in {"len", "content"}
         /\ FilePart(left).status = "none"
<1>1. dump \in Nat /\ left \in Nat
  BY DEF TInv, TypeOK, FileStates, FileParts
<1>2. Word("len", dump) \in Items /\ Word("content", left) \in Items
  BY <1>1, ItemTypes
<1> QED
  BY <1>2 DEF FilePart, Word

\* The thread that sends the file.
LEMMA SendFileKeepsTInv ==
  ASSUME TInv, SendFile
  PROVE  TInv'
<1> USE DEF TInv
<1>1. PICK i \in DOMAIN files :
        /\ \/ /\ conn # "slave" /\ UNCHANGED mpc
              /\ toSlave' = IF conn = "open" THEN Append(toSlave, FilePart(files[i])) ELSE toSlave
           \/ conn = "slave" /\ UNCHANGED toSlave /\ mpc' \in {mpc, "dead"}
        /\ files' = IF mpc' = "dead" THEN <<>>
                    ELSE IF files[i] = 1 THEN RemoveAt(files, i)
                    ELSE [files EXCEPT ![i] = @ - 1]
  BY DEF SendFile
<1>2. UNCHANGED <<conn, moff, soff, spc, toMaster, sdb, shake, dump, early, short>>
  BY DEF SendFile
<1>3. /\ files \in Seq(FileStates) /\ toSlave \in Seq(Items) /\ Len(files) \in Nat
      /\ DOMAIN files = 1 .. Len(files) /\ files[i] \in FileStates
      /\ Len(files) <= MaxThreads /\ MaxThreads \in Nat
  <2>1. files \in Seq(FileStates) /\ toSlave \in Seq(Items) /\ Len(files) <= MaxThreads
    BY DEF TypeOK, FileStates
  <2>2. Len(files) \in Nat /\ DOMAIN files = 1 .. Len(files)
    BY <2>1, LenProperties
  <2>3. files[i] \in FileStates
    BY <2>1, <2>2, <1>1, ElementOfSeq
  <2> QED
    BY <2>1, <2>2, <2>3, ReplicationAssumption
<1>4. FilePart(files[i]) \in Items /\ FilePart(files[i]).kind \in {"len", "content"}
  BY <1>3, FilePartType
<1>6. files' \in Seq(FileStates) /\ Len(files') <= Len(files) /\ Len(files') \in Nat
  <2>1. CASE files' = <<>>
    BY <2>1, <1>3, EmptySeq
  <2>2. CASE files' = RemoveAt(files, i)
    <3>1. i \in 1 .. Len(files)
      BY <1>1, <1>3
    <3>2. files' \in Seq(FileStates) /\ Len(files') = Len(files) - 1
      BY <1>3, <2>2, <3>1, Removed
    <3> QED
      BY <1>3, <3>1, <3>2
  <2>3. CASE files[i] # 1 /\ files' = [files EXCEPT ![i] = @ - 1]
    <3>1. dump \in Nat
      BY DEF TypeOK
    <3>2. PICK w \in FileStates : w = files[i] - 1
      <4>1. files[i] - 1 \in FileStates
        BY <1>3, <2>3, <3>1 DEF FileStates, FileParts
      <4> QED
        BY <4>1
    <3>3. i \in 1 .. Len(files) /\ files' = [files EXCEPT ![i] = w]
      BY <1>1, <1>3, <2>3, <3>2
    <3> QED
      BY <1>3, <3>3, ExceptSeq
  <2> QED
    BY <1>1, <2>1, <2>2, <2>3
<1>7. /\ toSlave' \in Seq(Items)
      /\ \/ toSlave' = toSlave
         \/ /\ conn = "open" /\ toSlave' # <<>>
            /\ DOMAIN toSlave = 1 .. Len(toSlave) /\ Len(toSlave) \in Nat
            /\ DOMAIN toSlave' = 1 .. Len(toSlave) + 1
            /\ \A k \in DOMAIN toSlave : toSlave'[k] = toSlave[k]
            /\ toSlave'[Len(toSlave) + 1].kind \in {"len", "content"}
  <2>1. CASE toSlave' = toSlave
    BY <2>1, <1>3
  <2>2. CASE conn = "open" /\ toSlave' = Append(toSlave, FilePart(files[i]))
    <3>1. /\ toSlave' \in Seq(Items) /\ toSlave' # <<>> /\ Len(toSlave') = Len(toSlave) + 1
          /\ DOMAIN toSlave = 1 .. Len(toSlave) /\ Len(toSlave) \in Nat
          /\ \A k \in 1 .. Len(toSlave) : toSlave'[k] = toSlave[k]
          /\ toSlave'[Len(toSlave) + 1] = FilePart(files[i])
      BY <2>2, <1>3, <1>4, AppendProperties, LenProperties
    <3>2. DOMAIN toSlave' = 1 .. Len(toSlave) + 1
      BY <3>1, LenProperties
    <3> QED
      BY <1>4, <2>2, <3>1, <3>2
  <2> QED
    BY <1>1, <2>1, <2>2
<1>8. mpc' \in {mpc, "dead"}
  BY <1>1
<1>9. TypeOK'
  BY <1>2, <1>3, <1>6, <1>7, <1>8 DEF TypeOK, FileStates, FileParts
<1>10. IncrIsWhole'
  BY <1>7 DEF IncrIsWhole, HasStatus
<1>11. files # <<>>
  BY <1>1, <1>3, EmptySeq
<1>12. Sides'
  <2>1. mpc' = "shake" => mpc = "shake"
    BY <1>8
  <2>2. mpc # "shake" /\ conn # "none"
    BY <1>11 DEF Sides
  <2>3. conn' = "slave" => spc' \in {"left", "dead"}
    BY <1>2 DEF Sides
  <2>4. spc' \in {"shake", "shaking"} => toSlave # <<>> /\ HasStatus(1, "check")
    BY <1>2, <2>2 DEF Sides
  <2>5. toSlave # <<>> => 1 \in DOMAIN toSlave
    BY <1>3, TailItems
  <2>6. spc' \in {"shake", "shaking"} => toSlave' # <<>> /\ HasStatus(1, "check")'
    BY <2>4, <2>5, <1>7 DEF HasStatus
  <2> QED
    BY <1>2, <2>1, <2>2, <2>3, <2>6 DEF Sides
<1>13. Room'
  BY <1>3, <1>6, <1>8 DEF Room
<1> QED
  BY <1>9, <1>10, <1>12, <1>13

\* The slave has taken the first d items of the stream.
Taken(d) ==
  /\ d \in 1 .. Len(toSlave) /\ toSlave' \in Seq(Items) /\ Len(toSlave') = Len(toSlave) - d
  /\ \A i \in DOMAIN toSlave' :
       i \in Nat \ {0} /\ i + d \in DOMAIN toSlave /\ toSlave'[i] = toSlave[i + d]

\* What is not taken is still there.
LEMMA NotTaken ==
  ASSUME TInv, NEW d, Taken(d)
  PROVE  /\ toSlave \in Seq(Items) /\ Len(toSlave) \in Nat /\ DOMAIN toSlave = 1 .. Len(toSlave)
         /\ Len(toSlave') \in Nat /\ DOMAIN toSlave' = 1 .. Len(toSlave')
         /\ d \in Nat \ {0}
         /\ \A i \in Int : i \in DOMAIN toSlave' <=> i \in Nat \ {0} /\ i + d \in DOMAIN toSlave
<1>1. /\ toSlave \in Seq(Items) /\ Len(toSlave) \in Nat /\ DOMAIN toSlave = 1 .. Len(toSlave)
      /\ Len(toSlave') \in Nat /\ DOMAIN toSlave' = 1 .. Len(toSlave')
      /\ d \in 1 .. Len(toSlave) /\ Len(toSlave') = Len(toSlave) - d
  BY LenProperties DEF TInv, TypeOK, Taken
<1> QED
  BY <1>1

\* How it takes them.
LEMMA TailIsTaken ==
  ASSUME TInv, toSlave # <<>>, toSlave' = Tail(toSlave)
  PROVE  Taken(1)
<1>1. toSlave \in Seq(Items)
  BY DEF TInv, TypeOK
<1>2. /\ 1 \in DOMAIN toSlave /\ toSlave' \in Seq(Items) /\ Len(toSlave') = Len(toSlave) - 1
      /\ \A i \in Int : i \in DOMAIN Tail(toSlave) <=> i \in Nat \ {0} /\ i + 1 \in DOMAIN toSlave
      /\ \A i \in DOMAIN Tail(toSlave) : Tail(toSlave)[i] = toSlave[i + 1]
  BY <1>1, TailItems, HeadTailProperties
<1>3. DOMAIN toSlave' = 1 .. Len(toSlave') /\ DOMAIN toSlave = 1 .. Len(toSlave)
  BY <1>1, <1>2, LenProperties
<1>4. \A i \in DOMAIN toSlave' : i \in Int
  BY <1>3
<1> QED
  BY <1>2, <1>3, <1>4 DEF Taken

LEMMA RestIsTaken ==
  ASSUME TInv, NEW d \in 1 .. Len(toSlave), toSlave' = SubSeq(toSlave, d + 1, Len(toSlave))
  PROVE  Taken(d)
<1>1. toSlave \in Seq(Items) /\ Len(toSlave) \in Nat /\ DOMAIN toSlave = 1 .. Len(toSlave)
  BY LenProperties DEF TInv, TypeOK
<1>2. /\ toSlave' \in Seq(Items) /\ Len(toSlave') = Len(toSlave) - d
      /\ \A i \in 1 .. Len(toSlave) - d : toSlave'[i] = toSlave[i + d]
  BY <1>1, AfterSome
<1>3. DOMAIN toSlave' = 1 .. Len(toSlave) - d
  BY <1>2, LenProperties
<1>4. \A i \in 1 .. Len(toSlave) - d : i \in Nat \ {0} /\ i + d \in 1 .. Len(toSlave)
  BY <1>1
<1> QED
  BY <1>1, <1>2, <1>3, <1>4 DEF Taken

\* What is left of the stream holds whole transfers.
LEMMA TakenKeepsWhole ==
  ASSUME TInv, NEW d, Taken(d)
  PROVE  toSlave' \in Seq(Items) /\ IncrIsWhole'
<1>1. /\ toSlave' \in Seq(Items) /\ d \in Nat \ {0}
      /\ Len(toSlave') \in Nat /\ DOMAIN toSlave' = 1 .. Len(toSlave')
      /\ Len(toSlave) \in Nat /\ DOMAIN toSlave = 1 .. Len(toSlave)
      /\ Len(toSlave') = Len(toSlave) - d
      /\ \A i \in DOMAIN toSlave' :
           i \in Nat \ {0} /\ i + d \in DOMAIN toSlave /\ toSlave'[i] = toSlave[i + d]
  BY NotTaken DEF Taken
<1> SUFFICES ASSUME NEW i \in DOMAIN toSlave', HasStatus(i, "incr")'
             PROVE  /\ i + 2 \in DOMAIN toSlave'
                    /\ toSlave'[i + 1].kind = "count" /\ toSlave'[i + 2].kind = "data"
  BY <1>1 DEF IncrIsWhole
<1>2. PICK j \in DOMAIN toSlave : j = i + d /\ HasStatus(j, "incr")
  BY <1>1 DEF HasStatus
<1>3. /\ j + 2 \in DOMAIN toSlave
      /\ toSlave[j + 1].kind = "count" /\ toSlave[j + 2].kind = "data"
  BY <1>2 DEF TInv, IncrIsWhole
<1>4. /\ i + 1 \in DOMAIN toSlave' /\ i + 2 \in DOMAIN toSlave'
      /\ (i + 1) + d = j + 1 /\ (i + 2) + d = j + 2
  BY <1>1, <1>2, <1>3
<1> QED
  BY <1>1, <1>3, <1>4

\* An incremental transfer is there to be read.
LEMMA IncrIsHere ==
  ASSUME TInv, toSlave # <<>>, HasStatus(1, "incr")
  PROVE  /\ 3 \in 1 .. Len(toSlave) /\ toSlave[2].val \in Nat /\ toSlave[3].val \in Nat
         /\ toSlave[2].kind = "count" /\ toSlave[3].kind = "data"
         /\ toSlave' = SubSeq(toSlave, 4, Len(toSlave)) => Taken(3)
<1>1. toSlave \in Seq(Items) /\ DOMAIN toSlave = 1 .. Len(toSlave)
  BY LenProperties DEF TInv, TypeOK
<1>2. /\ 1 \in DOMAIN toSlave /\ 2 \in DOMAIN toSlave /\ 3 \in DOMAIN toSlave
      /\ toSlave[2].kind = "count" /\ toSlave[3].kind = "data"
  BY <1>1, TailItems DEF TInv, IncrIsWhole
<1>3. toSlave[2] \in Items /\ toSlave[3] \in Items
  BY <1>1, <1>2, ElementOfSeq
<1>4. toSlave[2].val \in Nat /\ toSlave[3].val \in Nat
  BY <1>3 DEF Items
<1>5. ASSUME toSlave' = SubSeq(toSlave, 4, Len(toSlave)) PROVE Taken(3)
  <2>1. PICK d \in 1 .. Len(toSlave) : d = 3 /\ d + 1 = 4
    BY <1>1, <1>2
  <2>2. Taken(d)
    BY <1>5, <2>1, RestIsTaken
  <2> QED
    BY <2>1, <2>2
<1> QED
  BY <1>1, <1>2, <1>4, <1>5

\* What recvFile takes are parts of a file.
OfFile(d) == Taken(d) /\ \A j \in 1 .. d : toSlave[j].kind \in {"len", "content"}
LEMMA RecvFileTakes ==
  ASSUME TInv, RecvFile
  PROVE  toSlave' = toSlave \/ \E d \in Nat : OfFile(d)
<1>1. CASE ReadLength
  <2>1. CASE toSlave # <<>> /\ toSlave' = Tail(toSlave) /\ Head(toSlave).kind = "len"
    <3>1. Taken(1) /\ Head(toSlave) = toSlave[1]
      BY <2>1, TailIsTaken, TailItems DEF TInv, TypeOK
    <3> QED
      BY <2>1, <3>1 DEF OfFile
  <2> QED
    BY <1>1, <2>1 DEF ReadLength, Misread
<1>2. CASE ReadContent
  <2>1. PICK k \in 1 .. dump :
          /\ k <= Len(toSlave)
          /\ \/ /\ \A j \in 1 .. k : toSlave[j] = Word("content", dump - j + 1)
                /\ toSlave' = SubSeq(toSlave, k + 1, Len(toSlave))
             \/ toSlave' = toSlave
    BY <1>2 DEF ReadContent, Misread
  <2>2. dump \in Nat /\ toSlave \in Seq(Items) /\ Len(toSlave) \in Nat
    BY LenProperties DEF TInv, TypeOK
  <2>3. k \in Nat /\ k \in 1 .. Len(toSlave)
    BY <2>1, <2>2
  <2>4. ASSUME \A j \in 1 .. k : toSlave[j] = Word("content", dump - j + 1),
               toSlave' = SubSeq(toSlave, k + 1, Len(toSlave))
        PROVE  OfFile(k)
    <3>1. Taken(k)
      BY <2>3, <2>4, RestIsTaken
    <3>2. ASSUME NEW j \in 1 .. k PROVE toSlave[j].kind \in {"len", "content"}
      <4>1. toSlave[j] = Word("content", dump - j + 1)
        BY <2>4
      <4> QED
        BY <4>1 DEF Word
    <3> QED
      BY <3>1, <3>2 DEF OfFile
  <2> QED
    BY <2>1, <2>3, <2>4
<1>3. CASE ReadNoFile
  BY <1>3 DEF ReadNoFile
<1> QED
  BY <1>1, <1>2, <1>3 DEF RecvFile

\* The rest of what recvFile does.
LEMMA RecvFileLeaves ==
  ASSUME TInv, RecvFile
  PROVE  /\ spc \in {"len", "content"} /\ spc' \in {"idle", "content", "lost"}
         /\ UNCHANGED <<conn, moff, soff, toMaster, mpc, files, shake, dump, early>>
         /\ sdb' \in {sdb, {}} /\ short' \in BOOLEAN /\ (short => short')
         /\ spc' = "content" => sdb' = sdb
<1>1. UNCHANGED <<moff, mpc, files, shake, dump, early>> /\ short \in BOOLEAN
  BY DEF RecvFile, TInv, TypeOK
<1>2. CASE ReadLength
  BY <1>1, <1>2 DEF ReadLength, Misread, FileIsHere
<1>3. CASE ReadContent
  <2>1. PICK k \in 1 .. dump :
          \/ short' = (short \/ k < dump) /\ FileIsHere
          \/ Misread /\ UNCHANGED short
    BY <1>3 DEF ReadContent
  <2>2. spc = "content" /\ (k < dump) \in BOOLEAN
    BY <1>3 DEF ReadContent
  <2>3. short' \in BOOLEAN /\ (short => short')
    BY <1>1, <2>1
  <2> QED
    BY <1>1, <2>1, <2>2, <2>3 DEF Misread, FileIsHere
<1>4. CASE ReadNoFile
  BY <1>1, <1>4 DEF ReadNoFile, FileIsHere
<1> QED
  BY <1>1, <1>2, <1>3, <1>4 DEF RecvFile

\* What a slave writes are its offsets.
LEMMA SlaveWritesType ==
  ASSUME TInv, NEW offsets \in Seq(Nat), SlaveWrites(offsets)
  PROVE  toMaster' \in Seq(Nat)
BY ConcatProperties DEF TInv, TypeOK, SlaveWrites

\* The slave's calls.
LEMMA SlaveKeepsTInv ==
  ASSUME TInv, Slave \/ BeginSync \/ DisconnectToMaster
  PROVE  TInv'
<1> USE DEF TInv
<1>0. /\ soff \in Nat /\ toSlave \in Seq(Items) /\ toMaster \in Seq(Nat)
      /\ <<soff>> \in Seq(Nat) /\ <<soff, soff>> \in Seq(Nat)
  BY DEF TypeOK
<1>1. CASE ShakeHandWithMaster
  <2>1. toMaster' \in Seq(Nat)
    BY <1>0, <1>1, SlaveWritesType DEF ShakeHandWithMaster
  <2>2. TypeOK'
    BY <1>1, <2>1 DEF TypeOK, FileParts, ShakeHandWithMaster
  <2>3. IncrIsWhole' /\ Room'
    BY <1>1 DEF IncrIsWhole, HasStatus, Room, ShakeHandWithMaster
  <2>4. Sides'
    BY <1>1 DEF Sides, HasStatus, ShakeHandWithMaster
  <2> QED
    BY <2>2, <2>3, <2>4
<1>2. CASE ReadShake
  <2>1. toSlave' \in Seq(Items) /\ IncrIsWhole'
    <3>1. CASE toSlave # <<>> /\ toSlave' = Tail(toSlave)
      BY <3>1, TailIsTaken, TakenKeepsWhole
    <3>2. CASE toSlave' = toSlave
      BY <3>2, <1>0 DEF IncrIsWhole, HasStatus
    <3> QED
      BY <3>1, <3>2, <1>2 DEF ReadShake
  <2>2. TypeOK'
    BY <1>2, <2>1 DEF TypeOK, FileParts, ReadShake
  <2>3. Sides' /\ Room'
    BY <1>2 DEF Sides, Room, ReadShake
  <2> QED
    BY <2>1, <2>2, <2>3
<1>3. CASE SyncWithMaster
  <2> DEFINE pack == Head(toSlave)
  <2>0. /\ toSlave # <<>> /\ spc = "pack" /\ pack = toSlave[1] /\ pack \in Items /\ pack.val \in Nat
        /\ UNCHANGED <<moff, mpc, files, shake, dump, early, short>>
    <3>1. toSlave # <<>> /\ spc = "pack" /\ UNCHANGED <<moff, mpc, files, shake, dump, early, short>>
      BY <1>3 DEF SyncWithMaster
    <3>2. pack = toSlave[1] /\ pack \in Items
      BY <3>1, <1>0, TailItems
    <3> QED
      BY <3>1, <3>2 DEF Items
  <2>1. CASE AnswerCheck(pack)
    <3>1. toMaster' \in Seq(Nat)
      BY <1>0, <2>1, SlaveWritesType DEF AnswerCheck, ReplyTo
    <3>2. toSlave' \in Seq(Items) /\ IncrIsWhole'
      BY <2>0, <2>1, TailIsTaken, TakenKeepsWhole DEF AnswerCheck
    <3>3. TypeOK'
      BY <2>0, <2>1, <3>1, <3>2 DEF TypeOK, FileParts, AnswerCheck
    <3>4. Sides' /\ Room'
      BY <2>0, <2>1 DEF Sides, Room, AnswerCheck
    <3> QED
      BY <3>2, <3>3, <3>4
  <2>2. CASE BeginFull(pack)
    <3>1. toSlave' \in Seq(Items) /\ IncrIsWhole'
      BY <2>0, <2>2, TailIsTaken, TakenKeepsWhole DEF BeginFull
    <3>2. TypeOK'
      BY <2>0, <2>2, <3>1 DEF TypeOK, FileParts, BeginFull, OffsetAfterFull
    <3>3. Sides' /\ Room'
      BY <2>0, <2>2 DEF Sides, Room, BeginFull
    <3> QED
      BY <3>1, <3>2, <3>3
  <2>3. CASE ExecuteIncr(pack)
    <3>1. /\ toSlave[2].val \in Nat /\ toSlave' \in Seq(Items) /\ IncrIsWhole'
      BY <2>0, <2>3, IncrIsHere, TakenKeepsWhole DEF ExecuteIncr, HasStatus
    <3>2. toSlave[2].val \div ParsedBytes \in Nat
      BY <3>1 DEF ParsedBytes
    <3>3. /\ soff' \in Nat /\ sdb' \subseteq {Own, EmptyKey} /\ toMaster' = toMaster
          /\ \/ spc' = "dead" /\ conn' = "slave"
             \/ spc' \in {"undefined", "idle"} /\ conn' = conn
      <4>1. /\ soff' = soff \/ soff' = soff + (toSlave[2].val \div ParsedBytes) * LenOfCmd
            /\ sdb' = sdb \/ sdb' = sdb \cup {EmptyKey}
            /\ toMaster' = toMaster
            /\ \/ spc' = "dead" /\ conn' = "slave"
               \/ spc' \in {"undefined", "idle"} /\ conn' = conn
        BY <2>3 DEF ExecuteIncr
      <4>2. soff' \in Nat
        BY <1>0, <3>2, <4>1 DEF LenOfCmd
      <4>3. sdb' \subseteq {Own, EmptyKey}
        BY <4>1 DEF TypeOK
      <4> QED
        BY <2>0, <4>1, <4>2, <4>3
    <3>4. TypeOK'
      BY <2>0, <3>1, <3>3 DEF TypeOK, FileParts
    <3>5. Sides' /\ Room'
      BY <2>0, <3>3 DEF Sides, Room
    <3> QED
      BY <3>1, <3>4, <3>5
  <2>4. CASE IgnorePing(pack)
    <3>1. toSlave' \in Seq(Items) /\ DOMAIN toSlave' = {}
      BY <2>4, EmptySeq DEF IgnorePing
    <3>2. TypeOK'
      BY <2>0, <2>4, <3>1 DEF TypeOK, FileParts, IgnorePing
    <3>3. IncrIsWhole'
      BY <3>1 DEF IncrIsWhole
    <3>4. Sides' /\ Room'
      BY <2>0, <2>4 DEF Sides, Room, IgnorePing
    <3> QED
      BY <3>2, <3>3, <3>4
  <2>5. CASE Misread
    <3>1. TypeOK'
      BY <2>0, <2>5 DEF TypeOK, FileParts, Misread
    <3>2. IncrIsWhole' /\ Sides' /\ Room'
      BY <2>0, <2>5 DEF IncrIsWhole, HasStatus, Sides, Room, Misread
    <3> QED
      BY <3>1, <3>2
  <2> QED
    BY <1>3, <2>1, <2>2, <2>3, <2>4, <2>5 DEF SyncWithMaster
<1>4. CASE RecvFile
  <2>0. /\ spc \in {"len", "content"} /\ spc' \in {"idle", "content", "lost"}
        /\ UNCHANGED <<conn, moff, soff, toMaster, mpc, files, shake, dump, early>>
        /\ sdb' \in {sdb, {}} /\ short' \in BOOLEAN
    BY <1>4, RecvFileLeaves
  <2>1. toSlave' \in Seq(Items) /\ IncrIsWhole'
    <3>1. ASSUME NEW d \in Nat, OfFile(d) PROVE toSlave' \in Seq(Items) /\ IncrIsWhole'
      BY <3>1, TakenKeepsWhole DEF OfFile
    <3>2. CASE toSlave' = toSlave
      BY <3>2, <1>0 DEF IncrIsWhole, HasStatus
    <3> QED
      BY <3>1, <3>2, <1>4, RecvFileTakes
  <2>2. TypeOK'
    BY <2>0, <2>1 DEF TypeOK, FileParts
  <2>3. Sides' /\ Room'
    BY <2>0 DEF Sides, Room
  <2> QED
    BY <2>1, <2>2, <2>3
<1>5. CASE DisconnectToMaster
  <2>1. toSlave' \in Seq(Items) /\ DOMAIN toSlave' = {}
    BY <1>5, EmptySeq DEF DisconnectToMaster
  <2>2. TypeOK'
    BY <1>5, <2>1 DEF TypeOK, FileParts, DisconnectToMaster
  <2>3. IncrIsWhole'
    BY <2>1 DEF IncrIsWhole
  <2>4. Sides' /\ Room'
    BY <1>5 DEF Sides, Room, DisconnectToMaster
  <2> QED
    BY <2>2, <2>3, <2>4
<1>6. CASE ReadEnd \/ BeginSync
  <2>1. TypeOK'
    BY <1>6 DEF TypeOK, FileParts, ReadEnd, BeginSync
  <2>2. IncrIsWhole' /\ Sides' /\ Room'
    BY <1>6 DEF IncrIsWhole, HasStatus, Sides, Room, ReadEnd, BeginSync
  <2> QED
    BY <2>1, <2>2
<1> QED
  BY <1>1, <1>2, <1>3, <1>4, <1>5, <1>6 DEF Slave

\* Every step keeps TInv.
LEMMA StepTInv == TInv /\ [Next]_vars => TInv'
<1> SUFFICES ASSUME TInv, [Next]_vars PROVE TInv'
  OBVIOUS
<1>1. CASE Connect \/ Master \/ SendPing \/ SendCheck \/ DisconnectToSlave
  BY <1>1, MasterKeepsTInv
<1>2. CASE SendFile
  BY <1>2, SendFileKeepsTInv
<1>3. CASE Slave \/ BeginSync \/ DisconnectToMaster
  BY <1>3, SlaveKeepsTInv
<1>4. CASE UNCHANGED vars
  BY <1>4 DEF vars, TInv, TypeOK, FileParts, IncrIsWhole, HasStatus, Sides, Room
<1> QED
  BY <1>1, <1>2, <1>3, <1>4 DEF Next

\* TInv holds of every execution.
LEMMA AlwaysTInv == Spec => []TInv
<1> QED
  BY InitTInv, StepTInv, PTL DEF Spec

(***************************************************************************)
(* Replication keeps the types of its state for all offsets: the offset    *)
(* that syncWithSlave computes from a slave that is ahead is a number of   *)
(* size_t, and no more file threads run than syncWithSlave was called.     *)
(***************************************************************************)
THEOREM TypeCorrect == Spec => []TypeOK
<1>1. TInv => TypeOK
  BY DEF TInv
<1> QED
  BY <1>1, AlwaysTInv, PTL

-------------------------------------------------------------------------------
\* Where the items of both streams come from.

\* A call of the master adds what it writes and nothing else.
LEMMA MasterAdds ==
  ASSUME TInv, NEW items \in Seq(Items), NEW next, MasterWrites(items, next),
         NEW i \in DOMAIN toSlave'
  PROVE  \/ i \in DOMAIN toSlave /\ toSlave'[i] = toSlave[i]
         \/ conn # "slave" /\ \E k \in 1 .. Len(items) : toSlave'[i] = items[k]
<1>1. CASE toSlave' = toSlave
  BY <1>1
<1>2. CASE conn # "slave" /\ toSlave' = toSlave \o items
  <2> DEFINE n == Len(toSlave)
  <2>1. /\ n \in Nat /\ DOMAIN toSlave = 1 .. n /\ DOMAIN toSlave' = 1 .. n + Len(items)
        /\ \A j \in 1 .. n : toSlave'[j] = toSlave[j]
        /\ \A k \in 1 .. Len(items) : toSlave'[n + k] = items[k]
        /\ Len(items) \in Nat
    <3>1. toSlave \in Seq(Items)
      BY DEF TInv, TypeOK
    <3> QED
      BY <1>2, <3>1, WrittenItems
  <2> HIDE DEF n
  <2>2. CASE i \in 1 .. n
    BY <2>1, <2>2
  <2>3. CASE i \notin 1 .. n
    <3>1. i - n \in 1 .. Len(items) /\ i = n + (i - n)
      BY <2>1, <2>3
    <3> QED
      BY <1>2, <2>1, <3>1
  <2> QED
    BY <2>2, <2>3
<1> QED
  BY <1>1, <1>2 DEF MasterWrites

\* The same, item by item.
LEMMA MasterAddsOne ==
  ASSUME TInv, NEW a \in Items, NEW next, MasterWrites(<<a>>, next)
  PROVE  \A i \in DOMAIN toSlave' :
           (i \in DOMAIN toSlave /\ toSlave'[i] = toSlave[i]) \/ toSlave'[i] = a
<1> DEFINE items == <<a>>
<1>1. items \in Seq(Items) /\ \A k \in 1 .. Len(items) : items[k] = a
  OBVIOUS
<1>2. MasterWrites(items, next)
  OBVIOUS
<1> HIDE DEF items
<1> QED
  BY <1>1, <1>2, MasterAdds

\* The same for an incremental transfer.
LEMMA MasterAddsThree ==
  ASSUME TInv, NEW a \in Items, NEW b \in Items, NEW c \in Items, NEW next,
         MasterWrites(<<a, b, c>>, next)
  PROVE  \A i \in DOMAIN toSlave' :
           (i \in DOMAIN toSlave /\ toSlave'[i] = toSlave[i]) \/ toSlave'[i] \in {a, b, c}
<1> DEFINE items == <<a, b, c>>
<1>1. items \in Seq(Items) /\ \A k \in 1 .. Len(items) : items[k] \in {a, b, c}
  OBVIOUS
<1>2. MasterWrites(items, next)
  OBVIOUS
<1> HIDE DEF items
<1> QED
  BY <1>1, <1>2, MasterAdds

\* The file thread adds parts of files.
LEMMA ThreadAdds ==
  ASSUME TInv, SendFile, NEW i \in DOMAIN toSlave'
  PROVE  \/ i \in DOMAIN toSlave /\ toSlave'[i] = toSlave[i]
         \/ toSlave'[i].kind \in {"len", "content"}
<1>1. PICK k \in DOMAIN files :
        toSlave' = toSlave \/ toSlave' = Append(toSlave, FilePart(files[k]))
  BY DEF SendFile
<1>2. files \in Seq(FileStates) /\ DOMAIN files = 1 .. Len(files) /\ toSlave \in Seq(Items)
  BY LenProperties DEF TInv, TypeOK, FileStates
<1>3. files[k] \in FileStates
  BY <1>1, <1>2, ElementOfSeq
<1>4. FilePart(files[k]) \in Items /\ FilePart(files[k]).kind \in {"len", "content"}
  BY <1>3, FilePartType
<1>5. CASE toSlave' = Append(toSlave, FilePart(files[k]))
  <2>1. /\ Len(toSlave) \in Nat /\ DOMAIN toSlave = 1 .. Len(toSlave)
        /\ Len(toSlave') = Len(toSlave) + 1 /\ toSlave' \in Seq(Items)
        /\ \A j \in 1 .. Len(toSlave) : toSlave'[j] = toSlave[j]
        /\ toSlave'[Len(toSlave) + 1] = FilePart(files[k])
    BY <1>2, <1>4, <1>5, AppendProperties, LenProperties
  <2>2. DOMAIN toSlave' = 1 .. Len(toSlave) + 1
    BY <2>1, LenProperties
  <2> QED
    BY <1>4, <2>1, <2>2
<1> QED
  BY <1>1, <1>5

\* What the slave leaves of the stream it reads is the end of it.
LEMMA SlaveReads ==
  ASSUME TInv, Slave \/ BeginSync \/ DisconnectToMaster
  PROVE  \E d \in Nat : \A i \in DOMAIN toSlave' :
           i \in Nat \ {0} /\ i + d \in DOMAIN toSlave /\ toSlave'[i] = toSlave[i + d]
<1> DEFINE Leaves(d) == \A i \in DOMAIN toSlave' :
             i \in Nat \ {0} /\ i + d \in DOMAIN toSlave /\ toSlave'[i] = toSlave[i + d]
<1>1. toSlave \in Seq(Items) /\ DOMAIN toSlave = 1 .. Len(toSlave) /\ Len(toSlave) \in Nat
  BY LenProperties DEF TInv, TypeOK
<1>2. ASSUME toSlave' = toSlave PROVE Leaves(0)
  BY <1>1, <1>2
<1>3. ASSUME NEW d \in Nat, Taken(d) PROVE Leaves(d)
  BY <1>3 DEF Taken
<1>4. CASE RecvFile
  <2>1. ASSUME NEW d \in Nat, OfFile(d) PROVE Leaves(d)
    BY <2>1, <1>3 DEF OfFile
  <2>2. \E d \in Nat : Leaves(d)
    BY <1>2, <1>4, <2>1, RecvFileTakes
  <2> QED
    BY <2>2
<1>5. ASSUME toSlave' = <<>> PROVE Leaves(0)
  BY <1>5, EmptySeq
<1>6. CASE ~RecvFile
  <2>1. \/ toSlave' = toSlave \/ toSlave' = <<>>
        \/ toSlave # <<>> /\ toSlave' = Tail(toSlave)
        \/ /\ toSlave # <<>> /\ Head(toSlave).kind = "pack" /\ Head(toSlave).status = "incr"
           /\ toSlave' = SubSeq(toSlave, 4, Len(toSlave))
    BY <1>6 DEF Slave, DisconnectToMaster, ShakeHandWithMaster, ReadShake, SyncWithMaster, ReadEnd,
                BeginSync, AnswerCheck, BeginFull, ExecuteIncr, IgnorePing, Misread
  <2>2. toSlave # <<>> /\ toSlave' = Tail(toSlave) => Leaves(1)
    BY <1>3, TailIsTaken
  <2>3. ASSUME toSlave # <<>>, Head(toSlave).kind = "pack", Head(toSlave).status = "incr",
               toSlave' = SubSeq(toSlave, 4, Len(toSlave))
        PROVE  Leaves(3)
    <3>1. Taken(3)
      BY <1>1, <2>3, TailItems, IncrIsHere DEF HasStatus
    <3> QED
      BY <1>3, <3>1
  <2>4. Leaves(0) \/ Leaves(1) \/ Leaves(3)
    BY <1>2, <1>5, <2>1, <2>2, <2>3
  <2> QED
    BY <2>4
<1> QED
  BY <1>4, <1>6

\* So the slave only takes.
LEMMA SlaveTakes ==
  ASSUME TInv, Slave \/ BeginSync \/ DisconnectToMaster, NEW i \in DOMAIN toSlave'
  PROVE  \E j \in DOMAIN toSlave : toSlave'[i] = toSlave[j]
<1>1. PICK d \in Nat : i + d \in DOMAIN toSlave /\ toSlave'[i] = toSlave[i + d]
  BY SlaveReads
<1> QED
  BY <1>1

\* The master takes a reply and leaves those behind it.
LEMMA MasterTakes ==
  ASSUME TInv, NEW reply, ReadReply(reply), NEW i \in DOMAIN toMaster'
  PROVE  \E j \in DOMAIN toMaster : toMaster'[i] = toMaster[j]
<1>1. toMaster \in Seq(Nat)
  BY DEF TInv, TypeOK
<1>2. CASE toMaster # <<>> /\ toMaster' = Tail(toMaster)
  <2>1. i \in Int
    BY <1>1, <1>2, TailItems, LenProperties
  <2>2. i + 1 \in DOMAIN toMaster /\ toMaster'[i] = toMaster[i + 1]
    BY <1>1, <1>2, <2>1, TailItems
  <2> QED
    BY <2>2
<1>3. CASE toMaster' = <<>>
  BY <1>3, EmptySeq
<1> QED
  BY <1>2, <1>3 DEF ReadReply

\* The slave adds its offset.
LEMMA SlaveAdds ==
  ASSUME TInv, NEW offsets \in {<<soff>>, <<soff, soff>>}, SlaveWrites(offsets),
         NEW i \in DOMAIN toMaster'
  PROVE  \/ \E j \in DOMAIN toMaster : toMaster'[i] = toMaster[j]
         \/ conn = "open" /\ toMaster'[i] = soff
<1>1. toMaster \in Seq(Nat) /\ offsets \in Seq(Nat) /\ \A k \in 1 .. Len(offsets) : offsets[k] = soff
  <2>1. toMaster \in Seq(Nat) /\ soff \in Nat
    BY DEF TInv, TypeOK
  <2>2. CASE offsets = <<soff>>
    BY <2>1, <2>2
  <2>3. CASE offsets = <<soff, soff>>
    BY <2>1, <2>3
  <2> QED
    BY <2>2, <2>3
<1>2. CASE toMaster' = toMaster
  BY <1>2
<1>3. CASE conn = "open" /\ toMaster' = toMaster \o offsets
  <2> DEFINE n == Len(toMaster)
  <2>1. /\ n \in Nat /\ DOMAIN toMaster = 1 .. n /\ DOMAIN toMaster' = 1 .. n + Len(offsets)
        /\ \A j \in 1 .. n : toMaster'[j] = toMaster[j]
        /\ \A k \in 1 .. Len(offsets) : toMaster'[n + k] = offsets[k]
        /\ Len(offsets) \in Nat
    BY <1>1, <1>3, WrittenItems
  <2> HIDE DEF n
  <2>2. CASE i \in 1 .. n
    BY <2>1, <2>2
  <2>3. CASE i \notin 1 .. n
    <3>1. i - n \in 1 .. Len(offsets) /\ i = n + (i - n)
      BY <2>1, <2>3
    <3>2. toMaster'[n + (i - n)] = offsets[i - n] /\ offsets[i - n] = soff
      BY <1>1, <2>1, <3>1
    <3> QED
      BY <1>3, <3>1, <3>2
  <2> QED
    BY <2>2, <2>3
<1> QED
  BY <1>2, <1>3 DEF SlaveWrites

-------------------------------------------------------------------------------
\* One kind of transfer for the life of a connection.

\* The server starts in one of the phases.
LEMMA InitPhase == Init => PhaseInv
<1> SUFFICES ASSUME Init PROVE PhaseInv
  OBVIOUS
<1>1. DOMAIN toSlave = {} /\ DOMAIN toMaster = {} /\ Own \in sdb /\ spc = "start"
  BY DEF Init
<1>2. CASE soff = 0
  BY <1>1, <1>2 DEF PhaseInv, FullPhase
<1>3. CASE soff # 0
  BY <1>1, <1>3 DEF PhaseInv, IncrPhase
<1> QED
  BY <1>2, <1>3

\* A slave that has answered 0 is sent files, all with the same offset.
LEMMA FullStaysFull ==
  ASSUME TInv, FullPhase, Next
  PROVE  FullPhase'
<1> USE DEF FullPhase
<1>0. soff \in Nat /\ moff \in Nat /\ toSlave \in Seq(Items) /\ toMaster \in Seq(Nat)
  BY ReplicationAssumption DEF TInv, TypeOK
<1>1. CASE Connect
  BY <1>1 DEF Connect, HasStatus
<1>2. CASE ShakeHandWithSlave
  <2>1. PICK reply \in Replies : ReadReply(reply)
    BY <1>2 DEF ShakeHandWithSlave
  <2>2. \A i \in DOMAIN toMaster' : toMaster'[i] \in {0, moff}
    BY <2>1, MasterTakes
  <2>3. Pack("check", moff) \in Items /\ Pack("check", moff).status = "check"
    BY <1>0, ItemTypes DEF Pack
  <2>4. \A i \in DOMAIN toSlave' :
          (i \in DOMAIN toSlave /\ toSlave'[i] = toSlave[i]) \/ toSlave'[i] = Pack("check", moff)
    BY <2>3, <1>2, MasterAddsOne DEF ShakeHandWithSlave
  <2>5. \A i \in DOMAIN toSlave' :
          ~HasStatus(i, "incr")' /\ (HasStatus(i, "full")' => toSlave'[i].val = moff)
    BY <2>3, <2>4 DEF HasStatus
  <2> QED
    BY <2>2, <2>5, <1>2 DEF ShakeHandWithSlave
<1>3. CASE ReadPong
  BY <1>3, EmptySeq DEF ReadPong, HasStatus
<1>4. CASE SendPing
  <2>1. Word("ping", 0) \in Items /\ Word("ping", 0).status = "none"
    BY ItemTypes DEF Word
  <2>2. \A i \in DOMAIN toSlave' :
          (i \in DOMAIN toSlave /\ toSlave'[i] = toSlave[i]) \/ toSlave'[i] = Word("ping", 0)
    BY <2>1, <1>4, MasterAddsOne DEF SendPing
  <2>3. \A i \in DOMAIN toSlave' :
          ~HasStatus(i, "incr")' /\ (HasStatus(i, "full")' => toSlave'[i].val = moff)
    BY <2>1, <2>2 DEF HasStatus
  <2> QED
    BY <2>3, <1>4 DEF SendPing
<1>5. CASE SendCheck
  <2>1. Pack("check", moff) \in Items /\ Pack("check", moff).status = "check"
    BY <1>0, ItemTypes DEF Pack
  <2>2. \A i \in DOMAIN toSlave' :
          (i \in DOMAIN toSlave /\ toSlave'[i] = toSlave[i]) \/ toSlave'[i] = Pack("check", moff)
    BY <2>1, <1>5, MasterAddsOne DEF SendCheck
  <2>3. \A i \in DOMAIN toSlave' :
          ~HasStatus(i, "incr")' /\ (HasStatus(i, "full")' => toSlave'[i].val = moff)
    BY <2>1, <2>2 DEF HasStatus
  <2> QED
    BY <2>3, <1>5 DEF SendCheck
<1>6. CASE ReadSlaveConn
  <2>1. PICK offset \in Replies :
          ReadReply(offset) /\ (NoSync(offset) \/ FullSync(offset) \/ IncrSync(offset))
    BY <1>6 DEF ReadSlaveConn
  <2>2. \A i \in DOMAIN toMaster' : toMaster'[i] \in {0, moff}
    BY <2>1, MasterTakes
  <2>3. offset \in {0, moff}
    BY <2>1 DEF Replies
  <2>4. CASE NoSync(offset)
    BY <2>2, <2>4, <1>6 DEF NoSync, ReadSlaveConn, HasStatus
  <2>5. CASE FullSync(offset)
    <3>1. Pack("full", moff) \in Items
          /\ Pack("full", moff).status = "full" /\ Pack("full", moff).val = moff
      BY <1>0, ItemTypes DEF Pack
    <3>2. \A i \in DOMAIN toSlave' :
            (i \in DOMAIN toSlave /\ toSlave'[i] = toSlave[i]) \/ toSlave'[i] = Pack("full", moff)
      BY <3>1, <2>5, MasterAddsOne DEF FullSync
    <3>3. \A i \in DOMAIN toSlave' :
            ~HasStatus(i, "incr")' /\ (HasStatus(i, "full")' => toSlave'[i].val = moff)
      BY <3>1, <3>2 DEF HasStatus
    <3> QED
      BY <2>2, <2>5, <3>3, <1>6 DEF ReadSlaveConn, FullSync
  <2> QED
    BY <2>1, <2>3, <2>4, <2>5 DEF IncrSync
<1>7. CASE SendFile
  <2>1. \A i \in DOMAIN toSlave' :
          \/ i \in DOMAIN toSlave /\ toSlave'[i] = toSlave[i]
          \/ toSlave'[i].kind \in {"len", "content"}
    BY <1>7, ThreadAdds
  <2> QED
    BY <2>1, <1>7 DEF HasStatus, SendFile
<1>8. CASE DisconnectToSlave
  BY <1>8 DEF HasStatus, DisconnectToSlave
<1>9. CASE Slave \/ BeginSync \/ DisconnectToMaster
  <2>1. \A i \in DOMAIN toSlave' : \E j \in DOMAIN toSlave : toSlave'[i] = toSlave[j]
    BY <1>9, SlaveTakes
  <2>2. \A i \in DOMAIN toSlave' :
          ~HasStatus(i, "incr")' /\ (HasStatus(i, "full")' => toSlave'[i].val = moff)
    BY <2>1 DEF HasStatus
  <2>3. moff' = moff
    BY <1>9 DEF Slave, DisconnectToMaster, ShakeHandWithMaster, ReadShake, SyncWithMaster, ReadEnd, BeginSync, RecvFile
  <2>4. CASE ShakeHandWithMaster
    <3>1. \A i \in DOMAIN toMaster' : toMaster'[i] \in {0, moff}
      BY <2>4, SlaveAdds DEF ShakeHandWithMaster
    <3> QED
      BY <3>1, <2>2, <2>3, <2>4 DEF ShakeHandWithMaster, HasStatus
  <2>5. CASE ReadShake
    BY <2>2, <2>3, <2>5 DEF ReadShake, HasStatus
  <2>6. CASE SyncWithMaster
    <3> DEFINE pack == Head(toSlave)
    <3>1. toSlave # <<>> /\ spc = "pack" /\ pack = toSlave[1] /\ 1 \in DOMAIN toSlave
      BY <2>6, <1>0, TailItems DEF SyncWithMaster
    <3>2. CASE AnswerCheck(pack)
      <4>1. \A i \in DOMAIN toMaster' : toMaster'[i] \in {0, moff}
        BY <3>2, SlaveAdds DEF AnswerCheck, ReplyTo
      <4> QED
        BY <4>1, <2>2, <2>3, <3>2 DEF AnswerCheck, HasStatus
    <3>3. CASE BeginFull(pack)
      <4>1. soff' = moff
        BY <3>1, <3>3 DEF BeginFull, OffsetAfterFull, HasStatus
      <4> QED
        BY <4>1, <2>2, <2>3, <3>3 DEF BeginFull, HasStatus
    <3>4. ~ExecuteIncr(pack)
      BY <3>1 DEF ExecuteIncr, HasStatus
    <3>5. CASE IgnorePing(pack) \/ Misread
      BY <2>2, <2>3, <3>1, <3>5 DEF IgnorePing, Misread, HasStatus
    <3> QED
      BY <2>6, <3>2, <3>3, <3>4, <3>5 DEF SyncWithMaster
  <2>7. CASE RecvFile
    BY <2>2, <2>3, <2>7, RecvFileLeaves
  <2>8. CASE DisconnectToMaster
    BY <2>2, <2>3, <2>8 DEF DisconnectToMaster, HasStatus
  <2>9. CASE ReadEnd \/ BeginSync
    BY <2>2, <2>3, <2>9 DEF ReadEnd, BeginSync, HasStatus
  <2> QED
    BY <1>9, <2>4, <2>5, <2>6, <2>7, <2>8, <2>9 DEF Slave
<1> QED
  BY <1>1, <1>2, <1>3, <1>4, <1>5, <1>6, <1>7, <1>8, <1>9 DEF Next, Master

\* A slave that came with an offset is sent increments: its own offset only grows.
LEMMA IncrStaysIncr ==
  ASSUME TInv, IncrPhase, Next
  PROVE  IncrPhase'
<1> USE DEF IncrPhase
<1>0. soff \in Nat /\ moff \in Nat /\ SizeMod \in Nat \ {0} /\ toSlave \in Seq(Items)
  BY ReplicationAssumption DEF TInv, TypeOK
<1>1. CASE Connect
  BY <1>1 DEF Connect, HasStatus
<1>2. CASE ShakeHandWithSlave
  <2>1. PICK reply \in Replies : ReadReply(reply)
    BY <1>2 DEF ShakeHandWithSlave
  <2>2. \A i \in DOMAIN toMaster' : toMaster'[i] # 0
    BY <2>1, MasterTakes
  <2>3. Pack("check", moff) \in Items /\ Pack("check", moff).status = "check"
    BY <1>0, ItemTypes DEF Pack
  <2>4. \A i \in DOMAIN toSlave' :
          (i \in DOMAIN toSlave /\ toSlave'[i] = toSlave[i]) \/ toSlave'[i] = Pack("check", moff)
    BY <2>3, <1>2, MasterAddsOne DEF ShakeHandWithSlave
  <2>5. \A i \in DOMAIN toSlave' : ~HasStatus(i, "full")'
    BY <2>3, <2>4 DEF HasStatus
  <2> QED
    BY <2>2, <2>5, <1>2 DEF ShakeHandWithSlave
<1>3. CASE ReadPong
  BY <1>3, EmptySeq DEF ReadPong, HasStatus
<1>4. CASE SendPing
  <2>1. Word("ping", 0) \in Items /\ Word("ping", 0).status = "none"
    BY ItemTypes DEF Word
  <2>2. \A i \in DOMAIN toSlave' :
          (i \in DOMAIN toSlave /\ toSlave'[i] = toSlave[i]) \/ toSlave'[i] = Word("ping", 0)
    BY <2>1, <1>4, MasterAddsOne DEF SendPing
  <2>3. \A i \in DOMAIN toSlave' : ~HasStatus(i, "full")'
    BY <2>1, <2>2 DEF HasStatus
  <2> QED
    BY <2>3, <1>4 DEF SendPing
<1>5. CASE SendCheck
  <2>1. Pack("check", moff) \in Items /\ Pack("check", moff).status = "check"
    BY <1>0, ItemTypes DEF Pack
  <2>2. \A i \in DOMAIN toSlave' :
          (i \in DOMAIN toSlave /\ toSlave'[i] = toSlave[i]) \/ toSlave'[i] = Pack("check", moff)
    BY <2>1, <1>5, MasterAddsOne DEF SendCheck
  <2>3. \A i \in DOMAIN toSlave' : ~HasStatus(i, "full")'
    BY <2>1, <2>2 DEF HasStatus
  <2> QED
    BY <2>3, <1>5 DEF SendCheck
<1>6. CASE ReadSlaveConn
  <2>1. PICK offset \in Replies :
          ReadReply(offset) /\ (NoSync(offset) \/ FullSync(offset) \/ IncrSync(offset))
    BY <1>6 DEF ReadSlaveConn
  <2>2. \A i \in DOMAIN toMaster' : toMaster'[i] # 0
    BY <2>1, MasterTakes
  <2>3. offset \in Nat
    BY <2>1, ReadReplyType
  <2>4. CASE NoSync(offset)
    BY <2>2, <2>4, <1>6 DEF NoSync, ReadSlaveConn, HasStatus
  <2>5. CASE FullSync(offset)
    <3>1. conn = "slave"
      <4>1. \A i \in DOMAIN toMaster : toMaster[i] # 0
        OBVIOUS
      <4>2. toMaster # <<>> => Head(toMaster) = toMaster[1] /\ 1 \in DOMAIN toMaster
        BY TailItems DEF TInv, TypeOK
      <4> QED
        BY <2>1, <2>5, <4>1, <4>2 DEF FullSync, ReadReply
    <3>2. toSlave' = toSlave
      BY <2>5, <3>1 DEF FullSync, MasterWrites
    <3> QED
      BY <2>2, <3>2, <1>6 DEF HasStatus, ReadSlaveConn
  <2>6. CASE IncrSync(offset)
    <3>1. SendLen(offset) \in Nat
      BY <1>0, <2>3 DEF SendLen
    <3>2. /\ Pack("incr", moff) \in Items /\ Pack("incr", moff).status = "incr"
          /\ Word("count", SendLen(offset)) \in Items /\ Word("count", SendLen(offset)).status = "none"
          /\ Word("data", offset) \in Items /\ Word("data", offset).status = "none"
      BY <1>0, <2>3, <3>1, ItemTypes DEF Pack, Word
    <3>3. \A i \in DOMAIN toSlave' :
            \/ i \in DOMAIN toSlave /\ toSlave'[i] = toSlave[i]
            \/ toSlave'[i] \in {Pack("incr", moff), Word("count", SendLen(offset)), Word("data", offset)}
      BY <2>6, <3>2, MasterAddsThree DEF IncrSync
    <3>4. \A i \in DOMAIN toSlave' : ~HasStatus(i, "full")'
      BY <3>2, <3>3 DEF HasStatus
    <3> QED
      BY <2>2, <3>4, <1>6 DEF ReadSlaveConn
  <2> QED
    BY <2>1, <2>4, <2>5, <2>6
<1>7. CASE SendFile
  <2>1. \A i \in DOMAIN toSlave' :
          \/ i \in DOMAIN toSlave /\ toSlave'[i] = toSlave[i]
          \/ toSlave'[i].kind \in {"len", "content"}
    BY <1>7, ThreadAdds
  <2>2. \A i \in DOMAIN toSlave' : ~HasStatus(i, "full")'
    BY <2>1 DEF HasStatus
  <2> QED
    BY <2>2, <1>7 DEF SendFile
<1>8. CASE DisconnectToSlave
  BY <1>8 DEF HasStatus, DisconnectToSlave
<1>9. CASE Slave \/ BeginSync \/ DisconnectToMaster
  <2>1. \A i \in DOMAIN toSlave' : \E j \in DOMAIN toSlave : toSlave'[i] = toSlave[j]
    BY <1>9, SlaveTakes
  <2>2. \A i \in DOMAIN toSlave' : ~HasStatus(i, "full")'
    BY <2>1 DEF HasStatus
  <2>3. CASE ShakeHandWithMaster
    <3>1. \A i \in DOMAIN toMaster' : toMaster'[i] # 0
      BY <2>3, SlaveAdds DEF ShakeHandWithMaster
    <3> QED
      BY <3>1, <2>2, <2>3 DEF ShakeHandWithMaster
  <2>4. CASE ReadShake
    BY <2>2, <2>4 DEF ReadShake
  <2>5. CASE SyncWithMaster
    <3> DEFINE pack == Head(toSlave)
    <3>1. toSlave # <<>> /\ spc = "pack" /\ pack = toSlave[1] /\ 1 \in DOMAIN toSlave
      BY <2>5, <1>0, TailItems DEF SyncWithMaster
    <3>2. CASE AnswerCheck(pack)
      <4>1. \A i \in DOMAIN toMaster' : toMaster'[i] # 0
        BY <3>2, SlaveAdds DEF AnswerCheck, ReplyTo
      <4> QED
        BY <4>1, <2>2, <3>1, <3>2 DEF AnswerCheck
    <3>3. ~BeginFull(pack)
      BY <3>1 DEF BeginFull, HasStatus
    <3>4. CASE ExecuteIncr(pack)
      <4>1. toSlave[2].val \div ParsedBytes \in Nat
        BY <3>1, <3>4, IncrIsHere DEF ExecuteIncr, HasStatus, ParsedBytes
      <4>2. soff' = soff \/ soff' = soff + (toSlave[2].val \div ParsedBytes) * LenOfCmd
        BY <3>4 DEF ExecuteIncr
      <4>3. soff' # 0
        BY <1>0, <4>1, <4>2 DEF LenOfCmd
      <4>4. Own \in sdb' /\ toMaster' = toMaster /\ spc' \notin {"len", "content"}
        BY <3>1, <3>4 DEF ExecuteIncr
      <4> QED
        BY <4>3, <4>4, <2>2
    <3>5. CASE IgnorePing(pack) \/ Misread
      BY <2>2, <3>1, <3>5 DEF IgnorePing, Misread
    <3> QED
      BY <2>5, <3>2, <3>3, <3>4, <3>5 DEF SyncWithMaster
  <2>6. ~RecvFile
    BY RecvFileLeaves
  <2>7. CASE DisconnectToMaster
    BY <2>2, <2>7 DEF DisconnectToMaster
  <2>8. CASE ReadEnd \/ BeginSync
    BY <2>2, <2>8 DEF ReadEnd, BeginSync
  <2> QED
    BY <1>9, <2>3, <2>4, <2>5, <2>6, <2>7, <2>8 DEF Slave
<1> QED
  BY <1>1, <1>2, <1>3, <1>4, <1>5, <1>6, <1>7, <1>8, <1>9 DEF Next, Master

\* A connection stays in its phase.
LEMMA AlwaysPhase == Spec => []PhaseInv
<1>1. PhaseInv /\ TInv /\ [Next]_vars => PhaseInv'
  <2> SUFFICES ASSUME PhaseInv, TInv, [Next]_vars PROVE PhaseInv'
    OBVIOUS
  <2>1. CASE Next
    BY <2>1, FullStaysFull, IncrStaysIncr DEF PhaseInv
  <2>2. CASE UNCHANGED vars
    BY <2>2 DEF vars, PhaseInv, FullPhase, IncrPhase, HasStatus
  <2> QED
    BY <2>1, <2>2
<1> QED
  BY <1>1, InitPhase, AlwaysTInv, PTL DEF Spec

(***************************************************************************)
(* Whatever the offsets, a slave that has taken a file and so lost its own *)
(* keys has the master's offset for the rest of the connection: after an   *)
(* answer of 0 syncWithSlave never sends an increment, so its own offset   *)
(* does not move, and syncWithMaster stores it from every pack it takes.   *)
(***************************************************************************)
THEOREM FullTransferEndsInSync == Spec => []InSyncAfterFull
<1>1. PhaseInv => InSyncAfterFull
  BY DEF PhaseInv, FullPhase, IncrPhase, InSyncAfterFull
<1> QED
  BY <1>1, AlwaysPhase, PTL

-------------------------------------------------------------------------------
\* One reply at a time, and nothing that outdates it.

NoPack == \A i \in DOMAIN toSlave : toSlave[i].kind # "pack"
NoCheck == \A i \in DOMAIN toSlave : ~HasStatus(i, "check")
AllCurrent == \A i \in DOMAIN toMaster : toMaster[i] = soff

\* As long as the slave is there, and unless the master waits, nothing is on its way.
LEMMA QuietUnlessReply ==
  ASSUME ReplyInv, ~shake, conn # "slave", mpc # "reply"
  PROVE  toMaster = <<>> /\ NoCheck
BY DEF ReplyInv, NoCheck

\* Nor are replies where the slave is about to take a pack.
LEMMA QuietBeforePack ==
  ASSUME ReplyInv, ~shake, conn # "slave", 1 \in DOMAIN toSlave, toSlave[1].kind = "pack"
  PROVE  toMaster = <<>>
BY DEF ReplyInv

\* What ReplyInv comes down to when no reply is on its way and no check waits.
LEMMA QuietIsEnough ==
  ASSUME ~shake', toMaster' = <<>>, NoCheck', mpc' # "shake", spc' \notin {"shake", "shaking"}
  PROVE  ReplyInv'
<1>1. DOMAIN toMaster' = {}
  BY EmptySeq
<1> QED
  BY <1>1 DEF ReplyInv, NoCheck

\* The calls of the master.
LEMMA MasterKeepsReply ==
  ASSUME TInv, ReplyInv, ~shake, Connect \/ Master \/ SendPing \/ SendCheck \/ DisconnectToSlave
  PROVE  ReplyInv'
<1>0. /\ moff \in Nat /\ toSlave \in Seq(Items) /\ toMaster \in Seq(Nat)
      /\ mpc # "shake" /\ spc \notin {"shake", "shaking"} /\ AllCurrent
  BY ReplicationAssumption DEF TInv, TypeOK, ReplyInv, AllCurrent
<1>1. CASE Connect
  <2>1. toMaster' = <<>> /\ toSlave' = <<>> /\ ~shake' /\ mpc' # "shake" /\ spc' \notin {"shake", "shaking"}
    BY <1>1 DEF Connect, TInv, Sides
  <2>2. NoCheck'
    BY <2>1, EmptySeq DEF NoCheck
  <2> QED
    BY <2>1, <2>2, QuietIsEnough
<1>2. CASE SendPing
  <2>1. ~shake' /\ spc' = spc /\ soff' = soff /\ toMaster' = toMaster /\ conn' = conn
        /\ mpc = "idle" /\ mpc' \in {"ping", "dead"}
    BY <1>2 DEF SendPing, MasterWrites
  <2>2. CASE conn = "slave"
    BY <1>0, <2>1, <2>2 DEF ReplyInv
  <2>3. CASE conn # "slave"
    <3>1. toMaster = <<>> /\ NoCheck
      BY <2>1, <2>3, QuietUnlessReply
    <3>2. Word("ping", 0) \in Items /\ Word("ping", 0).kind = "ping"
      BY ItemTypes DEF Word
    <3>3. \A i \in DOMAIN toSlave' :
            (i \in DOMAIN toSlave /\ toSlave'[i] = toSlave[i]) \/ toSlave'[i] = Word("ping", 0)
      BY <3>2, <1>2, MasterAddsOne DEF SendPing
    <3>4. NoCheck'
      BY <3>1, <3>2, <3>3 DEF NoCheck, HasStatus
    <3> QED
      BY <1>0, <2>1, <3>1, <3>4, QuietIsEnough
  <2> QED
    BY <2>2, <2>3
<1>3. CASE ReadPong
  <2>1. conn = "slave"
    BY <1>3, QuietUnlessReply DEF ReadPong
  <2>2. toMaster' = <<>> /\ conn' = conn /\ mpc' = "idle" /\ spc' = spc /\ ~shake'
    BY <1>3 DEF ReadPong
  <2>3. DOMAIN toMaster' = {}
    BY <2>2, EmptySeq
  <2> QED
    BY <1>0, <2>1, <2>2, <2>3 DEF ReplyInv
<1>4. CASE SendCheck
  <2>1. ~shake' /\ spc' = spc /\ soff' = soff /\ toMaster' = toMaster /\ conn' = conn
        /\ mpc = "idle" /\ mpc' \in {"reply", "dead"}
    BY <1>4 DEF SendCheck, MasterWrites
  <2>2. CASE conn = "slave"
    BY <1>0, <2>1, <2>2 DEF ReplyInv
  <2>3. CASE conn # "slave"
    <3>1. toMaster = <<>> /\ NoCheck
      BY <2>1, <2>3, QuietUnlessReply
    <3>2. Pack("check", moff) \in Items
      BY <1>0, ItemTypes
    <3>3. toSlave' = toSlave \o <<Pack("check", moff)>> /\ mpc' = "reply"
      BY <1>4, <2>3 DEF SendCheck, MasterWrites
    <3>4. /\ DOMAIN toSlave' = 1 .. Len(toSlave) + 1 /\ DOMAIN toSlave = 1 .. Len(toSlave)
          /\ Len(toSlave) \in Nat
          /\ \A i \in DOMAIN toSlave : toSlave'[i] = toSlave[i]
      BY <1>0, <3>2, <3>3, WrittenOne
    <3>5. \A i \in DOMAIN toSlave' : HasStatus(i, "check")' => i = Len(toSlave) + 1
      BY <3>1, <3>4 DEF NoCheck, HasStatus
    <3>6. \A i \in DOMAIN toSlave' : HasStatus(i, "check")' => \A j \in DOMAIN toSlave' : ~(j > i)
      BY <3>4, <3>5
    <3>7. DOMAIN toMaster' = {} /\ toMaster' = <<>>
      BY <2>1, <3>1, EmptySeq
    <3> QED
      BY <1>0, <2>1, <3>3, <3>6, <3>7 DEF ReplyInv
  <2> QED
    BY <2>2, <2>3
<1>5. CASE ReadSlaveConn
  <2>1. PICK offset \in Replies :
          ReadReply(offset) /\ (NoSync(offset) \/ FullSync(offset) \/ IncrSync(offset))
    BY <1>5 DEF ReadSlaveConn
  <2>2. ~shake' /\ spc' = spc /\ soff' = soff /\ conn' = conn /\ mpc = "reply" /\ mpc' \in {"idle", "dead"}
    BY <1>5, <2>1 DEF ReadSlaveConn, NoSync, FullSync, IncrSync, MasterWrites
  <2>3. AllCurrent'
    BY <1>0, <2>1, <2>2, MasterTakes DEF AllCurrent
  <2>4. CASE conn = "slave"
    BY <1>0, <2>2, <2>3, <2>4 DEF ReplyInv, AllCurrent
  <2>5. CASE conn # "slave"
    <3>1. toMaster # <<>> /\ toMaster' = Tail(toMaster)
      BY <2>1, <2>5 DEF ReadReply
    <3>2. Len(toMaster) = 1 /\ NoPack
      BY <2>5, <3>1 DEF ReplyInv, NoPack
    <3>3. toMaster' = <<>>
      BY <1>0, <3>1, <3>2, HeadTailProperties, EmptySeq
    <3>4. offset \in Nat /\ SendLen(offset) \in Nat
      <4>1. offset \in Nat
        BY <2>1, ReadReplyType
      <4> QED
        BY <1>0, <4>1, ReplicationAssumption DEF SendLen
    <3>5. NoCheck'
      <4>1. CASE NoSync(offset)
        BY <3>2, <4>1 DEF NoSync, NoPack, NoCheck, HasStatus
      <4>2. CASE FullSync(offset)
        <5>1. Pack("full", moff) \in Items /\ Pack("full", moff).status = "full"
          BY <1>0, ItemTypes DEF Pack
        <5>2. \A i \in DOMAIN toSlave' :
                (i \in DOMAIN toSlave /\ toSlave'[i] = toSlave[i]) \/ toSlave'[i] = Pack("full", moff)
          BY <5>1, <4>2, MasterAddsOne DEF FullSync
        <5> QED
          BY <3>2, <5>1, <5>2 DEF NoPack, NoCheck, HasStatus
      <4>3. CASE IncrSync(offset)
        <5>1. /\ Pack("incr", moff) \in Items /\ Pack("incr", moff).status = "incr"
              /\ Word("count", SendLen(offset)) \in Items /\ Word("count", SendLen(offset)).status = "none"
              /\ Word("data", offset) \in Items /\ Word("data", offset).status = "none"
          BY <1>0, <3>4, ItemTypes DEF Pack, Word
        <5>2. \A i \in DOMAIN toSlave' :
                \/ i \in DOMAIN toSlave /\ toSlave'[i] = toSlave[i]
                \/ toSlave'[i] \in {Pack("incr", moff), Word("count", SendLen(offset)), Word("data", offset)}
          BY <5>1, <4>3, MasterAddsThree DEF IncrSync
        <5> QED
          BY <3>2, <5>1, <5>2 DEF NoPack, NoCheck, HasStatus
      <4> QED
        BY <2>1, <4>1, <4>2, <4>3
    <3> QED
      BY <1>0, <2>2, <3>3, <3>5, QuietIsEnough
  <2> QED
    BY <2>4, <2>5
<1>6. CASE DisconnectToSlave
  <2>1. UNCHANGED <<soff, mpc, spc, toSlave, toMaster, shake>> /\ conn' = "master" /\ conn = "open"
    BY <1>6 DEF DisconnectToSlave
  <2> QED
    BY <2>1 DEF ReplyInv, HasStatus
<1>7. ~ShakeHandWithSlave
  BY <1>0 DEF ShakeHandWithSlave
<1> QED
  BY <1>1, <1>2, <1>3, <1>4, <1>5, <1>6, <1>7 DEF Master

\* The thread that sends the file.
LEMMA SendFileKeepsReply ==
  ASSUME TInv, ReplyInv, ~shake, SendFile
  PROVE  ReplyInv'
<1>1. UNCHANGED <<conn, soff, spc, toMaster, shake>> /\ (conn # "slave" => mpc' = mpc)
      /\ mpc' \in {mpc, "dead"}
  BY DEF SendFile
<1>2. \A i \in DOMAIN toSlave' :
        \/ i \in DOMAIN toSlave /\ toSlave'[i] = toSlave[i]
        \/ toSlave'[i].kind \in {"len", "content"}
  BY ThreadAdds
<1>3. NoPack => NoPack'
  BY <1>2 DEF NoPack
<1>4. \A i \in DOMAIN toSlave' : HasStatus(i, "check")' => i \in DOMAIN toSlave /\ HasStatus(i, "check")
  BY <1>2 DEF HasStatus
<1>5. \A j \in DOMAIN toSlave' :
        toSlave'[j].kind = "pack" => j \in DOMAIN toSlave /\ toSlave[j].kind = "pack"
  BY <1>2
<1> QED
  BY <1>1, <1>3, <1>4, <1>5 DEF ReplyInv, NoPack

\* The calls of the slave.
LEMMA SlaveKeepsReply ==
  ASSUME TInv, ReplyInv, ~shake, Slave \/ BeginSync \/ DisconnectToMaster
  PROVE  ReplyInv'
<1>0. /\ toSlave \in Seq(Items) /\ toMaster \in Seq(Nat)
      /\ mpc # "shake" /\ spc \notin {"shake", "shaking"} /\ AllCurrent
  BY DEF TInv, TypeOK, ReplyInv, AllCurrent
<1>1. PICK d \in Nat : \A i \in DOMAIN toSlave' :
        i \in Nat \ {0} /\ i + d \in DOMAIN toSlave /\ toSlave'[i] = toSlave[i + d]
  BY SlaveReads
<1>2. mpc' = mpc /\ shake' = shake
  BY DEF Slave, DisconnectToMaster, ShakeHandWithMaster, ReadShake, SyncWithMaster, ReadEnd, BeginSync, RecvFile
<1>3. \A i \in DOMAIN toSlave' : HasStatus(i, "check")' => HasStatus(i + d, "check")
  BY <1>1 DEF HasStatus
\* A step by which no offset changes and no reply is sent.
<1>4. ASSUME soff' = soff, toMaster' = toMaster, conn' \in {conn, "slave"},
             spc' \notin {"shake", "shaking"}
      PROVE  ReplyInv'
  <2>1. NoPack => NoPack'
    BY <1>1 DEF NoPack
  <2>2. ASSUME NEW i \in DOMAIN toSlave', HasStatus(i, "check")', conn' # "slave"
        PROVE  mpc = "reply" /\ toMaster = <<>>
               /\ \A j \in DOMAIN toSlave' : j > i => toSlave'[j].kind # "pack"
    <3>1. i + d \in DOMAIN toSlave /\ HasStatus(i + d, "check") /\ conn # "slave"
      BY <1>1, <1>3, <1>4, <2>2
    <3>2. /\ mpc = "reply" /\ toMaster = <<>>
          /\ \A j \in DOMAIN toSlave : j > i + d => toSlave[j].kind # "pack"
      BY <3>1 DEF ReplyInv
    <3>3. ASSUME NEW j \in DOMAIN toSlave', j > i PROVE toSlave'[j].kind # "pack"
      <4>1. j + d \in DOMAIN toSlave /\ j + d > i + d /\ toSlave'[j] = toSlave[j + d]
        BY <1>1, <2>2, <3>3
      <4> QED
        BY <3>2, <4>1
    <3> QED
      BY <3>2, <3>3
  <2> QED
    BY <1>0, <1>2, <1>4, <2>1, <2>2 DEF ReplyInv, AllCurrent, NoPack
<1>5. CASE SyncWithMaster
  <2> DEFINE pack == Head(toSlave)
  <2>1. toSlave # <<>> /\ spc = "pack" /\ pack = toSlave[1] /\ 1 \in DOMAIN toSlave
    BY <1>0, <1>5, TailItems DEF SyncWithMaster
  <2>2. conn # "slave"
    BY <2>1 DEF TInv, Sides
  <2>3. CASE AnswerCheck(pack)
    <3>1. HasStatus(1, "check")
      BY <2>1, <2>3 DEF AnswerCheck, HasStatus
    <3>2. /\ mpc = "reply" /\ toMaster = <<>>
          /\ \A j \in DOMAIN toSlave : j > 1 => toSlave[j].kind # "pack"
      BY <2>1, <2>2, <3>1 DEF ReplyInv
    <3>3. /\ \A i \in Int : i \in DOMAIN toSlave' <=> i \in Nat \ {0} /\ i + 1 \in DOMAIN toSlave
          /\ \A i \in DOMAIN toSlave' : toSlave'[i] = toSlave[i + 1]
          /\ \A i \in DOMAIN toSlave' : i \in Int
      <4>1. toSlave' = Tail(toSlave) /\ Tail(toSlave) \in Seq(Items)
        BY <1>0, <2>1, <2>3, TailItems DEF AnswerCheck
      <4>2. DOMAIN toSlave' = 1 .. Len(toSlave')
        BY <4>1, LenProperties
      <4> QED
        BY <1>0, <2>1, <4>1, <4>2, TailItems
    <3>4. NoPack'
      <4> SUFFICES ASSUME NEW i \in DOMAIN toSlave' PROVE toSlave'[i].kind # "pack"
        BY DEF NoPack
      <4>1. i + 1 \in DOMAIN toSlave /\ i + 1 > 1 /\ toSlave'[i] = toSlave[i + 1]
        BY <3>3
      <4> QED
        BY <3>2, <4>1
    <3>5. toMaster' = <<>> \/ toMaster' = <<soff>>
      BY <1>0, <2>3, <3>2, ConcatEmptySeq DEF AnswerCheck, ReplyTo, SlaveWrites
    <3>6. (toMaster' # <<>> => Len(toMaster') = 1) /\ \A i \in DOMAIN toMaster' : toMaster'[i] = soff
      BY <3>5
    <3> QED
      BY <1>0, <1>2, <2>1, <2>3, <3>2, <3>4, <3>6 DEF ReplyInv, NoPack, HasStatus, AnswerCheck
  <2>4. ASSUME BeginFull(pack) \/ ExecuteIncr(pack)
        PROVE  ReplyInv'
    <3>1. toMaster = <<>> /\ toMaster' = toMaster /\ spc' \notin {"shake", "shaking"}
      <4>1. toSlave[1].kind = "pack" /\ toMaster' = toMaster /\ spc' \notin {"shake", "shaking"}
        BY <2>1, <2>4 DEF BeginFull, ExecuteIncr
      <4> QED
        BY <2>1, <2>2, <4>1, QuietBeforePack
    <3>2. DOMAIN toMaster' = {} /\ toMaster' = <<>>
      BY <3>1, EmptySeq
    <3>3. conn' \in {conn, "slave"}
      BY <2>4 DEF BeginFull, ExecuteIncr
    <3>4. ASSUME NEW i \in DOMAIN toSlave', HasStatus(i, "check")', conn' # "slave"
          PROVE  mpc = "reply" /\ \A j \in DOMAIN toSlave' : j > i => toSlave'[j].kind # "pack"
      <4>1. i + d \in DOMAIN toSlave /\ HasStatus(i + d, "check")
        BY <1>1, <1>3, <3>4
      <4>2. /\ mpc = "reply"
            /\ \A j \in DOMAIN toSlave : j > i + d => toSlave[j].kind # "pack"
        BY <2>2, <4>1 DEF ReplyInv
      <4>3. ASSUME NEW j \in DOMAIN toSlave', j > i PROVE toSlave'[j].kind # "pack"
        <5>1. j + d \in DOMAIN toSlave /\ j + d > i + d /\ toSlave'[j] = toSlave[j + d]
          BY <1>1, <3>4, <4>3
        <5> QED
          BY <4>2, <5>1
      <4> QED
        BY <4>2, <4>3
    <3> QED
      BY <1>0, <1>2, <3>1, <3>2, <3>4 DEF ReplyInv
  <2>5. CASE IgnorePing(pack) \/ Misread
    <3>1. soff' = soff /\ toMaster' = toMaster /\ conn' = conn /\ spc' \notin {"shake", "shaking"}
      BY <2>1, <2>5 DEF IgnorePing, Misread
    <3> QED
      BY <3>1, <1>4
  <2> QED
    BY <1>5, <2>3, <2>4, <2>5 DEF SyncWithMaster
<1>6. CASE RecvFile
  <2>1. soff' = soff /\ toMaster' = toMaster /\ conn' = conn /\ spc' \notin {"shake", "shaking"}
    BY <1>6, RecvFileLeaves
  <2> QED
    BY <2>1, <1>4
<1>7. CASE DisconnectToMaster
  <2>1. soff' = soff /\ toMaster' = toMaster /\ conn' = "slave" /\ spc' \notin {"shake", "shaking"}
    BY <1>7 DEF DisconnectToMaster
  <2> QED
    BY <2>1, <1>4
<1>8. ~ShakeHandWithMaster /\ ~ReadShake
  BY <1>0 DEF ShakeHandWithMaster, ReadShake
<1>9. CASE ReadEnd \/ BeginSync
  <2>1. soff' = soff /\ toMaster' = toMaster /\ conn' = conn /\ spc' \notin {"shake", "shaking"}
    BY <1>9 DEF ReadEnd, BeginSync
  <2> QED
    BY <2>1, <1>4
<1> QED
  BY <1>5, <1>6, <1>7, <1>8, <1>9 DEF Slave

\* ReplyInv holds of every execution.
LEMMA AlwaysReply == Spec => []ReplyInv
<1>1. Init => ReplyInv
  <2> SUFFICES ASSUME Init PROVE ReplyInv
    OBVIOUS
  <2>1. DOMAIN toMaster = {} /\ DOMAIN toSlave = {} /\ toMaster = <<>> /\ mpc = "start" /\ spc = "start"
    BY DEF Init
  <2> QED
    BY <2>1 DEF ReplyInv
<1>2. ReplyInv /\ TInv /\ [Next]_vars => ReplyInv'
  <2> SUFFICES ASSUME ReplyInv, TInv, [Next]_vars PROVE ReplyInv'
    OBVIOUS
  <2>1. CASE UNCHANGED vars
    BY <2>1 DEF vars, ReplyInv, HasStatus
  <2>2. CASE Next /\ ~shake
    BY <2>2, MasterKeepsReply, SendFileKeepsReply, SlaveKeepsReply DEF Next
  <2>3. CASE Next /\ shake
    <3>1. shake' = shake
      BY <2>3 DEF Next, Connect, Master, SendPing, SendCheck, DisconnectToSlave, SendFile, Slave,
                  DisconnectToMaster, ShakeHandWithSlave, ReadPong, ReadSlaveConn,
                  ShakeHandWithMaster, ReadShake, SyncWithMaster, ReadEnd, BeginSync, RecvFile
    <3> QED
      BY <2>3, <3>1 DEF ReplyInv
  <2> QED
    BY <2>1, <2>2, <2>3
<1> QED
  BY <1>1, <1>2, AlwaysTInv, PTL DEF Spec

(***************************************************************************)
(* For all offsets: without a handshake the offset that syncWithSlave      *)
(* reads is the one the slave has, because the slave answers only what the *)
(* master waits for and nothing that moves its offset can be on the way    *)
(* behind the question.                                                    *)
(***************************************************************************)
THEOREM SyncDecidesByCurrentOffset == Spec => []RepliesAreCurrent
<1>1. ReplyInv => RepliesAreCurrent
  BY DEF ReplyInv, RepliesAreCurrent
<1> QED
  BY <1>1, AlwaysReply, PTL

-------------------------------------------------------------------------------
\* Both sides agree on where a pack begins.

\* What is left of a file is a number of its writes.
LEMMA LeftType ==
  ASSUME TInv, Chain, NEW i \in DOMAIN toSlave
  PROVE  Left(toSlave[i]) \in 0 .. FileParts
<1>1. dump \in Nat /\ (toSlave[i].kind = "content" => toSlave[i].val \in 1 .. dump)
  BY DEF TInv, TypeOK, Chain
<1>2. CASE Is(toSlave[i], "full")
  BY <1>1, <1>2 DEF Left, FileParts
<1>3. CASE ~Is(toSlave[i], "full") /\ toSlave[i].kind = "len"
  BY <1>1, <1>3 DEF Left, FileParts
<1>4. CASE ~Is(toSlave[i], "full") /\ toSlave[i].kind # "len" /\ toSlave[i].kind = "content"
  <2>1. PICK v \in 1 .. dump : v = toSlave[i].val
    BY <1>1, <1>4
  <2>2. Left(toSlave[i]) = v - 1
    BY <1>4, <2>1 DEF Left
  <2> QED
    BY <1>1, <2>2 DEF FileParts
<1>5. CASE ~Is(toSlave[i], "full") /\ toSlave[i].kind # "len" /\ toSlave[i].kind # "content"
  BY <1>1, <1>5 DEF Left, FileParts
<1> QED
  BY <1>2, <1>3, <1>4, <1>5

\* The next place behind a file that is not all there is the next for its content.
LEMMA AheadIsLeft ==
  ASSUME TInv, Chain, toSlave # <<>>, NEW i \in Nat, FileAhead(i),
         i > 0 => i \in DOMAIN toSlave /\ toSlave[i].kind = "len",
         NEW j \in 1 .. dump, i + j = Len(toSlave) + 1
  PROVE  Left(LastItem) = dump - j + 1 /\ Left(LastItem) > 0
<1>1. /\ dump \in Nat /\ toSlave \in Seq(Items) /\ Len(toSlave) \in Nat \ {0}
      /\ DOMAIN toSlave = 1 .. Len(toSlave)
  BY LenProperties, EmptySeq DEF TInv, TypeOK
<1>2. CASE j = 1
  <2>1. i = Len(toSlave) /\ i > 0
    <3>1. i \in Nat /\ Len(toSlave) \in Nat \ {0} /\ i + 1 = Len(toSlave) + 1
      BY <1>1, <1>2
    <3> QED
      BY ONLY <3>1
  <2>2. LastItem.kind = "len" /\ ~Is(LastItem, "full")
    BY <2>1 DEF LastItem, Is
  <2> QED
    BY <1>1, <1>2, <2>2 DEF Left
<1>3. CASE j # 1
  <2>1. PICK k \in 1 .. dump : k = j - 1 /\ i + k = Len(toSlave)
    <3>1. j - 1 \in 1 .. dump /\ i + (j - 1) = Len(toSlave)
      BY <1>1, <1>3
    <3> QED
      BY <3>1
  <2>2. LastItem = Word("content", dump - k + 1)
    <3>1. i + k \in DOMAIN toSlave
      BY <1>1, <2>1
    <3> QED
      BY <2>1, <3>1 DEF FileAhead, LastItem
  <2>3. Left(LastItem) = (dump - k + 1) - 1
    BY <2>2 DEF Left, Is, Word
  <2> QED
    BY <1>1, <2>1, <2>3
<1> QED
  BY <1>2, <1>3

\* Adding to a stream what may follow its last item: one item, or some of no file to
\* a stream that ends with none.
LEMMA StreamGrows ==
  ASSUME TInv, Stream, NEW items \in Seq(Items), Len(items) > 0, dump' = dump, spc' = spc,
         toSlave' = toSlave \o items,
         IF toSlave = <<>> THEN Fits(items[1]) ELSE MayFollow(LastItem, items[1]),
         \A k \in 1 .. Len(items) :
           /\ k + 1 \in 1 .. Len(items) => MayFollow(items[k], items[k + 1])
           /\ items[k].kind = "count" => k + 1 \in 1 .. Len(items)
           /\ items[k].kind = "content" => items[k].val \in 1 .. dump,
         \/ Len(items) = 1
         \/ LeftNow = 0 /\ \A k \in 1 .. Len(items) : items[k].kind # "len"
  PROVE  Stream' /\ toSlave' # <<>> /\ LastItem' = items[Len(items)]
<1> DEFINE n == Len(toSlave)
<1>1. /\ toSlave \in Seq(Items) /\ n \in Nat /\ DOMAIN toSlave = 1 .. n
      /\ DOMAIN toSlave' = 1 .. n + Len(items) /\ toSlave' \in Seq(Items) /\ Len(items) \in Nat
      /\ \A i \in 1 .. n : toSlave'[i] = toSlave[i]
      /\ \A k \in 1 .. Len(items) : toSlave'[n + k] = items[k]
      /\ toSlave = <<>> => n = 0
      /\ dump \in Nat
  BY WrittenItems DEF TInv, TypeOK
<1>2. /\ toSlave # <<>> => n > 0 /\ LastItem = toSlave[n]
      /\ Chain /\ FirstOK /\ Begun
  BY <1>1, EmptySeq DEF LastItem, Stream
<1>3. Len(toSlave') = n + Len(items)
  BY <1>1, ConcatProperties
\* The content of a file goes on.
<1>4. ASSUME NEW i \in Nat, FileAhead(i), i <= n,
             i > 0 => i \in DOMAIN toSlave /\ toSlave[i].kind = "len",
             i = 0 => spc = "content" /\ dump > 0
      PROVE  FileAhead(i)'
  <2>1. ASSUME NEW j \in 1 .. dump, i + j = n + 1
        PROVE  Len(items) = 1 /\ items[1] = Word("content", dump - j + 1)
    <3>1. CASE toSlave # <<>>
      <4>1. Left(LastItem) = dump - j + 1 /\ Left(LastItem) > 0
        BY <1>2, <1>4, <2>1, <3>1, AheadIsLeft DEF n
      <4>2. MayFollow(LastItem, items[1]) /\ LeftNow # 0
        BY <1>1, <3>1, <4>1 DEF LeftNow
      <4>3. items[1] = FilePart(dump - j + 1) /\ dump - j + 1 # FileParts
        BY <1>1, <4>1, <4>2 DEF MayFollow, FileParts
      <4> QED
        BY <4>2, <4>3 DEF FilePart
    <3>2. CASE toSlave = <<>>
      <4>1. i = 0 /\ j = 1 /\ Due = dump
        BY <1>1, <1>4, <2>1, <3>2 DEF Due
      <4>2. Fits(items[1]) /\ LeftNow # 0 /\ dump > 0
        BY <1>1, <1>4, <3>2, <4>1 DEF LeftNow
      <4>3. items[1] = FilePart(dump) /\ dump # FileParts
        BY <1>1, <4>1, <4>2 DEF Fits, FileParts
      <4>4. dump - j + 1 = dump
        BY <1>1, <4>1
      <4> QED
        BY <4>2, <4>3, <4>4 DEF FilePart
    <3> QED
      BY <3>1, <3>2
  <2> SUFFICES ASSUME NEW j \in 1 .. dump, i + j \in DOMAIN toSlave'
               PROVE  toSlave'[i + j] = Word("content", dump - j + 1)
    BY DEF FileAhead
  <2>2. CASE i + j <= n
    <3>1. i + j \in DOMAIN toSlave /\ toSlave'[i + j] = toSlave[i + j]
      BY <1>1, <1>4, <2>2
    <3> QED
      BY <1>4, <3>1 DEF FileAhead
  <2>3. CASE i + j > n
    <3>1. PICK m \in 1 .. dump : i + m = n + 1 /\ m <= j
      <4>1. n + 1 - i \in 1 .. dump /\ i + (n + 1 - i) = n + 1 /\ n + 1 - i <= j
        <5>1. n \in Nat /\ i \in Nat /\ dump \in Nat /\ i <= n /\ i + j > n /\ j \in 1 .. dump
          BY <1>1, <1>4, <2>3
        <5> HIDE DEF n
        <5> QED
          BY ONLY <5>1
      <4> QED
        BY <4>1
    <3>2. Len(items) = 1 /\ items[1] = Word("content", dump - m + 1)
      BY <2>1, <3>1
    <3>3. i + j = n + 1 /\ m = j
      BY <1>1, <1>4, <2>3, <3>1, <3>2
    <3> QED
      BY <1>1, <3>2, <3>3
  <2> QED
    BY <1>1, <1>4, <2>2, <2>3
<1> HIDE DEF n
<1>5. Chain'
  <2> SUFFICES ASSUME NEW i \in DOMAIN toSlave'
               PROVE  /\ i + 1 \in DOMAIN toSlave' => MayFollow(toSlave'[i], toSlave'[i + 1])
                      /\ toSlave'[i].kind = "count" => i + 1 \in DOMAIN toSlave'
                      /\ toSlave'[i].kind = "content" => toSlave'[i].val \in 1 .. dump
                      /\ toSlave'[i].kind = "len" => FileAhead(i)'
    BY DEF Chain, MayFollow, Left, Is, FilePart, FileParts
  <2>1. i \in 1 .. n + Len(items)
    BY <1>1
  <2>2. CASE i <= n
    <3>1. i \in DOMAIN toSlave /\ i \in Nat /\ i > 0 /\ toSlave'[i] = toSlave[i] /\ i + 1 \in DOMAIN toSlave'
      BY <1>1, <2>1, <2>2
    <3>2. toSlave'[i].kind = "len" => FileAhead(i)'
      BY <1>2, <1>4, <2>2, <3>1 DEF Chain
    <3>3. MayFollow(toSlave'[i], toSlave'[i + 1])
      <4>1. CASE i < n
        <5>1. i + 1 \in DOMAIN toSlave /\ toSlave'[i + 1] = toSlave[i + 1]
          BY <1>1, <3>1, <4>1
        <5> QED
          BY <1>2, <3>1, <5>1 DEF Chain
      <4>2. CASE i = n
        <5>1. toSlave # <<>> /\ toSlave'[n + 1] = items[1]
          BY <1>1, <2>1, <4>2
        <5> QED
          BY <1>2, <3>1, <4>2, <5>1
      <4> QED
        BY <1>1, <2>2, <3>1, <4>1, <4>2
    <3> QED
      BY <1>2, <3>1, <3>2, <3>3 DEF Chain
  <2>3. CASE i > n
    <3>1. PICK k \in 1 .. Len(items) : i = n + k
      <4>1. i - n \in 1 .. Len(items) /\ i = n + (i - n)
        BY <1>1, <2>1, <2>3
      <4> QED
        BY <4>1
    <3>2. toSlave'[i] = items[k]
      BY <1>1, <3>1
    <3>3. k + 1 \in 1 .. Len(items) <=> i + 1 \in DOMAIN toSlave'
      BY <1>1, <3>1
    <3>4. k + 1 \in 1 .. Len(items) => toSlave'[i + 1] = items[k + 1]
      <4> SUFFICES ASSUME k + 1 \in 1 .. Len(items) PROVE toSlave'[i + 1] = items[k + 1]
        OBVIOUS
      <4>1. i + 1 = n + (k + 1)
        BY <1>1, <3>1
      <4> QED
        BY <1>1, <4>1
    <3>5. ASSUME items[k].kind = "len" PROVE FileAhead(i)'
      <4>1. Len(items) = 1
        BY <3>5
      <4>2. i = n + 1 /\ DOMAIN toSlave' = 1 .. n + 1
        BY <1>1, <3>1, <4>1
      <4>3. \A j \in 1 .. dump : i + j \notin DOMAIN toSlave'
        BY <1>1, <4>2
      <4> QED
        BY <4>3 DEF FileAhead
    <3> QED
      BY <3>2, <3>3, <3>4, <3>5
  <2> QED
    BY <1>1, <2>1, <2>2, <2>3
<1>6. toSlave' # <<>> /\ LastItem' = items[Len(items)]
  BY <1>1, <1>3, EmptySeq DEF LastItem
<1>7. FirstOK'
  <2>1. toSlave'[1] = IF toSlave = <<>> THEN items[1] ELSE toSlave[1]
    <3>1. CASE toSlave = <<>>
      <4>1. toSlave'[n + 1] = items[1] /\ n = 0
        BY <1>1, <3>1
      <4> QED
        BY <3>1, <4>1
    <3>2. CASE toSlave # <<>>
      BY <1>1, <1>2, <3>2
    <3> QED
      BY <3>1, <3>2
  <2>2. Fits(toSlave'[1])
    BY <1>2, <2>1 DEF FirstOK
  <2> QED
    BY <2>2 DEF FirstOK, Fits, Due, FilePart, FileParts
<1>8. Begun'
  <2> SUFFICES ASSUME spc = "content" PROVE dump > 0 /\ FileAhead(0)'
    BY DEF Begun
  <2>1. dump > 0 /\ FileAhead(0) /\ 0 \in Nat /\ 0 <= n
    BY <1>1, <1>2 DEF Begun
  <2> QED
    BY <1>4, <2>1
<1> QED
  BY <1>5, <1>6, <1>7, <1>8 DEF Stream

\* The same for one item that is no count.
LEMMA StreamGrowsByOne ==
  ASSUME TInv, Stream, NEW a \in Items, a.kind # "count", dump' = dump, spc' = spc,
         toSlave' = toSlave \o <<a>>,
         a.kind = "content" => a.val \in 1 .. dump,
         IF toSlave = <<>> THEN Fits(a) ELSE MayFollow(LastItem, a)
  PROVE  Stream' /\ toSlave' # <<>> /\ LastItem' = a
<1> DEFINE items == <<a>>
<1>1. /\ items \in Seq(Items) /\ Len(items) = 1 /\ items[1] = a
  OBVIOUS
<1>2. toSlave' = toSlave \o items
  OBVIOUS
<1> HIDE DEF items
<1>3. \A k \in 1 .. Len(items) : k + 1 \notin 1 .. Len(items) /\ items[k] = a
  BY <1>1
<1>4. /\ Len(items) > 0
      /\ IF toSlave = <<>> THEN Fits(items[1]) ELSE MayFollow(LastItem, items[1])
      /\ \A k \in 1 .. Len(items) :
           /\ k + 1 \in 1 .. Len(items) => MayFollow(items[k], items[k + 1])
           /\ items[k].kind = "count" => k + 1 \in 1 .. Len(items)
           /\ items[k].kind = "content" => items[k].val \in 1 .. dump
  BY <1>1, <1>3
<1> QED
  BY <1>1, <1>2, <1>4, StreamGrows

\* Taking from the front of a stream up to where the slave then is.
LEMMA StreamTaken ==
  ASSUME TInv, Chain, NEW d, Taken(d), dump' = dump,
         ~Is(toSlave[d], "incr"), toSlave[d].kind # "count", Due' = Left(toSlave[d]),
         spc' = "content" => toSlave[d].kind = "len" /\ dump > 0
  PROVE  Stream' /\ LeftNow' = LeftNow
<1>1. /\ toSlave \in Seq(Items) /\ Len(toSlave) \in Nat /\ DOMAIN toSlave = 1 .. Len(toSlave)
      /\ Len(toSlave') \in Nat /\ DOMAIN toSlave' = 1 .. Len(toSlave') /\ toSlave' \in Seq(Items)
      /\ d \in Nat \ {0} /\ d \in DOMAIN toSlave /\ Len(toSlave') = Len(toSlave) - d
      /\ \A i \in DOMAIN toSlave' :
           i \in Nat \ {0} /\ i + d \in DOMAIN toSlave /\ toSlave'[i] = toSlave[i + d]
      /\ dump \in Nat
  BY NotTaken DEF Taken, TInv, TypeOK
<1>2. ASSUME NEW i \in Nat, NEW k \in Nat, k = i + d, FileAhead(k) PROVE FileAhead(i)'
  <2> SUFFICES ASSUME NEW j \in 1 .. dump, i + j \in DOMAIN toSlave'
               PROVE  toSlave'[i + j] = Word("content", dump - j + 1)
    BY DEF FileAhead
  <2>1. (i + j) + d \in DOMAIN toSlave /\ toSlave'[i + j] = toSlave[(i + j) + d]
    BY <1>1
  <2>2. (i + j) + d = k + j
    BY <1>1, <1>2
  <2> QED
    BY <1>2, <2>1, <2>2 DEF FileAhead
<1>3. Chain'
  <2> SUFFICES ASSUME NEW i \in DOMAIN toSlave'
               PROVE  /\ i + 1 \in DOMAIN toSlave' => MayFollow(toSlave'[i], toSlave'[i + 1])
                      /\ toSlave'[i].kind = "count" => i + 1 \in DOMAIN toSlave'
                      /\ toSlave'[i].kind = "content" => toSlave'[i].val \in 1 .. dump
                      /\ toSlave'[i].kind = "len" => FileAhead(i)'
    BY DEF Chain, MayFollow, Left, Is, FilePart, FileParts
  <2>1. PICK j \in DOMAIN toSlave : j = i + d /\ toSlave'[i] = toSlave[j]
    BY <1>1
  <2>2. i + 1 \in DOMAIN toSlave' <=> j + 1 \in DOMAIN toSlave
    BY <1>1, <2>1
  <2>3. i + 1 \in DOMAIN toSlave' => toSlave'[i + 1] = toSlave[j + 1]
    <3> SUFFICES ASSUME i + 1 \in DOMAIN toSlave' PROVE toSlave'[i + 1] = toSlave[j + 1]
      OBVIOUS
    <3>1. (i + 1) + d = j + 1
      BY <1>1, <2>1
    <3> QED
      BY <1>1, <3>1
  <2>4. i \in Nat /\ j \in Nat
    BY <1>1
  <2>5. toSlave'[i].kind = "len" => FileAhead(i)'
    BY <1>2, <2>1, <2>4 DEF Chain
  <2> QED
    BY <2>1, <2>2, <2>3, <2>5 DEF Chain
<1>4. Left(toSlave[d]) \in 0 .. FileParts /\ FileParts \in Nat
  BY <1>1, LeftType DEF FileParts
<1>5. FirstOK'
  <2> SUFFICES ASSUME toSlave' # <<>>, NEW next, next = toSlave'[1]
               PROVE  IF Due' > 0 THEN next = FilePart(Due)' ELSE next.kind \in {"pack", "ping"}
    BY DEF FirstOK, Fits
  <2>1. Len(toSlave') > 0
    BY <1>1, EmptySeq
  <2>2. d + 1 \in DOMAIN toSlave /\ toSlave'[1] = toSlave[d + 1]
    <3>1. toSlave'[1] = toSlave[1 + d] /\ 1 + d = d + 1
      BY <1>1, <2>1
    <3> QED
      BY <1>1, <2>1, <3>1
  <2>3. MayFollow(toSlave[d], toSlave'[1])
    BY <1>1, <2>2 DEF Chain
  <2>4. IF Left(toSlave[d]) > 0 THEN toSlave'[1] = FilePart(Left(toSlave[d]))
        ELSE toSlave'[1].kind \in {"pack", "ping"}
    BY <1>4, <2>3 DEF MayFollow
  <2>5. FilePart(Due)' = FilePart(Left(toSlave[d]))
    BY DEF FilePart, FileParts
  <2> QED
    BY <2>4, <2>5
<1>6. Begun'
  <2> SUFFICES ASSUME spc' = "content" PROVE dump' > 0 /\ FileAhead(0)'
    BY DEF Begun
  <2>1. FileAhead(d) /\ dump > 0
    BY <1>1 DEF Chain
  <2>2. FileAhead(0)'
    <3>1. 0 \in Nat /\ d \in Nat /\ d = 0 + d
      BY <1>1
    <3> QED
      BY <1>2, <2>1, <3>1
  <2> QED
    BY <2>1, <2>2
<1>7. LeftNow' = LeftNow
  <2>1. toSlave # <<>>
    BY <1>1, EmptySeq
  <2>2. CASE toSlave' = <<>>
    <3>1. Len(toSlave) = d
      <4>1. Len(toSlave') = 0
        BY <2>2, EmptySeq
      <4>2. Len(toSlave') = Len(toSlave) - d /\ Len(toSlave) \in Nat /\ d \in Nat
        BY <1>1
      <4> QED
        BY ONLY <4>1, <4>2
    <3> QED
      BY <2>1, <2>2, <3>1 DEF LeftNow, LastItem
  <2>3. CASE toSlave' # <<>>
    <3>1. Len(toSlave') > 0
      BY <1>1, <2>3, EmptySeq
    <3>2. toSlave'[Len(toSlave')] = toSlave[Len(toSlave') + d] /\ Len(toSlave') + d = Len(toSlave)
      BY <1>1, <3>1
    <3>3. LastItem' = LastItem
      BY <3>2 DEF LastItem
    <3> QED
      BY <2>1, <2>3, <3>3 DEF LeftNow, Left, Is, FileParts
  <2> QED
    BY <2>2, <2>3
<1> QED
  BY <1>3, <1>5, <1>6, <1>7 DEF Stream

\* A stream that nobody touches.
LEMMA StreamStays ==
  ASSUME Stream, toSlave' = toSlave, dump' = dump,
         spc' = spc \/ {spc, spc'} \cap {"len", "content"} = {}
  PROVE  Stream' /\ LeftNow' = LeftNow
<1>1. Due' = Due /\ (spc' = "content" <=> spc = "content") /\ FileParts' = FileParts
  BY DEF Due, FileParts
<1>2. \A i : FileAhead(i)' <=> FileAhead(i)
  BY DEF FileAhead
<1>3. Begun'
  BY <1>1, <1>2 DEF Stream, Begun
<1>4. Chain'
  BY <1>1, <1>2 DEF Stream, Chain, MayFollow, Left, Is, FilePart
<1>5. FirstOK'
  BY <1>1 DEF Stream, FirstOK, Fits, FilePart
<1>6. LeftNow' = LeftNow
  BY <1>1 DEF LeftNow, LastItem, Left, Is
<1> QED
  BY <1>3, <1>4, <1>5, <1>6 DEF Stream

\* When no file and no PING is on its way a pack or a PING may come next.
LEMMA MayAsk ==
  ASSUME TInv, Framed, conn = "open", files = <<>>, NoPing, NEW a, a.kind \in {"pack", "ping"}
  PROVE  LeftNow = 0 /\ IF toSlave = <<>> THEN Fits(a) ELSE MayFollow(LastItem, a)
<1>1. Stream /\ LeftNow = 0 /\ toSlave \in Seq(Items)
  BY DEF Framed, LastOK, TInv, TypeOK
<1>2. CASE toSlave = <<>>
  BY <1>1, <1>2 DEF LeftNow, Fits
<1>3. CASE toSlave # <<>>
  <2>1. Len(toSlave) \in DOMAIN toSlave /\ Len(toSlave) + 1 \notin DOMAIN toSlave
        /\ Len(toSlave) + 2 \notin DOMAIN toSlave
    BY <1>1, <1>3, LenProperties, EmptySeq
  <2>2. LastItem.kind # "count" /\ LastItem.kind # "ping"
    BY <1>1, <2>1 DEF Stream, Chain, NoPing, LastItem
  <2>3. ~Is(LastItem, "incr")
    BY <2>1 DEF TInv, IncrIsWhole, HasStatus, Is, LastItem
  <2>4. Left(LastItem) = 0
    BY <1>1, <1>3 DEF LeftNow
  <2> QED
    BY <1>1, <1>3, <2>2, <2>3, <2>4 DEF MayFollow
<1> QED
  BY <1>2, <1>3

\* The calls of the master, but for the rest of syncWithSlave.
LEMMA CallsKeepFrame ==
  ASSUME TInv, FrameInv, ~Hasty',
         Connect \/ ShakeHandWithSlave \/ ReadPong \/ SendPing \/ SendCheck \/ DisconnectToSlave
  PROVE  FrameInv'
<1>0. Framed
  BY DEF FrameInv, Hasty, Connect, ShakeHandWithSlave, ReadPong, SendPing, SendCheck, DisconnectToSlave,
         TInv, TypeOK
<1>1. toSlave \in Seq(Items) /\ moff \in Nat
  BY ReplicationAssumption DEF TInv, TypeOK
<1>2. CASE Connect
  <2>1. /\ toSlave' = <<>> /\ files' = <<>> /\ conn' = "open" /\ spc' \in {"shake", "idle"}
        /\ mpc' \in {"shake", "idle"} /\ DOMAIN toSlave' = {}
    BY <1>2, EmptySeq DEF Connect, TInv, Sides
  <2>2. Stream' /\ LastOK'
    BY <2>1 DEF Stream, Chain, FirstOK, Begun, LastOK, LeftNow, Due
  <2> QED
    BY <2>1, <2>2 DEF FrameInv, Framed
\* A pack that asks, or a PING, written when nothing is unfinished.
<1>3. ASSUME NEW a \in Items, Is(a, "check") \/ a.kind = "ping", conn = "open", spc # "lost",
             toSlave' = toSlave \o <<a>>, UNCHANGED <<conn, spc, files, dump>>,
             files = <<>>, NoPing, mpc' # "shake", mpc' = "reply" => a.kind # "ping"
      PROVE  Framed'
  <2>1. a.kind \in {"pack", "ping"} /\ a.kind # "count" /\ a.kind # "content" /\ a.kind # "len"
        /\ ~Is(a, "full")
    BY <1>3 DEF Is
  <2>2. Stream /\ IF toSlave = <<>> THEN Fits(a) ELSE MayFollow(LastItem, a)
    BY <1>0, <1>3, <2>1, MayAsk DEF Framed
  <2>3. Stream' /\ toSlave' # <<>> /\ LastItem' = a
    BY <1>3, <2>1, <2>2, StreamGrowsByOne
  <2>4. LastOK'
    BY <1>3, <2>1, <2>3 DEF LastOK, LeftNow, Left, Is
  <2>5. ASSUME mpc' = "reply" PROVE NoPing'
    <3>1. \A i \in DOMAIN toSlave' : (i \in DOMAIN toSlave /\ toSlave'[i] = toSlave[i]) \/ toSlave'[i] = a
      BY <1>1, <1>3, WrittenOne
    <3> QED
      BY <1>3, <2>5, <3>1 DEF NoPing
  <2> QED
    BY <1>3, <2>3, <2>4, <2>5 DEF Framed
\* A write to a slave that left.
<1>4. ASSUME conn = "slave", conn' = conn, spc' = spc, files' = files, toSlave' = toSlave,
             mpc' # "shake", mpc' = "reply" => files = <<>> /\ NoPing
      PROVE  Framed'
  BY <1>0, <1>4 DEF Framed, NoPing
\* A step that leaves the stream alone.
<1>5. ASSUME UNCHANGED <<spc, files, toSlave, dump>>, mpc' \notin {"shake", "reply"},
             conn' = conn \/ (conn' = "master" /\ conn # "slave")
      PROVE  Framed'
  <2>1. conn' # "slave" => Stream' /\ LeftNow' = LeftNow
    BY <1>0, <1>5, StreamStays DEF Framed
  <2> QED
    BY <1>0, <1>5, <2>1 DEF Framed, LastOK
<1>6. CASE ShakeHandWithSlave
  <2>1. mpc = "shake" /\ files = <<>> /\ toSlave = <<>> /\ conn # "none" /\ conn # "master"
        /\ UNCHANGED <<conn, spc, files, dump>>
    BY <1>0, <1>6 DEF ShakeHandWithSlave, Framed, FrameInv, TInv, Sides
  <2>2. mpc' \in {"idle", "dead"} /\ (conn # "slave" => toSlave' = toSlave \o <<Pack("check", moff)>>)
        /\ (mpc' = "dead" => conn = "slave") /\ (conn = "slave" => toSlave' = toSlave)
    BY <1>6 DEF ShakeHandWithSlave, MasterWrites
  <2>3. Pack("check", moff) \in Items /\ Is(Pack("check", moff), "check")
    BY <1>1, ItemTypes DEF Pack, Is
  <2>4. NoPing /\ conn \in {"open", "slave"} /\ spc # "lost"
    BY <1>0, <2>1, EmptySeq DEF NoPing, TInv, TypeOK, Framed
  <2>5. Framed'
    BY <1>3, <1>4, <2>1, <2>2, <2>3, <2>4
  <2> QED
    BY <2>1, <2>2, <2>5 DEF FrameInv
<1>7. CASE SendPing
  <2>1. mpc = "idle" /\ files = <<>> /\ NoPing /\ conn \in {"open", "slave"} /\ spc # "lost"
        /\ UNCHANGED <<conn, spc, files, dump>>
    BY <1>0, <1>7 DEF SendPing, Unfinished, NoPing, TInv, TypeOK, Sides, Framed, Hasty
  <2>2. mpc' \in {"ping", "dead"} /\ (conn # "slave" => toSlave' = toSlave \o <<Word("ping", 0)>>)
        /\ (mpc' = "dead" => conn = "slave") /\ (conn = "slave" => toSlave' = toSlave)
    BY <1>7 DEF SendPing, MasterWrites
  <2>3. Word("ping", 0) \in Items /\ Word("ping", 0).kind = "ping"
    BY ItemTypes DEF Word
  <2>4. Framed'
    BY <1>3, <1>4, <2>1, <2>2, <2>3
  <2> QED
    BY <2>1, <2>2, <2>4 DEF FrameInv
<1>8. CASE SendCheck
  <2>1. mpc = "idle" /\ files = <<>> /\ NoPing /\ conn \in {"open", "slave"} /\ spc # "lost"
        /\ UNCHANGED <<conn, spc, files, dump>>
    BY <1>0, <1>8 DEF SendCheck, Unfinished, NoPing, TInv, TypeOK, Sides, Framed, Hasty
  <2>2. mpc' \in {"reply", "dead"} /\ (conn # "slave" => toSlave' = toSlave \o <<Pack("check", moff)>>)
        /\ (mpc' = "dead" => conn = "slave") /\ (conn = "slave" => toSlave' = toSlave)
    BY <1>8 DEF SendCheck, MasterWrites
  <2>3. Pack("check", moff) \in Items /\ Is(Pack("check", moff), "check") /\ Pack("check", moff).kind # "ping"
    BY <1>1, ItemTypes DEF Pack, Is
  <2>4. Framed'
    BY <1>3, <1>4, <2>1, <2>2, <2>3
  <2> QED
    BY <2>1, <2>2, <2>4 DEF FrameInv
<1>9. CASE ReadPong
  <2>1. UNCHANGED <<conn, spc, files, toSlave, dump>> /\ mpc = "ping" /\ mpc' = "idle"
    BY <1>9 DEF ReadPong
  <2>2. /\ UNCHANGED <<spc, files, toSlave, dump>> /\ mpc' \notin {"shake", "reply"}
        /\ conn' = conn \/ (conn' = "master" /\ conn # "slave")
    BY <2>1
  <2>3. Framed'
    BY <1>5, <2>2
  <2> QED
    BY <2>1, <2>3 DEF FrameInv
<1>10. CASE DisconnectToSlave
  <2>1. UNCHANGED <<spc, files, toSlave, dump, mpc>> /\ mpc = "idle" /\ conn = "open" /\ conn' = "master"
    BY <1>10 DEF DisconnectToSlave
  <2>2. /\ UNCHANGED <<spc, files, toSlave, dump>> /\ mpc' \notin {"shake", "reply"}
        /\ conn' = conn \/ (conn' = "master" /\ conn # "slave")
    BY <2>1
  <2>3. Framed'
    BY <1>5, <2>2
  <2> QED
    BY <2>1, <2>3 DEF FrameInv
<1> QED
  BY <1>2, <1>6, <1>7, <1>8, <1>9, <1>10

\* The rest of syncWithSlave.
LEMMA ReadSlaveConnKeepsFrame ==
  ASSUME TInv, FrameInv, ~Hasty', ReadSlaveConn
  PROVE  FrameInv'
<1>1. PICK offset \in Replies :
        ReadReply(offset) /\ (NoSync(offset) \/ FullSync(offset) \/ IncrSync(offset))
  BY DEF ReadSlaveConn
<1>2. /\ UNCHANGED <<conn, spc, dump, early, short>> /\ mpc = "reply" /\ mpc' \in {"idle", "dead"}
      /\ (mpc' = "dead" => conn = "slave") /\ conn # "master" /\ Framed /\ conn # "none"
  BY <1>1 DEF ReadSlaveConn, NoSync, FullSync, IncrSync, MasterWrites, FrameInv, TInv, Sides, Hasty
<1>3. files = <<>> /\ NoPing /\ spc # "lost"
  BY <1>2 DEF Framed
<1>4. toSlave \in Seq(Items) /\ moff \in Nat /\ offset \in Nat /\ SendLen(offset) \in Nat
  <2>1. offset \in Nat
    BY <1>1, ReadReplyType
  <2> QED
    BY <2>1, ReplicationAssumption DEF TInv, TypeOK, SendLen
<1>5. CASE conn = "slave"
  BY <1>2, <1>3, <1>5 DEF FrameInv, Framed
<1>6. CASE conn # "slave"
  <2>1. conn = "open" /\ Stream
    BY <1>2, <1>6 DEF Framed, TInv, TypeOK
  <2>2. ASSUME NEW a, a.kind \in {"pack", "ping"}
        PROVE  LeftNow = 0 /\ IF toSlave = <<>> THEN Fits(a) ELSE MayFollow(LastItem, a)
    BY <1>2, <1>3, <2>1, <2>2, MayAsk
  <2>4. CASE NoSync(offset)
    <3>1. UNCHANGED <<files, toSlave>> /\ mpc' = "idle"
      BY <2>4 DEF NoSync
    <3>2. Stream' /\ LeftNow' = LeftNow
      BY <1>2, <2>1, <3>1, StreamStays
    <3> QED
      BY <1>2, <1>3, <2>1, <3>1, <3>2 DEF FrameInv, Framed, LastOK
  <2>5. CASE FullSync(offset)
    <3> DEFINE a == Pack("full", moff)
    <3>1. a \in Items /\ Is(a, "full") /\ a.kind = "pack" /\ a.kind # "count" /\ a.kind # "content"
      BY <1>4, ItemTypes DEF Pack, Is
    <3>2. toSlave' = toSlave \o <<a>> /\ mpc' = "idle"
      BY <1>6, <2>5 DEF FullSync, MasterWrites
    <3>3. files' = <<FileParts>>
      <4>1. files' = Append(<<>>, FileParts)
        BY <1>3, <2>5, <3>2 DEF FullSync
      <4> QED
        BY <4>1
    <3> HIDE DEF a
    <3>4. IF toSlave = <<>> THEN Fits(a) ELSE MayFollow(LastItem, a)
      BY <2>2, <3>1
    <3>5. Stream' /\ toSlave' # <<>> /\ LastItem' = a
      BY <1>2, <2>1, <3>1, <3>2, <3>4, StreamGrowsByOne
    <3>6. LastOK'
      <4>1. LeftNow' = FileParts /\ dump \in Nat
        BY <1>2, <3>1, <3>5 DEF LeftNow, Left, Is, FileParts, TInv, TypeOK
      <4>2. FileParts # 0
        BY <4>1 DEF FileParts
      <4> QED
        BY <3>3, <4>1, <4>2 DEF LastOK
    <3> QED
      BY <1>2, <1>3, <3>2, <3>5, <3>6, <2>1 DEF FrameInv, Framed
  <2>6. CASE IncrSync(offset)
    <3> DEFINE a == Pack("incr", moff)
               b == Word("count", SendLen(offset))
               c == Word("data", offset)
               items == <<a, b, c>>
    <3>1. /\ a \in Items /\ a.kind = "pack" /\ a.status = "incr"
          /\ b \in Items /\ b.kind = "count" /\ c \in Items /\ c.kind = "data"
      BY <1>4, ItemTypes DEF Pack, Word
    <3>2. toSlave' = toSlave \o items /\ mpc' = "idle" /\ files' = files
      BY <1>6, <2>6 DEF IncrSync, MasterWrites
    <3> HIDE DEF a, b, c
    <3>3. /\ items \in Seq(Items) /\ Len(items) = 3
          /\ items[1] = a /\ items[2] = b /\ items[3] = c
      BY <3>1
    <3> HIDE DEF items
    <3>4. ASSUME NEW k \in 1 .. Len(items)
          PROVE  /\ k + 1 \in 1 .. Len(items) => MayFollow(items[k], items[k + 1])
                 /\ items[k].kind = "count" => k + 1 \in 1 .. Len(items)
                 /\ items[k].kind = "content" => items[k].val \in 1 .. dump
                 /\ items[k].kind # "len"
      <4>1. k \in {1, 2, 3}
        BY <3>3
      <4>2. CASE k = 1
        BY <3>1, <3>3, <4>2 DEF MayFollow, Is, Left
      <4>3. CASE k = 2
        BY <3>1, <3>3, <4>3 DEF MayFollow, Is, Left
      <4>4. CASE k = 3
        BY <3>1, <3>3, <4>4
      <4> QED
        BY <4>1, <4>2, <4>3, <4>4
    <3>5. Stream' /\ toSlave' # <<>> /\ LastItem' = c
      <4>1. /\ Len(items) > 0 /\ LeftNow = 0
            /\ IF toSlave = <<>> THEN Fits(items[1]) ELSE MayFollow(LastItem, items[1])
        BY <2>2, <3>1, <3>3
      <4>2. Stream' /\ toSlave' # <<>> /\ LastItem' = items[Len(items)]
        BY <1>2, <2>1, <3>2, <3>3, <3>4, <4>1, StreamGrows
      <4> QED
        BY <3>3, <4>2
    <3>6. LastOK'
      BY <1>3, <3>1, <3>2, <3>5 DEF LastOK, LeftNow, Left, Is
    <3> QED
      BY <1>2, <1>3, <3>2, <3>5, <3>6, <2>1 DEF FrameInv, Framed
  <2> QED
    BY <1>1, <2>4, <2>5, <2>6
<1> QED
  BY <1>5, <1>6

\* The thread that sends the file.
LEMMA SendFileKeepsFrame ==
  ASSUME TInv, FrameInv, ~Hasty', SendFile
  PROVE  FrameInv'
<1>1. PICK i \in DOMAIN files :
        /\ \/ /\ conn # "slave" /\ UNCHANGED mpc
              /\ toSlave' = IF conn = "open" THEN Append(toSlave, FilePart(files[i])) ELSE toSlave
           \/ conn = "slave" /\ UNCHANGED toSlave /\ mpc' \in {mpc, "dead"}
        /\ files' = IF mpc' = "dead" THEN <<>>
                    ELSE IF files[i] = 1 THEN RemoveAt(files, i)
                    ELSE [files EXCEPT ![i] = @ - 1]
  BY DEF SendFile
<1>2. UNCHANGED <<conn, spc, dump, early, short>> /\ Framed
      /\ (conn = "master" => mpc = "idle") /\ (mpc = "dead" => conn = "slave")
  BY DEF SendFile, FrameInv, Hasty
<1>3. files # <<>> /\ mpc # "reply" /\ mpc # "shake" /\ mpc' # "reply" /\ mpc' # "shake"
  <2>1. files # <<>>
    BY <1>1, EmptySeq
  <2> QED
    BY <1>1, <1>2, <2>1 DEF Framed, TInv, Sides
<1>4. CASE conn = "slave"
  BY <1>2, <1>3, <1>4 DEF FrameInv, Framed
<1>5. CASE conn = "master" \/ conn = "none"
  <2>1. toSlave' = toSlave /\ mpc' = mpc
    BY <1>1, <1>5
  <2>2. Stream'
    BY <1>2, <1>5, <2>1, StreamStays DEF Framed
  <2> QED
    BY <1>2, <1>3, <1>5, <2>1, <2>2 DEF FrameInv, Framed
<1>6. CASE conn = "open"
  <2>1. Stream /\ toSlave \in Seq(Items) /\ mpc' = mpc /\ mpc' # "dead" /\ dump \in Nat
    BY <1>1, <1>2, <1>6 DEF Framed, TInv, TypeOK
  <2>2. LeftNow # 0 /\ files = <<LeftNow>>
    BY <1>2, <1>3, <1>6 DEF Framed, LastOK
  <2>3. LeftNow \in 0 .. FileParts
    <3>1. CASE toSlave = <<>>
      BY <2>1, <3>1 DEF LeftNow, Due, FileParts
    <3>2. CASE toSlave # <<>>
      <4>1. Len(toSlave) \in DOMAIN toSlave
        BY <2>1, <3>2, LenProperties, EmptySeq
      <4>2. Chain
        BY <2>1 DEF Stream
      <4>3. Left(toSlave[Len(toSlave)]) \in 0 .. FileParts
        BY <4>1, <4>2, LeftType
      <4> QED
        BY <3>2, <4>3 DEF LeftNow, LastItem
    <3> QED
      BY <3>1, <3>2
  <2>4. PICK left \in 1 .. FileParts : left = LeftNow
    BY <2>1, <2>2, <2>3 DEF FileParts
  <2>5. left \in Nat \ {0} /\ left \in FileStates /\ files = <<left>>
    BY <2>1, <2>2, <2>4 DEF FileParts, FileStates
  <2>6. PICK a : a = FilePart(left)
    OBVIOUS
  <2>7. /\ a \in Items /\ a.kind \in {"len", "content"} /\ a.status = "none"
        /\ a.kind = "content" => a.val \in 1 .. dump
        /\ Left(a) = left - 1
    <3>1. a \in Items /\ a.kind \in {"len", "content"} /\ a.status = "none"
      BY <2>5, <2>6, FilePartType
    <3>2. CASE left = FileParts
      <4>1. a = Word("len", dump)
        BY <2>6, <3>2 DEF FilePart
      <4>2. Left(a) = dump /\ a.kind = "len"
        BY <4>1 DEF Left, Is, Word
      <4> QED
        BY <2>1, <3>1, <3>2, <4>2 DEF FileParts
    <3>3. CASE left # FileParts
      <4>1. a = Word("content", left) /\ left \in 1 .. dump
        BY <2>1, <2>4, <2>6, <3>3 DEF FilePart, FileParts
      <4>2. Left(a) = left - 1 /\ a.val = left
        BY <4>1 DEF Left, Is, Word
      <4> QED
        BY <3>1, <4>1, <4>2
    <3> QED
      BY <3>2, <3>3
  <2>8. toSlave' = toSlave \o <<a>>
    <3>1. i = 1 /\ files[i] = left
      BY <1>1, <2>5
    <3>2. toSlave' = Append(toSlave, a)
      BY <1>1, <1>6, <2>6, <3>1
    <3> QED
      BY <2>1, <2>7, <3>2, AppendIsConcat
  <2>9. files' = IF left = 1 THEN <<>> ELSE <<left - 1>>
    <3>1. i = 1 /\ files[i] = left
      BY <1>1, <2>5
    <3>2. CASE left = 1
      <4>1. files' = RemoveAt(<<left>>, 1)
        BY <1>1, <2>1, <2>5, <3>1, <3>2
      <4>2. SubSeq(<<left>>, 1, 1 - 1) = <<>> /\ SubSeq(<<left>>, 1 + 1, Len(<<left>>)) = <<>>
        BY SubSeqEmpty
      <4>3. <<>> \o <<>> = <<>>
        BY ConcatEmptySeq, EmptySeq
      <4> QED
        BY <3>2, <4>1, <4>2, <4>3 DEF RemoveAt
    <3>3. CASE left # 1
      <4>1. files' = [<<left>> EXCEPT ![1] = left - 1]
        BY <1>1, <2>1, <2>5, <3>1, <3>3
      <4> QED
        BY <3>3, <4>1
    <3> QED
      BY <3>2, <3>3
  <2>10. IF toSlave = <<>> THEN Fits(a) ELSE MayFollow(LastItem, a)
    <3>1. CASE toSlave = <<>>
      BY <2>4, <2>5, <2>6, <3>1 DEF LeftNow, Fits
    <3>2. CASE toSlave # <<>>
      <4>1. Left(LastItem) = left /\ left > 0 /\ left # 0
        BY <2>4, <2>5, <3>2 DEF LeftNow
      <4>2. LastItem.kind # "ping" /\ LastItem.kind # "count" /\ ~Is(LastItem, "incr")
        BY <4>1 DEF Left, Is
      <4> QED
        BY <2>6, <3>2, <4>1, <4>2 DEF MayFollow
    <3> QED
      BY <3>1, <3>2
  <2>11. Stream' /\ toSlave' # <<>> /\ LastItem' = a
    <3>1. a.kind # "count" /\ dump' = dump /\ spc' = spc
      BY <1>2, <2>7
    <3> QED
      BY <2>1, <2>7, <2>8, <2>10, <3>1, StreamGrowsByOne
  <2>12. LastOK'
    <3>1. LeftNow' = left - 1
      BY <1>2, <2>7, <2>11 DEF LeftNow, Left, Is, FileParts
    <3>2. left - 1 = 0 <=> left = 1
      BY <2>5
    <3> QED
      BY <2>9, <3>1, <3>2 DEF LastOK
  <2> QED
    BY <1>2, <1>3, <1>6, <2>1, <2>11, <2>12 DEF FrameInv, Framed
<1> QED
  BY <1>4, <1>5, <1>6 DEF TInv, TypeOK

\* The calls of the slave.
LEMMA SlaveKeepsFrame ==
  ASSUME TInv, FrameInv, ~Hasty', Slave \/ BeginSync \/ DisconnectToMaster
  PROVE  FrameInv'
<1>1. UNCHANGED <<mpc, files, dump, early>> /\ (conn' = conn \/ conn' = "slave") /\ (short => short')
  <2>1. CASE RecvFile
    BY <2>1, RecvFileLeaves
  <2>2. CASE ~RecvFile
    BY <2>2 DEF Slave, DisconnectToMaster, ShakeHandWithMaster, ReadShake, SyncWithMaster, ReadEnd,
           BeginSync, AnswerCheck, BeginFull, ExecuteIncr, IgnorePing, Misread
  <2> QED
    BY <2>1, <2>2
<1>2. Framed /\ toSlave \in Seq(Items) /\ ~short' /\ dump \in Nat
  BY <1>1 DEF FrameInv, TInv, TypeOK, Hasty
<1>3. NoPing => NoPing'
  BY SlaveTakes DEF NoPing
<1>4. mpc = "shake" => toSlave' = <<>>
  <2> SUFFICES ASSUME mpc = "shake" PROVE toSlave' = <<>>
    OBVIOUS
  <2>1. toSlave = <<>>
    BY <1>2 DEF Framed
  <2>2. ASSUME NEW i \in DOMAIN toSlave' PROVE FALSE
    BY <2>1, <2>2, SlaveTakes, EmptySeq
  <2>3. toSlave' \in Seq(Items)
    BY SlaveKeepsTInv DEF TInv, TypeOK
  <2>4. Len(toSlave') \in Nat /\ DOMAIN toSlave' = 1 .. Len(toSlave')
    BY <2>3, LenProperties
  <2>5. ~(1 <= Len(toSlave'))
    BY <2>2, <2>4
  <2>6. Len(toSlave') \notin Nat \ {0}
    BY ONLY <2>4, <2>5
  <2> QED
    BY <2>3, <2>6, EmptySeq
\* What is left to prove of a step.
<1>5. ASSUME spc' # "lost", conn' # "slave" => Stream', conn' = "open" => LastOK'
      PROVE  FrameInv'
  BY <1>1, <1>2, <1>3, <1>4, <1>5 DEF FrameInv, Framed
\* A step that takes d items and goes where the last of them sends it.
<1>6. ASSUME NEW d, Taken(d), conn # "slave", spc' # "lost",
             ~Is(toSlave[d], "incr"), toSlave[d].kind # "count", Due' = Left(toSlave[d]),
             spc' = "content" => toSlave[d].kind = "len" /\ dump > 0
      PROVE  FrameInv'
  <2>1. Chain /\ dump' = dump /\ files' = files /\ (conn' = "open" => LastOK)
    BY <1>1, <1>2, <1>6 DEF Framed, Stream
  <2>2. Stream' /\ LeftNow' = LeftNow
    BY <1>6, <2>1, StreamTaken
  <2> QED
    BY <1>5, <1>6, <2>1, <2>2 DEF LastOK
\* A step that leaves the stream alone.
<1>7. ASSUME toSlave' = toSlave, conn' = conn, spc' # "lost",
             {spc, spc'} \cap {"len", "content"} = {}
      PROVE  FrameInv'
  <2>1. conn # "slave" => Stream' /\ LeftNow' = LeftNow
    BY <1>1, <1>2, <1>7, StreamStays DEF Framed
  <2> QED
    BY <1>1, <1>2, <1>5, <1>7, <2>1 DEF LastOK, Framed
\* A step that leaves nothing to read.
<1>8. ASSUME toSlave' = <<>>, spc' = "idle", conn' = "open" => LeftNow = 0 /\ conn' = conn
      PROVE  FrameInv'
  <2>1. DOMAIN toSlave' = {} /\ LeftNow' = 0
    BY <1>8, EmptySeq DEF LeftNow, Due
  <2>2. Stream'
    BY <1>8, <2>1 DEF Stream, Chain, FirstOK, Begun
  <2>3. conn' = "open" => LastOK'
    BY <1>1, <1>2, <1>8, <2>1 DEF LastOK, Framed
  <2> QED
    BY <1>5, <1>8, <2>2, <2>3
<1>9. CASE ShakeHandWithMaster
  <2>1. UNCHANGED <<conn, toSlave>> /\ spc = "shake" /\ spc' = "shaking"
    BY <1>9 DEF ShakeHandWithMaster
  <2> QED
    BY <1>7, <2>1
<1>10. CASE ReadShake
  <2>1. spc = "shaking" /\ spc' = "idle" /\ conn' = conn /\ conn # "slave"
    BY <1>10 DEF ReadShake, TInv, Sides
  <2>2. CASE toSlave # <<>>
    <3>1. toSlave' = Tail(toSlave) /\ Is(toSlave[1], "check")
      BY <1>10, <2>1, <2>2 DEF ReadShake, TInv, Sides, HasStatus, Is
    <3>2. Taken(1) /\ Left(toSlave[1]) = 0 /\ Due' = 0
      BY <2>1, <2>2, <3>1, TailIsTaken DEF Left, Is, Due
    <3>3. ~Is(toSlave[1], "incr") /\ toSlave[1].kind # "count"
      BY <3>1 DEF Is
    <3> QED
      BY <1>6, <2>1, <3>2, <3>3
  <2>3. CASE toSlave = <<>>
    <3>1. toSlave' = <<>> /\ conn' = "master"
      BY <1>10, <2>1, <2>3 DEF ReadShake
    <3> QED
      BY <1>8, <2>1, <3>1
  <2> QED
    BY <2>2, <2>3
<1>11. CASE SyncWithMaster
  <2> DEFINE pack == Head(toSlave)
  <2>1. toSlave # <<>> /\ spc = "pack" /\ pack = toSlave[1] /\ 1 \in DOMAIN toSlave
    BY <1>2, <1>11, TailItems DEF SyncWithMaster
  <2>2. conn # "slave" /\ Chain /\ FirstOK /\ DOMAIN toSlave = 1 .. Len(toSlave) /\ Len(toSlave) \in Nat
    BY <1>2, <2>1, LenProperties DEF TInv, Sides, Framed, Stream
  <2>3. pack.kind \in {"pack", "ping"}
    BY <2>1, <2>2 DEF FirstOK, Fits, Due
  <2>4. CASE AnswerCheck(pack)
    <3>1. toSlave' = Tail(toSlave) /\ Is(toSlave[1], "check") /\ spc' = "idle"
      BY <2>1, <2>4 DEF AnswerCheck, Is
    <3>2. Taken(1) /\ Left(toSlave[1]) = 0 /\ Due' = 0
      BY <2>1, <3>1, TailIsTaken DEF Left, Is, Due
    <3>3. ~Is(toSlave[1], "incr") /\ toSlave[1].kind # "count"
      BY <3>1 DEF Is
    <3> QED
      BY <1>6, <2>2, <3>1, <3>2, <3>3
  <2>5. CASE BeginFull(pack)
    <3>1. toSlave' = Tail(toSlave) /\ Is(toSlave[1], "full") /\ spc' = "len"
      BY <2>1, <2>5 DEF BeginFull, Is
    <3>2. Taken(1) /\ Left(toSlave[1]) = FileParts /\ Due' = FileParts
      BY <1>1, <2>1, <3>1, TailIsTaken DEF Left, Due, FileParts
    <3>3. ~Is(toSlave[1], "incr") /\ toSlave[1].kind # "count"
      BY <3>1 DEF Is
    <3> QED
      BY <1>6, <2>2, <3>1, <3>2, <3>3
  <2>6. CASE ExecuteIncr(pack)
    <3>1. /\ toSlave' = SubSeq(toSlave, 4, Len(toSlave)) /\ HasStatus(1, "incr")
          /\ spc' \in {"dead", "undefined", "idle"}
      BY <2>1, <2>6 DEF ExecuteIncr, HasStatus
    <3>2. Taken(3) /\ toSlave[3].kind = "data"
      BY <2>1, <3>1, IncrIsHere
    <3>3. Left(toSlave[3]) = 0 /\ Due' = 0 /\ ~Is(toSlave[3], "incr") /\ toSlave[3].kind # "count"
      BY <3>1, <3>2 DEF Left, Is, Due
    <3> QED
      BY <1>6, <2>2, <3>1, <3>2, <3>3
  <2>7. CASE IgnorePing(pack)
    <3>1. /\ toSlave' = <<>> /\ spc' = "idle" /\ conn' = conn
          /\ LastItem = toSlave[1] /\ toSlave[1].kind = "ping"
      BY <2>1, <2>7 DEF IgnorePing, LastItem
    <3>2. LeftNow = 0
      BY <2>1, <3>1 DEF LeftNow, Left, Is
    <3> QED
      BY <1>8, <3>1, <3>2
  <2>8. pack.kind = "ping" => Len(toSlave) <= 1
    <3> SUFFICES ASSUME pack.kind = "ping", Len(toSlave) > 1 PROVE FALSE
      BY <2>2
    <3>1. 1 + 1 \in DOMAIN toSlave
      BY <2>2
    <3> QED
      BY <2>1, <2>2, <3>1 DEF Chain, MayFollow
  <2> QED
    BY <1>11, <2>2, <2>3, <2>4, <2>5, <2>6, <2>7, <2>8 DEF SyncWithMaster
<1>12. CASE ReadEnd \/ BeginSync
  <2>1. UNCHANGED <<conn, toSlave>> /\ {spc, spc'} \subseteq {"idle", "pack"}
    BY <1>12 DEF ReadEnd, BeginSync
  <2> QED
    BY <1>7, <2>1
<1>13. CASE RecvFile
  <2>1. conn # "slave" /\ spc \in {"len", "content"} /\ Chain /\ FirstOK /\ Begun
    BY <1>2, <1>13, RecvFileLeaves DEF TInv, Sides, Framed, Stream
  <2>2. CASE ReadLength
    <3>1. toSlave # <<>> /\ spc = "len" /\ Head(toSlave) = toSlave[1] /\ FileParts > 0
      BY <1>2, <2>2, TailItems DEF ReadLength, FileParts
    <3>2. toSlave[1] = Word("len", dump)
      BY <2>1, <3>1 DEF FirstOK, Fits, Due, FilePart
    <3>3. /\ toSlave[1].kind = "len" /\ ~Is(toSlave[1], "full") /\ ~Is(toSlave[1], "incr")
          /\ toSlave[1].kind # "count" /\ Left(toSlave[1]) = dump
      BY <3>2 DEF Word, Is, Left
    <3>4. toSlave' = Tail(toSlave) /\ spc' = IF dump = 0 THEN "idle" ELSE "content"
      BY <2>2, <3>1, <3>3 DEF ReadLength, FileIsHere
    <3>5. Taken(1) /\ Due' = dump
      BY <1>1, <3>1, <3>4, TailIsTaken DEF Due
    <3>6. spc' = "content" => dump > 0
      BY <1>2, <3>4
    <3> QED
      BY <1>6, <2>1, <3>3, <3>4, <3>5, <3>6
  <2>3. CASE ReadContent
    <3>1. spc = "content" /\ dump > 0 /\ FileAhead(0)
      BY <2>1, <2>3 DEF ReadContent, Begun
    <3>2. PICK k \in 1 .. dump :
            /\ k <= Len(toSlave)
            /\ IF \A j \in 1 .. k : toSlave[j] = Word("content", dump - j + 1)
               THEN /\ toSlave' = SubSeq(toSlave, k + 1, Len(toSlave))
                    /\ short' = (short \/ k < dump) /\ FileIsHere
               ELSE Misread /\ UNCHANGED short
      BY <2>3 DEF ReadContent
    <3>3. ASSUME NEW j \in 1 .. k PROVE toSlave[j] = Word("content", dump - j + 1)
      <4>1. j \in 1 .. dump /\ 0 + j = j
        BY <1>2, <3>2
      <4>2. j \in DOMAIN toSlave
        BY <1>2, <3>2, LenProperties
      <4> QED
        BY <3>1, <4>1, <4>2 DEF FileAhead
    <3>4. /\ toSlave' = SubSeq(toSlave, k + 1, Len(toSlave)) /\ short' = (short \/ k < dump)
          /\ spc' = "idle"
      BY <3>2, <3>3 DEF FileIsHere
    <3>5. k = dump /\ k \in 1 .. Len(toSlave)
      <4>1. ~(k < dump) /\ k \in 1 .. dump /\ dump \in Nat /\ k <= Len(toSlave) /\ Len(toSlave) \in Nat
        BY <1>2, <3>2, <3>4, LenProperties
      <4> QED
        BY ONLY <4>1
    <3>6. Taken(k)
      BY <3>4, <3>5, RestIsTaken
    <3>7. toSlave[k] = Word("content", 1)
      <4>1. k \in 1 .. k /\ dump - k + 1 = 1
        BY <1>2, <3>5
      <4> QED
        BY <3>3, <4>1
    <3>8. Left(toSlave[k]) = 0 /\ ~Is(toSlave[k], "incr") /\ toSlave[k].kind # "count"
      BY <3>7 DEF Left, Is, Word
    <3>9. Due' = 0
      BY <3>4 DEF Due
    <3> QED
      BY <1>6, <2>1, <3>4, <3>6, <3>8, <3>9
  <2>4. CASE ReadNoFile
    <3>1. toSlave' = <<>> /\ spc' = "idle" /\ conn' = "master"
      BY <2>4 DEF ReadNoFile, FileIsHere
    <3> QED
      BY <1>8, <3>1
  <2> QED
    BY <1>13, <2>2, <2>3, <2>4 DEF RecvFile
<1>14. CASE DisconnectToMaster
  <2>1. conn' = "slave" /\ spc' = "left"
    BY <1>14 DEF DisconnectToMaster
  <2> QED
    BY <1>5, <2>1
<1> QED
  BY <1>9, <1>10, <1>11, <1>12, <1>13, <1>14 DEF Slave

\* FrameInv holds of every execution.
LEMMA AlwaysFrame == Spec => []FrameInv
<1>1. Init => FrameInv
  <2> SUFFICES ASSUME Init PROVE FrameInv
    OBVIOUS
  <2>1. DOMAIN toSlave = {} /\ toSlave = <<>> /\ files = <<>> /\ mpc = "start" /\ spc = "start"
        /\ conn = "none"
    BY DEF Init
  <2>2. Stream
    BY <2>1 DEF Stream, Chain, FirstOK, Begun
  <2> QED
    BY <2>1, <2>2 DEF FrameInv, Framed
<1>2. FrameInv /\ TInv /\ [Next]_vars => FrameInv'
  <2> SUFFICES ASSUME FrameInv, TInv, [Next]_vars PROVE FrameInv'
    OBVIOUS
  <2>1. CASE UNCHANGED vars
    <3>1. UNCHANGED <<toSlave, dump, spc, conn, mpc, files, early, short>>
      BY <2>1 DEF vars
    <3>2. Stream => Stream' /\ LeftNow' = LeftNow
      BY <3>1, StreamStays
    <3> QED
      BY <3>1, <3>2 DEF FrameInv, Framed, NoPing, Hasty, LastOK
  <2>2. CASE Next /\ ~Hasty'
    BY <2>2, CallsKeepFrame, ReadSlaveConnKeepsFrame, SendFileKeepsFrame, SlaveKeepsFrame
       DEF Next, Master
  <2>3. CASE Next /\ Hasty'
    <3>1. (conn' = "master" => mpc' = "idle") /\ (mpc' = "dead" => conn' = "slave")
      <4>1. CASE RecvFile
        BY <4>1, RecvFileLeaves DEF FrameInv
      <4>2. CASE (Slave \/ BeginSync \/ DisconnectToMaster) /\ ~RecvFile
        <5>1. mpc' = mpc /\ (conn' = conn \/ conn' = "slave")
          BY <4>2 DEF Slave, DisconnectToMaster, ShakeHandWithMaster, ReadShake, SyncWithMaster, ReadEnd,
                      BeginSync, AnswerCheck, BeginFull, ExecuteIncr, IgnorePing, Misread
        <5> QED
          BY <5>1 DEF FrameInv
      <4>3. CASE SendFile
        BY <4>3 DEF SendFile, FrameInv
      <4>4. CASE Connect \/ ShakeHandWithSlave \/ ReadPong \/ SendPing \/ SendCheck \/ DisconnectToSlave
        BY <4>4 DEF Connect, ShakeHandWithSlave, ReadPong, SendPing, SendCheck, DisconnectToSlave,
                    MasterWrites, FrameInv
      <4>5. CASE ReadSlaveConn
        <5>1. PICK offset \in Replies : NoSync(offset) \/ FullSync(offset) \/ IncrSync(offset)
          BY <4>5 DEF ReadSlaveConn
        <5> QED
          BY <4>5, <5>1 DEF ReadSlaveConn, NoSync, FullSync, IncrSync, MasterWrites, FrameInv
      <4> QED
        BY <2>3, <4>1, <4>2, <4>3, <4>4, <4>5 DEF Next, Master
    <3> QED
      BY <2>3, <3>1 DEF FrameInv
  <2> QED
    BY <2>1, <2>2, <2>3
<1> QED
  BY <1>1, <1>2, AlwaysTInv, PTL DEF Spec

(***************************************************************************)
(* For all offsets, any number of file threads and files of any length: as *)
(* long as no call of the master began before the detached sendFile had    *)
(* written its file or before a PING was read, and every read of a file    *)
(* found all of it, syncWithMaster and recvFile read packs as packs and    *)
(* files as files, whoever closes the connection in between.               *)
(***************************************************************************)
THEOREM FramingNeedsHaste == Spec => []OnlyHasteMisframes
<1>1. FrameInv => OnlyHasteMisframes
  BY DEF FrameInv, Framed, OnlyHasteMisframes, Hasty
<1> QED
  BY <1>1, AlwaysFrame, PTL

-------------------------------------------------------------------------------
\* As many replies as questions.

\* The places of the questions in a stream to the slave.
Checks(s) == {i \in DOMAIN s : s[i].kind = "pack" /\ s[i].status = "check"}
Questions(s) == Cardinality(Checks(s))
IsCheck(item) == item.kind = "pack" /\ item.status = "check"

\* A stream holds finitely many of them.
LEMMA ChecksFinite ==
  ASSUME NEW s \in Seq(Items)
  PROVE  IsFiniteSet(Checks(s)) /\ Questions(s) \in Nat /\ Checks(s) \subseteq 1 .. Len(s)
<1>1. Len(s) \in Nat /\ DOMAIN s = 1 .. Len(s)
  BY LenProperties
<1>2. Checks(s) \subseteq 1 .. Len(s) /\ IsFiniteSet(1 .. Len(s))
  BY <1>1, FS_Interval DEF Checks
<1> QED
  BY <1>2, FS_Subset, FS_CardinalityType DEF Questions

\* Items that move to the front stay what they are.
LEMMA ChecksShift ==
  ASSUME NEW s \in Seq(Items), NEW r \in Seq(Items), NEW d \in Nat,
         \A i \in Int : i \in DOMAIN r <=> i \in Nat \ {0} /\ i + d \in DOMAIN s,
         \A i \in DOMAIN r : r[i] = s[i + d]
  PROVE  Questions(r) = Cardinality({i \in Checks(s) : i > d})
<1> DEFINE late == {i \in Checks(s) : i > d}
           back == [i \in Checks(r) |-> i + d]
<1>1. /\ DOMAIN s = 1 .. Len(s) /\ DOMAIN r = 1 .. Len(r) /\ IsFiniteSet(Checks(r))
      /\ Len(s) \in Nat /\ Len(r) \in Nat
  BY LenProperties, ChecksFinite
<1>2. \A i \in Checks(r) : i \in Int /\ i \in DOMAIN r /\ i + d \in late
  <2> SUFFICES ASSUME NEW i \in Checks(r) PROVE i \in Int /\ i \in DOMAIN r /\ i + d \in late
    OBVIOUS
  <2>1. i \in DOMAIN r /\ i \in Int
    BY <1>1 DEF Checks
  <2>2. i \in Nat \ {0} /\ i + d \in DOMAIN s /\ r[i] = s[i + d]
    BY <2>1
  <2>3. i + d > d
    BY <2>2
  <2> QED
    BY <2>1, <2>2, <2>3 DEF Checks
<1>3. \A j \in late : j - d \in Checks(r) /\ (j - d) + d = j
  <2> SUFFICES ASSUME NEW j \in late PROVE j - d \in Checks(r) /\ (j - d) + d = j
    OBVIOUS
  <2>1. j \in DOMAIN s /\ j \in Int /\ j > d
    BY <1>1 DEF Checks
  <2>2. j - d \in Int /\ j - d \in Nat \ {0} /\ (j - d) + d = j
    BY <2>1
  <2>3. j - d \in DOMAIN r
    BY <2>1, <2>2
  <2>4. r[j - d] = s[j]
    BY <2>2, <2>3
  <2> QED
    BY <2>2, <2>3, <2>4 DEF Checks
<1>4. back \in Bijection(Checks(r), late)
  <2>1. back \in [Checks(r) -> late]
    BY <1>2
  <2>2. \A i, j \in Checks(r) : back[i] = back[j] => i = j
    BY <1>2
  <2>3. \A j \in late : \E i \in Checks(r) : back[i] = j
    BY <1>3
  <2> HIDE DEF back, late
  <2> QED
    BY <2>1, <2>2, <2>3 DEF Bijection, Injection, IsInjective, Surjection
<1>5. ExistsBijection(Checks(r), late)
  BY <1>4 DEF ExistsBijection
<1> HIDE DEF late
<1>6. Cardinality(late) = Cardinality(Checks(r))
  BY <1>1, <1>5, FS_Bijection
<1> QED
  BY <1>6 DEF late, Questions

\* What one read takes.
LEMMA ChecksTail ==
  ASSUME NEW s \in Seq(Items), s # <<>>
  PROVE  Questions(s) = Questions(Tail(s)) + IF IsCheck(Head(s)) THEN 1 ELSE 0
<1> DEFINE late == {i \in Checks(s) : i > 1}
<1>1. /\ Head(s) = s[1] /\ 1 \in DOMAIN s /\ Tail(s) \in Seq(Items)
      /\ DOMAIN s = 1 .. Len(s) /\ Len(s) \in Nat
      /\ IsFiniteSet(Checks(s)) /\ Questions(s) \in Nat /\ Checks(s) \subseteq 1 .. Len(s)
  BY TailItems, LenProperties, ChecksFinite
<1>2. Questions(Tail(s)) = Cardinality(late)
  <2>1. /\ \A i \in Int : i \in DOMAIN Tail(s) <=> i \in Nat \ {0} /\ i + 1 \in DOMAIN s
        /\ \A i \in DOMAIN Tail(s) : Tail(s)[i] = s[i + 1]
    BY TailItems
  <2>2. PICK r \in Seq(Items), d \in Nat : r = Tail(s) /\ d = 1
    BY <1>1
  <2>3. /\ \A i \in Int : i \in DOMAIN r <=> i \in Nat \ {0} /\ i + d \in DOMAIN s
        /\ \A i \in DOMAIN r : r[i] = s[i + d]
    BY <2>1, <2>2
  <2>4. Questions(r) = Cardinality({i \in Checks(s) : i > d})
    BY <2>3, ChecksShift
  <2> QED
    BY <2>2, <2>4
<1>3. late = Checks(s) \ {1}
  BY <1>1
<1>4. 1 \in Checks(s) <=> IsCheck(Head(s))
  BY <1>1 DEF Checks, IsCheck
<1> HIDE DEF late
<1>5. Cardinality(Checks(s) \ {1})
        = IF 1 \in Checks(s) THEN Cardinality(Checks(s)) - 1 ELSE Cardinality(Checks(s))
  BY <1>1, FS_RemoveElement
<1> QED
  BY <1>1, <1>2, <1>3, <1>4, <1>5 DEF Questions

\* Reading what asks nothing.
LEMMA TakenAsksNothing ==
  ASSUME TInv, NEW d \in Nat, Taken(d), \A j \in 1 .. d : ~IsCheck(toSlave[j])
  PROVE  Questions(toSlave') = Questions(toSlave)
<1>1. PICK s \in Seq(Items), r \in Seq(Items) : s = toSlave /\ r = toSlave'
  BY NotTaken DEF Taken
<1>2. /\ \A i \in Int : i \in DOMAIN r <=> i \in Nat \ {0} /\ i + d \in DOMAIN s
      /\ \A i \in DOMAIN r : r[i] = s[i + d]
  BY <1>1, NotTaken DEF Taken
<1>3. Questions(r) = Cardinality({i \in Checks(s) : i > d})
  BY <1>2, ChecksShift
<1>4. \A i \in Checks(s) : i > d
  <2> SUFFICES ASSUME NEW i \in Checks(s), ~(i > d) PROVE FALSE
    OBVIOUS
  <2>1. i \in 1 .. Len(s) /\ Len(s) \in Nat /\ IsCheck(s[i])
    BY ChecksFinite, LenProperties DEF Checks, IsCheck
  <2>2. i \in 1 .. d
    BY <2>1
  <2> QED
    BY <1>1, <2>1, <2>2
<1>5. {i \in Checks(s) : i > d} = Checks(s)
  BY <1>4
<1> QED
  BY <1>1, <1>3, <1>5 DEF Questions

\* What one write adds.
LEMMA ChecksWritten ==
  ASSUME NEW s \in Seq(Items), NEW a \in Items
  PROVE  Questions(s \o <<a>>) = Questions(s) + IF IsCheck(a) THEN 1 ELSE 0
<1> DEFINE t == s \o <<a>>
           n == Len(s)
<1>1. /\ n \in Nat /\ DOMAIN s = 1 .. n /\ DOMAIN t = 1 .. n + 1
      /\ \A i \in 1 .. n : t[i] = s[i]
      /\ t[n + 1] = a
  BY WrittenOne
<1>2. IsFiniteSet(Checks(s)) /\ Questions(s) \in Nat /\ n + 1 \notin Checks(s)
  BY <1>1, ChecksFinite
<1> HIDE DEF t, n
<1>3. Checks(t) = IF IsCheck(a) THEN Checks(s) \cup {n + 1} ELSE Checks(s)
  <2>1. ASSUME NEW i \in 1 .. n PROVE i \in Checks(t) <=> i \in Checks(s)
    BY <1>1 DEF Checks
  <2>2. n + 1 \in Checks(t) <=> IsCheck(a)
    BY <1>1 DEF Checks, IsCheck
  <2>3. Checks(s) \subseteq 1 .. n /\ Checks(t) \subseteq 1 .. n + 1
    BY <1>1 DEF Checks
  <2>4. 1 .. n + 1 = 1 .. n \cup {n + 1}
    BY <1>1
  <2>5. CASE IsCheck(a)
    BY <2>1, <2>2, <2>3, <2>4, <2>5
  <2>6. CASE ~IsCheck(a)
    BY <2>1, <2>2, <2>3, <2>4, <2>6, SMTT(30)
  <2> QED
    BY <2>5, <2>6
<1>4. Cardinality(Checks(s) \cup {n + 1}) = Cardinality(Checks(s)) + 1
  BY <1>2, FS_AddElement
<1> QED
  BY <1>2, <1>3, <1>4 DEF Questions, t

\* Words that are no question add none.
LEMMA OtherWordsWritten ==
  ASSUME NEW s \in Seq(Items), NEW items \in Seq(Items),
         \A k \in 1 .. Len(items) : ~IsCheck(items[k])
  PROVE  Questions(s \o items) = Questions(s)
<1> DEFINE t == s \o items
           n == Len(s)
<1>1. /\ n \in Nat /\ Len(items) \in Nat /\ DOMAIN s = 1 .. n /\ DOMAIN t = 1 .. n + Len(items)
      /\ \A i \in 1 .. n : t[i] = s[i]
      /\ \A k \in 1 .. Len(items) : t[n + k] = items[k]
  BY WrittenItems
<1> HIDE DEF t, n
<1>2. ASSUME NEW i \in DOMAIN t PROVE i \in Checks(t) <=> i \in Checks(s)
  <2>1. CASE i \in 1 .. n
    BY <1>1, <2>1 DEF Checks
  <2>2. CASE i \notin 1 .. n
    <3>1. i - n \in 1 .. Len(items) /\ n + (i - n) = i
      BY <1>1, <2>2
    <3>2. ~IsCheck(t[i])
      BY <1>1, <3>1
    <3> QED
      BY <1>1, <2>2, <3>2 DEF Checks, IsCheck
  <2> QED
    BY <2>1, <2>2
<1>3. Checks(t) \subseteq DOMAIN t /\ Checks(s) \subseteq DOMAIN t
  BY <1>1 DEF Checks
<1>4. Checks(t) = Checks(s)
  BY <1>2, <1>3
<1> QED
  BY <1>4 DEF Questions, t

\* The replies that are there or will be beyond those the master waits for.
Beyond ==
  Len(toMaster) + Questions(toSlave) + (IF spc = "shake" THEN 2 ELSE 0)
    - (IF spc = "shaking" /\ toSlave # <<>> THEN 1 ELSE 0) - Waiting

\* While the two shake hands there is nothing else on the connection.
Shaking ==
  conn = "open" =>
    /\ mpc = "shake" => toSlave = <<>> /\ spc \in {"shake", "shaking"}
    /\ spc = "shake" => mpc = "shake" /\ toMaster = <<>>
MatchInv == RepliesMatchChecks /\ Shaking

\* RepliesMatchChecks in terms of Beyond.
LEMMA BeyondType ==
  ASSUME TInv
  PROVE  /\ Beyond \in Int /\ Len(toMaster) \in Nat /\ Questions(toSlave) \in Nat
         /\ RepliesMatchChecks <=> (conn = "open" => Beyond \in 0 .. IF shake THEN 1 ELSE 0)
<1>1. Len(toMaster) \in Nat /\ Questions(toSlave) \in Nat
  BY LenProperties, ChecksFinite DEF TInv, TypeOK
<1>2. Unanswered = Questions(toSlave) + (IF spc = "shake" THEN 2 ELSE 0)
                     - (IF spc = "shaking" /\ toSlave # <<>> THEN 1 ELSE 0)
  BY DEF Unanswered, Questions, Checks
<1>3. Waiting \in {0, 1}
  BY DEF Waiting
<1>4. shake \in BOOLEAN
  BY DEF TInv, TypeOK
<1> QED
  BY <1>1, <1>2, <1>3, <1>4 DEF RepliesMatchChecks, Beyond

Balanced == conn = "open" => Beyond \in 0 .. IF shake THEN 1 ELSE 0
LEMMA MatchIsBalance == TInv => (RepliesMatchChecks <=> Balanced)
BY BeyondType DEF Balanced

\* A step that leaves the balance as it is.
LEMMA BalanceKept ==
  ASSUME TInv, TInv', RepliesMatchChecks, conn' = "open" => conn = "open", shake' = shake,
         conn = "open" /\ conn' = "open" => Beyond' = Beyond
  PROVE  RepliesMatchChecks'
<1>1. TInv' => (RepliesMatchChecks' <=> Balanced')
  BY MatchIsBalance, PTL
<1>2. Balanced'
  BY MatchIsBalance DEF Balanced
<1> QED
  BY <1>1, <1>2

\* A write of the master: one question for each reply that it is going to wait for.
LEMMA WriteKeepsMatch ==
  ASSUME TInv, TInv', MatchInv, NEW items \in Seq(Items), items # <<>>,
         NEW next \in {"idle", "ping", "reply"}, MasterWrites(items, next),
         UNCHANGED <<conn, spc, shake>>,
         mpc \in {"shake", "reply"} =>
           next = "idle" /\ (conn = "open" => toMaster # <<>> /\ toMaster' = Tail(toMaster)),
         mpc \notin {"shake", "reply"} => mpc = "idle" /\ toMaster' = toMaster,
         Questions(toSlave \o items)
           = Questions(toSlave) + IF mpc = "shake" \/ next = "reply" THEN 1 ELSE 0
  PROVE  MatchInv'
<1>1. /\ toSlave \in Seq(Items) /\ toMaster \in Seq(Nat)
      /\ Len(toMaster) \in Nat /\ Questions(toSlave) \in Nat
      /\ RepliesMatchChecks /\ Shaking
  BY BeyondType DEF TInv, TypeOK, MatchInv
<1>2. CASE conn = "open"
  <2>1. toSlave' = toSlave \o items /\ mpc' = next
    BY <1>2 DEF MasterWrites
  <2>2. toSlave' # <<>>
    BY <1>1, <2>1
  <2>3. spc # "shake"
    <3>1. mpc = "shake" => toMaster # <<>>
      BY <1>2
    <3> QED
      BY <3>1, <1>1, <1>2 DEF Shaking
  <2>4. Shaking'
    BY <2>1, <2>3 DEF Shaking
  <2>5. Len(toMaster') = Len(toMaster) - IF mpc \in {"shake", "reply"} THEN 1 ELSE 0
    <3>1. CASE mpc \in {"shake", "reply"}
      BY <1>1, <1>2, <3>1, HeadTailProperties
    <3>2. CASE mpc \notin {"shake", "reply"}
      BY <1>1, <3>2
    <3> QED
      BY <3>1, <3>2
  <2>6. Beyond' = Beyond
    <3> DEFINE old == Questions(toSlave)
               new == Questions(toSlave')
               more == Len(toMaster')
               less == Len(toMaster)
    <3>1. new = old + IF mpc = "shake" \/ next = "reply" THEN 1 ELSE 0
      BY <2>1
    <3>2. /\ Waiting = IF mpc \in {"shake", "reply"} THEN 1 ELSE 0
          /\ Waiting' = IF next = "reply" THEN 1 ELSE 0
      BY <2>1 DEF Waiting
    <3>3. toSlave = <<>> /\ spc = "shaking" => mpc = "shake"
      BY DEF TInv, Sides
    <3>4. mpc = "shake" => toSlave = <<>> /\ spc = "shaking"
      BY <1>1, <1>2, <2>3 DEF Shaking
    <3>5. Beyond = less + old - (IF spc = "shaking" /\ toSlave # <<>> THEN 1 ELSE 0) - Waiting
      BY <2>3, <1>1, <3>2, SMTT(30) DEF Beyond
    <3>6. Beyond' = more + new - (IF spc = "shaking" THEN 1 ELSE 0) - Waiting'
      <4>1. Beyond' = more + new + (IF spc' = "shake" THEN 2 ELSE 0)
                        - (IF spc' = "shaking" /\ toSlave' # <<>> THEN 1 ELSE 0) - Waiting'
        BY DEF Beyond
      <4>2. more \in Int /\ new \in Int /\ Waiting' \in Int
        BY <1>1, <2>5, <3>1, <3>2
      <4>3. spc' # "shake" /\ (spc' = "shaking" <=> spc = "shaking")
        BY <2>3
      <4> HIDE DEF more, new
      <4> QED
        BY <2>2, <4>1, <4>2, <4>3
    <3>7. old \in Nat /\ less \in Nat
          /\ more = less - IF mpc \in {"shake", "reply"} THEN 1 ELSE 0
      BY <1>1, <2>5
    <3> HIDE DEF old, new, more, less
    <3> QED
      BY <3>1, <3>2, <3>3, <3>4, <3>5, <3>6, <3>7
  <2> QED
    BY <2>4, <2>6, <1>1, <1>2, BalanceKept DEF MatchInv
<1>3. CASE conn # "open"
  BY <1>3 DEF MatchInv, RepliesMatchChecks, Shaking
<1> QED
  BY <1>2, <1>3

\* The master's calls ask one question for each reply they wait for.
LEMMA MasterKeepsMatch ==
  ASSUME TInv, TInv', MatchInv, Connect \/ Master \/ SendPing \/ SendCheck \/ DisconnectToSlave
  PROVE  MatchInv'
<1>1. /\ toSlave \in Seq(Items) /\ toMaster \in Seq(Nat) /\ moff \in Nat /\ shake \in BOOLEAN
      /\ Len(toMaster) \in Nat /\ Questions(toSlave) \in Nat
      /\ RepliesMatchChecks /\ Shaking
  BY BeyondType, ReplicationAssumption DEF TInv, TypeOK, MatchInv
<1>2. Pack("check", moff) \in Items /\ IsCheck(Pack("check", moff))
  BY <1>1, ItemTypes DEF Pack, IsCheck
<1>3. CASE Connect
  <2>1. toSlave = <<>> /\ toMaster = <<>>
    BY <1>3 DEF Connect, TInv, Sides
  <2>2. /\ toSlave' = <<>> /\ toMaster' = <<>> /\ shake' = shake
        /\ mpc' = IF shake THEN "shake" ELSE "idle"
        /\ spc' = IF shake THEN "shake" ELSE "idle"
    BY <1>3, <2>1 DEF Connect
  <2>3. Questions(<<>>) = 0
    <3>1. Checks(<<>>) = {}
      BY DEF Checks
    <3> QED
      BY <3>1, FS_EmptySet DEF Questions
  <2>4. Waiting' = IF shake THEN 1 ELSE 0
    BY <2>2 DEF Waiting
  <2>5. Beyond' = IF shake THEN 1 ELSE 0
    BY <1>1, <2>2, <2>3, <2>4 DEF Beyond
  <2>6. Balanced'
    BY <1>1, <2>2, <2>5 DEF Balanced
  <2>7. TInv' => (RepliesMatchChecks' <=> Balanced')
    BY MatchIsBalance, PTL
  <2>8. Shaking'
    BY <2>2 DEF Shaking
  <2> QED
    BY <2>6, <2>7, <2>8 DEF MatchInv
<1>4. CASE ShakeHandWithSlave
  <2>1. PICK items \in Seq(Items) : items = <<Pack("check", moff)>>
    BY <1>1, ItemTypes
  <2>2. PICK reply \in Replies : ReadReply(reply)
    BY <1>4 DEF ShakeHandWithSlave
  <2>3. conn = "open" => toMaster # <<>> /\ toMaster' = Tail(toMaster)
    BY <2>2 DEF ReadReply
  <2>4. /\ MasterWrites(items, "idle") /\ mpc = "shake" /\ UNCHANGED <<conn, spc, shake>>
        /\ items # <<>>
    BY <1>4, <2>1 DEF ShakeHandWithSlave
  <2>5. Questions(toSlave \o items) = Questions(toSlave) + 1
    BY <1>1, <1>2, <2>1, ChecksWritten
  <2> QED
    BY <2>3, <2>4, <2>5, WriteKeepsMatch
<1>5. CASE ReadPong
  <2>1. /\ mpc = "ping" /\ mpc' = "idle" /\ toMaster' = <<>>
        /\ UNCHANGED <<conn, toSlave, spc, shake>>
    BY <1>5 DEF ReadPong
  <2>2. CASE conn = "open"
    <3>1. spc # "shake"
      BY <1>1, <2>1, <2>2 DEF Shaking
    <3>2. Waiting = 0 /\ Waiting' = 0
      BY <2>1 DEF Waiting
    <3>3. spc = "shaking" /\ toSlave # <<>> => Questions(toSlave) >= 1
      <4>1. ASSUME spc = "shaking", toSlave # <<>> PROVE Questions(toSlave) >= 1
        <5>1. IsCheck(toSlave[1]) /\ Head(toSlave) = toSlave[1] /\ Tail(toSlave) \in Seq(Items)
          BY <4>1, <1>1, TailItems DEF TInv, Sides, HasStatus, IsCheck
        <5>2. Questions(toSlave) = Questions(Tail(toSlave)) + 1
          BY <4>1, <5>1, <1>1, ChecksTail
        <5>3. Questions(Tail(toSlave)) \in Nat
          BY <5>1, ChecksFinite
        <5> QED
          BY <5>2, <5>3
      <4> QED
        BY <4>1
    <3>4. /\ Beyond = Len(toMaster) + Questions(toSlave)
                        - (IF spc = "shaking" /\ toSlave # <<>> THEN 1 ELSE 0)
          /\ Beyond' = Questions(toSlave)
                        - (IF spc = "shaking" /\ toSlave # <<>> THEN 1 ELSE 0)
      BY <1>1, <2>1, <3>1, <3>2 DEF Beyond
    <3>5. Beyond \in 0 .. IF shake THEN 1 ELSE 0
      BY <1>1, <2>2, BeyondType
    <3>6. Balanced'
      BY <1>1, <2>1, <3>3, <3>4, <3>5 DEF Balanced
    <3>7. TInv' => (RepliesMatchChecks' <=> Balanced')
      BY MatchIsBalance, PTL
    <3>8. Shaking'
      BY <2>1, <3>1 DEF Shaking
    <3> QED
      BY <3>6, <3>7, <3>8 DEF MatchInv
  <2>3. CASE conn # "open"
    BY <2>1, <2>3 DEF MatchInv, RepliesMatchChecks, Shaking
  <2> QED
    BY <2>2, <2>3
<1>6. CASE ReadSlaveConn
  <2>1. PICK offset \in Replies :
          ReadReply(offset) /\ (NoSync(offset) \/ FullSync(offset) \/ IncrSync(offset))
    BY <1>6 DEF ReadSlaveConn
  <2>2. mpc = "reply" /\ UNCHANGED <<conn, soff, spc, shake>>
    BY <1>6 DEF ReadSlaveConn
  <2>3. conn = "open" => toMaster # <<>> /\ toMaster' = Tail(toMaster)
    BY <2>1 DEF ReadReply
  <2>4. CASE NoSync(offset)
    <3>1. mpc' = "idle" /\ toSlave' = toSlave
      BY <2>4 DEF NoSync
    <3>2. CASE conn = "open"
      <4>1. spc # "shake"
        BY <1>1, <2>2, <3>2 DEF Shaking
      <4>2. Len(toMaster') = Len(toMaster) - 1
        BY <1>1, <2>3, <3>2, HeadTailProperties
      <4>3. Waiting = 1 /\ Waiting' = 0
        BY <2>2, <3>1 DEF Waiting
      <4>4. Beyond' = Beyond
        BY <1>1, <2>2, <3>1, <4>1, <4>2, <4>3 DEF Beyond
      <4>5. Shaking'
        BY <2>2, <3>1, <4>1 DEF Shaking
      <4> QED
        BY <1>1, <2>2, <4>4, <4>5, BalanceKept DEF MatchInv
    <3>3. CASE conn # "open"
      BY <2>2, <3>3 DEF MatchInv, RepliesMatchChecks, Shaking
    <3> QED
      BY <3>2, <3>3
  <2>5. CASE FullSync(offset)
    <3>1. PICK items \in Seq(Items) : items = <<Pack("full", moff)>>
      BY <1>1, ItemTypes
    <3>2. MasterWrites(items, "idle") /\ items # <<>>
      BY <2>5, <3>1 DEF FullSync
    <3>3. \A k \in 1 .. Len(items) : ~IsCheck(items[k])
      BY <3>1 DEF IsCheck, Pack
    <3>4. Questions(toSlave \o items) = Questions(toSlave)
      BY <1>1, <3>3, OtherWordsWritten
    <3> QED
      BY <1>1, <2>2, <2>3, <3>2, <3>4, WriteKeepsMatch
  <2>6. CASE IncrSync(offset)
    <3>1. offset \in Nat /\ SendLen(offset) \in Nat
      BY <1>1, <2>1, ReadReplyType, ReplicationAssumption DEF SendLen
    <3>2. PICK items \in Seq(Items) :
            items = <<Pack("incr", moff), Word("count", SendLen(offset)), Word("data", offset)>>
      BY <1>1, <3>1, ItemTypes
    <3>3. MasterWrites(items, "idle") /\ items # <<>>
      BY <2>6, <3>2 DEF IncrSync
    <3>4. \A k \in 1 .. Len(items) : ~IsCheck(items[k])
      BY <3>2 DEF IsCheck, Pack, Word
    <3>5. Questions(toSlave \o items) = Questions(toSlave)
      BY <1>1, <3>4, OtherWordsWritten
    <3> QED
      BY <1>1, <2>2, <2>3, <3>3, <3>5, WriteKeepsMatch
  <2> QED
    BY <2>1, <2>4, <2>5, <2>6
<1>7. CASE SendPing
  <2>1. PICK items \in Seq(Items) : items = <<Word("ping", 0)>>
    BY ItemTypes
  <2>2. /\ MasterWrites(items, "ping") /\ items # <<>> /\ mpc = "idle" /\ toMaster' = toMaster
        /\ UNCHANGED <<conn, spc, shake>>
    BY <1>7, <2>1 DEF SendPing
  <2>3. \A k \in 1 .. Len(items) : ~IsCheck(items[k])
    BY <2>1 DEF IsCheck, Word
  <2>4. Questions(toSlave \o items) = Questions(toSlave)
    BY <1>1, <2>3, OtherWordsWritten
  <2> QED
    BY <1>1, <2>2, <2>4, WriteKeepsMatch
<1>8. CASE SendCheck
  <2>1. PICK items \in Seq(Items) : items = <<Pack("check", moff)>>
    BY <1>1, ItemTypes
  <2>2. /\ MasterWrites(items, "reply") /\ items # <<>> /\ mpc = "idle" /\ toMaster' = toMaster
        /\ UNCHANGED <<conn, spc, shake>>
    BY <1>8, <2>1 DEF SendCheck
  <2>3. Questions(toSlave \o items) = Questions(toSlave) + 1
    BY <1>1, <1>2, <2>1, ChecksWritten
  <2> QED
    BY <2>2, <2>3, WriteKeepsMatch
<1>9. CASE DisconnectToSlave
  BY <1>9 DEF DisconnectToSlave, MatchInv, RepliesMatchChecks, Shaking
<1> QED
  BY <1>3, <1>4, <1>5, <1>6, <1>7, <1>8, <1>9 DEF Master

\* The thread that sends the file asks nothing.
LEMMA SendFileKeepsMatch ==
  ASSUME TInv, TInv', MatchInv, SendFile
  PROVE  MatchInv'
<1>1. /\ toSlave \in Seq(Items) /\ toMaster \in Seq(Nat) /\ files \in Seq(FileStates)
      /\ Len(toMaster) \in Nat /\ Questions(toSlave) \in Nat
      /\ RepliesMatchChecks /\ Shaking
  BY BeyondType DEF TInv, TypeOK, MatchInv, FileStates
<1>2. PICK i \in DOMAIN files :
        \/ /\ conn # "slave" /\ UNCHANGED mpc
           /\ toSlave' = IF conn = "open" THEN Append(toSlave, FilePart(files[i])) ELSE toSlave
        \/ conn = "slave" /\ UNCHANGED toSlave /\ mpc' \in {mpc, "dead"}
  BY DEF SendFile
<1>3. UNCHANGED <<conn, spc, toMaster, shake>>
  BY DEF SendFile
<1>4. CASE conn = "open"
  <2>1. files[i] \in FileStates /\ files # <<>>
    <3>1. files # <<>> /\ DOMAIN files = 1 .. Len(files)
      BY <1>1, <1>2, LenProperties, EmptySeq
    <3>2. files[i] \in FileStates
      BY <1>1, <1>2, <3>1, ElementOfSeq
    <3> QED
      BY <3>1, <3>2
  <2>2. PICK a \in Items : a = FilePart(files[i])
    BY <2>1, FilePartType
  <2>3. toSlave' = toSlave \o <<a>> /\ mpc' = mpc /\ toSlave' # <<>>
    <3>1. toSlave' = Append(toSlave, a) /\ mpc' = mpc
      BY <1>2, <1>4, <2>2
    <3>2. Append(toSlave, a) = toSlave \o <<a>>
      BY <1>1, AppendIsConcat
    <3>3. toSlave \o <<a>> # <<>>
      BY <1>1, WrittenOne
    <3> QED
      BY <3>1, <3>2, <3>3
  <2>4. ~IsCheck(a)
    BY <2>1, <2>2, FilePartType DEF IsCheck
  <2>5. Questions(toSlave') = Questions(toSlave)
    <3>1. Questions(toSlave \o <<a>>) = Questions(toSlave) + 0
      BY <1>1, <2>4, ChecksWritten
    <3> QED
      BY <1>1, <2>3, <3>1
  <2>6. mpc # "shake"
    BY <2>1 DEF TInv, Sides
  <2>7. toSlave = <<>> => spc # "shaking"
    BY <2>6 DEF TInv, Sides
  <2>8. spc # "shake"
    BY <1>1, <1>4, <2>6 DEF Shaking
  <2>9. Waiting' = Waiting /\ Waiting \in Int
    BY <2>3 DEF Waiting
  <2>10. Beyond' = Beyond
    <3>1. spc = "shaking" => toSlave # <<>> /\ toSlave' # <<>>
      BY <2>3, <2>7
    <3> QED
      BY <1>1, <1>3, <2>5, <2>8, <2>9, <3>1 DEF Beyond
  <2>11. Shaking'
    BY <1>3, <2>3, <2>6, <2>8 DEF Shaking
  <2> QED
    BY <1>1, <1>3, <2>10, <2>11, BalanceKept DEF MatchInv
<1>5. CASE conn # "open"
  BY <1>3, <1>5 DEF MatchInv, RepliesMatchChecks, Shaking
<1> QED
  BY <1>4, <1>5

\* What the slave reads, and the answers it writes, one for each question.
LEMMA ReadKeepsMatch ==
  ASSUME TInv, TInv', MatchInv, mpc' = mpc, shake' = shake, conn' = conn, conn = "open",
         Questions(toSlave') \in Nat,
         spc \notin {"shake", "shaking"}, spc' \notin {"shake", "shaking"},
         Len(toMaster') + Questions(toSlave') = Len(toMaster) + Questions(toSlave)
  PROVE  MatchInv'
<1>1. /\ Len(toMaster) \in Nat /\ Questions(toSlave) \in Nat /\ Len(toMaster') \in Nat
      /\ RepliesMatchChecks /\ Shaking
  <2>1. toMaster' \in Seq(Nat)
    BY DEF TInv, TypeOK
  <2> QED
    BY <2>1, LenProperties, BeyondType DEF MatchInv
<1>2. Waiting' = Waiting /\ Waiting \in Int
  BY DEF Waiting
<1>3. Beyond' = Beyond
  BY <1>1, <1>2 DEF Beyond
<1>4. mpc # "shake"
  BY <1>1 DEF Shaking
<1>5. Shaking'
  BY <1>4 DEF Shaking
<1> QED
  BY <1>1, <1>3, <1>5, BalanceKept DEF MatchInv

\* The slave's calls.
LEMMA SlaveKeepsMatch ==
  ASSUME TInv, TInv', MatchInv, Slave \/ BeginSync \/ DisconnectToMaster
  PROVE  MatchInv'
<1>1. /\ toSlave \in Seq(Items) /\ toMaster \in Seq(Nat) /\ soff \in Nat
      /\ toSlave' \in Seq(Items) /\ toMaster' \in Seq(Nat)
      /\ Len(toMaster) \in Nat /\ Questions(toSlave) \in Nat
      /\ Len(toMaster') \in Nat /\ Questions(toSlave') \in Nat
      /\ RepliesMatchChecks /\ Shaking
  <2>1. toSlave' \in Seq(Items) /\ toMaster' \in Seq(Nat)
    BY DEF TInv, TypeOK
  <2> QED
    BY <2>1, LenProperties, ChecksFinite, BeyondType DEF TInv, TypeOK, MatchInv
<1>2. shake' = shake /\ mpc' = mpc /\ (conn' = "open" => conn = "open")
  BY RecvFileLeaves
     DEF Slave, DisconnectToMaster, ShakeHandWithMaster, ReadShake, SyncWithMaster, ReadEnd, BeginSync,
         AnswerCheck, BeginFull, ExecuteIncr, IgnorePing, Misread
<1>3. CASE conn' # "open"
  BY <1>3 DEF MatchInv, RepliesMatchChecks, Shaking
<1>4. CASE conn' = "open"
  <2>1. conn = "open" /\ conn' = conn
    BY <1>2, <1>4
  <2>2. CASE ShakeHandWithMaster
    <3>1. /\ spc = "shake" /\ spc' = "shaking" /\ toSlave' = toSlave
          /\ toMaster' = toMaster \o <<soff, soff>>
      BY <2>1, <2>2 DEF ShakeHandWithMaster, SlaveWrites
    <3>2. toSlave = <<>> /\ toMaster = <<>> /\ mpc = "shake"
      BY <1>1, <2>1, <3>1 DEF Shaking
    <3>3. Len(toMaster) = 0 /\ Len(toMaster') = 2
      BY <3>1, <3>2
    <3>4. Waiting = 1 /\ Waiting' = 1
      BY <1>2, <3>2 DEF Waiting
    <3>5. Beyond' = Beyond
      BY <1>1, <3>1, <3>2, <3>3, <3>4 DEF Beyond
    <3>6. Shaking'
      BY <3>1, <3>2 DEF Shaking
    <3> QED
      BY <1>1, <1>2, <3>5, <3>6, BalanceKept DEF MatchInv
  <2>3. CASE ReadShake
    <3>1. /\ spc = "shaking" /\ spc' = "idle" /\ toMaster' = toMaster
          /\ toSlave # <<>> /\ toSlave' = Tail(toSlave)
      BY <2>1, <2>3 DEF ReadShake
    <3>2. IsCheck(Head(toSlave)) /\ mpc # "shake"
      BY <1>1, <2>1, <3>1, TailItems DEF TInv, Sides, HasStatus, IsCheck, Shaking
    <3>3. Questions(toSlave) = Questions(toSlave') + 1
      BY <1>1, <3>1, <3>2, ChecksTail
    <3>4. Waiting' = Waiting /\ Waiting \in Int
      BY <1>2 DEF Waiting
    <3>5. Beyond' = Beyond
      BY <1>1, <3>1, <3>3, <3>4 DEF Beyond
    <3>6. Shaking'
      BY <1>2, <3>1, <3>2 DEF Shaking
    <3> QED
      BY <1>1, <1>2, <3>5, <3>6, BalanceKept DEF MatchInv
  <2>4. CASE SyncWithMaster
    <3> DEFINE pack == Head(toSlave)
    <3>1. spc = "pack" /\ toSlave # <<>>
      BY <2>4 DEF SyncWithMaster
    <3>2. Questions(toSlave) = Questions(Tail(toSlave)) + IF IsCheck(pack) THEN 1 ELSE 0
      BY <1>1, <3>1, ChecksTail
    <3>3. pack = toSlave[1] /\ Tail(toSlave) \in Seq(Items) /\ Questions(Tail(toSlave)) \in Nat
      BY <1>1, <3>1, TailItems, ChecksFinite
    <3> HIDE DEF pack
    <3>4. spc' \notin {"shake", "shaking"}
      BY <2>4, <3>1 DEF SyncWithMaster, AnswerCheck, BeginFull, ExecuteIncr, IgnorePing, Misread
    <3>5. CASE AnswerCheck(pack)
      <4>1. toMaster' = toMaster \o <<soff>> /\ toSlave' = Tail(toSlave) /\ IsCheck(pack)
        BY <2>1, <3>5 DEF AnswerCheck, ReplyTo, SlaveWrites, IsCheck
      <4>2. Len(toMaster') = Len(toMaster) + 1
        BY <1>1, <4>1, WrittenOne
      <4>3. Len(toMaster') + Questions(toSlave') = Len(toMaster) + Questions(toSlave)
        BY <1>1, <3>2, <3>3, <4>1, <4>2
      <4> QED
        BY <1>1, <1>2, <2>1, <3>1, <3>4, <4>3, ReadKeepsMatch
    <3>6. CASE BeginFull(pack)
      <4>1. toMaster' = toMaster /\ toSlave' = Tail(toSlave) /\ ~IsCheck(pack)
        BY <3>6 DEF BeginFull, IsCheck
      <4>2. Len(toMaster') + Questions(toSlave') = Len(toMaster) + Questions(toSlave)
        BY <1>1, <3>2, <3>3, <4>1
      <4> QED
        BY <1>1, <1>2, <2>1, <3>1, <3>4, <4>2, ReadKeepsMatch
    <3>7. CASE ExecuteIncr(pack)
      <4>1. /\ toMaster' = toMaster /\ toSlave' = SubSeq(toSlave, 4, Len(toSlave))
            /\ HasStatus(1, "incr")
        BY <3>3, <3>7 DEF ExecuteIncr, HasStatus
      <4>2. Questions(toSlave') = Questions(toSlave)
        <5>1. /\ Taken(3) /\ toSlave[2].kind = "count" /\ toSlave[3].kind = "data"
          BY <3>1, <4>1, IncrIsHere
        <5>2. \A j \in 1 .. 3 : ~IsCheck(toSlave[j])
          <6>1. \A j \in 1 .. 3 : j = 1 \/ j = 2 \/ j = 3
            OBVIOUS
          <6> QED
            BY <4>1, <5>1, <6>1 DEF IsCheck, HasStatus
        <5> QED
          BY <5>1, <5>2, TakenAsksNothing
      <4>3. Len(toMaster') + Questions(toSlave') = Len(toMaster) + Questions(toSlave)
        BY <4>1, <4>2
      <4> QED
        BY <1>1, <1>2, <2>1, <3>1, <3>4, <4>3, ReadKeepsMatch
    <3>8. CASE IgnorePing(pack)
      <4>1. toMaster' = toMaster /\ ~IsCheck(pack)
        BY <3>8 DEF IgnorePing, IsCheck
      <4>2. Len(toSlave) = 1 /\ toSlave' = <<>>
        BY <3>8 DEF IgnorePing
      <4>3. toSlave' = Tail(toSlave)
        <5>1. Tail(toSlave) \in Seq(Items) /\ Len(Tail(toSlave)) = Len(toSlave) - 1
          BY <1>1, <3>1, HeadTailProperties
        <5>2. Len(Tail(toSlave)) = 0
          BY <4>2, <5>1
        <5>3. Tail(toSlave) = <<>>
          BY <5>1, <5>2, EmptySeq
        <5> QED
          BY <4>2, <5>3
      <4>4. Questions(toSlave') = Questions(toSlave)
        BY <1>1, <3>2, <4>1, <4>3
      <4>5. Len(toMaster') + Questions(toSlave') = Len(toMaster) + Questions(toSlave)
        BY <4>1, <4>4
      <4> QED
        BY <1>1, <1>2, <2>1, <3>1, <3>4, <4>5, ReadKeepsMatch
    <3>9. CASE Misread
      <4>1. toMaster' = toMaster /\ toSlave' = toSlave
        BY <3>9 DEF Misread
      <4> QED
        BY <1>1, <1>2, <2>1, <3>1, <3>4, <4>1, ReadKeepsMatch
    <3> QED
      BY <2>4, <3>5, <3>6, <3>7, <3>8, <3>9 DEF SyncWithMaster, pack
  <2>5. CASE RecvFile
    <3>1. /\ spc \in {"len", "content"} /\ spc' \in {"idle", "content", "lost"}
          /\ toMaster' = toMaster
      BY <2>5, RecvFileLeaves
    <3>2. ASSUME NEW d \in Nat, OfFile(d) PROVE Questions(toSlave') = Questions(toSlave)
      BY <3>2, TakenAsksNothing DEF OfFile, IsCheck
    <3>3. Questions(toSlave') = Questions(toSlave)
      BY <2>5, <3>2, RecvFileTakes
    <3>4. Len(toMaster') + Questions(toSlave') = Len(toMaster) + Questions(toSlave)
      BY <3>1, <3>3
    <3> QED
      BY <1>1, <1>2, <2>1, <3>1, <3>4, ReadKeepsMatch
  <2>6. ~DisconnectToMaster
    BY <1>4 DEF DisconnectToMaster
  <2>7. CASE ReadEnd \/ BeginSync
    <3>1. /\ spc \notin {"shake", "shaking"} /\ spc' \notin {"shake", "shaking"}
          /\ toMaster' = toMaster /\ toSlave' = toSlave
      BY <2>7 DEF ReadEnd, BeginSync
    <3> QED
      BY <1>1, <1>2, <2>1, <3>1, ReadKeepsMatch
  <2> QED
    BY <2>2, <2>3, <2>4, <2>5, <2>6, <2>7 DEF Slave
<1> QED
  BY <1>3, <1>4

(***************************************************************************)
(* The slave answers every question once, also while files are sent and    *)
(* pings take replies for their own: for all offsets and any number of     *)
(* files there is a reply that nobody waits for only after a handshake,    *)
(* which writes one twice, and then there is only that one.                *)
(***************************************************************************)
THEOREM QuestionsAreAnsweredOnce == Spec => []RepliesMatchChecks
<1>1. Init => MatchInv
  BY DEF Init, MatchInv, RepliesMatchChecks, Shaking
<1>2. TInv /\ TInv' /\ MatchInv /\ [Next]_vars => MatchInv'
  <2> SUFFICES ASSUME TInv, TInv', MatchInv, [Next]_vars PROVE MatchInv'
    OBVIOUS
  <2>1. CASE Connect \/ Master \/ SendPing \/ SendCheck \/ DisconnectToSlave
    BY <2>1, MasterKeepsMatch
  <2>2. CASE SendFile
    BY <2>2, SendFileKeepsMatch
  <2>3. CASE Slave \/ BeginSync \/ DisconnectToMaster
    BY <2>3, SlaveKeepsMatch
  <2>4. CASE UNCHANGED vars
    BY <2>4 DEF vars, MatchInv, RepliesMatchChecks, Unanswered, Waiting, Shaking
  <2> QED
    BY <2>1, <2>2, <2>3, <2>4 DEF Next
<1>3. MatchInv => RepliesMatchChecks
  BY DEF MatchInv
<1> QED
  BY <1>1, <1>2, <1>3, AlwaysTInv, PTL DEF Spec
===============================================================================
