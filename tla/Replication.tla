------------------------------ MODULE Replication ------------------------------
(***************************************************************************)
(* Master and slave of replication.cpp on their one connection.            *)
(*                                                                         *)
(* The master's syncWithSlave asks the slave for its offset and, if it is  *)
(* not the master's own, sends a file (by a thread nobody waits for) or a  *)
(* piece of the command buffer.  The slave's syncWithMaster answers one    *)
(* pack a call.  Both sides read the stream by sizes they expect; a word   *)
(* that is not what is expected there is taken for it all the same.        *)
(***************************************************************************)
EXTENDS Integers, SequencesExt

CONSTANTS
  MasterOffsets,   \* config.conn.offset as the caller sets it on the master
  SlaveOffsets,    \* ... and on the slave
  SizeMod,         \* modulus of size_t
  Dumps,           \* how many pieces the content of the file may come in, 0 for no file
  MaxThreads       \* bound of the model: file threads that have not ended

ASSUME ReplicationAssumption ==
  /\ SizeMod \in Nat \ {0} /\ MaxThreads \in Nat /\ Dumps \subseteq Nat
  /\ MasterOffsets \subseteq 0 .. SizeMod - 1
  /\ SlaveOffsets \subseteq 0 .. SizeMod - 1

VARIABLES
  conn,        \* "none", "open", or who closed it: "master", "slave"
  moff, soff,  \* config.conn.offset of master and slave
  mpc,         \* where the master's caller is
  spc,         \* where the slave's caller is
  files,       \* the threads that run sendFile, by the writes they still have to do
  toSlave,     \* what was written to the slave and not read
  toMaster,    \* the offsets of the packs on their way to the master
  sdb,         \* the slave's keys: those it came with, and the empty one
  shake,       \* whether the callers shake hands first
  dump,        \* the pieces of the file that dumpDir names: dump_file writes none
  early,       \* history: the master wrote before what it wrote last was complete or read
  short        \* history: a read of the file returned before all of it had come

vars == <<conn, moff, soff, mpc, spc, files, toSlave, toMaster, sdb, shake, dump, early, short>>

Own == "own"
EmptyKey == "empty"

\* The items of the stream to the slave.
Items == [kind : {"pack", "ping", "len", "content", "count", "data"},
          status : {"none", "check", "full", "incr"}, val : Nat]
Pack(status, offset) == [kind |-> "pack", status |-> status, val |-> offset]
Word(kind, n) == [kind |-> kind, status |-> "none", val |-> n]

REPL_COPY_BUFF == 1024
\* parseBinaryCmd of zeros: a SET of an empty key, and what getLenOfCmd says of it.
ParsedBytes == 20
LenOfCmd == 22

Init ==
  /\ conn = "none" /\ shake \in BOOLEAN /\ dump \in Dumps
  /\ moff \in MasterOffsets /\ soff \in SlaveOffsets
  /\ mpc = "start" /\ spc = "start"
  /\ files = <<>> /\ toSlave = <<>> /\ toMaster = <<>>
  /\ sdb = {Own} /\ early = FALSE /\ short = FALSE

\* socket, bind, listen and accept here, socket and connect there.
Connect ==
  /\ conn = "none" /\ conn' = "open"
  /\ mpc' = IF shake THEN "shake" ELSE "idle"
  /\ spc' = IF shake THEN "shake" ELSE "idle"
  /\ UNCHANGED <<moff, soff, files, toSlave, toMaster, sdb, shake, dump, early, short>>

-------------------------------------------------------------------------------
\* The master.

\* A write to a slave that left is lost, or its SIGPIPE ends the process.
MasterWrites(items, next) ==
  \/ /\ conn # "slave"
     /\ toSlave' = toSlave \o items /\ mpc' = next
  \/ /\ conn = "slave" /\ UNCHANGED toSlave
     /\ mpc' \in {next, "dead"}

\* The file thread has more to write, or a PING waits to be read as part of a pack.
Unfinished == files # <<>> \/ \E i \in DOMAIN toSlave : toSlave[i].kind = "ping"

\* The first pack to arrive; of a slave that left, one that was never filled.
ReadReply(reply) ==
  \/ toMaster # <<>> /\ reply = Head(toMaster) /\ toMaster' = Tail(toMaster)
  \/ conn = "slave" /\ reply = 0 /\ toMaster' = <<>>
Replies == {0} \cup {toMaster[i] : i \in DOMAIN toMaster}

ShakeHandWithSlave ==
  /\ mpc = "shake"
  /\ \E reply \in Replies : ReadReply(reply)
  /\ MasterWrites(<<Pack("check", moff)>>, "idle")
  /\ UNCHANGED <<conn, moff, soff, spc, files, sdb, shake, dump, early, short>>

\* slaveIsConnected: nobody answers a PING, but the read takes whatever comes.
SendPing ==
  /\ mpc = "idle" /\ conn # "master"
  /\ MasterWrites(<<Word("ping", 0)>>, "ping")
  /\ early' = (early \/ Unfinished)
  /\ UNCHANGED <<conn, moff, soff, spc, files, toMaster, sdb, shake, dump, short>>

ReadPong ==
  /\ mpc = "ping" /\ (toMaster # <<>> \/ conn = "slave")
  /\ mpc' = "idle" /\ toMaster' = <<>>
  /\ UNCHANGED <<conn, moff, soff, spc, files, toSlave, sdb, shake, dump, early, short>>

\* syncWithSlave up to its read.
SendCheck ==
  /\ mpc = "idle" /\ conn # "master" /\ Len(files) < MaxThreads
  /\ MasterWrites(<<Pack("check", moff)>>, "reply")
  /\ early' = (early \/ Unfinished)
  /\ UNCHANGED <<conn, moff, soff, spc, files, toMaster, sdb, shake, dump, short>>

\* Mutation of SendLen: as if size_t were signed.
SendLenSigned(offset) == moff - offset
SendLen(offset) == (moff - offset) % SizeMod

\* The rest of syncWithSlave, by the slave's offset.  start_index is 0 for ever:
\* nothing writes the command buffer.
NoSync(offset) ==
  /\ moff = offset /\ mpc' = "idle"
  /\ UNCHANGED <<moff, files, toSlave>>

\* The writes of sendFile: the length, and the content piece by piece, each with its
\* number from the end.
FileParts == dump + 1
\* Mutation of FilePart: the content first.
FilePartContentFirst(left) == IF left = 1 THEN Word("len", dump) ELSE Word("content", left - 1)
FilePart(left) == IF left = FileParts THEN Word("len", dump) ELSE Word("content", left)

FullSync(offset) ==
  /\ moff # offset /\ offset = 0
  /\ MasterWrites(<<Pack("full", moff)>>, "idle")
  /\ files' = IF mpc' = "dead" THEN <<>> ELSE Append(files, FileParts)
  /\ UNCHANGED moff

IncrSync(offset) ==
  /\ moff # offset /\ offset # 0
  /\ MasterWrites(<<Pack("incr", moff), Word("count", SendLen(offset)), Word("data", offset)>>, "idle")
  /\ moff' = (moff + SendLen(offset)) % SizeMod
  /\ UNCHANGED files

ReadSlaveConn ==
  /\ mpc = "reply"
  /\ \E offset \in Replies :
       /\ ReadReply(offset)
       /\ NoSync(offset) \/ FullSync(offset) \/ IncrSync(offset)
  /\ UNCHANGED <<conn, soff, spc, sdb, shake, dump, early, short>>

\* sendFile in a thread of its own, one write a step.
SendFile ==
  \E i \in DOMAIN files :
    /\ \/ /\ conn # "slave" /\ UNCHANGED mpc
          /\ toSlave' = IF conn = "open" THEN Append(toSlave, FilePart(files[i])) ELSE toSlave
       \/ conn = "slave" /\ UNCHANGED toSlave /\ mpc' \in {mpc, "dead"}
    /\ files' = IF mpc' = "dead" THEN <<>>
                ELSE IF files[i] = 1 THEN RemoveAt(files, i)
                ELSE [files EXCEPT ![i] = @ - 1]
    /\ UNCHANGED <<conn, moff, soff, spc, toMaster, sdb, shake, dump, early, short>>

DisconnectToSlave ==
  /\ mpc = "idle" /\ conn = "open" /\ conn' = "master"
  /\ UNCHANGED <<moff, soff, mpc, spc, files, toSlave, toMaster, sdb, shake, dump, early, short>>

-------------------------------------------------------------------------------
\* The slave.

SlaveWrites(offsets) ==
  toMaster' = IF conn = "open" THEN toMaster \o offsets ELSE toMaster

\* shakeHandWithMaster: sendToSlave, and then the same pack again, to the same
\* socket.
ShakeHandWithMaster ==
  /\ spc = "shake" /\ SlaveWrites(<<soff, soff>>) /\ spc' = "shaking"
  /\ UNCHANGED <<conn, moff, soff, mpc, files, toSlave, sdb, shake, dump, early, short>>

ReadShake ==
  /\ spc = "shaking"
  /\ \/ toSlave # <<>> /\ toSlave' = Tail(toSlave)
     \/ toSlave = <<>> /\ conn = "master" /\ UNCHANGED toSlave
  /\ spc' = "idle"
  /\ UNCHANGED <<conn, moff, soff, mpc, files, toMaster, sdb, shake, dump, early, short>>

\* The caller calls syncWithMaster, which reads a pack, does what it says and returns.
BeginSync ==
  /\ spc = "idle" /\ spc' = "pack"
  /\ UNCHANGED <<conn, moff, soff, mpc, files, toSlave, toMaster, sdb, shake, dump, early, short>>

\* Mutations of ReplyTo: the pack is sent back as it came; equal offsets need no answer.
ReplyToWithMasters(pack) == SlaveWrites(<<pack.val>>)
ReplyToDifferent(pack) == SlaveWrites(IF pack.val = soff THEN <<>> ELSE <<soff>>)
ReplyTo(pack) == SlaveWrites(<<soff>>)

AnswerCheck(pack) ==
  /\ pack.kind = "pack" /\ pack.status = "check"
  /\ ReplyTo(pack) /\ spc' = "idle"
  /\ toSlave' = Tail(toSlave) /\ UNCHANGED <<conn, soff, sdb>>

\* Mutation of OffsetAfterFull: what was received is counted instead.
OffsetAfterFullCounted(pack) == soff + 1
OffsetAfterFull(pack) == pack.val

BeginFull(pack) ==
  /\ pack.kind = "pack" /\ pack.status = "full"
  /\ soff' = OffsetAfterFull(pack) /\ spc' = "len"
  /\ toSlave' = Tail(toSlave) /\ UNCHANGED <<conn, toMaster, sdb>>

\* The bytes come from the zeroed command buffer, and the loop ends only when it
\* meets their end.  Bytes from behind the buffer, and a loop that steps over the
\* end, are undefined; a length that has wrapped cannot be allocated.  The offset does
\* not wrap: what is executed lies within the buffer.
ExecuteIncr(pack) ==
  /\ pack.kind = "pack" /\ pack.status = "incr"
  /\ LET len == toSlave[2].val
         from == toSlave[3].val
     IN  IF len >= SizeMod \div 2
         THEN spc' = "dead" /\ conn' = "slave" /\ UNCHANGED <<soff, sdb>>
         ELSE IF from + len > REPL_COPY_BUFF \/ len % ParsedBytes # 0
         THEN spc' = "undefined" /\ UNCHANGED <<conn, soff, sdb>>
         ELSE /\ soff' = soff + (len \div ParsedBytes) * LenOfCmd
              /\ sdb' = sdb \cup {EmptyKey}
              /\ spc' = "idle" /\ UNCHANGED conn
  /\ toSlave' = SubSeq(toSlave, 4, Len(toSlave)) /\ UNCHANGED toMaster

\* Four bytes, which leave the status of the pack as it was constructed: no case.
IgnorePing(pack) ==
  /\ pack.kind = "ping" /\ Len(toSlave) = 1
  /\ toSlave' = <<>> /\ spc' = "idle" /\ UNCHANGED <<conn, soff, toMaster, sdb>>

\* The slave reads something else than it takes it for, here and from now on.
Misread ==
  spc' = "lost" /\ UNCHANGED <<conn, soff, toSlave, toMaster, sdb>>

SyncWithMaster ==
  /\ spc = "pack" /\ toSlave # <<>>
  /\ LET pack == Head(toSlave)
     IN  \/ AnswerCheck(pack) \/ BeginFull(pack) \/ ExecuteIncr(pack) \/ IgnorePing(pack)
         \/ pack.kind \in {"len", "content"} /\ Misread
         \/ pack.kind = "ping" /\ Len(toSlave) > 1 /\ Misread
  /\ UNCHANGED <<moff, mpc, files, shake, dump, early, short>>

\* The master left: the pack stays as it was constructed, with a status of no case.
ReadEnd ==
  /\ spc = "pack" /\ toSlave = <<>> /\ conn = "master"
  /\ spc' = "idle"
  /\ UNCHANGED <<conn, moff, soff, mpc, files, toSlave, toMaster, sdb, shake, dump, early, short>>

\* The end of recvFile, and then clear() and load_file(), which loads nothing.
FileIsHere ==
  spc' = "idle" /\ sdb' = {} /\ UNCHANGED <<conn, soff, toMaster>>

ReadLength ==
  /\ spc = "len" /\ toSlave # <<>> /\ UNCHANGED short
  /\ IF Head(toSlave).kind # "len" THEN Misread
     ELSE /\ toSlave' = Tail(toSlave)
          /\ IF dump = 0 THEN FileIsHere
             ELSE spc' = "content" /\ UNCHANGED <<conn, soff, toMaster, sdb>>

\* One read asks for the whole content and returns what of it has come, of which
\* the caller is not told: the rest stays for the next pack.
ReadContent ==
  /\ spc = "content"
  /\ \E k \in 1 .. dump :
       /\ k <= Len(toSlave)
       /\ IF \A j \in 1 .. k : toSlave[j] = Word("content", dump - j + 1)
          THEN /\ toSlave' = SubSeq(toSlave, k + 1, Len(toSlave))
               /\ short' = (short \/ k < dump) /\ FileIsHere
          ELSE Misread /\ UNCHANGED short

\* The end of the file is the end of the connection.
ReadNoFile ==
  /\ spc \in {"len", "content"} /\ toSlave = <<>> /\ conn = "master"
  /\ UNCHANGED <<toSlave, short>> /\ FileIsHere

RecvFile ==
  /\ ReadLength \/ ReadContent \/ ReadNoFile
  /\ UNCHANGED <<moff, mpc, files, shake, dump, early>>

DisconnectToMaster ==
  /\ spc = "idle" /\ conn = "open" /\ conn' = "slave" /\ spc' = "left"
  /\ toSlave' = <<>>
  /\ UNCHANGED <<moff, soff, mpc, files, toMaster, sdb, shake, dump, early, short>>

-------------------------------------------------------------------------------
Master == ShakeHandWithSlave \/ ReadPong \/ ReadSlaveConn
Slave == ShakeHandWithMaster \/ ReadShake \/ SyncWithMaster \/ ReadEnd \/ RecvFile

Next ==
  \/ Connect
  \/ Master \/ SendPing \/ SendCheck \/ DisconnectToSlave
  \/ SendFile
  \/ Slave \/ BeginSync \/ DisconnectToMaster

\* Whoever can go on does; when a call begins is the callers' business.
Spec == Init /\ [][Next]_vars /\ WF_vars(Master) /\ WF_vars(SendFile) /\ WF_vars(Slave)

-------------------------------------------------------------------------------
\* Properties.

(***************************************************************************)
(* Types: offsets and the lengths made of them stay numbers of size_t,     *)
(* whoever is ahead of whom, and every place is one of the callers'.       *)
(***************************************************************************)
TypeOK ==
  /\ conn \in {"none", "open", "master", "slave"}
  /\ moff \in 0 .. SizeMod - 1 /\ soff \in Nat
  /\ mpc \in {"start", "shake", "idle", "ping", "reply", "dead"}
  /\ spc \in {"start", "shake", "shaking", "idle", "pack", "len", "content",
              "left", "dead", "undefined", "lost"}
  /\ files \in Seq(1 .. FileParts)
  /\ Len(files) <= MaxThreads
  /\ toSlave \in Seq(Items) /\ toMaster \in Seq(Nat)
  /\ sdb \subseteq {Own, EmptyKey}
  /\ shake \in BOOLEAN /\ dump \in Nat /\ early \in BOOLEAN /\ short \in BOOLEAN

(***************************************************************************)
(* The slave takes a word for another only after a call of the master      *)
(* began before the detached thread had written its file, or before a PING *)
(* was read, or after the one read of the file's content returned before   *)
(* all of it had come: nothing else makes the two sides disagree on where  *)
(* a pack begins, whoever leaves and whatever the offsets.                 *)
(***************************************************************************)
OnlyHasteMisframes == spc = "lost" => early \/ short

Waiting == IF mpc \in {"shake", "reply"} THEN 1 ELSE 0
Unanswered ==
  Cardinality({i \in DOMAIN toSlave : toSlave[i].kind = "pack" /\ toSlave[i].status = "check"})
  + (IF spc = "shake" THEN 2 ELSE 0)
  - (IF spc = "shaking" /\ toSlave # <<>> THEN 1 ELSE 0)

(***************************************************************************)
(* For every pack the master waits for there is one on its way or about to *)
(* be; there is never another, except the one that a handshake has sent    *)
(* twice, by which the master is behind from then on.                      *)
(***************************************************************************)
RepliesMatchChecks ==
  conn = "open" =>
    Len(toMaster) + Unanswered \in Waiting .. Waiting + (IF shake THEN 1 ELSE 0)

(***************************************************************************)
(* Without a handshake the offset by which syncWithSlave decides is still  *)
(* the slave's when it reads it.                                           *)
(***************************************************************************)
RepliesAreCurrent ==
  ~shake => \A i \in DOMAIN toMaster : toMaster[i] = soff

(***************************************************************************)
(* From when a slave takes a file (its own keys are gone) it and the       *)
(* master have the same offset: a full transfer ends what there was to     *)
(* send.  The master may still send the file once more, when it is a reply *)
(* behind, or leave before the file has come; neither moves an offset.     *)
(***************************************************************************)
InSyncAfterFull == Own \notin sdb => soff = moff

(***************************************************************************)
(* To a slave whose caller calls syncWithMaster again and again, or has it *)
(* wait for a pack, syncWithSlave returns: unless it or an earlier call    *)
(* began early, a file was not read to its end, or the slave has run over  *)
(* the end of what an incremental transfer sent it.                        *)
(***************************************************************************)
SyncReturns ==
  []<>(spc # "idle") =>
    ((mpc = "reply") ~> (mpc # "reply" \/ early \/ short \/ spc = "undefined"))
===============================================================================
