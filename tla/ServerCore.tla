------------------------------ MODULE ServerCore ------------------------------
(***************************************************************************)
(* What the main thread does with one command at a time: execCommand, the  *)
(* two command rings it fills, and the append-only file that serverCron    *)
(* and a full ring write to.  The process may be killed at any moment; on  *)
(* SHUTDOWN it runs ~Server and ends.                                      *)
(*                                                                         *)
(* The file is an ofstream: what was written but not flushed is in the     *)
(* process and is lost with it.                                            *)
(***************************************************************************)
EXTENDS CmdBuff

CONSTANTS
  DbKeys, DbVals, Absent, Bucket,
  NoCommand,     \* what an unused slot of a ring holds
  ReplBuffLen,   \* REPL_BUFF_LEN
  AofBuffLen,    \* AOF_BUFF_LEN
  Rates,         \* values aeMain can give Server::hz
  CronCycle,     \* cronloops is kept modulo this, a multiple of every period
  MaxCommands    \* bound on the SETs of a run

INSTANCE LossyMap

ASSUME CoreAssumption ==
  /\ ReplBuffLen \in Nat \ {0}
  /\ AofBuffLen \in Nat \ {0}
  /\ Rates \subseteq 1 .. 1000
  /\ CronCycle \in Nat \ {0}
  /\ \A hz \in Rates : CronCycle % (1000 \div (1000 \div hz)) = 0
  /\ MaxCommands \in Nat
  /\ Absent \notin DbVals /\ NoCommand \notin [key : DbKeys, val : DbVals]
  /\ Bucket \in [DbKeys -> Nat]

\* CMD_SET is the only command that reaches a ring.
SetCmds == [key : DbKeys, val : DbVals]

VARIABLES
  db,
  cmdbuff, aof_buff,
  stream,      \* written to incrAofStream, not yet flushed by it
  file,        \* what incr_aof.txt holds
  hz, cronloops, serverStop,
  turn,        \* where aeMain is: "cron", then "exec"
  status,      \* "up", "stopped" by ~Server, or "killed"
  log          \* history: every SET executed, in order

coreVars == <<db, cmdbuff, aof_buff, stream, file, hz, cronloops, serverStop,
              turn, status, log>>

Up == status = "up"

InitialHz == 10

Init ==
  /\ db = EmptyMap
  /\ cmdbuff = EmptyRing(ReplBuffLen, NoCommand)
  /\ aof_buff = EmptyRing(AofBuffLen, NoCommand)
  /\ stream = <<>> /\ file = <<>>
  /\ hz = InitialHz /\ cronloops = 0
  /\ serverStop = FALSE
  /\ turn = "cron"
  /\ status = "up"
  /\ log = <<>>

\* Mutation of LogSet: aof_buff overwrites its oldest command like cmdbuff does.
LogSetOverwriting(cmd) ==
  /\ aof_buff' = PushBack(aof_buff, cmd)
  /\ UNCHANGED stream

\* Mutation of LogSet: the command is added before the full ring is written out.
LogSetPushFirst(cmd) ==
  LET full == aof_buff.size = aof_buff.capacity
      with == PushBack(aof_buff, cmd)
  IN  /\ stream' = IF full THEN stream \o Scanned(with) ELSE stream
      /\ aof_buff' = IF full THEN Cleared(with) ELSE with

\* The rest of execCommand's CMD_SET: a full aof_buff is written out first.
LogSet(cmd) ==
  LET full == aof_buff.size = aof_buff.capacity
  IN  /\ stream' = IF full THEN stream \o Scanned(aof_buff) ELSE stream
      /\ aof_buff' = PushBack(IF full THEN Cleared(aof_buff) ELSE aof_buff, cmd)

ExecSet(cmd) ==
  /\ Up /\ turn = "exec" /\ Len(log) < MaxCommands
  /\ db' = MapInsert(db, cmd.key, cmd.val)
  /\ cmdbuff' = PushBack(cmdbuff, cmd)
  /\ LogSet(cmd)
  /\ log' = Append(log, cmd)
  /\ UNCHANGED <<file, hz, cronloops, serverStop, turn, status>>

ExecShutdown ==
  /\ Up /\ turn = "exec"
  /\ serverStop' = TRUE
  /\ UNCHANGED <<db, cmdbuff, aof_buff, stream, file, hz, cronloops, turn, status>>
  /\ UNCHANGED log

\* Mutation of PeriodElapsed: the rounds are compared with the period.
PeriodElapsedOnce ==
  \/ 1000 <= 1000 \div hz
  \/ cronloops = 1000 \div (1000 \div hz)

\* run_with_period(1000).
PeriodElapsed ==
  \/ 1000 <= 1000 \div hz
  \/ cronloops % (1000 \div (1000 \div hz)) = 0

\* serverCron.  rehashMilliseconds does nothing: the Dict is never rehashing.
ServerCron ==
  /\ Up /\ turn = "cron" /\ ~serverStop
  /\ IF PeriodElapsed
     THEN /\ stream' = stream \o Scanned(aof_buff)
          /\ aof_buff' = Cleared(aof_buff)
     ELSE UNCHANGED <<stream, aof_buff>>
  /\ cronloops' = (cronloops + 1) % CronCycle
  /\ turn' = "exec"
  /\ UNCHANGED <<db, cmdbuff, file, hz, serverStop, status, log>>

\* The end of aeMain's round sets hz from the length of the round.
EndRound ==
  /\ Up /\ turn = "exec"
  /\ hz' \in Rates
  /\ turn' = "cron"
  /\ UNCHANGED <<db, cmdbuff, aof_buff, stream, file, cronloops, serverStop, status, log>>

\* The ofstream writes out part of its buffer when it likes.
StreamFlush ==
  /\ Up
  /\ \E n \in 1 .. Len(stream) :
       /\ file' = file \o SubSeq(stream, 1, n)
       /\ stream' = SubSeq(stream, n + 1, Len(stream))
  /\ UNCHANGED <<db, cmdbuff, aof_buff, hz, cronloops, serverStop, turn, status>>
  /\ UNCHANGED log

\* aeMain returns and ~Server closes the stream.
Stop ==
  /\ Up /\ turn = "cron" /\ serverStop
  /\ file' = file \o stream
  /\ stream' = <<>>
  /\ status' = "stopped"
  /\ UNCHANGED <<db, cmdbuff, aof_buff, hz, cronloops, serverStop, turn, log>>

\* The process dies with everything it had in memory.
Kill ==
  /\ Up
  /\ status' = "killed"
  /\ stream' = <<>>
  /\ aof_buff' = Cleared(aof_buff)
  /\ UNCHANGED <<db, cmdbuff, file, hz, cronloops, serverStop, turn, log>>

Next ==
  \/ \E cmd \in SetCmds : ExecSet(cmd)
  \/ ExecShutdown \/ ServerCron \/ EndRound \/ StreamFlush \/ Stop \/ Kill

Spec == Init /\ [][Next]_coreVars

\* The main loop keeps turning.  Nothing obliges a client to send a command, the
\* process to die or the ofstream to write before it is closed.
FairSpec == Spec /\ WF_coreVars(ServerCron) /\ WF_coreVars(EndRound) /\ WF_coreVars(Stop)

-------------------------------------------------------------------------------
\* The types of all variables.
TypeOK ==
  /\ db \in Maps
  /\ cmdbuff \in Rings(ReplBuffLen, SetCmds \cup {NoCommand})
  /\ aof_buff \in Rings(AofBuffLen, SetCmds \cup {NoCommand})
  /\ stream \in Seq(SetCmds) /\ file \in Seq(SetCmds) /\ log \in Seq(SetCmds)
  /\ hz \in Rates \cup {InitialHz} /\ cronloops \in 0 .. CronCycle - 1
  /\ serverStop \in BOOLEAN
  /\ turn \in {"cron", "exec"}
  /\ status \in {"up", "stopped", "killed"}

IsPrefixOf(s, u) == Len(s) <= Len(u) /\ \A i \in 1 .. Len(s) : s[i] = u[i]

LastOf(s, n) ==
  LET m == IF Len(s) < n THEN Len(s) ELSE n
  IN  SubSeq(s, Len(s) - m + 1, Len(s))

\* Unless the process was killed, every SET it executed is in the file, in the stream
\* or in aof_buff, once and in the order of execution, although writeInrcAofFile reads
\* the ring by physical index and both the cron and a full ring empty it.  After an
\* orderly stop the stream is empty: exactly what aof_buff holds is not in the file.
NothingSkipped ==
  /\ status # "killed" => file \o stream \o Scanned(aof_buff) = log
  /\ status = "stopped" => stream = <<>>

\* Whatever happened, the file is a prefix of what was executed.
FileIsPrefix == IsPrefixOf(file, log)

\* cmdbuff is the last REPL_BUFF_LEN commands however often it wrapped.
CmdbuffIsTail == Contents(cmdbuff) = LastOf(log, ReplBuffLen)

\* The map after a log of SETs.
Replay(s) ==
  LET m[i \in 0 .. Len(s)] ==
        IF i = 0 THEN EmptyMap ELSE MapInsert(m[i - 1], s[i].key, s[i].val)
  IN  m[Len(s)]

\* Replaying file, stream and ring rebuilds the database, collisions included.
ReplayRebuildsDb ==
  status # "killed" => Replay(file \o stream \o Scanned(aof_buff)) = db

\* A command does not stay in aof_buff for ever while the loop turns, although the
\* period is recomputed every round and may change just before it would elapse.
AofBuffIsWrittenOut ==
  (Up /\ aof_buff.size > 0) ~> (~Up \/ aof_buff.size = 0)
===============================================================================
