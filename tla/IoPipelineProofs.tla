--------------------------- MODULE IoPipelineProofs ---------------------------
(***************************************************************************)
(* Theorems about IoPipeline for every number of clients, IO threads,      *)
(* descriptors and keys, every script, and every set of clients that may   *)
(* exit.                                                                   *)
(*                                                                         *)
(* First the types, which need that a thread's tasks are for descriptors   *)
(* of its own (TInv).                                                      *)
(*                                                                         *)
(* Then closing a connection while the main thread accepts the next one on *)
(* the same descriptor: closeClient calls close(), then epoll_ctl, then    *)
(* resets the mask, and the kernel may hand the descriptor out again in    *)
(* between.  These theorems rest on the mask the closing thread has not    *)
(* reset yet: as long as it is set, the main thread cannot register the    *)
(* new connection (LateOK in CInv).                                        *)
(*                                                                         *)
(* Then connections that stay, and the one command each of them has under  *)
(* way (FInv).                                                             *)
(*                                                                         *)
(* Last, IoPipeline as an implementation of KvService.                     *)
(***************************************************************************)
EXTENDS IoPipeline, SequenceTheorems, FiniteSetTheorems, TLAPS

\* A client starts with its first command, and one that is about to write has a
\* command left.
StepOK ==
  \A c \in Clients :
    /\ step[c] >= 1
    /\ cpc[c] = "connect" => step[c] = 1
    /\ cpc[c] \in {"header", "payload", "reply"} => step[c] <= Len(Script[c])

\* The main thread works on a connection, not on the listening socket.
MfdOK == mpc \in {"register", "mask", "insert"} => mfd \in Fds

\* The tasks of a thread, queued or taken, are for descriptors of its own.
QueueOK ==
  \A t \in Threads : \A i \in 1 .. Len(io_q[t]) :
    io_q[t][i].fd \in Fds /\ ThreadOf(io_q[t][i].fd) = t
CurOK ==
  \A t \in Threads : pc[t] # "pop" => FdOf(t) \in Fds /\ ThreadOf(FdOf(t)) = t

TInv == TypeOK /\ StepOK /\ MfdOK /\ QueueOK /\ CurOK

-------------------------------------------------------------------------------
\* Types of the operators the actions are built from.

\* A connection belongs to one of the IO threads.
LEMMA ThreadOfType ==
  ASSUME NEW fd \in Fds PROVE ThreadOf(fd) \in Threads
BY IoAssumption, SMT DEF ThreadOf, Threads

\* The initial task of a thread is a task.
LEMMA NoTaskType == NoTask \in Tasks
BY DEF NoTask, ReadTask, Tasks, Replies, NoReply, Rets, DbVals, ReqIds, NoReq

\* The initial buffer of a thread is a command.
LEMMA NoCmdType == NoCmd \in Commands
BY DEF NoCmd, Commands, Ops, DbKeys, DbVals, ReqIds, NoReq

\* What execCommand answers is a return message or a value of the database.
LEMMA RetOfType ==
  ASSUME db \in Maps, NEW cmd \in Commands PROVE RetOf(cmd) \in Rets
BY DEF RetOf, Rets, MapFind, Maps, Commands, Ops

\* What a client writes is a command, as long as its script has one left.
LEMMA RequestType ==
  ASSUME TInv, NEW c \in Clients, cpc[c] \in {"header", "payload"}
  PROVE  Request(c) \in Commands
<1> DEFINE S == [op : {"set", "get", "shutdown"}, key : DbKeys, val : DbVals]
           s == Script[c]
<1>1. s \in Seq(S)
  BY ScriptAssumption
<1>2. step[c] \in 1 .. Len(s)
  <2>1. step[c] \in Nat /\ step[c] >= 1 /\ step[c] <= Len(s)
    BY DEF TInv, TypeOK, ClientTypes, StepOK
  <2>2. Len(s) \in Nat
    BY <1>1
  <2> QED
    BY <2>1, <2>2
<1>3. s[step[c]] \in S
  <2> HIDE DEF s, S
  <2> QED
    BY <1>1, <1>2
<1>4. <<c, step[c]>> \in ReqIds
  BY <1>2 DEF ReqIds
<1> QED
  BY <1>3, <1>4 DEF Request, Commands, Ops

\* What the leftovers of a buffer parse to is a command.
LEMMA LeftoverType ==
  ASSUME NEW b \in Commands
  PROVE  Leftover(b) \subseteq Commands /\ LeftoverAtZero(b) \subseteq Commands
BY DEF Leftover, LeftoverAtZero, Uninitialised, Commands, Ops, DbKeys, DbVals,
       ReqIds, NoReq

-------------------------------------------------------------------------------
\* The server starts with TInv.
LEMMA InitTInv == Init => TInv
<1> SUFFICES ASSUME Init PROVE TInv
  OBVIOUS
<1>1. TypeOK
  <2>1. ClientTypes
    BY DEF Init, ClientTypes
  <2>2. KernelTypes
    BY DEF Init, KernelTypes
  <2>3. SharedTypes
    BY DEF Init, SharedTypes, EmptyMap, Maps
  <2>4. MainTypes
    BY DEF Init, MainTypes
  <2>5. ThreadTypes
    BY NoTaskType, NoCmdType DEF Init, ThreadTypes
  <2>6. ProcessTypes
    BY DEF Init, ProcessTypes
  <2> QED
    BY <2>1, <2>2, <2>3, <2>4, <2>5, <2>6 DEF TypeOK
<1>2. StepOK /\ MfdOK /\ QueueOK /\ CurOK
  BY DEF Init, StepOK, MfdOK, QueueOK, CurOK
<1> QED
  BY <1>1, <1>2 DEF TInv

-------------------------------------------------------------------------------
\* What the steps of one party leave alone.

\* A client changes its own state, its socket and what epoll will report, nothing else.
LEMMA ClientFrame ==
  ASSUME NEW c \in Clients, Client(c) \/ Exit(c)
  PROVE  UNCHANGED <<fdOwner, interest, mainVars, threadVars, sharedVars, status, torn>>
BY DEF Client, Connect, SendHeader, SendPayload, SendPiece, Receive, Exit, kernelVars

\* The main thread leaves the clients and the threads alone.
LEMMA MainFrame ==
  ASSUME AeMain
  PROVE  UNCHANGED <<clientVars, threadVars, torn>>
BY DEF AeMain, AeApiPoll, MainReturns, Accept, Register, RegisterFails, SetMask,
       PushReadTask, DropEvent, InsertFdSet, ExecCommand, EndRound

\* An IO thread leaves the other threads, their queues and the main thread alone.
LEMMA ThreadFrame ==
  ASSUME TInv, NEW t \in Threads, IOThreadMain(t)
  PROVE  /\ UNCHANGED <<cpc, step, backlog, mainVars, db>>
         /\ \A u \in Threads \ {t} : pc'[u] = pc[u] /\ cur'[u] = cur[u]
                                       /\ io_q'[u] = io_q[u]
<1> USE DEF TInv, TypeOK, ThreadTypes, SharedTypes, Goto, clientVars, kernelVars,
            mainVars, threadVars, sharedVars
<1>1. CASE TryPop(t)
  BY <1>1 DEF TryPop
<1>2. CASE ReadHeader(t) \/ ReadNothing(t) \/ ReadEndOfFile(t) \/ ReadError(t)
  BY <1>2 DEF ReadHeader, ReadNothing, ReadEndOfFile, ReadError
<1>3. CASE ReadPayload(t) \/ MissPayload(t) \/ ParseEmpty(t) \/ ParseGarbage(t)
  BY <1>3 DEF ReadPayload, MissPayload, ParseEmpty, ParseGarbage, ParseAndPush
<1>4. CASE Close(t) \/ DelEvent(t) \/ Unmask(t) \/ EraseFdSet(t)
  BY <1>4 DEF Close, DelEvent, Unmask, EraseFdSet
<1>5. CASE WriteReply(t) \/ WriteToDead(t)
  BY <1>5 DEF WriteReply, WriteToDead
<1> QED
  BY <1>1, <1>2, <1>3, <1>4, <1>5 DEF IOThreadMain

-------------------------------------------------------------------------------
\* Every step keeps the types.

\* A step of a client keeps the types.
LEMMA ClientKeepsTypes ==
  ASSUME TInv, NEW c \in Clients, Client(c) \/ Exit(c)
  PROVE  TypeOK'
<1> USE DEF TInv, TypeOK, ClientTypes, KernelTypes
<1>1. ClientTypes' /\ KernelTypes'
  <2>1. CASE Connect(c)
    BY <2>1 DEF Connect, CpcAt
  <2>2. ASSUME NEW from \in {"header", "payload"}, NEW to \in {"payload", "reply"},
               SendPiece(c, from, to)
        PROVE  ClientTypes' /\ KernelTypes'
    <3>1. [part |-> from, cmd |-> Request(c)] \in Pieces
      BY <2>2, RequestType DEF SendPiece, Pieces
    <3>2. inq' \in [Clients -> Seq(Pieces)]
      BY <2>2, <3>1 DEF SendPiece
    <3> QED
      BY <2>2, <3>2 DEF SendPiece, Wake
  <2>3. CASE Receive(c)
    BY <2>3 DEF Receive, CpcAt, kernelVars
  <2>4. CASE Exit(c)
    BY <2>4 DEF Exit, Wake
  <2> QED
    BY <2>1, <2>2, <2>3, <2>4 DEF Client, SendHeader, SendPayload
<1>2. SharedTypes' /\ MainTypes' /\ ThreadTypes' /\ ProcessTypes'
  BY ClientFrame DEF SharedTypes, MainTypes, ThreadTypes, ProcessTypes,
                     mainVars, threadVars, sharedVars
<1> QED
  BY <1>1, <1>2

\* A reply pushed for a connection of Fds leaves the queues well typed.
LEMMA PushWriteTaskType ==
  ASSUME io_q \in [Threads -> Seq(Tasks)], NEW fd \in Fds, NEW task \in Tasks,
         PushWriteTask(fd, task)
  PROVE  io_q' \in [Threads -> Seq(Tasks)]
BY ThreadOfType DEF PushWriteTask

\* The reply to a parsed command is a task.
LEMMA ReplyTaskType ==
  ASSUME TInv, exe_q # <<>>
  PROVE  LET fd  == Head(exe_q).fd
             cmd == Head(exe_q).cmd
         IN  /\ fd \in Fds /\ cmd \in Commands
             /\ WriteTask(fd, [ret |-> RetOf(cmd), id |-> cmd.id]) \in Tasks
<1>1. Head(exe_q) \in [fd : Fds, cmd : Commands]
  BY HeadTailProperties DEF TInv, TypeOK, SharedTypes
<1>2. RetOf(Head(exe_q).cmd) \in Rets
  BY <1>1, RetOfType DEF TInv, TypeOK, SharedTypes
<1> QED
  BY <1>1, <1>2 DEF WriteTask, Tasks, Replies, Commands

\* A step of aeMain keeps the types.
LEMMA MainKeepsTypes ==
  ASSUME TInv, AeMain
  PROVE  TypeOK'
<1> USE DEF TInv, TypeOK, KernelTypes, SharedTypes, MainTypes, ProcessTypes,
            kernelVars, mainVars, sharedVars
<1>1. KernelTypes' /\ SharedTypes' /\ MainTypes' /\ ProcessTypes'
  <2>1. CASE AeApiPoll
    BY <2>1 DEF AeApiPoll
  <2>2. CASE MainReturns \/ RegisterFails \/ EndRound
    BY <2>2 DEF MainReturns, RegisterFails, EndRound
  <2>3. CASE Accept
    BY <2>3 DEF Accept
  <2>4. CASE Register
    BY <2>4 DEF Register, MfdOK
  <2>5. CASE SetMask \/ InsertFdSet
    BY <2>5 DEF SetMask, InsertFdSet, MfdOK
  <2>6. ASSUME NEW fd \in Fds, PushReadTask(fd) \/ DropEvent(fd)
        PROVE  KernelTypes' /\ SharedTypes' /\ MainTypes' /\ ProcessTypes'
    <3>1. ReadTask(fd) \in Tasks
      BY NoTaskType DEF NoTask, ReadTask, Tasks
    <3>2. PushReadTask(fd) => io_q' \in [Threads -> Seq(Tasks)]
      BY <3>1, ThreadOfType DEF PushReadTask
    <3> QED
      BY <2>6, <3>2 DEF PushReadTask, DropEvent
  <2>7. CASE ExecCommand
    <3> DEFINE fd == Head(exe_q).fd
               cmd == Head(exe_q).cmd
               task == WriteTask(fd, [ret |-> RetOf(cmd), id |-> cmd.id])
    <3>1. fd \in Fds /\ cmd \in Commands /\ task \in Tasks
      BY <2>7, ReplyTaskType DEF ExecCommand
    <3>2. io_q' \in [Threads -> Seq(Tasks)]
      BY <2>7, <3>1, PushWriteTaskType DEF ExecCommand
    <3>3. db' \in Maps
      BY <2>7, <3>1 DEF ExecCommand, Maps, MapInsert, Commands
    <3>4. exe_q' \in Seq([fd : Fds, cmd : Commands])
      BY <2>7 DEF ExecCommand
    <3> QED
      BY <2>7, <3>2, <3>3, <3>4 DEF ExecCommand
  <2> QED
    BY <2>1, <2>2, <2>3, <2>4, <2>5, <2>6, <2>7 DEF AeMain
<1>2. ClientTypes' /\ ThreadTypes'
  BY MainFrame DEF ClientTypes, ThreadTypes, clientVars, threadVars
<1> QED
  BY <1>1, <1>2

\* A step of IOThreadMain keeps the types.
LEMMA ThreadKeepsTypes ==
  ASSUME TInv, NEW t \in Threads, IOThreadMain(t)
  PROVE  TypeOK'
<1> USE DEF TInv, TypeOK, ClientTypes, KernelTypes, SharedTypes, ThreadTypes,
            ProcessTypes, Goto, clientVars, kernelVars, threadVars, sharedVars
<1> DEFINE c == fdOwner[FdOf(t)]
<1>1. pc[t] # "pop" /\ Open(FdOf(t)) => c \in Clients
  BY DEF CurOK, Open
<1>2. ClientTypes' /\ KernelTypes' /\ SharedTypes' /\ ThreadTypes' /\ ProcessTypes'
  <2>1. CASE TryPop(t)
    BY <2>1 DEF TryPop
  <2>2. CASE ReadHeader(t)
    <3>1. c \in Clients /\ inq[c] \in Seq(Pieces) /\ inq[c] # <<>>
      BY <2>2, <1>1 DEF ReadHeader
    <3>2. Tail(inq[c]) \in Seq(Pieces)
      BY <3>1, HeadTailProperties
    <3> QED
      BY <2>2, <3>1, <3>2 DEF ReadHeader
  <2>3. CASE ReadNothing(t) \/ EraseFdSet(t)
    BY <2>3, NoTaskType DEF ReadNothing, EraseFdSet
  <2>4. CASE ReadEndOfFile(t)
    BY <2>4 DEF ReadEndOfFile
  <2>5. CASE ReadError(t)
    BY <2>5, <1>1 DEF ReadError
  <2>6. ASSUME NEW cmd \in Commands, ParseAndPush(t, cmd), pc[t] # "pop"
        PROVE  SharedTypes' /\ ThreadTypes' /\ UNCHANGED status
    BY <2>6 DEF ParseAndPush, CurOK
  <2>7. CASE ReadPayload(t)
    <3>1. Head(inq[c]).cmd \in Commands
      <4>1. inq[c] \in Seq(Pieces) /\ inq[c] # <<>>
        BY <2>7, <1>1 DEF ReadPayload
      <4>2. Head(inq[c]) \in Pieces
        BY <4>1, HeadTailProperties
      <4> QED
        BY <4>2 DEF Pieces
    <3>2. ParseAndPush(t, Head(inq[c]).cmd) /\ pc[t] # "pop"
      BY <2>7 DEF ReadPayload
    <3>3. SharedTypes' /\ ThreadTypes' /\ UNCHANGED status
      BY <2>6, <3>1, <3>2
    <3>4. ClientTypes' /\ KernelTypes' /\ UNCHANGED torn
      BY <2>7, <1>1 DEF ReadPayload
    <3> QED
      BY <3>3, <3>4
  <2>8. CASE MissPayload(t) \/ ParseEmpty(t)
    <3>1. PICK cmd \in Commands : ParseAndPush(t, cmd) /\ pc[t] # "pop"
      BY <2>8, LeftoverType DEF MissPayload, ParseEmpty
    <3>2. SharedTypes' /\ ThreadTypes' /\ UNCHANGED status
      BY <2>6, <3>1
    <3>3. ClientTypes' /\ KernelTypes' /\ torn' = TRUE
      BY <2>8, <1>1 DEF MissPayload, ParseEmpty
    <3> QED
      BY <3>2, <3>3
  <2>9. CASE ParseGarbage(t)
    BY <2>9 DEF ParseGarbage
  <2>10. CASE Close(t) \/ DelEvent(t) \/ Unmask(t)
    BY <2>10, <1>1 DEF Close, DelEvent, Unmask
  <2>11. CASE WriteReply(t)
    <3>1. cur[t].str \in Replies
      BY DEF Tasks
    <3> QED
      BY <2>11, <1>1, <3>1 DEF WriteReply
  <2>12. CASE WriteToDead(t)
    BY <2>12, <1>1 DEF WriteToDead, Wake
  <2> QED
    BY <2>1, <2>2, <2>3, <2>4, <2>5, <2>7, <2>8, <2>9, <2>10, <2>11, <2>12
       DEF IOThreadMain
<1>3. MainTypes'
  BY ThreadFrame DEF MainTypes, mainVars
<1> QED
  BY <1>2, <1>3

-------------------------------------------------------------------------------
\* Every step keeps the rest of TInv.

\* A client that is about to write still has a command left after any step.
LEMMA StepKept ==
  ASSUME TInv, Next
  PROVE  StepOK'
<1>1. ASSUME NEW c \in Clients, Client(c) \/ Exit(c)
      PROVE  StepOK'
  <2> USE DEF TInv, TypeOK, ClientTypes, StepOK
  <2>1. Len(Script[c]) \in Nat
    BY ScriptAssumption
  <2>2. CASE Connect(c)
    BY <2>1, <2>2 DEF Connect, CpcAt
  <2>3. CASE SendHeader(c) \/ SendPayload(c)
    BY <2>1, <2>3 DEF SendHeader, SendPayload, SendPiece
  <2>4. CASE Receive(c)
    BY <2>1, <2>4 DEF Receive, CpcAt
  <2>5. CASE Exit(c)
    BY <2>1, <2>5 DEF Exit
  <2> QED
    BY <1>1, <2>2, <2>3, <2>4, <2>5 DEF Client
<1>2. CASE AeMain
  BY <1>2, MainFrame DEF TInv, StepOK, clientVars
<1>3. ASSUME NEW t \in Threads, IOThreadMain(t)
      PROVE  StepOK'
  BY <1>3, ThreadFrame DEF TInv, StepOK
<1> QED
  BY <1>1, <1>2, <1>3 DEF Next

\* After any step the main thread works on a connection.
LEMMA MfdKept ==
  ASSUME TInv, Next
  PROVE  MfdOK'
<1>1. CASE AeMain
  BY <1>1 DEF AeMain, AeApiPoll, MainReturns, Accept, Register, RegisterFails, SetMask,
              PushReadTask, DropEvent, InsertFdSet, ExecCommand, EndRound, TInv, MfdOK,
              mainVars
<1>2. ASSUME NEW c \in Clients, Client(c) \/ Exit(c)
      PROVE  MfdOK'
  BY <1>2, ClientFrame DEF TInv, MfdOK, mainVars
<1>3. ASSUME NEW t \in Threads, IOThreadMain(t)
      PROVE  MfdOK'
  BY <1>3, ThreadFrame DEF TInv, MfdOK, mainVars
<1> QED
  BY <1>1, <1>2, <1>3 DEF Next

\* Appending a task for a connection to the queue of its thread.
LEMMA AppendedOwnTask ==
  ASSUME TInv, NEW fd \in Fds, NEW task \in Tasks, task.fd = fd,
         io_q' = [io_q EXCEPT ![ThreadOf(fd)] = Append(@, task)]
  PROVE  QueueOK'
<1> SUFFICES ASSUME NEW t \in Threads, NEW i \in 1 .. Len(io_q'[t])
             PROVE  io_q'[t][i].fd \in Fds /\ ThreadOf(io_q'[t][i].fd) = t
  BY DEF QueueOK, ThreadOf
<1>1. io_q[t] \in Seq(Tasks)
  BY DEF TInv, TypeOK, SharedTypes
<1>2. \A j \in 1 .. Len(io_q[t]) : io_q[t][j].fd \in Fds /\ ThreadOf(io_q[t][j].fd) = t
  BY DEF TInv, QueueOK
<1>3. CASE t = ThreadOf(fd)
  <2>1. io_q'[t] = Append(io_q[t], task)
    BY <1>3 DEF TInv, TypeOK, SharedTypes
  <2>2. CASE i \in 1 .. Len(io_q[t])
    BY <1>1, <1>2, <2>1, <2>2
  <2>3. CASE i = Len(io_q[t]) + 1
    BY <1>1, <1>3, <2>1, <2>3
  <2> QED
    BY <1>1, <2>1, <2>2, <2>3
<1>4. CASE t # ThreadOf(fd)
  BY <1>2, <1>4 DEF TInv, TypeOK, SharedTypes
<1> QED
  BY <1>3, <1>4

\* After any step the queues hold only tasks of their own thread.
LEMMA QueueKept ==
  ASSUME TInv, Next
  PROVE  QueueOK'
<1>1. ASSUME NEW c \in Clients, Client(c) \/ Exit(c)
      PROVE  QueueOK'
  BY <1>1, ClientFrame DEF TInv, QueueOK, ThreadOf, sharedVars
<1>2. CASE AeMain
  <2>1. ASSUME NEW fd \in Fds, PushReadTask(fd)
        PROVE  QueueOK'
    <3>1. ReadTask(fd) \in Tasks /\ ReadTask(fd).fd = fd
      BY NoTaskType DEF NoTask, ReadTask, Tasks
    <3> QED
      BY <2>1, <3>1, AppendedOwnTask DEF PushReadTask
  <2>2. CASE ExecCommand
    <3> DEFINE fd == Head(exe_q).fd
               cmd == Head(exe_q).cmd
               task == WriteTask(fd, [ret |-> RetOf(cmd), id |-> cmd.id])
    <3>1. fd \in Fds /\ task \in Tasks /\ task.fd = fd
      BY <2>2, ReplyTaskType DEF ExecCommand, WriteTask
    <3>2. PushWriteTask(fd, task)
      BY <2>2 DEF ExecCommand
    <3>3. \/ io_q' = [io_q EXCEPT ![ThreadOf(fd)] = Append(@, task)]
          \/ UNCHANGED io_q
      <4> HIDE DEF task, fd
      <4> QED
        BY <3>1, <3>2, ThreadOfType DEF PushWriteTask, TInv, TypeOK, SharedTypes
    <3>4. CASE UNCHANGED io_q
      BY <3>4 DEF TInv, QueueOK, ThreadOf
    <3> QED
      BY <3>1, <3>3, <3>4, AppendedOwnTask
  <2>3. CASE \/ AeApiPoll \/ MainReturns \/ Accept \/ Register \/ RegisterFails
             \/ SetMask \/ InsertFdSet \/ EndRound \/ \E fd \in Fds : DropEvent(fd)
    <3>1. UNCHANGED io_q
      BY <2>3 DEF AeApiPoll, MainReturns, Accept, Register, RegisterFails, SetMask,
                  InsertFdSet, EndRound, DropEvent, sharedVars
    <3> QED
      BY <3>1 DEF TInv, QueueOK, ThreadOf
  <2> QED
    BY <1>2, <2>1, <2>2, <2>3 DEF AeMain
<1>3. ASSUME NEW t \in Threads, IOThreadMain(t)
      PROVE  QueueOK'
  <2>1. CASE TryPop(t)
    <3>1. io_q[t] \in Seq(Tasks) /\ io_q[t] # <<>>
      BY <2>1 DEF TryPop, TInv, TypeOK, SharedTypes
    <3>2. io_q' = [io_q EXCEPT ![t] = Tail(@)]
      BY <2>1 DEF TryPop
    <3>3. /\ Len(Tail(io_q[t])) = Len(io_q[t]) - 1
          /\ \A i \in 1 .. Len(Tail(io_q[t])) : Tail(io_q[t])[i] = io_q[t][i + 1]
      BY <3>1, HeadTailProperties
    <3>4. \A i \in 1 .. Len(Tail(io_q[t])) : i + 1 \in 1 .. Len(io_q[t])
      BY <3>1, <3>3
    <3> QED
      BY <3>2, <3>3, <3>4 DEF TInv, TypeOK, SharedTypes, QueueOK, ThreadOf
  <2>2. CASE ~TryPop(t)
    <3>1. UNCHANGED io_q
      BY <1>3, <2>2 DEF IOThreadMain, ReadHeader, ReadNothing, ReadEndOfFile, ReadError,
           ReadPayload, MissPayload, ParseEmpty, ParseGarbage, ParseAndPush, Close,
           DelEvent, Unmask, EraseFdSet, WriteReply, WriteToDead, sharedVars
    <3> QED
      BY <3>1 DEF TInv, QueueOK, ThreadOf
  <2> QED
    BY <2>1, <2>2
<1> QED
  BY <1>1, <1>2, <1>3 DEF Next

\* A thread keeps its task until it is back at its queue.
LEMMA CurFrame ==
  ASSUME TInv, NEW t \in Threads, IOThreadMain(t), ~TryPop(t)
  PROVE  pc[t] # "pop" /\ (pc'[t] # "pop" => cur'[t] = cur[t])
<1> USE DEF TInv, TypeOK, ThreadTypes, Goto, threadVars
<1>1. CASE ReadHeader(t) \/ ReadNothing(t) \/ ReadEndOfFile(t) \/ ReadError(t)
  BY <1>1 DEF ReadHeader, ReadNothing, ReadEndOfFile, ReadError
<1>2. CASE ReadPayload(t) \/ MissPayload(t) \/ ParseEmpty(t) \/ ParseGarbage(t)
  BY <1>2 DEF ReadPayload, MissPayload, ParseEmpty, ParseGarbage, ParseAndPush
<1>3. CASE Close(t) \/ DelEvent(t) \/ Unmask(t) \/ EraseFdSet(t)
  BY <1>3 DEF Close, DelEvent, Unmask, EraseFdSet
<1>4. CASE WriteReply(t) \/ WriteToDead(t)
  BY <1>4 DEF WriteReply, WriteToDead
<1> QED
  BY <1>1, <1>2, <1>3, <1>4 DEF IOThreadMain

\* After any step a thread works on a descriptor of its own.
LEMMA CurKept ==
  ASSUME TInv, Next
  PROVE  CurOK'
<1> USE DEF CurOK, FdOf, ThreadOf
<1>1. ASSUME NEW c \in Clients, Client(c) \/ Exit(c)
      PROVE  CurOK'
  BY <1>1, ClientFrame DEF TInv, threadVars
<1>2. CASE AeMain
  BY <1>2, MainFrame DEF TInv, threadVars
<1>3. ASSUME NEW t \in Threads, IOThreadMain(t)
      PROVE  CurOK'
  <2>1. pc'[t] # "pop" => FdOf(t)' \in Fds /\ ThreadOf(FdOf(t)') = t
    <3>1. CASE TryPop(t)
      <4>1. io_q[t] \in Seq(Tasks) /\ io_q[t] # <<>> /\ cur'[t] = Head(io_q[t])
        BY <3>1 DEF TryPop, TInv, TypeOK, SharedTypes, ThreadTypes
      <4>2. 1 \in 1 .. Len(io_q[t]) /\ Head(io_q[t]) = io_q[t][1]
        BY <4>1
      <4> QED
        BY <4>1, <4>2 DEF TInv, QueueOK
    <3>2. CASE ~TryPop(t)
      BY <1>3, <3>2, CurFrame DEF TInv
    <3> QED
      BY <3>1, <3>2
  <2> QED
    BY <1>3, <2>1, ThreadFrame DEF TInv
<1> QED
  BY <1>1, <1>2, <1>3 DEF Next

-------------------------------------------------------------------------------
\* TInv is inductive.
LEMMA TInvKept == TInv /\ [Next]_vars => TInv'
<1>1. ASSUME TInv, Next
      PROVE  TInv'
  <2>1. TypeOK'
    BY <1>1, ClientKeepsTypes, MainKeepsTypes, ThreadKeepsTypes DEF Next
  <2> QED
    BY <1>1, <2>1, StepKept, MfdKept, QueueKept, CurKept DEF TInv
<1>2. ASSUME TInv, UNCHANGED vars
      PROVE  TInv'
  BY <1>2 DEF TInv, TypeOK, ClientTypes, KernelTypes, SharedTypes, MainTypes, ThreadTypes,
     ProcessTypes, StepOK, MfdOK, QueueOK, CurOK, FdOf, ThreadOf, vars, clientVars,
     kernelVars, mainVars, threadVars, sharedVars
<1> QED
  BY <1>1, <1>2

\* A thread only ever takes tasks for its own descriptors.
THEOREM TypesInvariant == Spec => []TInv
BY InitTInv, TInvKept, PTL DEF Spec

\* Whatever the clients, the threads and the kernel do, every variable keeps its type.
THEOREM TypeCorrect == Spec => []TypeOK
<1>1. TInv => TypeOK
  BY DEF TInv
<1> QED
  BY <1>1, TypesInvariant, PTL

\* Two IO threads never work on the same descriptor, because both the read tasks and
\* the replies of a descriptor go to the queue of the one thread it belongs to.
THEOREM ThreadsDoNotShareFds == Spec => []NoTwoThreadsOneFd
<1>1. TInv => NoTwoThreadsOneFd
  BY DEF TInv, CurOK, NoTwoThreadsOneFd
<1> QED
  BY <1>1, TypesInvariant, PTL

-------------------------------------------------------------------------------
\* Closing a connection.

\* accept() has returned fd and the main thread has not set its mask yet.
Entering(fd) == mpc \in {"register", "mask"} /\ mfd = fd

\* A thread about to close a connection has seen the end of it.
CloseOK ==
  \A t \in Threads :
    pc[t] = "close" => Open(FdOf(t)) /\ cpc[fdOwner[FdOf(t)]] = "dead"

\* Every open connection has its mask set, or will have it before the next round.
MaskOK == \A fd \in Fds : Open(fd) => fd \in masked \/ Entering(fd)

\* Between close() and the reset of the mask.
LateOK ==
  \A t \in Threads :
    pc[t] \in {"delev", "unmask"} =>
      /\ FdOf(t) \notin interest
      /\ FdOf(t) \in masked \/ (Entering(FdOf(t)) /\ ~Open(FdOf(t)))
      /\ Open(FdOf(t)) => mpc = "register" /\ mfd = FdOf(t)

CInv == TInv /\ CloseOK /\ MaskOK /\ LateOK

-------------------------------------------------------------------------------
\* The server starts with CInv.
LEMMA InitCInv == Init => CInv
<1> SUFFICES ASSUME Init PROVE CInv
  OBVIOUS
<1>1. CloseOK /\ MaskOK /\ LateOK
  BY DEF Init, CloseOK, MaskOK, LateOK, Open
<1> QED
  BY <1>1, InitTInv DEF CInv

\* A client step only moves a client that is still there, or ends one.
LEMMA ClientKeepsCInv ==
  ASSUME CInv, NEW c \in Clients, Client(c) \/ Exit(c)
  PROVE  CloseOK' /\ MaskOK' /\ LateOK'
<1>1. UNCHANGED <<fdOwner, interest, mpc, mfd, masked, pc, cur>>
  BY ClientFrame DEF mainVars, threadVars, sharedVars
<1>2. \A d \in Clients : cpc[d] = "dead" => cpc'[d] = "dead"
  BY DEF Client, Connect, SendHeader, SendPayload, SendPiece, Receive, Exit, CInv, TInv,
         TypeOK, ClientTypes
<1>3. CloseOK'
  <2> SUFFICES ASSUME NEW t \in Threads, pc'[t] = "close"
               PROVE  Open(FdOf(t))' /\ cpc'[fdOwner'[FdOf(t)']] = "dead"
    BY DEF CloseOK
  <2>1. Open(FdOf(t)) /\ cpc[fdOwner[FdOf(t)]] = "dead" /\ FdOf(t) \in Fds
    BY <1>1 DEF CInv, CloseOK, TInv, CurOK
  <2>2. fdOwner[FdOf(t)] \in Clients
    BY <2>1 DEF Open, CInv, TInv, TypeOK, KernelTypes
  <2> QED
    BY <1>1, <1>2, <2>1, <2>2 DEF Open, FdOf
<1>4. MaskOK' /\ LateOK'
  BY <1>1 DEF CInv, MaskOK, LateOK, Open, Entering, FdOf
<1> QED
  BY <1>3, <1>4

\* The main thread takes a descriptor only when it is free, and cannot register it
\* before the thread that closed it has reset the mask.
LEMMA MainKeepsCInv ==
  ASSUME CInv, AeMain
  PROVE  CloseOK' /\ MaskOK' /\ LateOK'
<1> USE DEF CInv, FdOf, Open, Entering
<1>1. UNCHANGED <<cpc, pc, cur>>
  BY MainFrame DEF clientVars, threadVars
<1>2. CASE Accept
  <2>1. PICK new \in Fds :
          ~Open(new) /\ fdOwner' = [fdOwner EXCEPT ![new] = Head(backlog)] /\ mfd' = new
    BY <1>2 DEF Accept, LowestFree
  <2>2. mpc = "events" /\ mpc' = "register" /\ UNCHANGED <<interest, masked>>
    BY <1>2 DEF Accept, sharedVars
  <2>3. \A fd \in Fds \ {new} : fdOwner'[fd] = fdOwner[fd]
    BY <2>1 DEF TInv, TypeOK, KernelTypes
  <2>4. CloseOK'
    BY <1>1, <2>1, <2>3 DEF CloseOK, TInv, CurOK
  <2>5. MaskOK'
    BY <2>1, <2>2, <2>3 DEF MaskOK
  <2>6. LateOK'
    BY <1>1, <2>1, <2>2, <2>3 DEF LateOK, TInv, CurOK
  <2> QED
    BY <2>4, <2>5, <2>6
<1>3. CASE Register
  <2>1. mfd \in Fds /\ mpc = "register" /\ mpc' = "mask" /\ ~EpollCtlFails(mfd)
    BY <1>3 DEF Register, TInv, MfdOK
  <2>2. interest' = interest \cup {mfd} /\ UNCHANGED <<fdOwner, mfd, masked>>
    BY <1>3 DEF Register, sharedVars
  <2>3. \A t \in Threads : pc[t] \in {"delev", "unmask"} => FdOf(t) # mfd
    BY <2>1 DEF LateOK, EpollCtlFails
  <2>4. CloseOK' /\ MaskOK'
    BY <1>1, <2>1, <2>2 DEF CloseOK, MaskOK
  <2>5. LateOK'
    BY <1>1, <2>1, <2>2, <2>3 DEF LateOK
  <2> QED
    BY <2>4, <2>5
<1>4. CASE SetMask
  BY <1>1, <1>4 DEF SetMask, kernelVars, CloseOK, MaskOK, LateOK
<1>5. CASE \/ AeApiPoll \/ MainReturns \/ RegisterFails \/ InsertFdSet \/ ExecCommand
           \/ EndRound \/ \E fd \in Fds : PushReadTask(fd) \/ DropEvent(fd)
  <2>1. /\ UNCHANGED <<fdOwner, interest, masked>>
        /\ \A fd \in Fds : Entering(fd) => Entering(fd)' /\ UNCHANGED <<mpc, mfd>>
    BY <1>5 DEF AeApiPoll, MainReturns, RegisterFails, InsertFdSet, ExecCommand, EndRound,
                PushReadTask, DropEvent, kernelVars, mainVars, sharedVars
  <2> QED
    BY <1>1, <2>1 DEF CloseOK, MaskOK, LateOK, TInv, CurOK
<1> QED
  BY <1>2, <1>3, <1>4, <1>5 DEF AeMain

-------------------------------------------------------------------------------
\* The steps of closeClient, and every other step of an IO thread.
LEMMA ThreadKeepsCInv ==
  ASSUME CInv, NEW t \in Threads, IOThreadMain(t)
  PROVE  CloseOK' /\ MaskOK' /\ LateOK'
<1> USE DEF CInv, Open, Entering
<1>1. UNCHANGED <<cpc, mpc, mfd>>
  BY ThreadFrame DEF mainVars
<1>2. \A u \in Threads \ {t} : pc'[u] = pc[u] /\ FdOf(u)' = FdOf(u)
  BY ThreadFrame DEF FdOf
<1>3. pc[t] # "pop" => FdOf(t) \in Fds
  BY DEF TInv, CurOK
<1>4. \A u \in Threads \ {t} : pc[t] # "pop" /\ pc[u] # "pop" => FdOf(u) # FdOf(t)
  BY DEF TInv, CurOK
<1> USE DEF TInv, TypeOK, KernelTypes, SharedTypes, ThreadTypes, Goto
<1>5. CASE Close(t)
  <2>1. /\ pc[t] = "close" /\ pc'[t] = "delev" /\ FdOf(t)' = FdOf(t)
        /\ fdOwner' = [fdOwner EXCEPT ![FdOf(t)] = NoConn]
        /\ interest' = interest \ {FdOf(t)}
        /\ UNCHANGED masked
    BY <1>5 DEF Close, FdOf, sharedVars
  <2>2. ~Open(FdOf(t))' /\ \A fd \in Fds \ {FdOf(t)} : fdOwner'[fd] = fdOwner[fd]
    BY <2>1, <1>3
  <2>3. FdOf(t) \in masked \/ Entering(FdOf(t))
    BY <2>1, <1>3 DEF CloseOK, MaskOK
  <2>4. CloseOK'
    <3>1. ASSUME NEW u \in Threads \ {t}, pc'[u] = "close"
          PROVE  Open(FdOf(u))' /\ cpc'[fdOwner'[FdOf(u)']] = "dead"
      <4>1. FdOf(u) \in Fds \ {FdOf(t)} /\ Open(FdOf(u)) /\ cpc[fdOwner[FdOf(u)]] = "dead"
        BY <3>1, <1>2, <1>4, <2>1 DEF CloseOK, CurOK
      <4>2. fdOwner'[FdOf(u)'] = fdOwner[FdOf(u)]
        BY <4>1, <1>2, <2>2
      <4> QED
        BY <4>1, <4>2, <1>1
    <3> QED
      BY <3>1, <2>1 DEF CloseOK
  <2>5. MaskOK'
    BY <1>1, <2>1, <2>2 DEF MaskOK
  <2>6. LateOK'
    <3>1. ASSUME NEW u \in Threads \ {t}, pc'[u] \in {"delev", "unmask"}
          PROVE  /\ FdOf(u)' \notin interest'
                 /\ FdOf(u)' \in masked' \/ (Entering(FdOf(u))' /\ ~Open(FdOf(u))')
                 /\ Open(FdOf(u))' => mpc' = "register" /\ mfd' = FdOf(u)'
      BY <3>1, <1>1, <1>2, <1>4, <2>1, <2>2 DEF LateOK, CurOK
    <3>2. /\ FdOf(t)' \notin interest'
          /\ FdOf(t)' \in masked' \/ (Entering(FdOf(t))' /\ ~Open(FdOf(t))')
          /\ ~Open(FdOf(t))'
      BY <1>1, <2>1, <2>2, <2>3
    <3> QED
      BY <3>1, <3>2 DEF LateOK
  <2> QED
    BY <2>4, <2>5, <2>6
<1>6. CASE DelEvent(t)
  <2>1. /\ pc[t] = "delev" /\ pc'[t] = "unmask" /\ FdOf(t)' = FdOf(t)
        /\ interest' \subseteq interest
        /\ UNCHANGED <<fdOwner, masked>>
    BY <1>6 DEF DelEvent, FdOf, sharedVars
  <2>2. \A u \in Threads : FdOf(u)' = FdOf(u)
    BY <1>2, <2>1
  <2>3. CloseOK' /\ MaskOK'
    BY <1>1, <1>2, <2>1, <2>2 DEF CloseOK, MaskOK
  <2>4. LateOK'
    BY <1>1, <1>2, <2>1, <2>2 DEF LateOK
  <2> QED
    BY <2>3, <2>4
<1>7. CASE Unmask(t)
  <2>1. /\ pc[t] = "unmask" /\ pc'[t] = "erase"
        /\ masked' = masked \ {FdOf(t)}
        /\ UNCHANGED <<fdOwner, interest>>
    BY <1>7 DEF Unmask, kernelVars
  <2>2. Open(FdOf(t)) => Entering(FdOf(t))
    BY <2>1 DEF LateOK
  <2>3. CloseOK'
    BY <1>1, <1>2, <2>1 DEF CloseOK
  <2>4. MaskOK'
    BY <1>1, <2>1, <2>2 DEF MaskOK
  <2>5. LateOK'
    BY <1>1, <1>2, <1>4, <2>1 DEF LateOK
  <2> QED
    BY <2>3, <2>4, <2>5
<1>8. CASE ReadEndOfFile(t)
  <2>1. /\ pc[t] = "header" /\ pc'[t] = "close" /\ FdOf(t)' = FdOf(t)
        /\ Open(FdOf(t)) /\ cpc[fdOwner[FdOf(t)]] = "dead"
        /\ UNCHANGED <<fdOwner, interest, masked>>
    BY <1>8 DEF ReadEndOfFile, FdOf, kernelVars, sharedVars
  <2>2. CloseOK'
    <3>1. ASSUME NEW u \in Threads \ {t}, pc'[u] = "close"
          PROVE  Open(FdOf(u))' /\ cpc'[fdOwner'[FdOf(u)']] = "dead"
      BY <3>1, <1>1, <1>2, <2>1 DEF CloseOK
    <3>2. Open(FdOf(t))' /\ cpc'[fdOwner'[FdOf(t)']] = "dead"
      BY <1>1, <2>1
    <3> QED
      BY <3>1, <3>2 DEF CloseOK
  <2>3. MaskOK'
    BY <1>1, <2>1 DEF MaskOK
  <2>4. \A u \in Threads : pc'[u] \in {"delev", "unmask"} => pc[u] = pc'[u]
    BY <1>2, <2>1
  <2>5. \A u \in Threads : FdOf(u)' = FdOf(u)
    BY <1>2, <2>1
  <2>6. LateOK'
    BY <1>1, <2>1, <2>4, <2>5 DEF LateOK
  <2> QED
    BY <2>2, <2>3, <2>6
<1>9. CASE \/ TryPop(t) \/ ReadHeader(t) \/ ReadNothing(t) \/ ReadError(t)
           \/ ReadPayload(t) \/ MissPayload(t) \/ ParseEmpty(t) \/ ParseGarbage(t)
           \/ EraseFdSet(t) \/ WriteReply(t) \/ WriteToDead(t)
  <2>1. UNCHANGED <<fdOwner, interest, masked>>
    BY <1>9 DEF TryPop, ReadHeader, ReadNothing, ReadError, ReadPayload, MissPayload,
         ParseEmpty, ParseGarbage, ParseAndPush, EraseFdSet, WriteReply, WriteToDead,
         kernelVars, sharedVars
  <2>2. \/ pc'[t] \notin {"close", "delev", "unmask"}
        \/ UNCHANGED <<pc, cur>>
    BY <1>9 DEF TryPop, ReadHeader, ReadNothing, ReadError, ReadPayload, MissPayload,
         ParseEmpty, ParseGarbage, ParseAndPush, EraseFdSet, WriteReply, WriteToDead,
         threadVars
  <2> QED
    BY <1>1, <1>2, <2>1, <2>2 DEF CloseOK, MaskOK, LateOK, FdOf
<1> QED
  BY <1>5, <1>6, <1>7, <1>8, <1>9 DEF IOThreadMain

\* CInv is inductive.
LEMMA CInvKept == CInv /\ [Next]_vars => CInv'
<1>1. ASSUME CInv, Next
      PROVE  CInv'
  <2>1. TInv'
    BY <1>1, TInvKept DEF CInv
  <2> QED
    BY <1>1, <2>1, ClientKeepsCInv, MainKeepsCInv, ThreadKeepsCInv DEF Next, CInv
<1>2. ASSUME CInv, UNCHANGED vars
      PROVE  CInv'
  <2>1. TInv'
    BY <1>2, TInvKept DEF CInv
  <2> QED
    BY <1>2, <2>1 DEF CInv, CloseOK, MaskOK, LateOK, Open, Entering, FdOf, vars, clientVars,
       kernelVars, mainVars, threadVars, sharedVars
<1> QED
  BY <1>1, <1>2

\* What closeClient relies on holds at every moment.
THEOREM CloseInvariant == Spec => []CInv
BY InitCInv, CInvKept, PTL DEF Spec

\* The epoll_ctl and the reset of the mask that closeClient makes after close() never
\* meet a registered descriptor, although accept() may have returned it again.
THEOREM LateCloseIsHarmless == Spec => []NoModOnLiveFd
<1>1. CInv => NoModOnLiveFd
  BY DEF CInv, LateOK, NoModOnLiveFd
<1> QED
  BY <1>1, CloseInvariant, PTL

\* No IO thread closes the connection of a client that is still there.
THEOREM OnlyDeadClientsAreClosed == Spec => NoWrongClose
<1> DEFINE Step ==
      \A fd \in Fds :
        Open(fd) /\ fdOwner'[fd] # fdOwner[fd] => cpc[fdOwner[fd]] = "dead"
<1>1. ASSUME CInv, Next
      PROVE  Step
  <2>1. ASSUME NEW c \in Clients, Client(c) \/ Exit(c)
        PROVE  Step
    BY <2>1, ClientFrame
  <2>2. CASE AeMain
    <3>1. CASE Accept
      BY <1>1, <3>1 DEF Accept, LowestFree, Open, CInv, TInv, TypeOK, KernelTypes
    <3>2. CASE ~Accept
      BY <2>2, <3>2 DEF AeMain, AeApiPoll, MainReturns, Register, RegisterFails, SetMask,
           PushReadTask, DropEvent, InsertFdSet, ExecCommand, EndRound, kernelVars
    <3> QED
      BY <3>1, <3>2
  <2>3. ASSUME NEW t \in Threads, IOThreadMain(t)
        PROVE  Step
    <3>1. CASE Close(t)
      BY <1>1, <3>1 DEF Close, CInv, CloseOK, TInv, TypeOK, KernelTypes
    <3>2. CASE ~Close(t)
      BY <2>3, <3>2 DEF IOThreadMain, TryPop, ReadHeader, ReadNothing, ReadEndOfFile,
           ReadError, ReadPayload, MissPayload, ParseEmpty, ParseGarbage, DelEvent, Unmask,
           EraseFdSet, WriteReply, WriteToDead, kernelVars
    <3> QED
      BY <3>1, <3>2
  <2> QED
    BY <1>1, <2>1, <2>2, <2>3 DEF Next
<1>2. CInv /\ [Next]_vars => [Step]_vars
  BY <1>1
<1> QED
  BY <1>2, CloseInvariant, PTL DEF Spec, NoWrongClose

-------------------------------------------------------------------------------
(***************************************************************************)
(* A connection has one command between the parser and the writer as long  *)
(* as no client has left (OneRequestInFlight), although fdSet, which is to *)
(* see to that, is filled after the read task was pushed and emptied after *)
(* the reply was written.                                                  *)
(*                                                                         *)
(* Two things together keep it so.  A client sends its next command after  *)
(* it has read a reply, so its command is in one place at most on the way  *)
(* from the first write of sendCmd to that read (OnePlace), whatever was   *)
(* parsed on the way.  And a descriptor is in fdSet, or about to be,       *)
(* while a task, a thread or a parsed command is for it (InSet), so that   *)
(* no second read task is pushed (OneReader, NoReadBeside).                *)
(***************************************************************************)

\* No client has left.
Alive == \A c \in Clients : cpc[c] # "dead"

\* What is under way for a descriptor: thread t works on it (i = 0), or the i-th task
\* of its queue, or the i-th parsed command, is for it.
ReadAt(fd, t, i) ==
  \/ i = 0 /\ pc[t] \in {"header", "payload"} /\ FdOf(t) = fd
  \/ i \in 1 .. Len(io_q[t]) /\ io_q[t][i].isRead /\ io_q[t][i].fd = fd
WriteAt(fd, t, i) ==
  \/ i = 0 /\ pc[t] \in {"write", "erase"} /\ FdOf(t) = fd
  \/ i \in 1 .. Len(io_q[t]) /\ ~io_q[t][i].isRead /\ io_q[t][i].fd = fd
ExeAt(fd, i) == i \in 1 .. Len(exe_q) /\ exe_q[i].fd = fd

\* Where a client's command may be: length written and not read; length read by a
\* thread; parsed into exe_q; its reply queued for a thread or being written by it; its
\* reply not yet read by the client.
Stages == {"sent", "begun", "parsed", "queued", "answered"}
At(c, s, t, i) ==
  \/ s = "sent" /\ t = 0 /\ i \in 1 .. Len(inq[c]) /\ inq[c][i].part = "header"
  \/ s = "begun" /\ i = 0 /\ pc[t] = "payload" /\ fdOwner[FdOf(t)] = c
  \/ s = "parsed" /\ t = 0 /\ \E fd \in Fds : ExeAt(fd, i) /\ fdOwner[fd] = c
  \/ /\ s = "queued" /\ (i = 0 => pc[t] = "write")
     /\ \E fd \in Fds : WriteAt(fd, t, i) /\ fdOwner[fd] = c
  \/ s = "answered" /\ t = 0 /\ i \in 1 .. Len(outq[c])

\* A client's command is in one place at most ...
OnePlace ==
  \A c \in Clients, s1, s2 \in Stages, t1, t2 \in Threads, i1, i2 \in Nat :
    At(c, s1, t1, i1) /\ At(c, s2, t2, i2) => s1 = s2 /\ t1 = t2 /\ i1 = i2

\* ... and in none unless the client is in the middle of sendCmd.
Awaited ==
  \A c \in Clients, s \in Stages, t \in Threads, i \in Nat :
    At(c, s, t, i) => cpc[c] \in {"payload", "reply"}

\* The main thread has pushed a read task and not yet put its descriptor into fdSet.
Inserting(fd) == mpc = "insert" /\ mfd = fd

\* No thread closes a connection or has met an error.
OnlyServing ==
  \A t \in Threads : pc[t] \in {"pop", "header", "payload", "write", "erase"}

\* Nothing is under way for a descriptor that is not open.
UsedIsOpen ==
  /\ \A fd \in Fds : fd \in interest \cup ready \cup fired => Open(fd)
  /\ mpc = "register" => Open(mfd)
  /\ \A fd \in Fds, t \in Threads, i \in Nat :
       ReadAt(fd, t, i) \/ WriteAt(fd, t, i) \/ ExeAt(fd, i) => Open(fd)

\* One read task or one reader of a descriptor.
OneReader ==
  \A fd \in Fds, t1, t2 \in Threads, i1, i2 \in Nat :
    ReadAt(fd, t1, i1) /\ ReadAt(fd, t2, i2) => t1 = t2 /\ i1 = i2

\* A descriptor something is under way for is in fdSet, or enters it next.
InSet ==
  /\ \A fd \in Fds : Inserting(fd) => fd \notin fdSet
  /\ \A fd \in Fds, t \in Threads, i \in Nat :
       /\ ReadAt(fd, t, i) \/ ExeAt(fd, i) => fd \in fdSet \/ Inserting(fd)
       /\ WriteAt(fd, t, i) => fd \in fdSet

\* No read task waits while a command of the descriptor is between parser and writer.
NoReadBeside ==
  \A fd \in Fds, t, u \in Threads, i, j \in Nat :
    ReadAt(fd, t, i) /\ (WriteAt(fd, u, j) \/ ExeAt(fd, j)) => i = 0

\* A descriptor leaves fdSet when nothing else is under way for it.
ErasedLast ==
  \A fd \in Fds, t, u \in Threads, j \in Nat :
    pc[t] = "erase" /\ FdOf(t) = fd =>
      ~ExeAt(fd, j) /\ (WriteAt(fd, u, j) => u = t /\ j = 0)

Work == OneReader /\ InSet /\ NoReadBeside /\ ErasedLast
Flight == OnlyServing /\ UsedIsOpen /\ OnePlace /\ Awaited /\ Work

FInv == TInv /\ (Alive => Flight)

\* Nothing is under way when the server starts.
LEMMA InitFlight == Init => FInv
<1> SUFFICES ASSUME Init PROVE Flight
  BY InitTInv DEF FInv
<1>1. /\ \A c \in Clients, s \in Stages, t \in Threads, i \in Nat : ~At(c, s, t, i)
      /\ \A fd \in Fds, t \in Threads, i \in Nat :
           ~ReadAt(fd, t, i) /\ ~WriteAt(fd, t, i) /\ ~ExeAt(fd, i)
  BY DEF Init, At, ReadAt, WriteAt, ExeAt
<1>2. OnlyServing /\ UsedIsOpen
  BY <1>1, IoAssumption DEF Init, OnlyServing, UsedIsOpen
<1>3. OnePlace /\ Awaited
  BY <1>1 DEF OnePlace, Awaited
<1>4. Work
  BY <1>1 DEF Init, Work, OneReader, InSet, NoReadBeside, ErasedLast, Inserting
<1> QED
  BY <1>2, <1>3, <1>4 DEF Flight

-------------------------------------------------------------------------------
\* What a step does to the places.

\* Nothing moves when queues, threads and owners stay as they are.
LEMMA PlacesSame ==
  ASSUME UNCHANGED <<io_q, exe_q, pc, cur>>
  PROVE  /\ \A fd, t, i : /\ ReadAt(fd, t, i)' <=> ReadAt(fd, t, i)
                          /\ WriteAt(fd, t, i)' <=> WriteAt(fd, t, i)
         /\ \A fd, i : ExeAt(fd, i)' <=> ExeAt(fd, i)
BY DEF ReadAt, WriteAt, ExeAt, FdOf

\* Nothing moves for a thread whose queue, task and place stay as they are.
LEMMA ThreadSame ==
  ASSUME NEW u \in Threads, io_q'[u] = io_q[u], pc'[u] = pc[u], cur'[u] = cur[u]
  PROVE  \A fd, i : /\ ReadAt(fd, u, i)' <=> ReadAt(fd, u, i)
                    /\ WriteAt(fd, u, i)' <=> WriteAt(fd, u, i)
BY DEF ReadAt, WriteAt, FdOf

\* Taking a task moves every place of the thread forward by one: the first task of its
\* queue becomes its own.
LEMMA PopMoves ==
  ASSUME TInv, NEW t \in Threads, TryPop(t)
  PROVE  /\ \A fd : \A i \in Nat : /\ ReadAt(fd, t, i)' <=> ReadAt(fd, t, i + 1)
                                   /\ WriteAt(fd, t, i)' <=> WriteAt(fd, t, i + 1)
         /\ \A fd : ~ReadAt(fd, t, 0) /\ ~WriteAt(fd, t, 0)
<1>1. /\ io_q[t] \in Seq(Tasks) /\ io_q[t] # <<>> /\ io_q'[t] = Tail(io_q[t])
      /\ cur'[t] = io_q[t][1] /\ pc[t] = "pop"
      /\ pc'[t] = IF io_q[t][1].isRead THEN "header" ELSE "write"
  BY DEF TryPop, Goto, TInv, TypeOK, SharedTypes, ThreadTypes
<1>2. /\ Len(io_q[t]) \in Nat \ {0} /\ Len(io_q'[t]) = Len(io_q[t]) - 1
      /\ \A i \in 1 .. Len(io_q'[t]) : io_q'[t][i] = io_q[t][i + 1]
  BY <1>1, HeadTailProperties
<1>3. \A fd : ~ReadAt(fd, t, 0) /\ ~WriteAt(fd, t, 0)
  BY <1>1, <1>2 DEF ReadAt, WriteAt
<1>4. ASSUME NEW fd, NEW i \in Nat
      PROVE  /\ ReadAt(fd, t, i)' <=> ReadAt(fd, t, i + 1)
             /\ WriteAt(fd, t, i)' <=> WriteAt(fd, t, i + 1)
  <2>1. CASE i = 0
    <3>1. 1 \in 1 .. Len(io_q[t]) /\ i + 1 = 1 /\ 0 \notin 1 .. Len(io_q'[t])
      BY <1>2, <2>1
    <3>2. cur'[t] \in Tasks
      BY <1>1, <3>1, ElementOfSeq
    <3>3. cur'[t].isRead \in BOOLEAN
      BY <3>2 DEF Tasks
    <3> QED
      BY <1>1, <2>1, <3>1, <3>3 DEF ReadAt, WriteAt, FdOf
  <2>2. CASE i # 0
    <3>1. i + 1 # 0 /\ (i \in 1 .. Len(io_q'[t]) <=> i + 1 \in 1 .. Len(io_q[t]))
      BY <1>2, <2>2
    <3> QED
      BY <1>2, <2>2, <3>1 DEF ReadAt, WriteAt
  <2> QED
    BY <2>1, <2>2
<1> QED
  BY <1>3, <1>4

\* Appending a task to the queue of its thread adds one place.
LEMMA PushMoves ==
  ASSUME TInv, NEW fd \in Fds, NEW task \in Tasks, UNCHANGED <<pc, cur>>, task.fd = fd,
         io_q' = [io_q EXCEPT ![ThreadOf(fd)] = Append(@, task)],
         NEW g, NEW u \in Threads, NEW i
  PROVE  /\ ReadAt(g, u, i)' =>
              \/ ReadAt(g, u, i)
              \/ task.isRead /\ g = fd /\ u = ThreadOf(fd) /\ i = Len(io_q[u]) + 1
         /\ WriteAt(g, u, i)' =>
              \/ WriteAt(g, u, i)
              \/ ~task.isRead /\ g = fd /\ u = ThreadOf(fd) /\ i = Len(io_q[u]) + 1
<1> DEFINE t == ThreadOf(fd)
<1>1. t \in Threads /\ io_q[t] \in Seq(Tasks)
  BY ThreadOfType DEF TInv, TypeOK, SharedTypes
<1>2. io_q'[t] = Append(io_q[t], task) /\ \A v \in Threads \ {t} : io_q'[v] = io_q[v]
  BY <1>1 DEF TInv, TypeOK, SharedTypes
<1>3. /\ Len(io_q[t]) \in Nat /\ Len(io_q'[t]) = Len(io_q[t]) + 1
      /\ io_q'[t][Len(io_q[t]) + 1] = task
      /\ \A j \in 1 .. Len(io_q[t]) : io_q'[t][j] = io_q[t][j]
  BY <1>1, <1>2
<1>4. CASE u # t
  BY <1>2, <1>4, ThreadSame
<1>5. CASE u = t
  <2>1. i \in 1 .. Len(io_q'[t]) => i \in 1 .. Len(io_q[t]) \/ i = Len(io_q[t]) + 1
    BY <1>3
  <2> QED
    BY <1>3, <1>5, <2>1 DEF ReadAt, WriteAt, FdOf
<1> QED
  BY <1>4, <1>5

\* A read task adds a place that reads.
LEMMA PushReadMoves ==
  ASSUME TInv, NEW fd \in Fds, PushReadTask(fd)
  PROVE  \A g, i : \A u \in Threads :
           /\ ReadAt(g, u, i)' =>
                ReadAt(g, u, i) \/ (g = fd /\ u = ThreadOf(fd) /\ i = Len(io_q[u]) + 1)
           /\ WriteAt(g, u, i)' => WriteAt(g, u, i)
<1>1. PICK task : task = ReadTask(fd)
  OBVIOUS
<1>2. task \in Tasks /\ task.fd = fd /\ task.isRead
  BY <1>1, NoTaskType DEF NoTask, ReadTask, Tasks
<1>3. io_q' = [io_q EXCEPT ![ThreadOf(fd)] = Append(@, task)] /\ UNCHANGED <<pc, cur>>
  BY <1>1 DEF PushReadTask, threadVars
<1> QED
  BY <1>2, <1>3, PushMoves

\* A parsed command goes to the end of exe_q.
LEMMA ParseMoves ==
  ASSUME TInv, NEW t \in Threads, NEW cmd, ParseAndPush(t, cmd)
  PROVE  \A fd, i : ExeAt(fd, i)' => ExeAt(fd, i) \/ (fd = FdOf(t) /\ i = Len(exe_q) + 1)
<1>1. exe_q' = Append(exe_q, [fd |-> FdOf(t), cmd |-> cmd]) /\ Len(exe_q) \in Nat
      /\ exe_q \in Seq([fd : Fds, cmd : Commands])
  BY DEF ParseAndPush, TInv, TypeOK, SharedTypes
<1>2. /\ Len(exe_q') = Len(exe_q) + 1 /\ exe_q'[Len(exe_q) + 1].fd = FdOf(t)
      /\ \A i \in 1 .. Len(exe_q) : exe_q'[i] = exe_q[i]
  BY <1>1
<1>3. \A i \in 1 .. Len(exe_q') : i \in 1 .. Len(exe_q) \/ i = Len(exe_q) + 1
  BY <1>1, <1>2
<1> QED
  BY <1>2, <1>3 DEF ExeAt

\* The first command of exe_q is executed and the others move forward.
LEMMA ExecMoves ==
  ASSUME TInv, exe_q # <<>>, exe_q' = Tail(exe_q)
  PROVE  /\ \A fd : \A i \in Nat : ExeAt(fd, i)' => ExeAt(fd, i + 1)
         /\ ExeAt(Head(exe_q).fd, 1) /\ \A fd : ~ExeAt(fd, 0)
<1>1. exe_q \in Seq([fd : Fds, cmd : Commands])
  BY DEF TInv, TypeOK, SharedTypes
<1>2. /\ Len(exe_q) \in Nat \ {0} /\ Len(exe_q') = Len(exe_q) - 1 /\ Head(exe_q) = exe_q[1]
      /\ \A i \in 1 .. Len(exe_q') : exe_q'[i] = exe_q[i + 1]
  BY <1>1, HeadTailProperties
<1>3. \A i \in Nat : i \in 1 .. Len(exe_q') => i + 1 \in 1 .. Len(exe_q)
  BY <1>2
<1>4. 1 \in 1 .. Len(exe_q) /\ 0 \notin 1 .. Len(exe_q)
  BY <1>2
<1> QED
  BY <1>2, <1>3, <1>4 DEF ExeAt

-------------------------------------------------------------------------------
\* The work for a descriptor: each way a step can change it.

\* A step that starts no work and leaves fdSet alone.
LEMMA WorkQuiet ==
  ASSUME Work, UNCHANGED fdSet,
         \A fd \in Fds, t \in Threads, i \in Nat :
           /\ ReadAt(fd, t, i)' => ReadAt(fd, t, i)
           /\ WriteAt(fd, t, i)' => WriteAt(fd, t, i)
           /\ ExeAt(fd, i)' => ExeAt(fd, i),
         \A t \in Threads : pc'[t] = "erase" => pc[t] = "erase" /\ FdOf(t)' = FdOf(t),
         \A fd \in Fds : Inserting(fd)' <=> Inserting(fd)
  PROVE  Work'
<1>1. OneReader'
  BY DEF Work, OneReader
<1>2. InSet'
  BY DEF Work, InSet
<1>3. NoReadBeside'
  BY DEF Work, NoReadBeside
<1>4. ErasedLast'
  BY DEF Work, ErasedLast
<1> QED
  BY <1>1, <1>2, <1>3, <1>4 DEF Work

\* The main thread pushes a read task for a descriptor that is not in fdSet ...
LEMMA PushReadWork ==
  ASSUME TInv, Work, NEW fd \in Fds, PushReadTask(fd)
  PROVE  Work'
<1> DEFINE t == ThreadOf(fd)
<1>1. /\ mpc = "events" /\ mpc' = "insert" /\ mfd' = fd /\ fd \notin fdSet
      /\ UNCHANGED <<fdSet, exe_q, pc, cur>> /\ t \in Threads
  BY ThreadOfType DEF PushReadTask, threadVars
<1>2. \A g, i : \A u \in Threads :
        /\ ReadAt(g, u, i)' => ReadAt(g, u, i) \/ (g = fd /\ u = t /\ i = Len(io_q[t]) + 1)
        /\ WriteAt(g, u, i)' => WriteAt(g, u, i)
  BY PushReadMoves
<1>3. \A g, i : ExeAt(g, i)' <=> ExeAt(g, i)
  BY <1>1 DEF ExeAt
<1>4. \A u \in Threads, i \in Nat : ~ReadAt(fd, u, i) /\ ~WriteAt(fd, u, i) /\ ~ExeAt(fd, i)
  BY <1>1 DEF Work, InSet, Inserting
<1>5. \A g \in Fds : (Inserting(g)' <=> g = fd) /\ ~Inserting(g)
  BY <1>1 DEF Inserting
<1> HIDE DEF t
<1>6. OneReader'
  BY <1>2, <1>4 DEF Work, OneReader
<1>7. InSet'
  BY <1>1, <1>2, <1>3, <1>5 DEF Work, InSet
<1>8. NoReadBeside'
  BY <1>2, <1>3, <1>4 DEF Work, NoReadBeside
<1>9. ErasedLast'
  BY <1>1, <1>2, <1>3 DEF Work, ErasedLast, FdOf
<1> QED
  BY <1>6, <1>7, <1>8, <1>9 DEF Work

\* ... and puts the descriptor into it.
LEMMA InsertWork ==
  ASSUME TInv, Work, InsertFdSet
  PROVE  Work'
<1>1. /\ mpc = "insert" /\ mpc' = "events" /\ fdSet' = fdSet \cup {mfd}
      /\ UNCHANGED <<io_q, exe_q, pc, cur>>
  BY DEF InsertFdSet, threadVars
<1>2. OneReader' /\ NoReadBeside' /\ ErasedLast'
  BY <1>1, PlacesSame DEF Work, OneReader, NoReadBeside, ErasedLast, FdOf
<1>3. InSet'
  BY <1>1, PlacesSame DEF Work, InSet, Inserting
<1> QED
  BY <1>2, <1>3 DEF Work

\* Executing a command turns its place in exe_q into one in the queue of the thread the
\* descriptor belongs to.
LEMMA ExecWork ==
  ASSUME TInv, Work, ExecCommand
  PROVE  /\ Work'
         /\ \A g, i : \A u \in Threads :
              /\ ReadAt(g, u, i)' => ReadAt(g, u, i)
              /\ WriteAt(g, u, i)' =>
                   \/ WriteAt(g, u, i)
                   \/ /\ g = Head(exe_q).fd /\ u = ThreadOf(g) /\ i = Len(io_q[u]) + 1
                      /\ ExeAt(g, 1)
<1>0. PICK fd, t, cmd, task :
        /\ fd = Head(exe_q).fd /\ t = ThreadOf(fd) /\ cmd = Head(exe_q).cmd
        /\ task = WriteTask(fd, [ret |-> RetOf(cmd), id |-> cmd.id])
  OBVIOUS
<1>1. /\ mpc = "events" /\ exe_q # <<>> /\ exe_q' = Tail(exe_q)
      /\ UNCHANGED <<fdSet, mpc, mfd, pc, cur>>
  BY DEF ExecCommand, threadVars
<1>2. fd \in Fds /\ task \in Tasks /\ task.fd = fd /\ ~task.isRead /\ t \in Threads
  BY <1>0, <1>1, ReplyTaskType, ThreadOfType DEF WriteTask
<1>3. \/ io_q' = [io_q EXCEPT ![t] = Append(@, task)]
      \/ UNCHANGED io_q
  <2>1. PushWriteTask(fd, task)
    BY <1>0 DEF ExecCommand
  <2> QED
    BY <1>0, <1>2, <2>1 DEF PushWriteTask, TInv, TypeOK, SharedTypes
<1>4. /\ \A g : \A i \in Nat : ExeAt(g, i)' => ExeAt(g, i + 1)
      /\ ExeAt(fd, 1)
  BY <1>0, <1>1, ExecMoves
<1>5. \A g, i : \A u \in Threads :
        /\ ReadAt(g, u, i)' => ReadAt(g, u, i)
        /\ WriteAt(g, u, i)' =>
             WriteAt(g, u, i) \/ (g = fd /\ u = t /\ i = Len(io_q[t]) + 1)
  <2>1. CASE UNCHANGED io_q
    BY <1>1, <2>1 DEF ReadAt, WriteAt, FdOf
  <2>2. CASE io_q' = [io_q EXCEPT ![t] = Append(@, task)]
    <3>1. io_q' = [io_q EXCEPT ![ThreadOf(fd)] = Append(@, task)] /\ UNCHANGED <<pc, cur>>
      BY <1>0, <1>1, <2>2
    <3>2. fd \in Fds /\ task \in Tasks /\ task.fd = fd
      BY <1>2
    <3>3. ASSUME NEW g, NEW i, NEW u \in Threads
          PROVE  /\ ReadAt(g, u, i)' =>
                      \/ ReadAt(g, u, i)
                      \/ task.isRead /\ g = fd /\ u = ThreadOf(fd) /\ i = Len(io_q[u]) + 1
                 /\ WriteAt(g, u, i)' =>
                      \/ WriteAt(g, u, i)
                      \/ ~task.isRead /\ g = fd /\ u = ThreadOf(fd) /\ i = Len(io_q[u]) + 1
      BY <3>1, <3>2, PushMoves
    <3> QED
      BY <1>0, <1>2, <3>3
  <2> QED
    BY <1>3, <2>1, <2>2
<1>6. fd \in fdSet /\ \A u \in Threads : ~(pc[u] = "erase" /\ FdOf(u) = fd)
  BY <1>1, <1>2, <1>4 DEF Work, InSet, ErasedLast, Inserting
<1>7. \A g \in Fds : ~Inserting(g) /\ ~Inserting(g)'
  BY <1>1 DEF Inserting
<1>8. t = ThreadOf(fd) /\ Len(io_q[t]) \in Nat
  BY <1>0, <1>2 DEF TInv, TypeOK, SharedTypes
<1>9. \A u \in Threads : pc'[u] = pc[u] /\ FdOf(u)' = FdOf(u)
  BY <1>1 DEF FdOf
<1>10. OneReader'
  BY <1>5 DEF Work, OneReader
<1>11. InSet'
  BY <1>1, <1>4, <1>5, <1>6, <1>7 DEF Work, InSet
<1>12. NoReadBeside'
  BY <1>2, <1>4, <1>5 DEF Work, NoReadBeside
<1>13. ErasedLast'
  BY <1>4, <1>5, <1>6, <1>9 DEF Work, ErasedLast
<1>14. \A g, i : \A u \in Threads :
         /\ ReadAt(g, u, i)' => ReadAt(g, u, i)
         /\ WriteAt(g, u, i)' =>
              \/ WriteAt(g, u, i)
              \/ /\ g = fd /\ u = ThreadOf(g) /\ i = Len(io_q[u]) + 1
                 /\ ExeAt(g, 1)
  BY <1>4, <1>5, <1>8
<1> QED
  BY <1>0, <1>10, <1>11, <1>12, <1>13, <1>14 DEF Work

\* A thread's own tasks, queued or not, are for descriptors of its own.
LEMMA OwnPlaces ==
  ASSUME TInv, NEW fd \in Fds, NEW t \in Threads, NEW i, ReadAt(fd, t, i) \/ WriteAt(fd, t, i)
  PROVE  t = ThreadOf(fd)
BY DEF ReadAt, WriteAt, TInv, QueueOK, CurOK

\* Taking a task.
LEMMA PopWork ==
  ASSUME TInv, Work, NEW t \in Threads, TryPop(t)
  PROVE  Work'
<1>1. /\ pc[t] = "pop" /\ pc'[t] \in {"header", "write"}
      /\ UNCHANGED <<fdSet, exe_q, mpc, mfd>>
      /\ \A u \in Threads \ {t} : pc'[u] = pc[u] /\ cur'[u] = cur[u] /\ io_q'[u] = io_q[u]
  BY ThreadFrame DEF TryPop, Goto, mainVars, TInv, TypeOK, ThreadTypes, IOThreadMain
<1>2. \A u \in Threads \ {t} : pc'[u] = pc[u] /\ FdOf(u)' = FdOf(u)
  BY <1>1 DEF FdOf
<1>3. \A fd, i : \A u \in Threads \ {t} : /\ ReadAt(fd, u, i)' <=> ReadAt(fd, u, i)
                                          /\ WriteAt(fd, u, i)' <=> WriteAt(fd, u, i)
  BY <1>1, ThreadSame
<1>4. /\ \A fd : \A i \in Nat : /\ ReadAt(fd, t, i)' <=> ReadAt(fd, t, i + 1)
                                /\ WriteAt(fd, t, i)' <=> WriteAt(fd, t, i + 1)
      /\ \A fd : ~ReadAt(fd, t, 0) /\ ~WriteAt(fd, t, 0)
  BY PopMoves
<1>5. \A fd, i : ExeAt(fd, i)' <=> ExeAt(fd, i)
  BY <1>1 DEF ExeAt
<1>6. \A fd \in Fds : Inserting(fd)' <=> Inserting(fd)
  BY <1>1 DEF Inserting
<1>7. OneReader'
  <2> SUFFICES ASSUME NEW fd \in Fds, NEW u \in Threads, NEW v \in Threads, NEW i \in Nat,
                      NEW j \in Nat, ReadAt(fd, u, i)', ReadAt(fd, v, j)'
               PROVE  u = v /\ i = j
    BY DEF OneReader
  <2>1. i + 1 \in Nat /\ j + 1 \in Nat /\ (i + 1 = j + 1 => i = j)
    OBVIOUS
  <2>2. \E k \in Nat : ReadAt(fd, u, k) /\ IF u = t THEN k = i + 1 ELSE k = i
    BY <1>3, <1>4, <2>1
  <2>3. \E k \in Nat : ReadAt(fd, v, k) /\ IF v = t THEN k = j + 1 ELSE k = j
    BY <1>3, <1>4, <2>1
  <2> QED
    BY <2>1, <2>2, <2>3 DEF Work, OneReader
<1>8. InSet'
  <2>1. \A fd \in Fds, u \in Threads, i \in Nat :
          /\ ReadAt(fd, u, i)' => \E k \in Nat : ReadAt(fd, u, k)
          /\ WriteAt(fd, u, i)' => \E k \in Nat : WriteAt(fd, u, k)
    BY <1>3, <1>4
  <2> QED
    BY <1>1, <1>5, <1>6, <2>1 DEF Work, InSet
<1>9. NoReadBeside'
  <2> SUFFICES ASSUME NEW fd \in Fds, NEW u \in Threads, NEW v \in Threads, NEW i \in Nat,
                      NEW j \in Nat, ReadAt(fd, u, i)', WriteAt(fd, v, j)' \/ ExeAt(fd, j)'
               PROVE  i = 0
    BY DEF NoReadBeside
  <2>1. \E k \in Nat : WriteAt(fd, v, k) \/ ExeAt(fd, k)
    BY <1>3, <1>4, <1>5
  <2>2. i + 1 \in Nat /\ i + 1 # 0
    OBVIOUS
  <2> QED
    BY <1>3, <1>4, <2>1, <2>2 DEF Work, NoReadBeside
<1>10. ErasedLast'
  <2> SUFFICES ASSUME NEW fd \in Fds, NEW v \in Threads, NEW u \in Threads, NEW j \in Nat,
                      pc'[v] = "erase", FdOf(v)' = fd
               PROVE  ~ExeAt(fd, j)' /\ (WriteAt(fd, u, j)' => u = v /\ j = 0)
    BY DEF ErasedLast
  <2>1. v # t /\ pc[v] = "erase" /\ FdOf(v) = fd
    BY <1>1, <1>2
  <2>2. v = ThreadOf(fd)
    BY <2>1 DEF TInv, CurOK
  <2>3. \A k \in Nat : ~WriteAt(fd, t, k)
    BY <2>1, <2>2, OwnPlaces
  <2> QED
    BY <1>3, <1>4, <1>5, <2>1, <2>3 DEF Work, ErasedLast
<1> QED
  BY <1>7, <1>8, <1>9, <1>10 DEF Work

\* A step of an IO thread other than TryPop leaves every queue alone, so that only the
\* thread's own place can change.
LEMMA OwnMoves ==
  ASSUME TInv, NEW t \in Threads, IOThreadMain(t), ~TryPop(t)
  PROVE  /\ UNCHANGED <<io_q, mpc, mfd>> /\ pc[t] # "pop"
         /\ \A u \in Threads \ {t} : pc'[u] = pc[u] /\ FdOf(u)' = FdOf(u)
         /\ \A fd, i : \A u \in Threads :
              u # t \/ i # 0 => /\ ReadAt(fd, u, i)' <=> ReadAt(fd, u, i)
                                /\ WriteAt(fd, u, i)' <=> WriteAt(fd, u, i)
         /\ FdOf(t) \in Fds /\ ThreadOf(FdOf(t)) = t
         /\ pc'[t] # "pop" => FdOf(t)' = FdOf(t)
         /\ \A fd \in Fds, u \in Threads, i \in Nat :
              /\ ReadAt(fd, u, i) \/ WriteAt(fd, u, i) => u = ThreadOf(fd)
              /\ ReadAt(fd, u, i)' \/ WriteAt(fd, u, i)' => u = ThreadOf(fd)
<1>1. UNCHANGED io_q
  BY DEF IOThreadMain, ReadHeader, ReadNothing, ReadEndOfFile, ReadError, ReadPayload,
         MissPayload, ParseEmpty, ParseGarbage, ParseAndPush, Close, DelEvent, Unmask,
         EraseFdSet, WriteReply, WriteToDead, sharedVars
<1>2. /\ UNCHANGED <<mpc, mfd>>
      /\ \A u \in Threads \ {t} : pc'[u] = pc[u] /\ cur'[u] = cur[u]
  BY ThreadFrame DEF mainVars
<1>3. \A u \in Threads \ {t} : pc'[u] = pc[u] /\ FdOf(u)' = FdOf(u)
  BY <1>2 DEF FdOf
<1>4. /\ pc[t] # "pop" /\ FdOf(t) \in Fds /\ ThreadOf(FdOf(t)) = t
      /\ pc'[t] # "pop" => FdOf(t)' = FdOf(t)
  BY CurFrame DEF TInv, CurOK, FdOf
<1>5. \A fd, i : \A u \in Threads :
        u # t \/ i # 0 => /\ ReadAt(fd, u, i)' <=> ReadAt(fd, u, i)
                          /\ WriteAt(fd, u, i)' <=> WriteAt(fd, u, i)
  BY <1>1, <1>3 DEF ReadAt, WriteAt
<1>6. \A fd \in Fds, u \in Threads, i \in Nat :
        /\ ReadAt(fd, u, i) \/ WriteAt(fd, u, i) => u = ThreadOf(fd)
        /\ ReadAt(fd, u, i)' \/ WriteAt(fd, u, i)' => u = ThreadOf(fd)
  <2>1. ASSUME NEW fd \in Fds, NEW u \in Threads, NEW i \in Nat,
               ReadAt(fd, u, i)' \/ WriteAt(fd, u, i)'
        PROVE  u = ThreadOf(fd)
    <3>1. CASE u # t \/ i # 0
      BY <1>5, <2>1, <3>1, OwnPlaces
    <3>2. CASE u = t /\ i = 0
      <4>1. i \notin 1 .. Len(io_q'[t])
        BY <3>2
      <4> QED
        BY <1>4, <2>1, <3>2, <4>1 DEF ReadAt, WriteAt
    <3> QED
      BY <3>1, <3>2
  <2> QED
    BY <2>1, OwnPlaces
<1> QED
  BY <1>1, <1>2, <1>3, <1>4, <1>5, <1>6

\* The place of the thread itself.
LEMMA OwnPlace ==
  ASSUME NEW t \in Threads, NEW fd
  PROVE  /\ ReadAt(fd, t, 0) <=> pc[t] \in {"header", "payload"} /\ FdOf(t) = fd
         /\ WriteAt(fd, t, 0) <=> pc[t] \in {"write", "erase"} /\ FdOf(t) = fd
BY DEF ReadAt, WriteAt

\* Parsing a command: the reader of the descriptor is the only read task of it.
LEMMA ParseWork ==
  ASSUME TInv, Work, NEW t \in Threads, IOThreadMain(t), ~TryPop(t),
         pc[t] = "payload", NEW cmd, ParseAndPush(t, cmd)
  PROVE  Work'
<1>1. /\ pc'[t] = "header" /\ UNCHANGED <<fdSet, mpc, mfd>> /\ FdOf(t) \in Fds
      /\ FdOf(t)' = FdOf(t) /\ ThreadOf(FdOf(t)) = t
      /\ \A u \in Threads \ {t} : pc'[u] = pc[u] /\ FdOf(u)' = FdOf(u)
  BY OwnMoves DEF ParseAndPush, Goto, TInv, TypeOK, ThreadTypes
<1>2. \A fd : \A u \in Threads, i \in Nat : /\ ReadAt(fd, u, i)' <=> ReadAt(fd, u, i)
                                            /\ WriteAt(fd, u, i)' <=> WriteAt(fd, u, i)
  <2>1. \A fd : /\ ReadAt(fd, t, 0) <=> FdOf(t) = fd
                /\ ReadAt(fd, t, 0)' <=> FdOf(t) = fd
                /\ ~WriteAt(fd, t, 0) /\ ~WriteAt(fd, t, 0)'
    BY <1>1 DEF ReadAt, WriteAt
  <2> QED
    BY <2>1, OwnMoves
<1>3. \A fd : \A i \in Nat : ExeAt(fd, i)' => ExeAt(fd, i) \/ fd = FdOf(t)
  BY ParseMoves
<1>4. ReadAt(FdOf(t), t, 0)
  BY DEF ReadAt
<1>5. \A fd \in Fds : Inserting(fd)' <=> Inserting(fd)
  BY <1>1 DEF Inserting
<1>6. OneReader'
  BY <1>2 DEF Work, OneReader
<1>7. InSet'
  BY <1>1, <1>2, <1>3, <1>4, <1>5 DEF Work, InSet
<1>8. NoReadBeside'
  <2>1. \A u \in Threads, i \in Nat : ReadAt(FdOf(t), u, i) => i = 0
    BY <1>1, <1>4 DEF Work, OneReader
  <2> QED
    BY <1>2, <1>3, <2>1 DEF Work, NoReadBeside
<1>9. ErasedLast'
  <2>1. \A u \in Threads : pc'[u] = "erase" => /\ pc[u] = "erase" /\ FdOf(u)' = FdOf(u)
                                               /\ FdOf(u) # FdOf(t)
    BY <1>1 DEF TInv, CurOK
  <2> QED
    BY <1>2, <1>3, <2>1 DEF Work, ErasedLast
<1> QED
  BY <1>6, <1>7, <1>8, <1>9 DEF Work

\* The thread takes the descriptor out of fdSet, when nothing else is under way for it.
LEMMA EraseWork ==
  ASSUME TInv, Work, NEW t \in Threads, IOThreadMain(t), EraseFdSet(t)
  PROVE  Work'
<1>0. PICK f : f = FdOf(t)
  OBVIOUS
<1>1. /\ pc[t] = "erase" /\ pc'[t] = "pop" /\ fdSet' = fdSet \ {f}
      /\ UNCHANGED exe_q /\ ~TryPop(t)
  BY <1>0 DEF EraseFdSet, TryPop, Goto, TInv, TypeOK, ThreadTypes
<1>2. /\ UNCHANGED <<mpc, mfd>> /\ f \in Fds /\ ThreadOf(f) = t
      /\ \A u \in Threads \ {t} : pc'[u] = pc[u] /\ FdOf(u)' = FdOf(u)
  BY <1>0, <1>1, OwnMoves
<1>3. \A fd : ~ReadAt(fd, t, 0) /\ ~ReadAt(fd, t, 0)' /\ ~WriteAt(fd, t, 0)'
  BY <1>1 DEF ReadAt, WriteAt
<1>4. \A fd : \A u \in Threads, i \in Nat :
        /\ ReadAt(fd, u, i)' <=> ReadAt(fd, u, i)
        /\ WriteAt(fd, u, i)' => WriteAt(fd, u, i) /\ (u # t \/ i # 0)
  BY <1>1, <1>3, OwnMoves
<1>5. \A fd, i : ExeAt(fd, i)' <=> ExeAt(fd, i)
  BY <1>1 DEF ExeAt
<1>6. \A fd \in Fds : Inserting(fd)' <=> Inserting(fd)
  BY <1>2 DEF Inserting
<1>7. WriteAt(f, t, 0)
  BY <1>0, <1>1 DEF WriteAt
<1>8. \A u \in Threads, i \in Nat : ~ReadAt(f, u, i)
  <2> SUFFICES ASSUME NEW u \in Threads, NEW i \in Nat, ReadAt(f, u, i)
               PROVE  FALSE
    OBVIOUS
  <2>1. i = 0 /\ u = t
    BY <1>1, <1>2, <1>7, OwnMoves DEF Work, NoReadBeside
  <2> QED
    BY <1>3, <2>1
<1>9. \A u \in Threads, i \in Nat : ~ExeAt(f, i) /\ ~WriteAt(f, u, i)'
  BY <1>0, <1>1, <1>2, <1>4 DEF Work, ErasedLast
<1>10. OneReader' /\ NoReadBeside'
  BY <1>4, <1>5 DEF Work, OneReader, NoReadBeside
<1>11. InSet'
  BY <1>1, <1>2, <1>4, <1>5, <1>6, <1>8, <1>9 DEF Work, InSet
<1>12. ErasedLast'
  <2>1. \A u \in Threads : pc'[u] = "erase" => pc[u] = "erase" /\ FdOf(u)' = FdOf(u)
    BY <1>1, <1>2
  <2> QED
    BY <1>4, <1>5, <2>1 DEF Work, ErasedLast
<1> QED
  BY <1>10, <1>11, <1>12 DEF Work

\* Writing a reply: the command was in no other place, so nothing of the descriptor is
\* left when the thread comes to the erase.
LEMMA WriteWork ==
  ASSUME TInv, Work, UsedIsOpen, OnePlace, NEW t \in Threads, IOThreadMain(t), WriteReply(t)
  PROVE  Work'
<1>1. /\ pc[t] = "write" /\ pc'[t] = "erase" /\ UNCHANGED <<fdSet, exe_q, cur>> /\ ~TryPop(t)
  BY DEF WriteReply, TryPop, Goto, TInv, TypeOK, ThreadTypes, sharedVars
<1>2. /\ UNCHANGED <<mpc, mfd>> /\ FdOf(t) \in Fds /\ ThreadOf(FdOf(t)) = t
      /\ \A u \in Threads : FdOf(u)' = FdOf(u)
      /\ \A u \in Threads \ {t} : pc'[u] = pc[u]
  BY <1>1, OwnMoves DEF FdOf
<1>3. \A fd : /\ ~ReadAt(fd, t, 0) /\ ~ReadAt(fd, t, 0)'
              /\ WriteAt(fd, t, 0) <=> FdOf(t) = fd
              /\ WriteAt(fd, t, 0)' <=> FdOf(t) = fd
  BY <1>1, <1>2 DEF ReadAt, WriteAt
<1>4. \A fd : \A u \in Threads, i \in Nat :
        /\ ReadAt(fd, u, i)' <=> ReadAt(fd, u, i)
        /\ WriteAt(fd, u, i)' <=> WriteAt(fd, u, i)
  BY <1>1, <1>3, OwnMoves
<1>5. \A fd, i : ExeAt(fd, i)' <=> ExeAt(fd, i)
  BY <1>1 DEF ExeAt
<1>6. \A fd \in Fds : Inserting(fd)' <=> Inserting(fd)
  BY <1>2 DEF Inserting
<1>7. OneReader' /\ NoReadBeside'
  BY <1>4, <1>5 DEF Work, OneReader, NoReadBeside
<1>8. InSet'
  BY <1>1, <1>4, <1>5, <1>6 DEF Work, InSet
<1>9. \A u \in Threads, j \in Nat :
        ~ExeAt(FdOf(t), j) /\ (WriteAt(FdOf(t), u, j) => u = t /\ j = 0)
  <2> DEFINE fd == FdOf(t)
             c == fdOwner[fd]
  <2>0. WriteAt(fd, t, 0) /\ fd \in Fds
    BY <1>2, <1>3
  <2>1. c \in Clients /\ 0 \in Threads
    <3>1. Open(fd)
      BY <2>0 DEF UsedIsOpen
    <3>2. c \in Clients
      BY <2>0, <3>1 DEF Open, TInv, TypeOK, KernelTypes
    <3>3. 0 \in Threads
      BY IoAssumption, SMT DEF Threads
    <3> QED
      BY <3>2, <3>3
  <2>2. At(c, "queued", t, 0)
    BY <1>1, <1>2, <1>3 DEF At
  <2>3. \A j \in Nat : ExeAt(fd, j) => At(c, "parsed", 0, j)
    BY <1>2 DEF At
  <2>4. \A u \in Threads, j \in Nat : WriteAt(fd, u, j) => u = t
    BY <1>1, <1>2, OwnMoves
  <2>5. \A j \in Nat : WriteAt(fd, t, j) => At(c, "queued", t, j)
    BY <1>1, <1>2 DEF At
  <2> HIDE DEF c, fd
  <2>6. \A j \in Nat : ~ExeAt(fd, j)
    BY <2>1, <2>2, <2>3 DEF OnePlace, Stages
  <2>7. \A j \in Nat : WriteAt(fd, t, j) => j = 0
    BY <2>1, <2>2, <2>5 DEF OnePlace, Stages
  <2> QED
    BY <2>4, <2>6, <2>7 DEF fd
<1>10. ErasedLast'
  BY <1>1, <1>2, <1>4, <1>5, <1>9 DEF Work, ErasedLast
<1> QED
  BY <1>7, <1>8, <1>10 DEF Work

\* A thread works for a client that is there.
LEMMA OwnerThere ==
  ASSUME TInv, UsedIsOpen, NEW t \in Threads,
         pc[t] \in {"header", "payload", "write", "erase"}
  PROVE  FdOf(t) \in Fds /\ Open(FdOf(t)) /\ fdOwner[FdOf(t)] \in Clients
<1>1. FdOf(t) \in Fds /\ (ReadAt(FdOf(t), t, 0) \/ WriteAt(FdOf(t), t, 0))
  BY DEF ReadAt, WriteAt, TInv, CurOK
<1>2. Open(FdOf(t))
  BY <1>1 DEF UsedIsOpen
<1> QED
  BY <1>1, <1>2 DEF Open, TInv, TypeOK, KernelTypes

\* While every client is there, no thread meets an end of file or an error.
LEMMA ServingSteps ==
  ASSUME TInv, Alive, OnlyServing, UsedIsOpen, NEW t \in Threads, IOThreadMain(t)
  PROVE  \/ TryPop(t) \/ ReadHeader(t) \/ ReadNothing(t)
         \/ ReadPayload(t) \/ MissPayload(t) \/ (ParseGarbage(t) /\ pc[t] = "payload")
         \/ EraseFdSet(t) \/ WriteReply(t)
<1>1. pc[t] \notin {"empty", "close", "delev", "unmask"}
  BY DEF OnlyServing
<1>2. ~ReadEndOfFile(t) /\ ~ReadError(t) /\ ~WriteToDead(t)
  BY OwnerThere DEF ReadEndOfFile, ReadError, WriteToDead, Alive
<1> QED
  BY <1>1, <1>2 DEF IOThreadMain, ParseEmpty, ParseGarbage, Close, DelEvent, Unmask

\* The steps of an IO thread.
LEMMA ThreadWork ==
  ASSUME TInv, Alive, Flight, NEW t \in Threads, IOThreadMain(t)
  PROVE  Work'
<1> USE DEF Flight
<1>1. CASE TryPop(t)
  BY <1>1, PopWork
<1>2. CASE ReadPayload(t)
  <2>1. pc[t] = "payload" /\ ~TryPop(t) /\ \E cmd : ParseAndPush(t, cmd)
    BY <1>2 DEF ReadPayload, TryPop
  <2> QED
    BY <2>1, ParseWork
<1>3. CASE MissPayload(t)
  <2>1. pc[t] = "payload" /\ ~TryPop(t) /\ \E cmd : ParseAndPush(t, cmd)
    BY <1>3 DEF MissPayload, TryPop
  <2> QED
    BY <2>1, ParseWork
<1>4. CASE EraseFdSet(t)
  BY <1>4, EraseWork
<1>5. CASE WriteReply(t)
  BY <1>5, WriteWork
<1>6. CASE ReadHeader(t) \/ ReadNothing(t) \/ (ParseGarbage(t) /\ pc[t] = "payload")
  <2>1. /\ pc[t] \in {"header", "payload"} /\ pc'[t] \in {"header", "payload", "pop"}
        /\ UNCHANGED <<fdSet, exe_q>> /\ ~TryPop(t)
    BY <1>6 DEF ReadHeader, ReadNothing, ParseGarbage, TryPop, Goto, TInv, TypeOK, ThreadTypes,
                sharedVars, threadVars
  <2>2. \A fd : /\ ReadAt(fd, t, 0)' => ReadAt(fd, t, 0)
                /\ ~WriteAt(fd, t, 0)'
    BY <2>1, OwnMoves DEF ReadAt, WriteAt
  <2>3. \A fd \in Fds, u \in Threads, i \in Nat :
          /\ ReadAt(fd, u, i)' => ReadAt(fd, u, i)
          /\ WriteAt(fd, u, i)' => WriteAt(fd, u, i)
          /\ ExeAt(fd, i)' => ExeAt(fd, i)
    BY <2>1, <2>2, OwnMoves DEF ExeAt
  <2>4. \A u \in Threads : pc'[u] = "erase" => pc[u] = "erase" /\ FdOf(u)' = FdOf(u)
    BY <2>1, OwnMoves
  <2>5. \A fd \in Fds : Inserting(fd)' <=> Inserting(fd)
    BY <2>1, OwnMoves DEF Inserting
  <2> QED
    BY <2>1, <2>3, <2>4, <2>5, WorkQuiet
<1> QED
  BY <1>1, <1>2, <1>3, <1>4, <1>5, <1>6, ServingSteps

\* A step that leaves queues, threads and the set alone and is not about the insertion.
LEMMA WorkStays ==
  ASSUME Work, UNCHANGED <<io_q, exe_q, pc, cur, fdSet>>,
         UNCHANGED <<mpc, mfd>> \/ (mpc # "insert" /\ mpc' # "insert")
  PROVE  Work'
<1>1. \A fd \in Fds : Inserting(fd)' <=> Inserting(fd)
  BY DEF Inserting
<1>2. \A t \in Threads : pc'[t] = "erase" => pc[t] = "erase" /\ FdOf(t)' = FdOf(t)
  BY DEF FdOf
<1>3. \A fd \in Fds, t \in Threads, i \in Nat :
        /\ ReadAt(fd, t, i)' => ReadAt(fd, t, i)
        /\ WriteAt(fd, t, i)' => WriteAt(fd, t, i)
        /\ ExeAt(fd, i)' => ExeAt(fd, i)
  BY PlacesSame
<1> QED
  BY <1>1, <1>2, <1>3, WorkQuiet

\* Any step.
LEMMA WorkKept ==
  ASSUME TInv, Alive, Flight, Next
  PROVE  Work'
<1> USE DEF Flight
<1>1. ASSUME NEW c \in Clients, Client(c) \/ Exit(c)
      PROVE  Work'
  BY <1>1, ClientFrame, WorkStays DEF mainVars, threadVars, sharedVars
<1>2. CASE AeMain
  <2>1. ASSUME NEW fd \in Fds, PushReadTask(fd)
        PROVE  Work'
    BY <2>1, PushReadWork
  <2>2. CASE InsertFdSet
    BY <2>2, InsertWork
  <2>3. CASE ExecCommand
    BY <2>3, ExecWork
  <2>4. CASE \/ AeApiPoll \/ MainReturns \/ Accept \/ Register \/ RegisterFails \/ SetMask
             \/ EndRound \/ \E fd \in Fds : DropEvent(fd)
    <3>1. UNCHANGED <<io_q, exe_q, pc, cur, fdSet>>
      BY <2>4 DEF AeApiPoll, MainReturns, Accept, Register, RegisterFails, SetMask, EndRound,
                  DropEvent, sharedVars, threadVars
    <3>2. UNCHANGED <<mpc, mfd>> \/ (mpc # "insert" /\ mpc' # "insert")
      BY <2>4 DEF AeApiPoll, MainReturns, Accept, Register, RegisterFails, SetMask, EndRound,
                  DropEvent, mainVars
    <3> QED
      BY <3>1, <3>2, WorkStays
  <2> QED
    BY <1>2, <2>1, <2>2, <2>3, <2>4 DEF AeMain
<1>3. ASSUME NEW t \in Threads, IOThreadMain(t)
      PROVE  Work'
  BY <1>3, ThreadWork
<1> QED
  BY <1>1, <1>2, <1>3 DEF Next

-------------------------------------------------------------------------------
\* Descriptors stay open while no client has left.

\* A step opens a descriptor or leaves it to its owner, and closes none.
LEMMA OwnersStay ==
  ASSUME TInv, Alive, OnlyServing, UsedIsOpen, Next
  PROVE  \A fd \in Fds : Open(fd) => Open(fd)' /\ fdOwner'[fd] = fdOwner[fd]
<1>1. ASSUME NEW c \in Clients, Client(c) \/ Exit(c)
      PROVE  UNCHANGED fdOwner
  BY <1>1, ClientFrame
<1>2. ASSUME AeMain, ~Accept
      PROVE  UNCHANGED fdOwner
  BY <1>2 DEF AeMain, AeApiPoll, MainReturns, Register, RegisterFails, SetMask, PushReadTask,
              DropEvent, InsertFdSet, ExecCommand, EndRound, kernelVars
<1>3. CASE Accept
  BY <1>3 DEF Accept, LowestFree, Open, TInv, TypeOK, KernelTypes
<1>4. ASSUME NEW t \in Threads, IOThreadMain(t)
      PROVE  UNCHANGED fdOwner
  BY <1>4, ServingSteps DEF TryPop, ReadHeader, ReadNothing, ReadPayload, MissPayload,
     ParseGarbage, EraseFdSet, WriteReply, kernelVars
<1> QED
  BY <1>1, <1>2, <1>3, <1>4 DEF Next, Open

\* What is under way was under way for the same descriptor, or starts for one that epoll
\* reported or a thread was reading.
LEMMA UsedKept ==
  ASSUME TInv, Alive, Flight, Next
  PROVE  UsedIsOpen'
<1> DEFINE Used(fd) == \E t \in Threads, i \in Nat :
                         ReadAt(fd, t, i) \/ WriteAt(fd, t, i) \/ ExeAt(fd, i)
           Known(fd) == fd \in interest \cup ready \cup fired \/ Used(fd)
<1> USE DEF Flight
<1>1. \A fd \in Fds : Known(fd) => Open(fd)
  BY DEF UsedIsOpen
<1>2. mpc = "register" => Open(mfd) /\ mfd \in Fds
  BY DEF UsedIsOpen, TInv, MfdOK
<1>3. \A fd \in Fds : Open(fd) => Open(fd)'
  BY OwnersStay
<1> SUFFICES /\ \A fd \in Fds : Known(fd)' => Open(fd)'
             /\ mpc' = "register" => Open(mfd)'
  BY DEF UsedIsOpen
<1>4. ASSUME NEW c \in Clients, Client(c) \/ Exit(c)
      PROVE  /\ \A fd \in Fds : Known(fd)' => Known(fd)
             /\ mpc' = "register" => mpc = "register" /\ mfd' = mfd
  <2>1. UNCHANGED <<io_q, exe_q, pc, cur, interest, fired, mpc, mfd>>
    BY <1>4, ClientFrame DEF mainVars, threadVars, sharedVars
  <2>2. ready' \subseteq ready \cup interest \cup {Listen}
    BY <1>4 DEF Client, Connect, SendHeader, SendPayload, SendPiece, Receive, Exit, Wake,
                kernelVars
  <2> QED
    BY <2>1, <2>2, PlacesSame, IoAssumption
<1>5. ASSUME AeMain
      PROVE  /\ \A fd \in Fds : Known(fd)' => Known(fd) \/ (mpc = "register" /\ fd = mfd)
             /\ mpc' = "register" => Open(mfd)'
  <2>1. ASSUME NEW fd \in Fds, PushReadTask(fd)
        PROVE  \A g \in Fds : Known(g)' => Known(g)
    <3>1. /\ fd \in fired /\ fired' \subseteq fired
          /\ UNCHANGED <<interest, ready, exe_q>>
      BY <2>1 DEF PushReadTask, kernelVars
    <3>2. \A g \in Fds, u \in Threads, i \in Nat :
            /\ ReadAt(g, u, i)' => ReadAt(g, u, i) \/ g = fd
            /\ WriteAt(g, u, i)' => WriteAt(g, u, i)
            /\ ExeAt(g, i)' <=> ExeAt(g, i)
      BY <2>1, <3>1, PushReadMoves DEF ExeAt
    <3> QED
      BY <3>1, <3>2
  <2>2. CASE ExecCommand
    <3>1. UNCHANGED <<interest, ready, fired, mpc>> /\ exe_q # <<>> /\ exe_q' = Tail(exe_q)
          /\ mpc = "events"
      BY <2>2 DEF ExecCommand, kernelVars
    <3>2. \A g \in Fds, u \in Threads, i \in Nat :
            /\ ReadAt(g, u, i)' => ReadAt(g, u, i)
            /\ WriteAt(g, u, i)' => WriteAt(g, u, i) \/ ExeAt(g, 1)
            /\ ExeAt(g, i)' => ExeAt(g, i + 1)
      BY <2>2, <3>1, ExecWork, ExecMoves
    <3>3. \A g \in Fds : Used(g)' => Used(g)
      BY <3>2
    <3> QED
      BY <3>1, <3>3
  <2>3. CASE \/ AeApiPoll \/ MainReturns \/ Accept \/ Register \/ RegisterFails \/ SetMask
             \/ InsertFdSet \/ EndRound \/ \E fd \in Fds : DropEvent(fd)
    <3>1. UNCHANGED <<io_q, exe_q, pc, cur>>
      BY <2>3 DEF AeApiPoll, MainReturns, Accept, Register, RegisterFails, SetMask, EndRound,
                  InsertFdSet, DropEvent, sharedVars, threadVars
    <3>2. \A fd \in interest' \cup ready' \cup fired' :
            \/ fd \in interest \cup ready \cup fired
            \/ mpc = "register" /\ fd = mfd
      BY <2>3 DEF AeApiPoll, MainReturns, Accept, Register, RegisterFails, SetMask, EndRound,
                  InsertFdSet, DropEvent, kernelVars, mainVars
    <3>3. \A g \in Fds : Used(g)' => Used(g)
      BY <3>1, PlacesSame
    <3>4. mpc' = "register" => Accept \/ (UNCHANGED <<mpc, mfd>>)
      BY <2>3 DEF AeApiPoll, MainReturns, Register, RegisterFails, SetMask, EndRound,
                  InsertFdSet, DropEvent, mainVars
    <3>5. Accept => Open(mfd)'
      <4> SUFFICES ASSUME Accept PROVE Open(mfd)'
        OBVIOUS
      <4>1. Head(backlog) \in Clients /\ Head(backlog) # NoConn
        BY HeadTailProperties, IoAssumption DEF Accept, TInv, TypeOK, KernelTypes
      <4>2. fdOwner'[mfd'] = Head(backlog)
        BY DEF Accept, TInv, TypeOK, KernelTypes
      <4> QED
        BY <4>1, <4>2 DEF Open
    <3>6. mpc' = "register" => Open(mfd)'
      BY <1>2, <1>3, <3>4, <3>5
    <3> QED
      BY <3>2, <3>3, <3>6
  <2>4. (\E fd \in Fds : PushReadTask(fd)) => mpc' # "register"
    BY DEF PushReadTask
  <2>5. ExecCommand => mpc' # "register"
    BY DEF ExecCommand
  <2> QED
    BY <1>5, <2>1, <2>2, <2>3, <2>4, <2>5 DEF AeMain
<1>6. ASSUME NEW t \in Threads, IOThreadMain(t)
      PROVE  /\ \A fd \in Fds : Known(fd)' => Known(fd)
             /\ mpc' = "register" => mpc = "register" /\ mfd' = mfd
  <2>1. UNCHANGED <<interest, ready, fired, mpc, mfd>>
    BY <1>6, ServingSteps DEF TryPop, ReadHeader, ReadNothing, ReadPayload, MissPayload,
       ParseGarbage, EraseFdSet, WriteReply, kernelVars, mainVars
  <2>2. CASE TryPop(t)
    <3>1. UNCHANGED exe_q /\ \A u \in Threads \ {t} : /\ pc'[u] = pc[u] /\ cur'[u] = cur[u]
                                                     /\ io_q'[u] = io_q[u]
      BY <1>6, <2>2, ThreadFrame DEF TryPop
    <3>2. \A g \in Fds, u \in Threads, i \in Nat :
            /\ ReadAt(g, u, i)' => ReadAt(g, u, i) \/ ReadAt(g, u, i + 1)
            /\ WriteAt(g, u, i)' => WriteAt(g, u, i) \/ WriteAt(g, u, i + 1)
            /\ ExeAt(g, i)' <=> ExeAt(g, i)
      BY <2>2, <3>1, PopMoves, ThreadSame DEF ExeAt
    <3>3. \A g \in Fds : Used(g)' => Used(g)
      BY <3>2
    <3> QED
      BY <2>1, <3>3
  <2>3. CASE ~TryPop(t)
    <3>1. \A g \in Fds : /\ ReadAt(g, t, 0)' => ReadAt(g, t, 0)
                         /\ WriteAt(g, t, 0)' => WriteAt(g, t, 0)
      <4>1. pc'[t] # "pop" => FdOf(t)' = FdOf(t)
        BY <1>6, <2>3, OwnMoves
      <4>2. /\ pc'[t] \in {"header", "payload"} => pc[t] \in {"header", "payload"}
            /\ pc'[t] \in {"write", "erase"} => pc[t] \in {"write", "erase"}
        BY <1>6, <2>3, ServingSteps DEF ReadHeader, ReadNothing, ReadPayload, MissPayload,
           ParseGarbage, ParseAndPush, EraseFdSet, WriteReply, Goto, threadVars, TInv, TypeOK,
           ThreadTypes
      <4>3. \A g : /\ ReadAt(g, t, 0) <=> pc[t] \in {"header", "payload"} /\ FdOf(t) = g
                   /\ WriteAt(g, t, 0) <=> pc[t] \in {"write", "erase"} /\ FdOf(t) = g
                   /\ ReadAt(g, t, 0)' <=> pc'[t] \in {"header", "payload"} /\ FdOf(t)' = g
                   /\ WriteAt(g, t, 0)' <=> pc'[t] \in {"write", "erase"} /\ FdOf(t)' = g
        BY DEF ReadAt, WriteAt
      <4> QED
        BY <4>1, <4>2, <4>3
    <3>2. \A g \in Fds, i \in Nat : ExeAt(g, i)' => ExeAt(g, i) \/ ReadAt(g, t, 0)
      <4>1. CASE ReadPayload(t) \/ MissPayload(t)
        <5>1. pc[t] = "payload" /\ \E cmd : ParseAndPush(t, cmd)
          BY <4>1 DEF ReadPayload, MissPayload
        <5>2. ReadAt(FdOf(t), t, 0)
          BY <5>1 DEF ReadAt
        <5> QED
          BY <5>1, <5>2, ParseMoves
      <4>2. CASE ~(ReadPayload(t) \/ MissPayload(t))
        <5>1. UNCHANGED exe_q
          BY <1>6, <2>3, <4>2, ServingSteps DEF ReadHeader, ReadNothing, ParseGarbage,
             EraseFdSet, WriteReply, sharedVars
        <5> QED
          BY <5>1 DEF ExeAt
      <4> QED
        BY <4>1, <4>2
    <3>3. \A g \in Fds : Used(g)' => Used(g)
      BY <1>6, <2>3, <3>1, <3>2, OwnMoves
    <3> QED
      BY <2>1, <3>3
  <2> QED
    BY <2>2, <2>3
<1> HIDE DEF Known
<1> QED
  BY <1>1, <1>2, <1>3, <1>4, <1>5, <1>6 DEF Next

\* No thread starts to close a connection.
LEMMA ServingKept ==
  ASSUME TInv, Alive, Flight, Next
  PROVE  OnlyServing'
<1> USE DEF Flight, OnlyServing
<1>1. ASSUME NEW c \in Clients, Client(c) \/ Exit(c)
      PROVE  OnlyServing'
  BY <1>1, ClientFrame DEF threadVars
<1>2. CASE AeMain
  BY <1>2, MainFrame DEF threadVars
<1>3. ASSUME NEW t \in Threads, IOThreadMain(t)
      PROVE  OnlyServing'
  <2>1. \A u \in Threads \ {t} : pc'[u] = pc[u]
    BY <1>3, ThreadFrame
  <2>2. pc'[t] \in {"pop", "header", "payload", "write", "erase"}
    BY <1>3, ServingSteps DEF TryPop, ReadHeader, ReadNothing, ReadPayload, MissPayload,
       ParseGarbage, ParseAndPush, EraseFdSet, WriteReply, Goto, threadVars, TInv, TypeOK,
       ThreadTypes
  <2> QED
    BY <2>1, <2>2
<1> QED
  BY <1>1, <1>2, <1>3 DEF Next

-------------------------------------------------------------------------------
\* A client's command.

\* OnePlace and Awaited for one client.
Settled(c) ==
  /\ \A s1, s2 \in Stages, t1, t2 \in Threads, i1, i2 \in Nat :
       At(c, s1, t1, i1) /\ At(c, s2, t2, i2) => s1 = s2 /\ t1 = t2 /\ i1 = i2
  /\ \A s \in Stages, t \in Threads, i \in Nat :
       At(c, s, t, i) => cpc[c] \in {"payload", "reply"}

\* The two are about each client by itself.
LEMMA SettledIs == OnePlace /\ Awaited <=> \A c \in Clients : Settled(c)
BY DEF OnePlace, Awaited, Settled

\* A step that takes a client's command no further; queue or list s0 of thread t0 may
\* have moved forward by one.
LEMMA PlaceShifts ==
  ASSUME NEW c \in Clients, Settled(c), cpc'[c] = cpc[c], NEW s0, NEW t0,
         \A s \in Stages, t \in Threads, i \in Nat :
           At(c, s, t, i)' => IF s = s0 /\ t = t0 THEN At(c, s, t, i + 1) ELSE At(c, s, t, i)
  PROVE  Settled(c)'
<1>1. \A s \in Stages, t \in Threads, i \in Nat :
        At(c, s, t, i)' => \E j \in Nat : At(c, s, t, j) /\ (j = IF s = s0 /\ t = t0 THEN i + 1 ELSE i)
  OBVIOUS
<1>2. ASSUME NEW s1 \in Stages, NEW s2 \in Stages, NEW t1 \in Threads, NEW t2 \in Threads,
             NEW i1 \in Nat, NEW i2 \in Nat, At(c, s1, t1, i1)', At(c, s2, t2, i2)'
      PROVE  s1 = s2 /\ t1 = t2 /\ i1 = i2
  <2>1. PICK j1 \in Nat : At(c, s1, t1, j1) /\ (j1 = IF s1 = s0 /\ t1 = t0 THEN i1 + 1 ELSE i1)
    BY <1>1, <1>2
  <2>2. PICK j2 \in Nat : At(c, s2, t2, j2) /\ (j2 = IF s2 = s0 /\ t2 = t0 THEN i2 + 1 ELSE i2)
    BY <1>1, <1>2
  <2>3. s1 = s2 /\ t1 = t2 /\ j1 = j2
    BY <2>1, <2>2 DEF Settled
  <2> QED
    BY <2>1, <2>2, <2>3
<1>3. \A s \in Stages, t \in Threads, i \in Nat :
        At(c, s, t, i)' => cpc'[c] \in {"payload", "reply"}
  BY <1>1 DEF Settled
<1> QED
  BY <1>2, <1>3 DEF Settled

\* A step that takes a client's command from the place it is in to the place <<s1, t1, i1>>.
LEMMA PlaceMoves ==
  ASSUME NEW c \in Clients, Settled(c), cpc'[c] = cpc[c],
         NEW s0 \in Stages, NEW t0 \in Threads, NEW i0 \in Nat, At(c, s0, t0, i0),
         NEW s1, NEW t1, NEW i1,
         \A s \in Stages, t \in Threads, i \in Nat :
           At(c, s, t, i)' =>
             \/ s = s1 /\ t = t1 /\ i = i1
             \/ \E j \in Nat : At(c, s, t, j) /\ ~(s = s0 /\ t = t0 /\ j = i0)
  PROVE  Settled(c)'
<1>1. \A s \in Stages, t \in Threads, i \in Nat :
        At(c, s, t, i) => s = s0 /\ t = t0 /\ i = i0
  BY DEF Settled
<1>2. \A s \in Stages, t \in Threads, i \in Nat :
        At(c, s, t, i)' => s = s1 /\ t = t1 /\ i = i1
  BY <1>1
<1> QED
  BY <1>2 DEF Settled

\* A client's own steps: its command enters the way with the length and leaves it with
\* the reply.
LEMMA ClientSettled ==
  ASSUME TInv, OnePlace, Awaited, Alive', NEW d \in Clients, Client(d) \/ Exit(d),
         NEW c \in Clients
  PROVE  Settled(c)'
<1>1. Settled(c)
  BY SettledIs
<1>2. UNCHANGED <<io_q, exe_q, pc, cur, fdOwner>>
  BY ClientFrame DEF sharedVars, threadVars
<1>3. \A s \in {"begun", "parsed", "queued"}, t \in Threads, i \in Nat :
        At(c, s, t, i)' => At(c, s, t, i)
  BY <1>2, PlacesSame DEF At, FdOf
<1>4. 0 \in Threads
  BY IoAssumption, SMT DEF Threads
<1>5. ASSUME inq'[c] = inq[c], outq'[c] = outq[c]
      PROVE  \A s \in Stages, t \in Threads, i \in Nat : At(c, s, t, i)' => At(c, s, t, i)
  BY <1>3, <1>5 DEF At, Stages
<1>6. CASE c # d
  <2>1. inq'[c] = inq[c] /\ outq'[c] = outq[c] /\ cpc'[c] = cpc[c]
    BY <1>6 DEF Client, Connect, SendHeader, SendPayload, SendPiece, Receive, Exit, TInv, TypeOK,
                ClientTypes
  <2> QED
    BY <1>1, <1>5, <2>1 DEF Settled
<1>7. CASE c = d /\ Connect(d)
  <2>1. inq'[c] = inq[c] /\ outq'[c] = outq[c] /\ cpc[c] = "connect"
    BY <1>7 DEF Connect
  <2> QED
    BY <1>1, <1>5, <2>1 DEF Settled
<1>8. CASE c = d /\ SendHeader(d)
  <2>1. /\ cpc[c] = "header" /\ cpc'[c] = "payload" /\ outq' = outq
        /\ inq[c] \in Seq(Pieces) /\ \E p : inq'[c] = Append(inq[c], p)
    BY <1>8 DEF SendHeader, SendPiece, TInv, TypeOK, ClientTypes
  <2>2. \A s \in Stages, t \in Threads, i \in Nat : ~At(c, s, t, i)
    BY <1>1, <2>1 DEF Settled
  <2>3. /\ Len(inq[c]) \in Nat /\ Len(inq'[c]) = Len(inq[c]) + 1
        /\ \A i \in 1 .. Len(inq[c]) : inq'[c][i] = inq[c][i]
    BY <2>1
  <2>4. \A i \in Nat : i \in 1 .. Len(inq'[c]) => i \in 1 .. Len(inq[c]) \/ i = Len(inq[c]) + 1
    BY <2>3
  <2>5. \A s \in Stages, t \in Threads, i \in Nat :
          At(c, s, t, i)' => s = "sent" /\ t = 0 /\ i = Len(inq[c]) + 1
    <3> SUFFICES ASSUME NEW s \in Stages, NEW t \in Threads, NEW i \in Nat, At(c, s, t, i)'
                 PROVE  s = "sent" /\ t = 0 /\ i = Len(inq[c]) + 1
      OBVIOUS
    <3>1. CASE s = "sent"
      <4>1. t = 0 /\ i \in 1 .. Len(inq'[c]) /\ inq'[c][i].part = "header"
        BY <3>1 DEF At
      <4>2. ~(i \in 1 .. Len(inq[c]) /\ inq[c][i].part = "header")
        BY <2>2, <3>1, <4>1 DEF At
      <4> QED
        BY <2>3, <2>4, <3>1, <4>1, <4>2
    <3>2. CASE s = "answered"
      BY <2>1, <2>2, <3>2 DEF At
    <3>3. CASE s \in {"begun", "parsed", "queued"}
      BY <1>3, <2>2, <3>3
    <3> QED
      BY <3>1, <3>2, <3>3 DEF Stages
  <2> QED
    BY <2>1, <2>5 DEF Settled
<1>9. CASE c = d /\ SendPayload(d)
  <2>1. /\ cpc[c] = "payload" /\ cpc'[c] = "reply" /\ outq' = outq
        /\ inq[c] \in Seq(Pieces) /\ \E p : inq'[c] = Append(inq[c], p) /\ p.part = "payload"
    <3>1. PICK p : p = [part |-> "payload", cmd |-> Request(c)]
      OBVIOUS
    <3>2. inq'[c] = Append(inq[c], p) /\ p.part = "payload"
      BY <1>9, <3>1 DEF SendPayload, SendPiece, TInv, TypeOK, ClientTypes
    <3> QED
      BY <1>9, <3>2 DEF SendPayload, SendPiece, TInv, TypeOK, ClientTypes
  <2>2. /\ Len(inq[c]) \in Nat /\ Len(inq'[c]) = Len(inq[c]) + 1
        /\ \A i \in 1 .. Len(inq[c]) : inq'[c][i] = inq[c][i]
        /\ inq'[c][Len(inq[c]) + 1].part = "payload"
    BY <2>1
  <2>3. \A i \in Nat : i \in 1 .. Len(inq'[c]) => i \in 1 .. Len(inq[c]) \/ i = Len(inq[c]) + 1
    BY <2>2
  <2>4. \A t \in Threads, i \in Nat : At(c, "sent", t, i)' => At(c, "sent", t, i)
    BY <2>2, <2>3 DEF At
  <2>5. \A t \in Threads, i \in Nat : At(c, "answered", t, i)' => At(c, "answered", t, i)
    BY <2>1 DEF At
  <2>6. \A s \in Stages, t \in Threads, i \in Nat : At(c, s, t, i)' => At(c, s, t, i)
    BY <1>3, <2>4, <2>5 DEF Stages
  <2> QED
    BY <1>1, <2>1, <2>6 DEF Settled
<1>10. CASE c = d /\ Receive(d)
  <2>1. outq[c] \in Seq(Replies) /\ outq[c] # <<>> /\ outq'[c] = Tail(outq[c]) /\ inq' = inq
    BY <1>10 DEF Receive, TInv, TypeOK, ClientTypes
  <2>2. /\ Len(outq[c]) \in Nat \ {0} /\ Len(outq'[c]) = Len(outq[c]) - 1
        /\ 1 \in 1 .. Len(outq[c]) /\ Len(outq[c]) \in 1 .. Len(outq[c])
    BY <2>1, HeadTailProperties
  <2>3. At(c, "answered", 0, 1) /\ At(c, "answered", 0, Len(outq[c]))
    BY <2>2 DEF At
  <2>4. Len(outq[c]) = 1
    BY <1>1, <1>4, <2>2, <2>3 DEF Settled, Stages
  <2>5. \A i : i \notin 1 .. Len(outq'[c])
    BY <2>2, <2>4
  <2>6. \A s \in Stages, t \in Threads, i \in Nat : At(c, s, t, i) => s = "answered"
    BY <1>1, <1>4, <2>3 DEF Settled, Stages
  <2>7. \A s \in Stages, t \in Threads, i \in Nat : ~At(c, s, t, i)'
    <3>1. \A t \in Threads, i \in Nat : At(c, "sent", t, i)' => At(c, "sent", t, i)
      BY <2>1 DEF At
    <3>2. \A t \in Threads, i \in Nat : ~At(c, "answered", t, i)'
      BY <2>5 DEF At
    <3> QED
      BY <1>3, <2>6, <3>1, <3>2 DEF Stages
  <2> QED
    BY <2>7 DEF Settled
<1>11. ~(c = d /\ Exit(d))
  BY DEF Exit, Alive, TInv, TypeOK, ClientTypes
<1> QED
  BY <1>6, <1>7, <1>8, <1>9, <1>10, <1>11 DEF Client

\* The owner of a descriptor something is under way for stays the same.
LEMMA UsedOwner ==
  ASSUME TInv, Alive, Flight, Next
  PROVE  /\ \A fd \in Fds, t \in Threads, i \in Nat :
              ReadAt(fd, t, i) \/ WriteAt(fd, t, i) \/ ExeAt(fd, i) => fdOwner'[fd] = fdOwner[fd]
         /\ \A t \in Threads :
              pc[t] \in {"header", "payload", "write", "erase"} =>
                FdOf(t) \in Fds /\ fdOwner'[FdOf(t)] = fdOwner[FdOf(t)]
BY OwnersStay, OwnerThere DEF Flight, UsedIsOpen

\* The main thread's steps leave a client's command where it is, or execute it.
LEMMA MainSettled ==
  ASSUME TInv, Alive, Flight, Next, AeMain, NEW c \in Clients
  PROVE  Settled(c)'
<1>1. Settled(c) /\ UNCHANGED <<cpc, inq, outq, pc, cur>>
  BY SettledIs, MainFrame DEF Flight, clientVars, threadVars
<1>2. \A s \in {"sent", "begun", "answered"}, t \in Threads, i \in Nat :
        At(c, s, t, i)' => At(c, s, t, i)
  BY <1>1, UsedOwner DEF At, FdOf
<1>3. CASE ~ExecCommand
  <2>1. \A fd \in Fds, t \in Threads, i \in Nat : /\ WriteAt(fd, t, i)' => WriteAt(fd, t, i)
                                                  /\ ExeAt(fd, i)' => ExeAt(fd, i)
    <3>1. CASE \E fd \in Fds : PushReadTask(fd)
      <4>1. UNCHANGED exe_q
        BY <3>1 DEF PushReadTask
      <4> QED
        BY <3>1, <4>1, PushReadMoves DEF ExeAt
    <3>2. CASE ~(\E fd \in Fds : PushReadTask(fd))
      <4>1. UNCHANGED <<io_q, exe_q>>
        BY <1>3, <3>2 DEF AeMain, AeApiPoll, MainReturns, Accept, Register, RegisterFails,
           SetMask, EndRound, InsertFdSet, DropEvent, sharedVars
      <4> QED
        BY <1>1, <4>1, PlacesSame
    <3> QED
      BY <3>1, <3>2
  <2>2. \A s \in {"parsed", "queued"}, t \in Threads, i \in Nat :
          At(c, s, t, i)' => At(c, s, t, i)
    BY <1>1, <2>1, UsedOwner DEF At
  <2>3. \A s \in Stages, t \in Threads, i \in Nat : At(c, s, t, i)' => At(c, s, t, i)
    BY <1>2, <2>2 DEF Stages
  <2> QED
    BY <1>1, <2>3 DEF Settled
<1>4. CASE ExecCommand
  <2>1. exe_q # <<>> /\ exe_q' = Tail(exe_q) /\ UNCHANGED fdOwner
    BY <1>4 DEF ExecCommand, kernelVars
  <2>2. PICK g : g = Head(exe_q).fd
    OBVIOUS
  <2>3. g \in Fds /\ ThreadOf(g) \in Threads /\ 0 \in Threads
    <3>1. 0 \in Threads
      BY IoAssumption, SMT DEF Threads
    <3> QED
      BY <2>1, <2>2, <3>1, ReplyTaskType, ThreadOfType
  <2>4. /\ \A fd \in Fds, t \in Threads, i \in Nat : WriteAt(fd, t, i)' =>
             \/ WriteAt(fd, t, i)
             \/ fd = g /\ t = ThreadOf(g) /\ i = Len(io_q[ThreadOf(g)]) + 1
        /\ \A fd : \A i \in Nat : ExeAt(fd, i)' => ExeAt(fd, i + 1)
        /\ ExeAt(g, 1) /\ \A fd : ~ExeAt(fd, 0)
    BY <1>4, <2>1, <2>2, ExecWork, ExecMoves DEF Flight
  <2>5. \A t \in Threads, i \in Nat : At(c, "parsed", t, i)' => At(c, "parsed", t, i + 1)
    BY <2>1, <2>4 DEF At
  <2>6. Len(io_q[ThreadOf(g)]) \in Nat
    BY <2>3 DEF TInv, TypeOK, SharedTypes
  <2>7. CASE fdOwner[g] # c
    <3>1. \A t \in Threads, i \in Nat : At(c, "queued", t, i)' => At(c, "queued", t, i)
      BY <1>1, <2>1, <2>4, <2>7 DEF At
    <3>2. \A s \in Stages, t \in Threads, i \in Nat :
            At(c, s, t, i)' => \/ s = "parsed" /\ At(c, s, t, i + 1)
                               \/ s # "parsed" /\ At(c, s, t, i)
      BY <1>2, <2>5, <3>1 DEF Stages
    <3>3. \A t \in Threads, i \in Nat : At(c, "parsed", t, i)' => t = 0
      BY DEF At
    <3>4. \A s \in Stages, t \in Threads, i \in Nat :
            At(c, s, t, i)' =>
              IF s = "parsed" /\ t = 0 THEN At(c, s, t, i + 1) ELSE At(c, s, t, i)
      BY <3>2, <3>3
    <3> QED
      BY <1>1, <3>4, PlaceShifts
  <2>8. CASE fdOwner[g] = c
    <3> DEFINE n == Len(io_q[ThreadOf(g)]) + 1
    <3>1. At(c, "parsed", 0, 1)
      BY <2>3, <2>4, <2>8 DEF At
    <3>2. \A t \in Threads, i \in Nat :
            At(c, "queued", t, i)' =>
              At(c, "queued", t, i) \/ (t = ThreadOf(g) /\ i = n)
      BY <1>1, <2>1, <2>4 DEF At
    <3>3. \A t \in Threads, i \in Nat :
            At(c, "parsed", t, i)' => \E j \in Nat : At(c, "parsed", t, j) /\ j # 1
      <4> SUFFICES ASSUME NEW t \in Threads, NEW i \in Nat, At(c, "parsed", t, i)'
                   PROVE  At(c, "parsed", t, i + 1) /\ i + 1 \in Nat /\ i + 1 # 1
        OBVIOUS
      <4>1. i # 0
        BY DEF At, ExeAt
      <4> QED
        BY <2>5, <4>1
    <3>4. \A s \in Stages, t \in Threads, i \in Nat :
            At(c, s, t, i)' =>
              \/ s = "queued" /\ t = ThreadOf(g) /\ i = n
              \/ \E j \in Nat : At(c, s, t, j) /\ ~(s = "parsed" /\ t = 0 /\ j = 1)
      BY <1>2, <3>2, <3>3 DEF Stages
    <3>5. "parsed" \in Stages
      BY DEF Stages
    <3>6. PICK m : m = n
      OBVIOUS
    <3> HIDE DEF n
    <3> QED
      BY <1>1, <2>3, <3>1, <3>4, <3>5, <3>6, PlaceMoves
  <2> QED
    BY <2>7, <2>8
<1> QED
  BY <1>3, <1>4

\* What the first piece of a client's input, once read, does to the rest.
LEMMA ReadMoves ==
  ASSUME TInv, NEW c \in Clients, inq[c] # <<>>, inq'[c] = Tail(inq[c])
  PROVE  /\ \A t \in Threads, i \in Nat :
              At(c, "sent", t, i)' => t = 0 /\ At(c, "sent", t, i + 1) /\ i # 0
         /\ Head(inq[c]).part = "header" => At(c, "sent", 0, 1)
<1>1. inq[c] \in Seq(Pieces)
  BY DEF TInv, TypeOK, ClientTypes
<1>2. /\ Len(inq[c]) \in Nat \ {0} /\ Len(inq'[c]) = Len(inq[c]) - 1 /\ Head(inq[c]) = inq[c][1]
      /\ \A i \in 1 .. Len(inq'[c]) : inq'[c][i] = inq[c][i + 1]
  BY <1>1, HeadTailProperties
<1>3. \A i \in Nat : i \in 1 .. Len(inq'[c]) => i + 1 \in 1 .. Len(inq[c]) /\ i # 0
  BY <1>2
<1>4. 1 \in 1 .. Len(inq[c])
  BY <1>2
<1> QED
  BY <1>2, <1>3, <1>4 DEF At

\* An IO thread's steps move the command of the client it works for one stage on.
LEMMA ThreadSettled ==
  ASSUME TInv, Alive, Flight, Next, NEW t \in Threads, IOThreadMain(t), NEW c \in Clients
  PROVE  Settled(c)'
<1> USE DEF Flight
<1>1. Settled(c) /\ cpc'[c] = cpc[c] /\ 0 \in Threads
  <2>1. 0 \in Threads
    BY IoAssumption, SMT DEF Threads
  <2> QED
    BY <2>1, SettledIs, ThreadFrame
<1>2. UNCHANGED fdOwner
  BY ServingSteps DEF TryPop, ReadHeader, ReadNothing, ReadPayload, MissPayload,
     ParseGarbage, EraseFdSet, WriteReply, kernelVars
<1>3. CASE TryPop(t)
  <2>1. /\ UNCHANGED <<inq, outq, exe_q>> /\ pc[t] = "pop" /\ pc'[t] # "payload"
        /\ pc'[t] # "erase"
    BY <1>3 DEF TryPop, Goto, clientVars, TInv, TypeOK, ThreadTypes
  <2>2. \A u \in Threads \ {t} : pc'[u] = pc[u] /\ cur'[u] = cur[u] /\ io_q'[u] = io_q[u]
    BY <1>3, ThreadFrame
  <2>3. \A fd, i : \A u \in Threads \ {t} : WriteAt(fd, u, i)' <=> WriteAt(fd, u, i)
    BY <2>2, ThreadSame
  <2>4. \A fd : \A i \in Nat : WriteAt(fd, t, i)' <=> WriteAt(fd, t, i + 1)
    BY <1>3, PopMoves
  <2>5. \A s \in {"sent", "begun", "parsed", "answered"}, u \in Threads, i \in Nat :
          At(c, s, u, i)' => At(c, s, u, i)
    BY <1>2, <2>1, <2>2 DEF At, FdOf, ExeAt
  <2>6. \A u \in Threads, i \in Nat :
          At(c, "queued", u, i)' =>
            IF u = t THEN At(c, "queued", u, i + 1) ELSE At(c, "queued", u, i)
    <3> SUFFICES ASSUME NEW u \in Threads, NEW i \in Nat, At(c, "queued", u, i)'
                 PROVE  IF u = t THEN At(c, "queued", u, i + 1) ELSE At(c, "queued", u, i)
      OBVIOUS
    <3>1. PICK fd \in Fds : WriteAt(fd, u, i)' /\ fdOwner[fd] = c
      BY <1>2 DEF At
    <3>2. i + 1 # 0
      OBVIOUS
    <3>3. u # t /\ i = 0 => pc[u] = "write"
      BY <2>2 DEF At
    <3> QED
      BY <2>3, <2>4, <3>1, <3>2, <3>3 DEF At
  <2>7. \A s \in Stages, u \in Threads, i \in Nat :
          At(c, s, u, i)' =>
            IF s = "queued" /\ u = t THEN At(c, s, u, i + 1) ELSE At(c, s, u, i)
    BY <2>5, <2>6 DEF Stages
  <2> QED
    BY <1>1, <2>7, PlaceShifts
<1>4. CASE ~TryPop(t)
  <2>1. PICK fd : fd = FdOf(t)
    OBVIOUS
  <2>2. PICK d : d = fdOwner[fd]
    OBVIOUS
  <2>3. /\ fd \in Fds /\ pc[t] # "pop" /\ (pc'[t] # "pop" => FdOf(t)' = fd)
        /\ \A u \in Threads \ {t} : pc'[u] = pc[u] /\ FdOf(u)' = FdOf(u)
    BY <1>4, <2>1, OwnMoves
  <2>4. d \in Clients
    BY <2>1, <2>2, <2>3, OwnerThere DEF OnlyServing
  <2>5. \A g, i : \A u \in Threads : u # t \/ i # 0 => (WriteAt(g, u, i)' <=> WriteAt(g, u, i))
    BY <1>4, OwnMoves
  <2>6. \A u \in Threads, i \in Nat : u # t \/ i # 0 =>
          /\ At(c, "queued", u, i)' => At(c, "queued", u, i)
          /\ At(c, "begun", u, i)' => At(c, "begun", u, i)
    BY <1>2, <2>3, <2>5 DEF At
  <2>7. /\ At(c, "queued", t, 0)' => pc'[t] = "write"
        /\ At(c, "begun", t, 0)' => pc'[t] = "payload" /\ c = d
        /\ pc[t] = "payload" /\ c = d => At(c, "begun", t, 0)
    BY <1>2, <2>1, <2>2, <2>3 DEF At
  <2>8. UNCHANGED exe_q => \A u \in Threads, i \in Nat : At(c, "parsed", u, i)' => At(c, "parsed", u, i)
    BY <1>2 DEF At, ExeAt
  <2>9. inq'[c] = inq[c] => \A u \in Threads, i \in Nat : At(c, "sent", u, i)' => At(c, "sent", u, i)
    BY DEF At
  <2>10. outq'[c] = outq[c] =>
           \A u \in Threads, i \in Nat : At(c, "answered", u, i)' => At(c, "answered", u, i)
    BY DEF At
  <2>11. CASE ReadNothing(t) \/ EraseFdSet(t) \/ (ParseGarbage(t) /\ pc[t] = "payload")
    <3>1. /\ UNCHANGED <<exe_q, inq, outq>> /\ pc'[t] # "write"
          /\ pc'[t] = "payload" => pc[t] = "payload"
      BY <2>11 DEF ReadNothing, EraseFdSet, ParseGarbage, Goto, sharedVars, threadVars, clientVars,
         TInv, TypeOK, ThreadTypes
    <3>2. \A s \in Stages, u \in Threads, i \in Nat : At(c, s, u, i)' => At(c, s, u, i)
      BY <2>6, <2>7, <2>8, <2>9, <2>10, <3>1 DEF Stages
    <3> QED
      BY <1>1, <3>2 DEF Settled
  <2>12. CASE ReadHeader(t)
    <3>1. /\ UNCHANGED <<exe_q, outq>> /\ pc[t] = "header" /\ inq[d] # <<>>
          /\ inq' = [inq EXCEPT ![d] = Tail(@)]
          /\ IF Head(inq[d]).part = "header" THEN pc'[t] = "payload" ELSE pc'[t] = "header"
      BY <2>1, <2>2, <2>12 DEF ReadHeader, Goto, sharedVars, TInv, TypeOK, ThreadTypes
    <3>2. /\ c # d => inq'[c] = inq[c]
          /\ inq'[d] = Tail(inq[d])
      BY <2>4, <3>1 DEF TInv, TypeOK, ClientTypes
    <3>3. CASE c # d
      <4>1. \A s \in Stages, u \in Threads, i \in Nat : At(c, s, u, i)' => At(c, s, u, i)
        BY <2>6, <2>7, <2>8, <2>9, <2>10, <3>1, <3>2, <3>3 DEF Stages
      <4> QED
        BY <1>1, <4>1 DEF Settled
    <3>4. /\ c = d =>
             \A u \in Threads, i \in Nat :
               At(c, "sent", u, i)' => u = 0 /\ At(c, "sent", u, i + 1) /\ i # 0
          /\ c = d /\ Head(inq[d]).part = "header" => At(c, "sent", 0, 1)
      BY <2>4, <3>1, <3>2, ReadMoves
    <3>5. CASE c = d /\ Head(inq[d]).part # "header"
      <4>1. \A s \in Stages, u \in Threads, i \in Nat :
              At(c, s, u, i)' =>
                IF s = "sent" /\ u = 0 THEN At(c, s, u, i + 1) ELSE At(c, s, u, i)
        BY <2>6, <2>7, <2>8, <2>10, <3>1, <3>4, <3>5 DEF Stages
      <4> QED
        BY <1>1, <4>1, PlaceShifts
    <3>6. CASE c = d /\ Head(inq[d]).part = "header"
      <4>0. PICK m : m = 0
        OBVIOUS
      <4>1. \A u \in Threads, i \in Nat :
              At(c, "sent", u, i)' => \E j \in Nat : At(c, "sent", u, j) /\ j # 1
        <5> SUFFICES ASSUME NEW u \in Threads, NEW i \in Nat, At(c, "sent", u, i)'
                     PROVE  At(c, "sent", u, i + 1) /\ i + 1 \in Nat /\ i + 1 # 1
          OBVIOUS
        <5> QED
          BY <3>4, <3>6
      <4>2. \A s \in Stages, u \in Threads, i \in Nat :
              At(c, s, u, i)' =>
                \/ s = "begun" /\ u = t /\ i = m
                \/ \E j \in Nat : At(c, s, u, j) /\ ~(s = "sent" /\ u = 0 /\ j = 1)
        BY <2>6, <2>7, <2>8, <2>10, <3>1, <3>6, <4>0, <4>1 DEF Stages
      <4>3. "sent" \in Stages /\ At(c, "sent", 0, 1)
        BY <3>4, <3>6 DEF Stages
      <4> QED
        BY <1>1, <4>2, <4>3, PlaceMoves
    <3> QED
      BY <3>3, <3>5, <3>6
  <2>13. CASE ReadPayload(t) \/ MissPayload(t)
    <3>1. /\ UNCHANGED outq /\ pc[t] = "payload" /\ pc'[t] = "header"
          /\ \E cmd : ParseAndPush(t, cmd)
          /\ \/ inq' = inq
             \/ inq[d] # <<>> /\ inq' = [inq EXCEPT ![d] = Tail(@)]
      BY <2>1, <2>2, <2>13 DEF ReadPayload, MissPayload, ParseAndPush, Goto, TInv, TypeOK,
         ThreadTypes
    <3>2. \A g, i : ExeAt(g, i)' => ExeAt(g, i) \/ (g = fd /\ i = Len(exe_q) + 1)
      BY <2>1, <3>1, ParseMoves
    <3>3. CASE c # d
      <4>1. inq'[c] = inq[c]
        BY <2>4, <3>1, <3>3 DEF TInv, TypeOK, ClientTypes
      <4>2. \A u \in Threads, i \in Nat : At(c, "parsed", u, i)' => At(c, "parsed", u, i)
        BY <1>2, <2>2, <3>2, <3>3 DEF At
      <4>3. \A s \in Stages, u \in Threads, i \in Nat : At(c, s, u, i)' => At(c, s, u, i)
        BY <2>6, <2>7, <2>9, <2>10, <3>1, <4>1, <4>2 DEF Stages
      <4> QED
        BY <1>1, <4>3 DEF Settled
    <3>4. CASE c = d
      <4>1. At(c, "begun", t, 0) /\ "begun" \in Stages
        BY <2>7, <3>1, <3>4 DEF Stages
      <4>2. \A u \in Threads, i \in Nat :
              At(c, "sent", u, i)' => \E j \in Nat : At(c, "sent", u, j)
        <5>1. CASE inq' = inq
          BY <2>9, <5>1
        <5>2. CASE inq[d] # <<>> /\ inq' = [inq EXCEPT ![d] = Tail(@)]
          <6>1. inq'[c] = Tail(inq[c]) /\ inq[c] # <<>>
            BY <2>4, <3>4, <5>2 DEF TInv, TypeOK, ClientTypes
          <6>2. ASSUME NEW u \in Threads, NEW i \in Nat, At(c, "sent", u, i)'
                PROVE  At(c, "sent", u, i + 1) /\ i + 1 \in Nat
            BY <6>1, <6>2, ReadMoves
          <6> QED
            BY <6>2
        <5> QED
          BY <3>1, <5>1, <5>2
      <4>3. \A u \in Threads, i \in Nat : At(c, "parsed", u, i)' =>
              At(c, "parsed", u, i) \/ (u = 0 /\ i = Len(exe_q) + 1)
        BY <1>2, <3>2 DEF At
      <4>4. \A u \in Threads, i \in Nat : ~At(c, "begun", t, 0)'
        BY <2>7, <3>1
      <4>5. PICK m : m = Len(exe_q) + 1
        OBVIOUS
      <4>6. \A s \in Stages, u \in Threads, i \in Nat :
              At(c, s, u, i)' =>
                \/ s = "parsed" /\ u = 0 /\ i = m
                \/ \E j \in Nat : At(c, s, u, j) /\ ~(s = "begun" /\ u = t /\ j = 0)
        BY <2>6, <2>7, <2>10, <3>1, <4>2, <4>3, <4>5 DEF Stages
      <4> QED
        BY <1>1, <4>1, <4>6, PlaceMoves
    <3> QED
      BY <3>3, <3>4
  <2>14. CASE WriteReply(t)
    <3>1. /\ UNCHANGED <<inq, exe_q>> /\ pc[t] = "write" /\ pc'[t] = "erase"
          /\ outq' = [outq EXCEPT ![d] = Append(@, cur[t].str)]
      BY <2>1, <2>2, <2>14, OwnerThere DEF WriteReply, Goto, sharedVars, TInv, TypeOK, ThreadTypes
    <3>2. CASE c # d
      <4>1. outq'[c] = outq[c]
        BY <2>4, <3>1, <3>2 DEF TInv, TypeOK, ClientTypes
      <4>2. \A s \in Stages, u \in Threads, i \in Nat : At(c, s, u, i)' => At(c, s, u, i)
        BY <2>6, <2>7, <2>8, <2>9, <2>10, <3>1, <4>1 DEF Stages
      <4> QED
        BY <1>1, <4>2 DEF Settled
    <3>3. CASE c = d
      <4>1. At(c, "queued", t, 0) /\ "queued" \in Stages
        BY <2>1, <2>2, <2>3, <3>1, <3>3 DEF At, WriteAt, Stages
      <4>2. PICK m : m = Len(outq[c]) + 1
        OBVIOUS
      <4>3. \A u \in Threads, i \in Nat : At(c, "answered", u, i)' =>
              At(c, "answered", u, i) \/ (u = 0 /\ i = m)
        <5>1. outq[c] \in Seq(Replies) /\ outq'[c] = Append(outq[c], cur[t].str)
          BY <2>4, <3>1, <3>3 DEF TInv, TypeOK, ClientTypes
        <5>2. Len(outq[c]) \in Nat /\ Len(outq'[c]) = Len(outq[c]) + 1
          BY <5>1
        <5>3. \A i \in 1 .. Len(outq'[c]) : i \in 1 .. Len(outq[c]) \/ i = Len(outq[c]) + 1
          BY <5>2
        <5> QED
          BY <4>2, <5>3 DEF At
      <4>4. \A s \in Stages, u \in Threads, i \in Nat :
              At(c, s, u, i)' =>
                \/ s = "answered" /\ u = 0 /\ i = m
                \/ \E j \in Nat : At(c, s, u, j) /\ ~(s = "queued" /\ u = t /\ j = 0)
        BY <2>6, <2>7, <2>8, <2>9, <3>1, <4>3 DEF Stages
      <4> QED
        BY <1>1, <4>1, <4>4, PlaceMoves
    <3> QED
      BY <3>2, <3>3
  <2> QED
    BY <1>4, <2>11, <2>12, <2>13, <2>14, ServingSteps
<1> QED
  BY <1>3, <1>4

-------------------------------------------------------------------------------
\* FInv is inductive.
LEMMA FInvKept == FInv /\ [Next]_vars => FInv'
<1>1. ASSUME FInv, Next
      PROVE  FInv'
  <2>1. TInv /\ TInv'
    BY <1>1, TInvKept DEF FInv
  <2>2. ASSUME Alive'
        PROVE  Flight'
    <3>1. Alive
      <4>1. \A c \in Clients : cpc[c] = "dead" => cpc'[c] = "dead"
        <5>1. ASSUME NEW d \in Clients, Client(d) \/ Exit(d)
              PROVE  \A c \in Clients : cpc[c] = "dead" => cpc'[c] = "dead"
          BY <2>1, <5>1 DEF Client, Connect, SendHeader, SendPayload, SendPiece, Receive, Exit,
             TInv, TypeOK, ClientTypes
        <5>2. AeMain => UNCHANGED cpc
          BY MainFrame DEF clientVars
        <5>3. \A t \in Threads : IOThreadMain(t) => UNCHANGED cpc
          BY <2>1, ThreadFrame
        <5> QED
          BY <1>1, <5>1, <5>2, <5>3 DEF Next
      <4> QED
        BY <2>2, <4>1 DEF Alive
    <3>2. Flight
      BY <1>1, <3>1 DEF FInv
    <3>3. OnlyServing' /\ UsedIsOpen' /\ Work'
      BY <1>1, <2>1, <3>1, <3>2, ServingKept, UsedKept, WorkKept
    <3>4. \A c \in Clients : Settled(c)'
      <4>1. ASSUME NEW d \in Clients, Client(d) \/ Exit(d)
            PROVE  \A c \in Clients : Settled(c)'
        BY <2>1, <2>2, <3>2, <4>1, ClientSettled DEF Flight
      <4>2. AeMain => \A c \in Clients : Settled(c)'
        BY <1>1, <2>1, <3>1, <3>2, MainSettled
      <4>3. ASSUME NEW t \in Threads, IOThreadMain(t)
            PROVE  \A c \in Clients : Settled(c)'
        BY <1>1, <2>1, <3>1, <3>2, <4>3, ThreadSettled
      <4> QED
        BY <1>1, <4>1, <4>2, <4>3 DEF Next
    <3>5. OnePlace' /\ Awaited'
      <4>1. (OnePlace /\ Awaited <=> \A c \in Clients : Settled(c))'
        BY SettledIs, PTL
      <4> QED
        BY <3>4, <4>1
    <3> QED
      BY <3>3, <3>5 DEF Flight
  <2> QED
    BY <2>1, <2>2 DEF FInv
<1>2. ASSUME FInv, UNCHANGED vars
      PROVE  FInv'
  <2>1. TInv' /\ Alive' = Alive
    BY <1>2, TInvKept DEF FInv, vars, clientVars, Alive
  <2>2. ASSUME Flight
        PROVE  Flight'
    <3>1. UNCHANGED <<cpc, inq, outq, fdOwner, interest, ready, io_q, exe_q, fdSet, mpc, mfd,
                      fired, pc, cur>>
      BY <1>2 DEF vars, clientVars, kernelVars, sharedVars, mainVars, threadVars
    <3>2. Work'
      BY <2>2, <3>1, WorkStays DEF Flight
    <3>3. OnlyServing' /\ UsedIsOpen'
      BY <2>2, <3>1, PlacesSame DEF Flight, OnlyServing, UsedIsOpen, Open
    <3>4. \A c, s, t, i : At(c, s, t, i)' <=> At(c, s, t, i)
      BY <3>1, PlacesSame DEF At, FdOf
    <3>5. OnePlace' /\ Awaited'
      BY <2>2, <3>1, <3>4 DEF Flight, OnePlace, Awaited
    <3> QED
      BY <3>2, <3>3, <3>5 DEF Flight
  <2> QED
    BY <1>2, <2>1, <2>2 DEF FInv
<1> QED
  BY <1>1, <1>2

\* While no client has left, a client's command is in one place, and fdSet covers what is
\* under way for its descriptor.
THEOREM FlightInvariant == Spec => []FInv
BY InitFlight, FInvKept, PTL DEF Spec

\* A set in which any two elements are one has one element at most.
LEMMA AtMostOne ==
  ASSUME NEW S, \A x, y \in S : x = y
  PROVE  IsFiniteSet(S) /\ Cardinality(S) \in {0, 1} /\ (Cardinality(S) = 1 => S # {})
<1>1. CASE S = {}
  BY <1>1, FS_EmptySet
<1>2. CASE S # {}
  <2>1. PICK x : S = {x}
    BY <1>2
  <2> QED
    BY <2>1, FS_Singleton
<1> QED
  BY <1>1, <1>2

\* FInv bounds what is under way for one descriptor.
LEMMA FlightBounds ==
  ASSUME TInv, Flight, NEW fd \in Fds
  PROVE  /\ Cardinality(Tasked(fd, FALSE)) + Cardinality(Writers(fd))
              + Cardinality(Parsed(fd)) <= 1
         /\ Cardinality(Tasked(fd, TRUE)) + Cardinality(Readers(fd)) <= 1
<1> DEFINE c == fdOwner[fd]
           W == Tasked(fd, FALSE)
           R == Tasked(fd, TRUE)
<1>1. \A t \in Threads : DOMAIN io_q[t] = 1 .. Len(io_q[t]) /\ Len(io_q[t]) \in Nat
  BY DEF TInv, TypeOK, SharedTypes
<1>2. /\ \A x \in W : \E t \in Threads, i \in Nat : x = <<t, i>> /\ i # 0 /\ WriteAt(fd, t, i)
      /\ \A x \in R : \E t \in Threads, i \in Nat : x = <<t, i>> /\ i # 0 /\ ReadAt(fd, t, i)
  <2>1. ASSUME NEW r \in BOOLEAN, NEW x \in Tasked(fd, r)
        PROVE  \E t \in Threads : \E i \in 1 .. Len(io_q[t]) :
                 x = <<t, i>> /\ io_q[t][i].fd = fd /\ io_q[t][i].isRead = r
    <3> DEFINE of(t) == {j \in DOMAIN io_q[t] : io_q[t][j].fd = fd /\ io_q[t][j].isRead = r}
    <3>1. PICK t \in Threads : x \in {<<t, i>> : i \in of(t)}
      BY <2>1 DEF Tasked
    <3>2. PICK i \in of(t) : x = <<t, i>>
      BY <3>1
    <3> QED
      BY <1>1, <3>2
  <2>2. \A t \in Threads : \A i \in 1 .. Len(io_q[t]) : i \in Nat /\ i # 0
    BY <1>1
  <2> QED
    BY <2>1, <2>2 DEF WriteAt, ReadAt
<1>3. \A i \in Parsed(fd) : i \in Nat /\ ExeAt(fd, i)
  <2>1. Len(exe_q) \in Nat
    BY DEF TInv, TypeOK, SharedTypes
  <2> QED
    BY <2>1 DEF Parsed, ExeAt
<1>4. /\ \A t \in Writers(fd) : t \in Threads /\ pc[t] = "write" /\ WriteAt(fd, t, 0)
      /\ \A t \in Readers(fd) : t \in Threads /\ ReadAt(fd, t, 0)
  BY DEF Writers, Readers, WriteAt, ReadAt, Flight, OnlyServing
<1>5. 0 \in Threads /\ {"queued", "parsed"} \subseteq Stages
  <2>1. 0 \in Threads
    BY IoAssumption, SMT DEF Threads
  <2> QED
    BY <2>1 DEF Stages
<1>6. W # {} \/ Writers(fd) # {} \/ Parsed(fd) # {} => c \in Clients
  <2>1. W # {} \/ Writers(fd) # {} \/ Parsed(fd) # {} => Open(fd)
    BY <1>2, <1>3, <1>4, <1>5 DEF Flight, UsedIsOpen
  <2> QED
    BY <2>1 DEF Open, TInv, TypeOK, KernelTypes
<1>7. /\ \A t \in Threads, i \in Nat : WriteAt(fd, t, i) /\ i # 0 => At(c, "queued", t, i)
      /\ \A t \in Writers(fd) : At(c, "queued", t, 0)
      /\ \A i \in Parsed(fd) : At(c, "parsed", 0, i)
  BY <1>3, <1>4 DEF At
<1> HIDE DEF c, W, R
<1>8. /\ \A x, y \in W : x = y
      /\ \A x, y \in Writers(fd) : x = y
      /\ \A x, y \in Parsed(fd) : x = y
  <2>1. ASSUME NEW x \in W, NEW y \in W
        PROVE  x = y
    <3>1. PICK t \in Threads, i \in Nat : x = <<t, i>> /\ i # 0 /\ WriteAt(fd, t, i)
      BY <1>2
    <3>2. PICK u \in Threads, j \in Nat : y = <<u, j>> /\ j # 0 /\ WriteAt(fd, u, j)
      BY <1>2
    <3>3. t = u /\ i = j
      BY <1>5, <1>6, <1>7, <3>1, <3>2 DEF Flight, OnePlace
    <3> QED
      BY <3>1, <3>2, <3>3
  <2>2. \A x, y \in Writers(fd) : x = y
    BY <1>4, <1>5, <1>6, <1>7 DEF Flight, OnePlace
  <2>3. \A x, y \in Parsed(fd) : x = y
    BY <1>3, <1>5, <1>6, <1>7 DEF Flight, OnePlace
  <2> QED
    BY <2>1, <2>2, <2>3
<1>9. /\ W # {} => Writers(fd) = {} /\ Parsed(fd) = {}
      /\ Writers(fd) # {} => Parsed(fd) = {}
  <2>1. ASSUME W # {}
        PROVE  Writers(fd) = {} /\ Parsed(fd) = {}
    <3>1. PICK t \in Threads, i \in Nat : i # 0 /\ WriteAt(fd, t, i)
      BY <1>2, <2>1
    <3>2. At(c, "queued", t, i) /\ c \in Clients
      BY <1>6, <1>7, <2>1, <3>1
    <3> QED
      BY <1>3, <1>4, <1>5, <1>7, <3>1, <3>2 DEF Flight, OnePlace
  <2>2. ASSUME Writers(fd) # {}
        PROVE  Parsed(fd) = {}
    BY <1>3, <1>4, <1>5, <1>6, <1>7, <2>2 DEF Flight, OnePlace
  <2> QED
    BY <2>1, <2>2
<1>10. /\ \A x, y \in R : x = y
       /\ \A x, y \in Readers(fd) : x = y
       /\ R # {} => Readers(fd) = {}
  <2>1. ASSUME NEW x \in R, NEW y \in R
        PROVE  x = y
    <3>1. PICK t \in Threads, i \in Nat : x = <<t, i>> /\ ReadAt(fd, t, i)
      BY <1>2
    <3>2. PICK u \in Threads, j \in Nat : y = <<u, j>> /\ ReadAt(fd, u, j)
      BY <1>2
    <3>3. t = u /\ i = j
      BY <3>1, <3>2 DEF Flight, Work, OneReader
    <3> QED
      BY <3>1, <3>2, <3>3
  <2>2. \A x, y \in Readers(fd) : x = y
    BY <1>4 DEF Flight, Work, OneReader
  <2>3. R # {} => Readers(fd) = {}
    <3> SUFFICES ASSUME R # {}, Readers(fd) # {} PROVE FALSE
      OBVIOUS
    <3>1. PICK t \in Threads, i \in Nat : i # 0 /\ ReadAt(fd, t, i)
      BY <1>2
    <3> QED
      BY <1>4, <3>1 DEF Flight, Work, OneReader
  <2> QED
    BY <2>1, <2>2, <2>3
<1>11. \A n \in {Cardinality(W), Cardinality(Writers(fd)), Cardinality(Parsed(fd)),
                 Cardinality(R), Cardinality(Readers(fd))} : n \in {0, 1}
  BY <1>8, <1>10, AtMostOne
<1>12. /\ Cardinality(W) = 1 => W # {}
       /\ Cardinality(Writers(fd)) = 1 => Writers(fd) # {}
       /\ Cardinality(R) = 1 => R # {}
  BY <1>8, <1>10, AtMostOne
<1>13. Cardinality({}) = 0
  BY FS_EmptySet
<1>14. /\ Cardinality(W) + Cardinality(Writers(fd)) + Cardinality(Parsed(fd)) <= 1
       /\ Cardinality(R) + Cardinality(Readers(fd)) <= 1
  BY <1>9, <1>10, <1>11, <1>12, <1>13
<1> QED
  BY <1>14 DEF W, R

\* Until somebody leaves, a connection has at most one command between the parser and the
\* writer and at most one read task or reader, although fdSet, which the main thread
\* consults, is filled after the push and emptied after the write.
THEOREM OneRequestAtATime == Spec => []OneRequestInFlight
<1>1. FInv => OneRequestInFlight
  BY FlightBounds DEF FInv, Alive, OneRequestInFlight
<1> QED
  BY <1>1, FlightInvariant, PTL

-------------------------------------------------------------------------------
(***************************************************************************)
(* IoPipeline implements KvService, step by step, as long as no client has *)
(* left and no thread parses a buffer it did not fill (Calm).              *)
(*                                                                         *)
(* The one command each client has under way (FInv) is followed with what  *)
(* belongs to it: at every place between the first write of sendCmd and    *)
(* the read of the reply, what the server has not read of it is what the   *)
(* client wrote, what was parsed is the command the client waits for, and  *)
(* the reply is the one to that command (Has, Whole).  The service then    *)
(* sees three of the places: the second write of sendCmd is its Invoke,    *)
(* the turn of the drain loop that takes the command its Execute, and the  *)
(* client's read of the reply its Respond.  Every other step of a thread,  *)
(* of the main thread or of the kernel leaves what the service sees.       *)
(***************************************************************************)

\* The task thread t holds (i = 0), or the i-th of its queue; and what one write of
\* sendCmd puts on the connection.
TaskAt(t, i) == IF i = 0 THEN cur[t] ELSE io_q[t][i]
Piece(c, part) == [part |-> part, cmd |-> Request(c)]

\* A thread in the middle of a reply has a write task.
WriterOK == \A t \in Threads : pc[t] = "write" => ~cur[t].isRead

\* A client has one connection, waiting or accepted.
OneConn ==
  /\ \A i, j \in 1 .. Len(backlog) : backlog[i] = backlog[j] => i = j
  /\ \A i \in 1 .. Len(backlog) : cpc[backlog[i]] # "connect"
  /\ \A fd \in Fds : Open(fd) => /\ cpc[fdOwner[fd]] # "connect"
                                 /\ \A i \in 1 .. Len(backlog) : backlog[i] # fdOwner[fd]
  /\ \A fd, g \in Fds : Open(fd) /\ fdOwner[fd] = fdOwner[g] => fd = g

\* What the server has not read of a client's command, whose command it is, and the
\* reply r to it, when the command is in the place <<s, t, i>>.
Has(c, s, t, i, r) ==
  /\ At(c, s, t, i)
  /\ \/ s = "sent" /\ cpc[c] = "payload" /\ inq[c] = <<Piece(c, "header")>>
     \/ s = "sent" /\ cpc[c] = "reply" /\ inq[c] = <<Piece(c, "header"), Piece(c, "payload")>>
     \/ s = "begun" /\ cpc[c] = "payload" /\ inq[c] = <<>>
     \/ s = "begun" /\ cpc[c] = "reply" /\ inq[c] = <<Piece(c, "payload")>>
     \/ s = "parsed" /\ cpc[c] = "reply" /\ inq[c] = <<>> /\ exe_q[i].cmd = Request(c)
     \/ s = "queued" /\ cpc[c] = "reply" /\ inq[c] = <<>> /\ r = TaskAt(t, i).str
     \/ s = "answered" /\ cpc[c] = "reply" /\ inq[c] = <<>> /\ r = outq[c][i]
  /\ s \in {"queued", "answered"} => r.id = <<c, step[c]>>

\* A client that has begun to send has its command in a place, and one that has not has
\* nothing on its connection.
Whole(c) ==
  IF cpc[c] \in {"payload", "reply"}
  THEN \E s \in Stages, t \in Threads, i \in Nat, r \in Replies : Has(c, s, t, i, r)
  ELSE inq[c] = <<>>

\* The inductive invariant: while no client has left, every command is whole.
SInv == FInv /\ WriterOK /\ OneConn /\ (Alive => \A c \in Clients : Whole(c))

-------------------------------------------------------------------------------
\* A server that starts has nothing under way.
LEMMA InitSInv == Init => SInv
<1> SUFFICES ASSUME Init PROVE SInv
  OBVIOUS
<1>1. FInv
  BY InitFlight
<1>2. WriterOK /\ OneConn
  BY DEF Init, WriterOK, OneConn, Open
<1>3. \A c \in Clients : Whole(c)
  BY DEF Init, Whole
<1> QED
  BY <1>1, <1>2, <1>3 DEF SInv

\* A thread that takes a write task goes to write it.
LEMMA WriterKept == TInv /\ WriterOK /\ [Next]_vars => WriterOK'
<1> SUFFICES ASSUME TInv, WriterOK, [Next]_vars PROVE WriterOK'
  OBVIOUS
<1>1. ASSUME NEW c \in Clients, Client(c) \/ Exit(c) PROVE WriterOK'
  BY <1>1, ClientFrame DEF WriterOK, threadVars
<1>2. CASE AeMain
  BY <1>2, MainFrame DEF WriterOK, threadVars
<1>3. ASSUME NEW t \in Threads, IOThreadMain(t) PROVE WriterOK'
  <2>1. \A u \in Threads \ {t} : pc'[u] = pc[u] /\ cur'[u] = cur[u]
    BY <1>3, ThreadFrame
  <2>2. pc'[t] = "write" => ~cur'[t].isRead
    <3> USE DEF TInv, TypeOK, ThreadTypes, SharedTypes, Goto, WriterOK
    <3>1. CASE TryPop(t)
      <4>1. /\ cur'[t] = Head(io_q[t])
            /\ pc'[t] = IF Head(io_q[t]).isRead THEN "header" ELSE "write"
        BY <3>1 DEF TryPop
      <4> QED
        BY <4>1
    <3>2. CASE ReadHeader(t) \/ ReadNothing(t) \/ ReadEndOfFile(t) \/ ReadError(t)
      BY <3>2 DEF ReadHeader, ReadNothing, ReadEndOfFile, ReadError
    <3>3. CASE ReadPayload(t) \/ MissPayload(t) \/ ParseEmpty(t) \/ ParseGarbage(t)
      BY <3>3 DEF ReadPayload, MissPayload, ParseEmpty, ParseGarbage, ParseAndPush, threadVars
    <3>4. CASE Close(t) \/ DelEvent(t) \/ Unmask(t) \/ EraseFdSet(t)
      BY <3>4 DEF Close, DelEvent, Unmask, EraseFdSet
    <3>5. CASE WriteReply(t) \/ WriteToDead(t)
      BY <3>5 DEF WriteReply, WriteToDead
    <3> QED
      BY <1>3, <3>1, <3>2, <3>3, <3>4, <3>5 DEF IOThreadMain
  <2> QED
    BY <2>1, <2>2 DEF WriterOK
<1>4. CASE UNCHANGED vars
  BY <1>4 DEF WriterOK, vars, threadVars
<1> QED
  BY <1>1, <1>2, <1>3, <1>4 DEF Next

\* A client is accepted once.
LEMMA ConnKept == TInv /\ OneConn /\ [Next]_vars => OneConn'
<1> SUFFICES ASSUME TInv, OneConn, [Next]_vars PROVE OneConn'
  OBVIOUS
<1>0. /\ backlog \in Seq(Clients) /\ fdOwner \in [Fds -> Clients \cup {NoConn}]
      /\ cpc \in [Clients -> {"connect", "header", "payload", "reply", "done", "dead"}]
      /\ \A i \in 1 .. Len(backlog) : backlog[i] \in Clients
      /\ \A fd \in Fds : Open(fd) => fdOwner[fd] \in Clients
  BY DEF TInv, TypeOK, ClientTypes, KernelTypes, Open
<1>1. ASSUME NEW c \in Clients, Client(c) \/ Exit(c) PROVE OneConn'
  <2>1. UNCHANGED fdOwner
    BY <1>1, ClientFrame
  <2>2. CASE Connect(c)
    <3>1. /\ cpc[c] = "connect" /\ backlog' = Append(backlog, c)
          /\ cpc'[c] # "connect" /\ \A d \in Clients \ {c} : cpc'[d] = cpc[d]
      BY <1>0, <2>2 DEF Connect, CpcAt
    <3>2. /\ Len(backlog) \in Nat /\ Len(backlog') = Len(backlog) + 1
          /\ backlog'[Len(backlog) + 1] = c
          /\ \A i \in 1 .. Len(backlog) : backlog'[i] = backlog[i]
      BY <1>0, <3>1
    <3>3. \A i \in 1 .. Len(backlog') : i \in 1 .. Len(backlog) \/ i = Len(backlog) + 1
      BY <3>2
    <3>4. \A i \in 1 .. Len(backlog) : backlog[i] \in Clients \ {c}
      BY <1>0, <3>1 DEF OneConn
    <3>5. \A fd \in Fds : Open(fd) => fdOwner[fd] \in Clients \ {c}
      BY <1>0, <3>1 DEF OneConn, Open
    <3>6. \A i, j \in 1 .. Len(backlog') : backlog'[i] = backlog'[j] => i = j
      <4> SUFFICES ASSUME NEW i \in 1 .. Len(backlog'), NEW j \in 1 .. Len(backlog'),
                          backlog'[i] = backlog'[j]
                   PROVE  i = j
        OBVIOUS
      <4>1. i \in 1 .. Len(backlog) /\ j \in 1 .. Len(backlog) => i = j
        BY <3>2 DEF OneConn
      <4> QED
        BY <3>2, <3>3, <3>4, <4>1
    <3>7. \A i \in 1 .. Len(backlog') : cpc'[backlog'[i]] # "connect"
      BY <3>1, <3>2, <3>3, <3>4 DEF OneConn
    <3>8. \A fd \in Fds : Open(fd)' => /\ cpc'[fdOwner'[fd]] # "connect"
                                       /\ \A i \in 1 .. Len(backlog') : backlog'[i] # fdOwner'[fd]
      BY <2>1, <3>1, <3>2, <3>3, <3>5 DEF OneConn, Open
    <3>9. \A fd, g \in Fds : Open(fd)' /\ fdOwner'[fd] = fdOwner'[g] => fd = g
      BY <2>1 DEF OneConn, Open
    <3> QED
      BY <3>6, <3>7, <3>8, <3>9 DEF OneConn
  <2>3. CASE ~Connect(c)
    <3>1. UNCHANGED backlog /\ \A d \in Clients : cpc'[d] = "connect" => cpc[d] = "connect"
      BY <1>0, <1>1, <2>3 DEF Client, SendHeader, SendPayload, SendPiece, Receive, Exit, CpcAt, kernelVars
    <3> QED
      BY <1>0, <2>1, <3>1 DEF OneConn, Open
  <2> QED
    BY <2>2, <2>3
<1>2. CASE AeMain /\ Accept
  <2>1. PICK new \in Fds :
          ~Open(new) /\ fdOwner' = [fdOwner EXCEPT ![new] = Head(backlog)]
    BY <1>2 DEF Accept, LowestFree
  <2>2. backlog # <<>> /\ backlog' = Tail(backlog) /\ UNCHANGED cpc
    BY <1>2 DEF Accept, clientVars
  <2>3. /\ Len(backlog) \in Nat \ {0} /\ Len(backlog') = Len(backlog) - 1
        /\ Head(backlog) = backlog[1]
        /\ \A i \in 1 .. Len(backlog') : backlog'[i] = backlog[i + 1]
    BY <1>0, <2>2, HeadTailProperties
  <2>4. /\ 1 \in 1 .. Len(backlog)
        /\ \A i \in 1 .. Len(backlog') : i + 1 \in 1 .. Len(backlog) /\ i + 1 # 1
    BY <2>3
  <2>5. fdOwner'[new] = backlog[1] /\ \A fd \in Fds \ {new} : fdOwner'[fd] = fdOwner[fd]
    BY <1>0, <2>1, <2>3
  <2>6. \A i, j \in 1 .. Len(backlog') : backlog'[i] = backlog'[j] => i = j
    <3> SUFFICES ASSUME NEW i \in 1 .. Len(backlog'), NEW j \in 1 .. Len(backlog'),
                        backlog'[i] = backlog'[j]
                 PROVE  i = j
      OBVIOUS
    <3>1. PICK x, y : x = i + 1 /\ y = j + 1
      OBVIOUS
    <3>2. x \in 1 .. Len(backlog) /\ y \in 1 .. Len(backlog) /\ backlog[x] = backlog[y]
      BY <2>3, <2>4, <3>1
    <3>3. x = y
      BY <3>2 DEF OneConn
    <3> QED
      BY <3>1, <3>3
  <2>7. \A i \in 1 .. Len(backlog') : cpc'[backlog'[i]] # "connect"
    <3> SUFFICES ASSUME NEW i \in 1 .. Len(backlog') PROVE cpc[backlog[i + 1]] # "connect"
      BY <2>2, <2>3
    <3> QED
      BY <2>4 DEF OneConn
  <2>8. \A fd \in Fds : Open(fd)' => /\ cpc'[fdOwner'[fd]] # "connect"
                                     /\ \A i \in 1 .. Len(backlog') : backlog'[i] # fdOwner'[fd]
    <3>1. ASSUME NEW i \in 1 .. Len(backlog') PROVE backlog'[i] # backlog[1]
      <4>1. PICK x : x = i + 1
        OBVIOUS
      <4>2. x \in 1 .. Len(backlog) /\ x # 1 /\ backlog'[i] = backlog[x]
        BY <2>3, <2>4, <4>1
      <4> QED
        BY <2>4, <4>2 DEF OneConn
    <3>2. \A fd \in Fds : Open(fd)' => fd = new \/ (Open(fd) /\ fdOwner'[fd] = fdOwner[fd])
      BY <2>5 DEF Open
    <3>3. ASSUME NEW fd \in Fds, Open(fd), NEW i \in 1 .. Len(backlog')
          PROVE  backlog'[i] # fdOwner[fd]
      <4>1. PICK x : x = i + 1
        OBVIOUS
      <4>2. x \in 1 .. Len(backlog) /\ backlog'[i] = backlog[x]
        BY <2>3, <2>4, <4>1
      <4> QED
        BY <3>3, <4>2 DEF OneConn
    <3>4. cpc[backlog[1]] # "connect" /\ \A fd \in Fds : Open(fd) => cpc[fdOwner[fd]] # "connect"
      BY <2>4 DEF OneConn
    <3>5. \A i \in 1 .. Len(backlog') : backlog'[i] # backlog[1]
      BY <3>1
    <3> QED
      BY <2>2, <2>5, <3>2, <3>3, <3>4, <3>5
  <2>9. \A fd, g \in Fds : Open(fd)' /\ fdOwner'[fd] = fdOwner'[g] => fd = g
    <3>1. \A fd \in Fds : Open(fd) => fdOwner[fd] # backlog[1]
      BY <2>4 DEF OneConn
    <3>2. backlog[1] # NoConn
      BY <1>0, <2>4, IoAssumption
    <3>3. \A fd, g \in Fds : Open(fd) /\ fdOwner[fd] = fdOwner[g] => fd = g
      BY DEF OneConn
    <3> QED
      BY <2>1, <2>5, <3>1, <3>2, <3>3 DEF Open
  <2> QED
    BY <2>6, <2>7, <2>8, <2>9 DEF OneConn
<1>3. CASE AeMain /\ ~Accept
  <2>1. UNCHANGED <<cpc, backlog, fdOwner>>
    BY <1>3, MainFrame DEF AeMain, AeApiPoll, MainReturns, Register, RegisterFails, SetMask,
       PushReadTask, DropEvent, InsertFdSet, ExecCommand, EndRound, kernelVars, clientVars
  <2> QED
    BY <2>1 DEF OneConn, Open
<1>4. ASSUME NEW t \in Threads, IOThreadMain(t) PROVE OneConn'
  <2>1. UNCHANGED <<cpc, backlog>>
    BY <1>4, ThreadFrame
  <2>2. \A fd \in Fds : fdOwner'[fd] = fdOwner[fd] \/ fdOwner'[fd] = NoConn
    <3>1. CASE Close(t)
      BY <3>1 DEF Close
    <3>2. CASE ~Close(t)
      BY <1>4, <3>2 DEF IOThreadMain, TryPop, ReadHeader, ReadNothing, ReadEndOfFile,
           ReadError, ReadPayload, MissPayload, ParseEmpty, ParseGarbage, DelEvent, Unmask,
           EraseFdSet, WriteReply, WriteToDead, kernelVars
    <3> QED
      BY <3>1, <3>2
  <2> QED
    BY <2>1, <2>2 DEF OneConn, Open
<1>5. CASE UNCHANGED vars
  BY <1>5 DEF vars, clientVars, kernelVars, OneConn, Open
<1> QED
  BY <1>1, <1>2, <1>3, <1>4, <1>5 DEF Next

-------------------------------------------------------------------------------
\* The way of a command, place by place.

-------------------------------------------------------------------------------
\* Where the command has been executed.
Done == {"queued", "answered"}

\* What a step does that takes client c's command no further than to the next place, and
\* not through execCommand.
Stays(c) ==
  /\ cpc'[c] = cpc[c] /\ step'[c] = step[c]
  /\ cpc[c] \notin {"payload", "reply"} => inq'[c] = inq[c]
  /\ \A s \in Stages, t \in Threads, i \in Nat, r \in Replies :
       Has(c, s, t, i, r) =>
         \E s1 \in Stages, t1 \in Threads, i1 \in Nat :
           Has(c, s1, t1, i1, r)' /\ (s1 \in Done <=> s \in Done)

\* Such a step leaves the client with its command whole.
LEMMA StaysWhole ==
  ASSUME NEW c \in Clients, Whole(c), Stays(c) PROVE Whole(c)'
BY DEF Whole, Stays

\* The command keeps its place but for a shift in the queue it is in.
LEMMA HasGoes ==
  ASSUME NEW c \in Clients, NEW s, NEW t, NEW i, NEW j, NEW r, Has(c, s, t, i, r),
         cpc'[c] = cpc[c], step'[c] = step[c], inq'[c] = inq[c], At(c, s, t, j)',
         s = "parsed" => exe_q'[j] = exe_q[i],
         s = "queued" => TaskAt(t, j)' = TaskAt(t, i),
         s = "answered" => outq'[c][j] = outq[c][i]
  PROVE  Has(c, s, t, j, r)'
BY DEF Has, Piece, Request

\* A step of another client.
LEMMA ClientStays ==
  ASSUME TInv, NEW d \in Clients, Client(d) \/ Exit(d), NEW c \in Clients \ {d}
  PROVE  Stays(c)
<1>1. /\ cpc'[c] = cpc[c] /\ step'[c] = step[c] /\ inq'[c] = inq[c] /\ outq'[c] = outq[c]
      /\ UNCHANGED <<fdOwner, pc, cur, io_q, exe_q>>
  BY ClientFrame DEF Client, Connect, SendHeader, SendPayload, SendPiece, Receive, Exit, TInv,
     TypeOK, ClientTypes, threadVars, sharedVars
<1>2. \A s, t, i : At(c, s, t, i)' <=> At(c, s, t, i)
  BY <1>1 DEF At, WriteAt, ExeAt, FdOf
<1>3. \A t, i : TaskAt(t, i)' = TaskAt(t, i)
  BY <1>1 DEF TaskAt
<1>4. ASSUME NEW s \in Stages, NEW t \in Threads, NEW i \in Nat, NEW r \in Replies,
             Has(c, s, t, i, r)
      PROVE  Has(c, s, t, i, r)'
  <2>1. At(c, s, t, i)'
    BY <1>2, <1>4 DEF Has
  <2> QED
    BY <1>1, <1>3, <1>4, <2>1, HasGoes
<1> QED
  BY <1>1, <1>4 DEF Stays

\* Work of the main thread other than executing a command.
LEMMA MainStays ==
  ASSUME TInv, Alive, Flight, Next, AeMain, ~ExecCommand, NEW c \in Clients
  PROVE  Stays(c)
<1>1. UNCHANGED <<cpc, step, inq, outq, pc, cur>>
  BY MainFrame DEF clientVars, threadVars
<1>2. /\ UNCHANGED exe_q
      /\ \A u \in Threads, i \in Nat \ {0} : i \in 1 .. Len(io_q[u]) =>
           i \in 1 .. Len(io_q'[u]) /\ io_q'[u][i] = io_q[u][i]
  <2>1. CASE \E fd \in Fds : PushReadTask(fd)
    <3>1. PICK fd \in Fds : PushReadTask(fd)
      BY <2>1
    <3>2. PICK n, task : n = ThreadOf(fd) /\ task = ReadTask(fd)
      OBVIOUS
    <3>3. n \in Threads /\ io_q \in [Threads -> Seq(Tasks)]
      BY <3>2, ThreadOfType DEF TInv, TypeOK, SharedTypes
    <3>4. UNCHANGED exe_q /\ io_q' = [io_q EXCEPT ![n] = Append(@, task)]
      BY <3>1, <3>2 DEF PushReadTask
    <3>5. /\ io_q'[n] = Append(io_q[n], task) /\ io_q[n] \in Seq(Tasks)
          /\ \A u \in Threads \ {n} : io_q'[u] = io_q[u]
      BY <3>3, <3>4
    <3>6. \A i \in 1 .. Len(io_q[n]) : i \in 1 .. Len(io_q'[n]) /\ io_q'[n][i] = io_q[n][i]
      BY <3>5
    <3> QED
      BY <3>4, <3>5, <3>6
  <2>2. CASE ~(\E fd \in Fds : PushReadTask(fd))
    <3>1. UNCHANGED <<io_q, exe_q>>
      BY <2>2 DEF AeMain, AeApiPoll, MainReturns, Accept, Register, RegisterFails,
         SetMask, EndRound, InsertFdSet, DropEvent, sharedVars
    <3> QED
      BY <3>1
  <2> QED
    BY <2>1, <2>2
<1>3. \A fd \in Fds, u \in Threads, i \in Nat :
        /\ WriteAt(fd, u, i) => WriteAt(fd, u, i)' /\ TaskAt(u, i)' = TaskAt(u, i)
        /\ ExeAt(fd, i) => ExeAt(fd, i)'
  BY <1>1, <1>2 DEF WriteAt, ExeAt, TaskAt, FdOf
<1>4. ASSUME NEW s \in Stages, NEW t \in Threads, NEW i \in Nat, At(c, s, t, i)
      PROVE  At(c, s, t, i)' /\ (s = "queued" => TaskAt(t, i)' = TaskAt(t, i))
  <2>1. CASE s \in {"sent", "answered"}
    BY <1>1, <1>4, <2>1 DEF At
  <2>2. CASE s = "begun"
    BY <1>1, <1>4, <2>2, UsedOwner DEF At, FdOf
  <2>3. CASE s = "parsed"
    BY <1>3, <1>4, <2>3, UsedOwner DEF At
  <2>4. CASE s = "queued"
    BY <1>1, <1>3, <1>4, <2>4, UsedOwner DEF At
  <2> QED
    BY <2>1, <2>2, <2>3, <2>4 DEF Stages
<1>5. ASSUME NEW s \in Stages, NEW t \in Threads, NEW i \in Nat, NEW r \in Replies,
             Has(c, s, t, i, r)
      PROVE  Has(c, s, t, i, r)'
  <2>1. At(c, s, t, i)' /\ (s = "queued" => TaskAt(t, i)' = TaskAt(t, i))
    BY <1>4, <1>5 DEF Has
  <2> QED
    BY <1>1, <1>2, <1>5, <2>1, HasGoes
<1> QED
  BY <1>1, <1>5 DEF Stays

\* What executing a command does to the places: the first of exe_q goes, and a reply is
\* appended to a queue or, when it repeats the last task there, is not.
LEMMA ExecPlaces ==
  ASSUME TInv, ExecCommand, NEW g, NEW n, NEW reply,
         g = Head(exe_q).fd, n = ThreadOf(g),
         reply = [ret |-> RetOf(Head(exe_q).cmd), id |-> Head(exe_q).cmd.id]
  PROVE  /\ g \in Fds /\ n \in Threads /\ reply \in Replies /\ ExeAt(g, 1)
         /\ UNCHANGED <<cpc, step, inq, outq, pc, cur, fdOwner>>
         /\ \A i \in Nat \ {0} : i + 1 \in 1 .. Len(exe_q) =>
              i \in 1 .. Len(exe_q') /\ exe_q'[i] = exe_q[i + 1]
         /\ \A u \in Threads, i \in Nat \ {0} : i \in 1 .. Len(io_q[u]) =>
              i \in 1 .. Len(io_q'[u]) /\ io_q'[u][i] = io_q[u][i]
         /\ \/ \E i \in Nat \ {0} : WriteAt(g, n, i)
            \/ \E i \in Nat \ {0} : WriteAt(g, n, i)' /\ io_q'[n][i].str = reply
<1>1. exe_q # <<>> /\ exe_q' = Tail(exe_q) /\ UNCHANGED <<pc, cur, fdOwner, cpc, step, inq, outq>>
  BY DEF ExecCommand, threadVars, kernelVars, clientVars
<1>2. PICK task : task = WriteTask(g, reply)
  OBVIOUS
<1>3. g \in Fds /\ task \in Tasks /\ task.fd = g /\ ~task.isRead /\ task.str = reply
  BY <1>1, <1>2, ReplyTaskType DEF WriteTask
<1>4. n \in Threads /\ reply \in Replies
  BY <1>3, ThreadOfType DEF Tasks
<1>5. exe_q \in Seq([fd : Fds, cmd : Commands]) /\ io_q \in [Threads -> Seq(Tasks)]
  BY DEF TInv, TypeOK, SharedTypes
<1>6. /\ Len(exe_q) \in Nat \ {0} /\ Len(exe_q') = Len(exe_q) - 1
      /\ \A i \in 1 .. Len(exe_q') : exe_q'[i] = exe_q[i + 1]
  BY <1>1, <1>5, HeadTailProperties
<1>7. ExeAt(g, 1)
  BY <1>1, ExecMoves
<1>8. \A i \in Nat \ {0} : i + 1 \in 1 .. Len(exe_q) =>
        i \in 1 .. Len(exe_q') /\ exe_q'[i] = exe_q[i + 1]
  BY <1>6
<1>9. PICK q : q = io_q[n]
  OBVIOUS
<1>10. q \in Seq(Tasks) /\ Len(q) \in Nat
  BY <1>4, <1>5, <1>9
<1>11. \/ UNCHANGED io_q /\ q # <<>> /\ q[Len(q)] = task
       \/ io_q' = [io_q EXCEPT ![n] = Append(q, task)]
  <2>1. PushWriteTask(g, task)
    BY <1>2 DEF ExecCommand
  <2> QED
    BY <1>4, <1>5, <1>9, <2>1 DEF PushWriteTask
<1>12. CASE UNCHANGED io_q /\ q # <<>> /\ q[Len(q)] = task
  <2>1. Len(q) \in Nat \ {0} /\ Len(q) \in 1 .. Len(q)
    BY <1>10, <1>12
  <2>2. WriteAt(g, n, Len(q))
    BY <1>3, <1>9, <1>12, <2>1 DEF WriteAt
  <2>3. \E i \in Nat \ {0} : WriteAt(g, n, i)
    BY <2>1, <2>2
  <2> QED
    BY <1>1, <1>3, <1>4, <1>7, <1>8, <1>12, <2>3
<1>13. CASE io_q' = [io_q EXCEPT ![n] = Append(q, task)]
  <2>1. io_q'[n] = Append(q, task) /\ \A u \in Threads \ {n} : io_q'[u] = io_q[u]
    BY <1>4, <1>5, <1>13
  <2>2. /\ Len(io_q'[n]) = Len(q) + 1 /\ io_q'[n][Len(q) + 1] = task
        /\ \A i \in 1 .. Len(q) : i \in 1 .. Len(io_q'[n]) /\ io_q'[n][i] = q[i]
    BY <1>10, <2>1
  <2>3. Len(q) + 1 \in Nat \ {0} /\ Len(q) + 1 \in 1 .. Len(io_q'[n])
    BY <1>10, <2>2
  <2>4. WriteAt(g, n, Len(q) + 1)' /\ io_q'[n][Len(q) + 1].str = reply
    BY <1>3, <2>2, <2>3 DEF WriteAt
  <2>5. \E i \in Nat \ {0} : WriteAt(g, n, i)' /\ io_q'[n][i].str = reply
    BY <2>3, <2>4
  <2>6. \A u \in Threads, i \in Nat \ {0} : i \in 1 .. Len(io_q[u]) =>
          i \in 1 .. Len(io_q'[u]) /\ io_q'[u][i] = io_q[u][i]
    BY <1>9, <2>1, <2>2
  <2> QED
    BY <1>1, <1>3, <1>4, <1>7, <1>8, <2>5, <2>6
<1> QED
  BY <1>11, <1>12, <1>13

\* Executing the command of another client.
LEMMA ExecStays ==
  ASSUME TInv, ExecCommand, NEW c \in Clients, fdOwner[Head(exe_q).fd] # c
  PROVE  Stays(c)
<1>1. PICK g, n, reply :
        /\ g = Head(exe_q).fd /\ n = ThreadOf(g)
        /\ reply = [ret |-> RetOf(Head(exe_q).cmd), id |-> Head(exe_q).cmd.id]
  OBVIOUS
<1>2. /\ UNCHANGED <<cpc, step, inq, outq, pc, cur, fdOwner>>
      /\ \A i \in Nat \ {0} : i + 1 \in 1 .. Len(exe_q) =>
           i \in 1 .. Len(exe_q') /\ exe_q'[i] = exe_q[i + 1]
      /\ \A u \in Threads, i \in Nat \ {0} : i \in 1 .. Len(io_q[u]) =>
           i \in 1 .. Len(io_q'[u]) /\ io_q'[u][i] = io_q[u][i]
  BY <1>1, ExecPlaces
<1>3. \A fd \in Fds, u \in Threads, i \in Nat :
        WriteAt(fd, u, i) => WriteAt(fd, u, i)' /\ TaskAt(u, i)' = TaskAt(u, i)
  BY <1>2 DEF WriteAt, TaskAt, FdOf
<1>4. ASSUME NEW s \in Stages \ {"parsed"}, NEW t \in Threads, NEW i \in Nat, At(c, s, t, i)
      PROVE  At(c, s, t, i)' /\ (s = "queued" => TaskAt(t, i)' = TaskAt(t, i))
  <2>1. CASE s \in {"sent", "answered"}
    BY <1>2, <1>4, <2>1 DEF At
  <2>2. CASE s = "begun"
    BY <1>2, <1>4, <2>2 DEF At, FdOf
  <2>3. CASE s = "queued"
    BY <1>2, <1>3, <1>4, <2>3 DEF At
  <2> QED
    BY <2>1, <2>2, <2>3 DEF Stages
<1>5. ASSUME NEW t \in Threads, NEW i \in Nat, At(c, "parsed", t, i)
      PROVE  \E j \in Nat : At(c, "parsed", t, j)' /\ exe_q'[j] = exe_q[i]
  <2>1. PICK fd \in Fds : ExeAt(fd, i) /\ fdOwner[fd] = c /\ t = 0
    BY <1>5 DEF At
  <2>2. i \in 1 .. Len(exe_q) /\ exe_q[i].fd = fd
    BY <2>1 DEF ExeAt
  <2>3. i # 1
    <3>1. exe_q # <<>>
      BY DEF ExecCommand
    <3>2. Head(exe_q) = exe_q[1]
      BY <3>1, HeadTailProperties DEF TInv, TypeOK, SharedTypes
    <3> QED
      BY <2>1, <2>2, <3>2
  <2>4. PICK j : j = i - 1
    OBVIOUS
  <2>5. j \in Nat \ {0} /\ j + 1 = i
    BY <2>2, <2>3, <2>4
  <2>6. j \in 1 .. Len(exe_q') /\ exe_q'[j] = exe_q[i]
    BY <1>2, <2>2, <2>5
  <2>7. At(c, "parsed", t, j)'
    BY <1>2, <2>1, <2>2, <2>6 DEF At, ExeAt
  <2> QED
    BY <2>5, <2>6, <2>7
<1>6. ASSUME NEW s \in Stages, NEW t \in Threads, NEW i \in Nat, NEW r \in Replies,
             Has(c, s, t, i, r)
      PROVE  \E j \in Nat : Has(c, s, t, j, r)'
  <2>1. CASE s # "parsed"
    <3>1. At(c, s, t, i)' /\ (s = "queued" => TaskAt(t, i)' = TaskAt(t, i))
      BY <1>4, <1>6, <2>1 DEF Has
    <3>2. Has(c, s, t, i, r)'
      BY <1>2, <1>6, <2>1, <3>1, HasGoes
    <3> QED
      BY <3>2
  <2>2. CASE s = "parsed"
    <3>1. PICK j \in Nat : At(c, s, t, j)' /\ exe_q'[j] = exe_q[i]
      BY <1>5, <1>6, <2>2 DEF Has
    <3>2. Has(c, s, t, j, r)'
      BY <1>2, <1>6, <2>2, <3>1, HasGoes
    <3> QED
      BY <3>2
  <2> QED
    BY <2>1, <2>2
<1> QED
  BY <1>2, <1>6 DEF Stays

\* A client's command is in the one place At says, and Has with it.
LEMMA PlaceIs ==
  ASSUME NEW c \in Clients, Settled(c), Whole(c),
         NEW s \in Stages, NEW t \in Threads, NEW i \in Nat, At(c, s, t, i)
  PROVE  \E r \in Replies : Has(c, s, t, i, r)
<1>1. cpc[c] \in {"payload", "reply"}
  BY DEF Settled
<1>2. PICK s1 \in Stages, t1 \in Threads, i1 \in Nat, r \in Replies : Has(c, s1, t1, i1, r)
  BY <1>1 DEF Whole
<1>3. s1 = s /\ t1 = t /\ i1 = i
  BY <1>2 DEF Settled, Has
<1> QED
  BY <1>2, <1>3

\* Executing a client's command: it waited in exe_q as the client sent it, and its reply
\* is on the way when the step is done.
LEMMA ExecOwn ==
  ASSUME TInv, Flight, ExecCommand, NEW c \in Clients, Whole(c), fdOwner[Head(exe_q).fd] = c
  PROVE  /\ cpc[c] = "reply" /\ cpc'[c] = cpc[c] /\ step'[c] = step[c]
         /\ Head(exe_q).cmd = Request(c)
         /\ \E r \in Replies : Has(c, "parsed", 0, 1, r)
         /\ \E n \in Threads, i \in Nat, r \in Replies :
              /\ Has(c, "queued", n, i, r)'
              /\ r = [ret |-> RetOf(Request(c)), id |-> Request(c).id]
<1>1. PICK g, n, reply :
        /\ g = Head(exe_q).fd /\ n = ThreadOf(g)
        /\ reply = [ret |-> RetOf(Head(exe_q).cmd), id |-> Head(exe_q).cmd.id]
  OBVIOUS
<1>2. /\ g \in Fds /\ n \in Threads /\ reply \in Replies /\ ExeAt(g, 1)
      /\ UNCHANGED <<cpc, step, inq, outq, pc, cur, fdOwner>>
      /\ \/ \E i \in Nat \ {0} : WriteAt(g, n, i)
         \/ \E i \in Nat \ {0} : WriteAt(g, n, i)' /\ io_q'[n][i].str = reply
  BY <1>1, ExecPlaces
<1>3. At(c, "parsed", 0, 1) /\ 0 \in Threads
  <2>1. 0 \in Threads
    BY IoAssumption, SMT DEF Threads
  <2> QED
    BY <1>1, <1>2, <2>1 DEF At
<1>4. Settled(c)
  BY SettledIs DEF Flight
<1>5. PICK r0 \in Replies : Has(c, "parsed", 0, 1, r0)
  BY <1>3, <1>4, PlaceIs DEF Stages
<1>6. cpc[c] = "reply" /\ inq[c] = <<>> /\ exe_q[1].cmd = Request(c)
  BY <1>5 DEF Has
<1>7. Head(exe_q).cmd = Request(c)
  <2>1. exe_q # <<>>
    BY DEF ExecCommand
  <2> QED
    BY <1>6, <2>1, HeadTailProperties DEF TInv, TypeOK, SharedTypes
<1>8. ASSUME NEW i \in Nat \ {0}, WriteAt(g, n, i) PROVE FALSE
  <2>1. At(c, "queued", n, i)
    BY <1>1, <1>2, <1>8 DEF At
  <2> QED
    BY <1>2, <1>3, <1>4, <2>1 DEF Settled, Stages
<1>9. PICK i \in Nat \ {0} : WriteAt(g, n, i)' /\ io_q'[n][i].str = reply
  BY <1>2, <1>8
<1>10. At(c, "queued", n, i)' /\ TaskAt(n, i)' = io_q'[n][i]
  BY <1>1, <1>2, <1>9 DEF At, TaskAt
<1>11. reply = [ret |-> RetOf(Request(c)), id |-> Request(c).id] /\ reply.id = <<c, step[c]>>
  BY <1>1, <1>7 DEF Request
<1>12. Has(c, "queued", n, i, reply)'
  BY <1>2, <1>6, <1>9, <1>10, <1>11 DEF Has
<1> QED
  BY <1>2, <1>5, <1>6, <1>7, <1>11, <1>12

\* Taking a task moves the places of the thread's queue forward by one.
LEMMA PopStays ==
  ASSUME TInv, NEW t \in Threads, TryPop(t), NEW c \in Clients
  PROVE  Stays(c)
<1>1. /\ UNCHANGED <<cpc, step, inq, outq, exe_q, fdOwner>> /\ pc[t] = "pop"
      /\ \A u \in Threads \ {t} : pc'[u] = pc[u] /\ cur'[u] = cur[u] /\ io_q'[u] = io_q[u]
  BY ThreadFrame DEF TryPop, clientVars, kernelVars, IOThreadMain
<1>2. /\ io_q[t] \in Seq(Tasks) /\ io_q[t] # <<>> /\ io_q'[t] = Tail(io_q[t])
      /\ cur'[t] = io_q[t][1]
      /\ pc'[t] = IF io_q[t][1].isRead THEN "header" ELSE "write"
  BY DEF TryPop, Goto, TInv, TypeOK, SharedTypes, ThreadTypes
<1>3. /\ Len(io_q[t]) \in Nat \ {0} /\ Len(io_q'[t]) = Len(io_q[t]) - 1
      /\ \A i \in 1 .. Len(io_q'[t]) : io_q'[t][i] = io_q[t][i + 1]
  BY <1>2, HeadTailProperties
<1>4. \A s \in Stages \ {"queued"}, u \in Threads, i \in Nat : At(c, s, u, i) => At(c, s, u, i)'
  BY <1>1 DEF At, ExeAt, FdOf, Stages
<1>5. ASSUME NEW u \in Threads, NEW i \in Nat, At(c, "queued", u, i)
      PROVE  \E j \in Nat : At(c, "queued", u, j)' /\ TaskAt(u, j)' = TaskAt(u, i)
  <2>1. CASE u # t
    <3>1. \A fd : WriteAt(fd, u, i)' <=> WriteAt(fd, u, i)
      BY <1>1, <2>1, ThreadSame
    <3>2. At(c, "queued", u, i)' /\ TaskAt(u, i)' = TaskAt(u, i)
      BY <1>1, <1>5, <2>1, <3>1 DEF At, TaskAt
    <3> QED
      BY <3>2
  <2>2. CASE u = t
    <3>1. PICK fd \in Fds : WriteAt(fd, t, i) /\ fdOwner[fd] = c
      BY <1>5, <2>2 DEF At
    <3>2. i \in 1 .. Len(io_q[t]) /\ ~io_q[t][i].isRead /\ i # 0
      BY <1>1, <1>3, <3>1 DEF WriteAt
    <3>3. PICK j : j = i - 1
      OBVIOUS
    <3>4. j \in Nat /\ i = j + 1
      BY <3>2, <3>3
    <3>5. WriteAt(fd, t, j)'
      BY <3>1, <3>4, PopMoves
    <3>6. TaskAt(t, j)' = TaskAt(t, i) /\ (j = 0 => pc'[t] = "write")
      <4>1. CASE j = 0
        BY <1>2, <3>2, <3>4, <4>1 DEF TaskAt
      <4>2. CASE j # 0
        <5>1. j \in 1 .. Len(io_q'[t])
          BY <1>3, <3>2, <3>4, <4>2
        <5> QED
          BY <1>3, <3>2, <3>4, <4>2, <5>1 DEF TaskAt
      <4> QED
        BY <4>1, <4>2
    <3>7. At(c, "queued", t, j)'
      BY <1>1, <3>1, <3>5, <3>6 DEF At
    <3> QED
      BY <2>2, <3>4, <3>6, <3>7
  <2> QED
    BY <2>1, <2>2
<1>6. ASSUME NEW s \in Stages, NEW u \in Threads, NEW i \in Nat, NEW r \in Replies,
             Has(c, s, u, i, r)
      PROVE  \E j \in Nat : Has(c, s, u, j, r)'
  <2>1. CASE s # "queued"
    <3>1. At(c, s, u, i)'
      BY <1>4, <1>6, <2>1 DEF Has
    <3>2. Has(c, s, u, i, r)'
      BY <1>1, <1>6, <2>1, <3>1, HasGoes
    <3> QED
      BY <3>2
  <2>2. CASE s = "queued"
    <3>1. PICK j \in Nat : At(c, s, u, j)' /\ TaskAt(u, j)' = TaskAt(u, i)
      BY <1>5, <1>6, <2>2 DEF Has
    <3>2. Has(c, s, u, j, r)'
      BY <1>1, <1>6, <2>2, <3>1, HasGoes
    <3> QED
      BY <3>2
  <2> QED
    BY <2>1, <2>2
<1> QED
  BY <1>1, <1>6 DEF Stays

\* A step of a thread moves no command but the one it works on.
LEMMA OwnStays ==
  ASSUME TInv, NEW t \in Threads, IOThreadMain(t), ~TryPop(t), UNCHANGED fdOwner,
         NEW c \in Clients, inq'[c] = inq[c], outq'[c] = outq[c],
         \A i \in 1 .. Len(exe_q) : i \in 1 .. Len(exe_q') /\ exe_q'[i] = exe_q[i],
         At(c, "begun", t, 0) => pc'[t] = "payload",
         At(c, "queued", t, 0) => pc'[t] = "write" /\ cur'[t] = cur[t]
  PROVE  Stays(c)
<1>1. /\ UNCHANGED <<cpc, step, io_q>> /\ pc[t] # "pop"
      /\ \A u \in Threads \ {t} : pc'[u] = pc[u] /\ cur'[u] = cur[u] /\ FdOf(u)' = FdOf(u)
      /\ pc'[t] # "pop" => FdOf(t)' = FdOf(t)
  BY ThreadFrame, OwnMoves
<1>2. \A fd, i : \A u \in Threads :
        u # t \/ i # 0 => (WriteAt(fd, u, i)' <=> WriteAt(fd, u, i))
  BY OwnMoves
<1>3. ASSUME NEW s \in Stages, NEW u \in Threads, NEW i \in Nat, At(c, s, u, i)
      PROVE  At(c, s, u, i)' /\ (s = "queued" => TaskAt(u, i)' = TaskAt(u, i))
  <2>1. CASE s \in {"sent", "answered"}
    BY <1>3, <2>1 DEF At
  <2>2. CASE s = "begun"
    BY <1>1, <1>3, <2>2 DEF At
  <2>3. CASE s = "parsed"
    BY <1>3, <2>3 DEF At, ExeAt
  <2>4. CASE s = "queued" /\ (u # t \/ i # 0)
    BY <1>1, <1>2, <1>3, <2>4 DEF At, TaskAt
  <2>5. CASE s = "queued" /\ u = t /\ i = 0
    <3>1. pc[t] = "write" /\ pc'[t] = "write" /\ cur'[t] = cur[t]
      BY <1>3, <2>5 DEF At
    <3> QED
      BY <1>1, <1>3, <2>5, <3>1 DEF At, WriteAt, TaskAt
  <2> QED
    BY <2>1, <2>2, <2>3, <2>4, <2>5 DEF Stages
<1>4. ASSUME NEW s \in Stages, NEW u \in Threads, NEW i \in Nat, NEW r \in Replies,
             Has(c, s, u, i, r)
      PROVE  Has(c, s, u, i, r)'
  <2>1. At(c, s, u, i)' /\ (s = "queued" => TaskAt(u, i)' = TaskAt(u, i))
    BY <1>3, <1>4 DEF Has
  <2>2. s = "parsed" => exe_q'[i] = exe_q[i]
    BY <1>4 DEF Has, At, ExeAt
  <2> QED
    BY <1>1, <1>4, <2>1, <2>2, HasGoes
<1> QED
  BY <1>1, <1>4 DEF Stays

\* A step of a thread that takes the command of its client to the next place.
LEMMA OwnGoes ==
  ASSUME NEW c \in Clients, cpc'[c] = cpc[c], step'[c] = step[c], Settled(c),
         NEW s0 \in Stages, NEW t0 \in Threads, NEW i0 \in Nat, At(c, s0, t0, i0),
         NEW s1 \in Stages, NEW t1 \in Threads, NEW i1 \in Nat,
         \A r \in Replies : Has(c, s0, t0, i0, r) => Has(c, s1, t1, i1, r)',
         s1 \in Done <=> s0 \in Done
  PROVE  Stays(c)
<1>1. ASSUME NEW s \in Stages, NEW t \in Threads, NEW i \in Nat, NEW r \in Replies,
             Has(c, s, t, i, r)
      PROVE  Has(c, s1, t1, i1, r)' /\ (s1 \in Done <=> s \in Done)
  <2>1. s = s0 /\ t = t0 /\ i = i0
    BY <1>1 DEF Has, Settled
  <2> QED
    BY <1>1, <2>1
<1>2. cpc[c] \in {"payload", "reply"}
  BY DEF Settled
<1> QED
  BY <1>1, <1>2 DEF Stays

\* What is read is a command the client sent: the thread that reads a length finds the
\* length of a command, and the one that reads a command the command that belongs to it.
LEMMA ReadIsWhole ==
  ASSUME TInv, Alive, Flight, OneConn, NEW t \in Threads, NEW c \in Clients, Whole(c),
         pc[t] \in {"header", "payload"}, fdOwner[FdOf(t)] = c, inq[c] # <<>>
  PROVE  /\ pc[t] = "header" =>
              /\ At(c, "sent", 0, 1) /\ Head(inq[c]).part = "header"
              /\ \/ cpc[c] = "payload" /\ Tail(inq[c]) = <<>>
                 \/ cpc[c] = "reply" /\ Tail(inq[c]) = <<Piece(c, "payload")>>
         /\ pc[t] = "payload" =>
              /\ At(c, "begun", t, 0) /\ cpc[c] = "reply"
              /\ Head(inq[c]).cmd = Request(c) /\ Tail(inq[c]) = <<>>
<1>1. Settled(c) /\ 0 \in Threads
  <2>1. 0 \in Threads
    BY IoAssumption, SMT DEF Threads
  <2> QED
    BY <2>1, SettledIs DEF Flight
<1>2. FdOf(t) \in Fds /\ Open(FdOf(t)) /\ ReadAt(FdOf(t), t, 0)
  BY OwnerThere DEF Flight, ReadAt
<1>3. cpc[c] \in {"payload", "reply"}
  BY DEF Whole
<1>4. PICK s \in Stages, u \in Threads, i \in Nat, r \in Replies : Has(c, s, u, i, r)
  BY <1>3 DEF Whole
<1>5. CASE pc[t] = "payload"
  <2>1. At(c, "begun", t, 0)
    BY <1>5 DEF At
  <2>2. s = "begun"
    BY <1>1, <1>4, <2>1 DEF Settled, Has, Stages
  <2>3. cpc[c] = "reply" /\ inq[c] = <<Piece(c, "payload")>>
    BY <1>4, <2>2 DEF Has
  <2>4. Head(inq[c]) = Piece(c, "payload") /\ Tail(inq[c]) = <<>>
    BY <2>3
  <2> QED
    BY <1>5, <2>1, <2>3, <2>4 DEF Piece
<1>6. CASE pc[t] = "header"
  <2>1. s # "begun"
    <3>1. ASSUME s = "begun" PROVE FALSE
      <4>1. i = 0 /\ pc[u] = "payload" /\ fdOwner[FdOf(u)] = c
        BY <1>4, <3>1 DEF Has, At
      <4>2. FdOf(u) \in Fds /\ ReadAt(FdOf(u), u, 0)
        BY <4>1, OwnerThere DEF Flight, ReadAt
      <4>3. FdOf(u) = FdOf(t)
        BY <1>2, <4>1, <4>2 DEF OneConn
      <4>4. u = t
        BY <1>2, <4>2, <4>3 DEF Flight, Work, OneReader
      <4> QED
        BY <1>6, <4>1, <4>4
    <3> QED
      BY <3>1
  <2>2. s = "sent"
    BY <1>4, <2>1 DEF Has
  <2>3. \/ cpc[c] = "payload" /\ inq[c] = <<Piece(c, "header")>>
        \/ cpc[c] = "reply" /\ inq[c] = <<Piece(c, "header"), Piece(c, "payload")>>
    BY <1>4, <2>2 DEF Has
  <2>4. /\ Head(inq[c]) = Piece(c, "header")
        /\ \/ cpc[c] = "payload" /\ Tail(inq[c]) = <<>>
           \/ cpc[c] = "reply" /\ Tail(inq[c]) = <<Piece(c, "payload")>>
    <3>1. \A h, p : /\ Head(<<h>>) = h /\ Tail(<<h>>) = <<>>
                    /\ Head(<<h, p>>) = h /\ Tail(<<h, p>>) = <<p>>
      OBVIOUS
    <3>2. CASE cpc[c] = "payload" /\ inq[c] = <<Piece(c, "header")>>
      BY <3>1, <3>2
    <3>3. CASE cpc[c] = "reply" /\ inq[c] = <<Piece(c, "header"), Piece(c, "payload")>>
      BY <3>1, <3>3
    <3> QED
      BY <2>3, <3>2, <3>3
  <2>5. inq[c][1] = Piece(c, "header") /\ 1 \in 1 .. Len(inq[c])
    BY <2>3
  <2>6. At(c, "sent", 0, 1)
    BY <2>5 DEF At, Piece
  <2> QED
    BY <1>6, <2>4, <2>6 DEF Piece
<1> QED
  BY <1>5, <1>6

\* An IO thread's steps leave every client's command whole as long as it parses only what
\* it has read.
LEMMA ThreadStays ==
  ASSUME TInv, Alive, Flight, OneConn, Next, ~torn',
         NEW t \in Threads, IOThreadMain(t), NEW c \in Clients, Whole(c)
  PROVE  Stays(c)
<1>1. Settled(c) /\ cpc'[c] = cpc[c] /\ step'[c] = step[c] /\ 0 \in Threads
  <2>1. 0 \in Threads
    BY IoAssumption, SMT DEF Threads
  <2> QED
    BY <2>1, SettledIs, ThreadFrame DEF Flight
<1>2. \/ TryPop(t) \/ ReadHeader(t) \/ ReadNothing(t) \/ ReadPayload(t) \/ EraseFdSet(t)
      \/ WriteReply(t)
  BY ServingSteps DEF Flight, MissPayload, ParseGarbage
<1>3. CASE TryPop(t)
  BY <1>3, PopStays
<1>4. CASE ReadNothing(t) \/ EraseFdSet(t)
  <2>1. /\ ~TryPop(t) /\ UNCHANGED <<fdOwner, inq, outq, exe_q>> /\ pc[t] \in {"header", "erase"}
    BY <1>4 DEF ReadNothing, EraseFdSet, TryPop, clientVars, kernelVars, sharedVars
  <2>2. ~At(c, "begun", t, 0) /\ ~At(c, "queued", t, 0)
    BY <2>1 DEF At
  <2> QED
    BY <2>1, <2>2, OwnStays
<1>5. CASE ~TryPop(t) /\ ~ReadNothing(t) /\ ~EraseFdSet(t)
  <2>1. PICK fd, d : fd = FdOf(t) /\ d = fdOwner[fd]
    OBVIOUS
  <2>2. UNCHANGED fdOwner /\ pc[t] \in {"header", "payload", "write"}
    BY <1>2, <1>5 DEF ReadHeader, ReadPayload, WriteReply, kernelVars
  <2>3. fd \in Fds /\ d \in Clients /\ FdOf(t)' = fd
    <3>1. pc'[t] # "pop"
      BY <1>2, <1>5 DEF ReadHeader, ReadPayload, WriteReply, ParseAndPush, Goto, TInv, TypeOK,
         ThreadTypes
    <3> QED
      BY <1>5, <2>1, <2>2, <3>1, OwnerThere, OwnMoves DEF Flight
  <2>4. /\ inq \in [Clients -> Seq(Pieces)] /\ outq \in [Clients -> Seq(Replies)]
        /\ exe_q \in Seq([fd : Fds, cmd : Commands])
        /\ pc \in [Threads -> {"pop", "header", "payload", "empty", "close", "delev",
                               "unmask", "erase", "write"}]
    BY DEF TInv, TypeOK, ClientTypes, SharedTypes, ThreadTypes
  <2>5. c # d => ~At(c, "begun", t, 0) /\ ~At(c, "queued", t, 0)
    BY <2>1 DEF At, WriteAt
  <2>6. CASE ReadHeader(t)
    <3>1. /\ pc[t] = "header" /\ inq[d] # <<>> /\ inq' = [inq EXCEPT ![d] = Tail(@)]
          /\ UNCHANGED <<outq, exe_q>>
          /\ Head(inq[d]).part = "header" => pc'[t] = "payload"
      BY <2>1, <2>4, <2>6 DEF ReadHeader, Goto, sharedVars
    <3>2. CASE c # d
      <4>1. inq'[c] = inq[c]
        BY <2>3, <2>4, <3>1, <3>2
      <4> QED
        BY <1>5, <2>2, <2>5, <3>1, <3>2, <4>1, OwnStays
    <3>3. CASE c = d
      <4>1. /\ At(c, "sent", 0, 1) /\ Head(inq[c]).part = "header"
            /\ inq'[c] = Tail(inq[c]) /\ pc'[t] = "payload"
            /\ \/ cpc[c] = "payload" /\ Tail(inq[c]) = <<>>
               \/ cpc[c] = "reply" /\ Tail(inq[c]) = <<Piece(c, "payload")>>
        BY <2>1, <2>3, <2>4, <3>1, <3>3, ReadIsWhole
      <4>2. At(c, "begun", t, 0)'
        BY <2>1, <2>2, <2>3, <3>3, <4>1 DEF At
      <4>3. Piece(c, "payload")' = Piece(c, "payload")
        BY <1>1 DEF Piece, Request
      <4>4. \A r \in Replies : Has(c, "begun", t, 0, r)'
        BY <1>1, <4>1, <4>2, <4>3 DEF Has
      <4>5. PICK z, o : z = 0 /\ o = 1
        OBVIOUS
      <4>6. /\ "sent" \in Stages /\ "begun" \in Stages /\ z \in Threads /\ z \in Nat /\ o \in Nat
            /\ "begun" \in Done <=> "sent" \in Done
        BY <1>1, <4>5 DEF Stages, Done
      <4>7. At(c, "sent", z, o) /\ \A r \in Replies : Has(c, "begun", t, z, r)'
        BY <4>1, <4>4, <4>5
      <4> QED
        BY <1>1, <4>6, <4>7, OwnGoes
    <3> QED
      BY <3>2, <3>3
  <2>7. CASE ReadPayload(t)
    <3>1. /\ pc[t] = "payload" /\ inq[d] # <<>> /\ inq' = [inq EXCEPT ![d] = Tail(@)]
          /\ UNCHANGED outq /\ exe_q' = Append(exe_q, [fd |-> fd, cmd |-> Head(inq[d]).cmd])
      BY <2>1, <2>7 DEF ReadPayload, ParseAndPush
    <3>2. PICK n, e : n = Len(exe_q) + 1 /\ e = [fd |-> fd, cmd |-> Head(inq[d]).cmd]
      OBVIOUS
    <3>3. /\ n \in Nat /\ n \in 1 .. Len(exe_q') /\ exe_q'[n] = e
          /\ \A i \in 1 .. Len(exe_q) : i \in 1 .. Len(exe_q') /\ exe_q'[i] = exe_q[i]
      BY <2>4, <3>1, <3>2
    <3>4. CASE c # d
      <4>1. inq'[c] = inq[c]
        BY <2>3, <2>4, <3>1, <3>4
      <4> QED
        BY <1>5, <2>2, <2>5, <3>1, <3>3, <3>4, <4>1, OwnStays
    <3>5. CASE c = d
      <4>1. /\ At(c, "begun", t, 0) /\ cpc[c] = "reply" /\ Head(inq[c]).cmd = Request(c)
            /\ inq'[c] = <<>>
        BY <2>1, <2>3, <2>4, <3>1, <3>5, ReadIsWhole
      <4>2. exe_q'[n].fd = fd /\ exe_q'[n].cmd = Request(c)
        BY <3>2, <3>3, <3>5, <4>1
      <4>3. At(c, "parsed", 0, n)'
        BY <2>1, <2>2, <2>3, <3>3, <3>5, <4>2 DEF At, ExeAt
      <4>4. Request(c)' = Request(c)
        BY <1>1 DEF Request
      <4>5. \A r \in Replies : Has(c, "parsed", 0, n, r)'
        BY <1>1, <4>1, <4>2, <4>3, <4>4 DEF Has
      <4>6. PICK z : z = 0
        OBVIOUS
      <4>7. /\ "parsed" \in Stages /\ "begun" \in Stages /\ z \in Threads /\ z \in Nat
            /\ "parsed" \in Done <=> "begun" \in Done
        BY <1>1, <4>6 DEF Stages, Done
      <4>8. At(c, "begun", t, z) /\ \A r \in Replies : Has(c, "parsed", z, n, r)'
        BY <4>1, <4>5, <4>6
      <4> QED
        BY <1>1, <3>3, <4>7, <4>8, OwnGoes
    <3> QED
      BY <3>4, <3>5
  <2>8. CASE WriteReply(t)
    <3>1. /\ pc[t] = "write" /\ outq' = [outq EXCEPT ![d] = Append(@, cur[t].str)]
          /\ UNCHANGED <<inq, exe_q>>
      BY <2>1, <2>3, <2>8, OwnerThere DEF WriteReply, Flight, sharedVars
    <3>2. CASE c # d
      <4>1. outq'[c] = outq[c]
        BY <2>3, <2>4, <3>1, <3>2
      <4> QED
        BY <1>5, <2>2, <2>5, <3>1, <3>2, <4>1, OwnStays
    <3>3. CASE c = d
      <4>1. At(c, "queued", t, 0)
        BY <2>1, <2>3, <3>1, <3>3 DEF At, WriteAt
      <4>2. outq[c] \in Seq(Replies) /\ outq'[c] = Append(outq[c], cur[t].str)
        BY <2>3, <2>4, <3>1, <3>3
      <4>3. PICK n : n = Len(outq[c]) + 1
        OBVIOUS
      <4>4. n \in Nat /\ n \in 1 .. Len(outq'[c]) /\ outq'[c][n] = cur[t].str
        BY <4>2, <4>3
      <4>5. At(c, "answered", 0, n)'
        BY <4>4 DEF At
      <4>6. ASSUME NEW r \in Replies, Has(c, "queued", t, 0, r)
            PROVE  Has(c, "answered", 0, n, r)'
        <5>1. cpc[c] = "reply" /\ inq[c] = <<>> /\ r = cur[t].str /\ r.id = <<c, step[c]>>
          BY <4>6 DEF Has, TaskAt
        <5> QED
          BY <1>1, <3>1, <4>4, <4>5, <5>1 DEF Has
      <4>7. PICK z : z = 0
        OBVIOUS
      <4>8. /\ "queued" \in Stages /\ "answered" \in Stages /\ z \in Threads /\ z \in Nat
            /\ "answered" \in Done <=> "queued" \in Done
        BY <1>1, <4>7 DEF Stages, Done
      <4>9. /\ At(c, "queued", t, z)
            /\ \A r \in Replies : Has(c, "queued", t, z, r) => Has(c, "answered", z, n, r)'
        BY <4>1, <4>6, <4>7
      <4> QED
        BY <1>1, <4>4, <4>8, <4>9, OwnGoes
    <3> QED
      BY <3>2, <3>3
  <2> QED
    BY <1>2, <1>5, <2>6, <2>7, <2>8
<1> QED
  BY <1>2, <1>3, <1>4, <1>5

-------------------------------------------------------------------------------
\* The client's own steps.

-------------------------------------------------------------------------------
\* Before its first write a client has no command under way.
LEMMA ConnectWhole ==
  ASSUME TInv, NEW d \in Clients, Connect(d), Whole(d)
  PROVE  Whole(d)'
<1>1. cpc[d] = "connect" /\ cpc'[d] \in {"header", "done"} /\ inq' = inq
  BY DEF Connect, CpcAt, TInv, TypeOK, ClientTypes
<1> QED
  BY <1>1 DEF Whole

\* The first write of sendCmd puts the length of the command on the way.
LEMMA SendHeaderWhole ==
  ASSUME TInv, NEW d \in Clients, SendHeader(d), Whole(d)
  PROVE  Whole(d)'
<1>1. /\ cpc[d] = "header" /\ cpc'[d] = "payload" /\ step' = step /\ inq[d] \in Seq(Pieces)
      /\ inq'[d] = Append(inq[d], Piece(d, "header"))
  BY DEF SendHeader, SendPiece, Piece, TInv, TypeOK, ClientTypes
<1>2. inq[d] = <<>>
  BY <1>1 DEF Whole
<1>3. PICK p : p = Piece(d, "header")
  OBVIOUS
<1>4. p.part = "header" /\ inq'[d] = <<p>>
  BY <1>1, <1>2, <1>3 DEF Piece
<1>5. inq'[d][1] = p /\ 1 \in 1 .. Len(inq'[d])
  BY <1>4
<1>6. Piece(d, "header")' = p
  BY <1>1, <1>3 DEF Piece, Request
<1>7. At(d, "sent", 0, 1)'
  BY <1>4, <1>5 DEF At
<1>8. Has(d, "sent", 0, 1, NoReply)'
  BY <1>1, <1>4, <1>6, <1>7 DEF Has
<1>9. 0 \in Threads /\ NoReply \in Replies /\ "sent" \in Stages
  <2>1. 0 \in Threads
    BY IoAssumption, SMT DEF Threads
  <2> QED
    BY <2>1 DEF NoReply, Replies, Rets, DbVals, ReqIds, NoReq, Stages
<1> QED
  BY <1>1, <1>8, <1>9 DEF Whole

\* Appending to a sequence of one.
LEMMA PairAppended ==
  ASSUME NEW a, NEW b PROVE Append(<<a>>, b) = <<a, b>>
<1>1. <<a>> \in Seq({a, b}) /\ b \in {a, b} /\ <<a, b>> \in Seq({a, b})
  OBVIOUS
<1>2. PICK s, u : s = Append(<<a>>, b) /\ u = <<a, b>>
  OBVIOUS
<1>3. s \in Seq({a, b}) /\ Len(s) = 2 /\ s[1] = a /\ s[2] = b
  BY <1>1, <1>2, AppendProperties
<1>4. u \in Seq({a, b}) /\ Len(u) = 2 /\ u[1] = a /\ u[2] = b
  BY <1>1, <1>2
<1>5. \A i \in 1 .. Len(s) : s[i] = u[i]
  BY <1>3, <1>4
<1>6. s = u
  BY <1>3, <1>4, <1>5, SeqEqual
<1> QED
  BY <1>2, <1>6

\* The second write puts the command itself behind it, whether a thread has read the
\* length already or not.
LEMMA SendPayloadWhole ==
  ASSUME TInv, NEW d \in Clients, SendPayload(d), Whole(d)
  PROVE  /\ cpc[d] = "payload" /\ cpc'[d] = "reply" /\ step' = step
         /\ \E s \in Stages \ Done, t \in Threads, i \in Nat, r \in Replies : Has(d, s, t, i, r)'
<1>1. /\ cpc[d] = "payload" /\ cpc'[d] = "reply" /\ step' = step /\ inq[d] \in Seq(Pieces)
      /\ inq'[d] = Append(inq[d], Piece(d, "payload"))
  BY DEF SendPayload, SendPiece, Piece, TInv, TypeOK, ClientTypes
<1>2. UNCHANGED <<outq, fdOwner, pc, cur, io_q, exe_q>>
  BY ClientFrame DEF SendPayload, SendPiece, Client, threadVars, sharedVars
<1>3. PICK s \in Stages, t \in Threads, i \in Nat, r \in Replies : Has(d, s, t, i, r)
  BY <1>1 DEF Whole
<1>4. PICK h, p : h = Piece(d, "header") /\ p = Piece(d, "payload")
  OBVIOUS
<1>5. Piece(d, "header")' = h /\ Piece(d, "payload")' = p
  BY <1>1, <1>4 DEF Piece, Request
<1>6. CASE s = "sent"
  <2>1. inq[d] = <<h>> /\ inq'[d] = <<h, p>>
    <3>1. inq[d] = <<h>>
      BY <1>1, <1>3, <1>4, <1>6 DEF Has
    <3>2. Append(<<h>>, p) = <<h, p>>
      BY PairAppended
    <3> QED
      BY <1>1, <1>4, <3>1, <3>2
  <2>2. i \in 1 .. Len(inq[d]) /\ inq[d][i].part = "header" /\ t = 0
    BY <1>3, <1>6 DEF Has, At
  <2>3. i = 1
    <3>1. Len(inq[d]) = 1
      BY <2>1
    <3> QED
      BY <2>2, <3>1
  <2>4. i \in 1 .. Len(inq'[d]) /\ inq'[d][i] = inq[d][i]
    BY <2>1, <2>3
  <2>5. At(d, s, t, i)'
    BY <1>6, <2>2, <2>4 DEF At
  <2>6. Has(d, s, t, i, r)'
    BY <1>1, <1>5, <1>6, <2>1, <2>5 DEF Has
  <2> QED
    BY <1>1, <1>6, <2>6 DEF Done
<1>7. CASE s = "begun"
  <2>1. inq[d] = <<>> /\ inq'[d] = <<p>>
    <3>1. inq[d] = <<>>
      BY <1>1, <1>3, <1>4, <1>7 DEF Has
    <3>2. Append(<<>>, p) = <<p>>
      OBVIOUS
    <3> QED
      BY <1>1, <1>4, <3>1, <3>2
  <2>2. At(d, s, t, i)'
    BY <1>2, <1>3, <1>7 DEF Has, At, FdOf
  <2>3. Has(d, s, t, i, r)'
    BY <1>1, <1>5, <1>7, <2>1, <2>2 DEF Has
  <2> QED
    BY <1>1, <1>7, <2>3 DEF Done
<1>8. s \in {"sent", "begun"}
  BY <1>1, <1>3 DEF Has
<1> QED
  BY <1>6, <1>7, <1>8

\* The client reads the reply to the command it waits for.
LEMMA ReceiveWhole ==
  ASSUME TInv, NEW d \in Clients, Settled(d), Receive(d), Whole(d)
  PROVE  /\ cpc[d] = "reply" /\ cpc'[d] \in {"header", "done"}
         /\ \E t \in Threads, i \in Nat, r \in Replies : Has(d, "answered", t, i, r)
         /\ Whole(d)'
<1>1. /\ cpc[d] = "reply" /\ cpc'[d] \in {"header", "done"} /\ inq' = inq
      /\ outq[d] \in Seq(Replies) /\ outq[d] # <<>>
  BY DEF Receive, CpcAt, TInv, TypeOK, ClientTypes
<1>2. 1 \in 1 .. Len(outq[d])
  BY <1>1
<1>3. At(d, "answered", 0, 1)
  BY <1>2 DEF At
<1>4. PICK s \in Stages, t \in Threads, i \in Nat, r \in Replies : Has(d, s, t, i, r)
  BY <1>1 DEF Whole
<1>5. 0 \in Threads
  BY IoAssumption, SMT DEF Threads
<1>6. s = "answered"
  BY <1>3, <1>4, <1>5 DEF Has, Settled, Stages
<1>7. inq[d] = <<>>
  BY <1>4, <1>6 DEF Has
<1> QED
  BY <1>1, <1>4, <1>6, <1>7 DEF Whole

\* What a step does to every client's command while no client has left.
LEMMA StepsAre ==
  ASSUME SInv, Alive, Alive', Next, ~torn'
  PROVE  \/ /\ \A c \in Clients : Stays(c)
            /\ UNCHANGED db
         \/ \E d \in Clients :
              /\ Connect(d) \/ SendHeader(d) \/ SendPayload(d) \/ Receive(d)
              /\ \A c \in Clients \ {d} : Stays(c)
              /\ UNCHANGED db
         \/ \E d \in Clients :
              /\ ExecCommand
              /\ fdOwner[Head(exe_q).fd] = d
              /\ \A c \in Clients \ {d} : Stays(c)
<1>1. TInv /\ Flight /\ OneConn /\ \A c \in Clients : Whole(c)
  BY DEF SInv, FInv
<1>2. ASSUME NEW d \in Clients, Client(d) \/ Exit(d)
      PROVE  /\ Connect(d) \/ SendHeader(d) \/ SendPayload(d) \/ Receive(d)
             /\ \A c \in Clients \ {d} : Stays(c)
             /\ UNCHANGED db
  <2>1. ~Exit(d)
    BY <1>1 DEF Exit, Alive, TInv, TypeOK, ClientTypes
  <2>2. \A c \in Clients \ {d} : Stays(c)
    BY <1>1, <1>2, ClientStays
  <2>3. UNCHANGED db
    BY <1>2, ClientFrame DEF sharedVars
  <2> QED
    BY <1>2, <2>1, <2>2, <2>3 DEF Client
<1>3. CASE AeMain /\ ~ExecCommand
  <2>1. \A c \in Clients : Stays(c)
    BY <1>1, <1>3, MainStays
  <2>2. UNCHANGED db
    BY <1>3 DEF AeMain, AeApiPoll, MainReturns, Accept, Register, RegisterFails, SetMask,
       PushReadTask, DropEvent, InsertFdSet, EndRound, sharedVars
  <2> QED
    BY <2>1, <2>2
<1>4. CASE ExecCommand
  <2>1. PICK fd : fd = Head(exe_q).fd
    OBVIOUS
  <2>2. exe_q # <<>>
    BY <1>4 DEF ExecCommand
  <2>3. fd \in Fds /\ ExeAt(fd, 1)
    <3>1. exe_q' = Tail(exe_q)
      BY <1>4 DEF ExecCommand
    <3> QED
      BY <1>1, <2>1, <2>2, <3>1, ReplyTaskType, ExecMoves
  <2>4. Open(fd)
    <3>1. 0 \in Threads
      BY IoAssumption, SMT DEF Threads
    <3> QED
      BY <1>1, <2>3, <3>1 DEF Flight, UsedIsOpen
  <2>5. fdOwner[fd] \in Clients
    BY <1>1, <2>3, <2>4 DEF Open, TInv, TypeOK, KernelTypes
  <2>6. \A c \in Clients \ {fdOwner[fd]} : Stays(c)
    BY <1>1, <1>4, <2>1, ExecStays
  <2> QED
    BY <1>4, <2>1, <2>5, <2>6
<1>5. ASSUME NEW t \in Threads, IOThreadMain(t)
      PROVE  (\A c \in Clients : Stays(c)) /\ UNCHANGED db
  BY <1>1, <1>5, ThreadStays, ThreadFrame
<1> QED
  BY <1>2, <1>3, <1>4, <1>5 DEF Next

\* SInv is inductive as long as no thread parses a buffer it did not fill.
LEMMA SInvKept == SInv /\ [Next /\ Calm]_vars => SInv'
<1>1. ASSUME SInv, [Next /\ Calm]_vars
      PROVE  FInv' /\ WriterOK' /\ OneConn'
  BY <1>1, FInvKept, WriterKept, ConnKept DEF SInv, FInv
<1>2. ASSUME SInv, Next, ~torn', Alive', NEW c \in Clients
      PROVE  Whole(c)'
  <2>1. Alive
    <3>1. TInv
      BY <1>2 DEF SInv, FInv
    <3>2. \A e \in Clients : cpc[e] = "dead" => cpc'[e] = "dead"
      <4>1. ASSUME NEW d \in Clients, Client(d) \/ Exit(d)
            PROVE  \A e \in Clients : cpc[e] = "dead" => cpc'[e] = "dead"
        BY <3>1, <4>1 DEF Client, Connect, SendHeader, SendPayload, SendPiece, Receive, Exit,
           TInv, TypeOK, ClientTypes
      <4>2. AeMain => UNCHANGED cpc
        BY MainFrame DEF clientVars
      <4>3. \A t \in Threads : IOThreadMain(t) => UNCHANGED cpc
        BY <3>1, ThreadFrame
      <4> QED
        BY <1>2, <4>1, <4>2, <4>3 DEF Next
    <3> QED
      BY <1>2, <3>2 DEF Alive
  <2>2. TInv /\ Flight /\ Settled(c) /\ \A e \in Clients : Whole(e)
    BY <1>2, <2>1, SettledIs DEF SInv, FInv, Flight
  <2>3. Stays(c) => Whole(c)'
    BY <2>2, StaysWhole
  <2>4. CASE Connect(c) \/ SendHeader(c) \/ SendPayload(c) \/ Receive(c)
    <3>1. SendPayload(c) => Whole(c)'
      BY <2>2, SendPayloadWhole DEF Whole
    <3> QED
      BY <2>2, <2>4, <3>1, ConnectWhole, SendHeaderWhole, ReceiveWhole
  <2>5. CASE ExecCommand /\ fdOwner[Head(exe_q).fd] = c
    <3>1. cpc'[c] = "reply" /\ \E n \in Threads, i \in Nat, r \in Replies : Has(c, "queued", n, i, r)'
      BY <2>2, <2>5, ExecOwn
    <3> QED
      BY <3>1 DEF Whole, Stages
  <2> QED
    BY <1>2, <2>1, <2>3, <2>4, <2>5, StepsAre
<1>3. ASSUME SInv, UNCHANGED vars, Alive', NEW c \in Clients
      PROVE  Whole(c)'
  <2>1. UNCHANGED <<cpc, step, inq, outq, fdOwner, io_q, exe_q, pc, cur>>
    BY <1>3 DEF vars, clientVars, kernelVars, sharedVars, threadVars
  <2>2. Alive /\ Whole(c)
    BY <1>3, <2>1 DEF SInv, Alive
  <2>3. \A s, t, i, r : Has(c, s, t, i, r)' <=> Has(c, s, t, i, r)
    BY <2>1 DEF Has, At, WriteAt, ExeAt, FdOf, TaskAt, Piece, Request
  <2> QED
    BY <2>1, <2>2, <2>3 DEF Whole
<1> QED
  BY <1>1, <1>2, <1>3 DEF SInv, Calm

-------------------------------------------------------------------------------
\* The server as the service.

-------------------------------------------------------------------------------
\* The replies under way for a client, one by one.
LEMMA RepliesOne ==
  ASSUME NEW c \in Clients, NEW r
  PROVE  r \in RepliesFor(c) <=>
           \/ \E k \in DOMAIN outq[c] : r = outq[c][k]
           \/ \E u \in Threads : \E k \in DOMAIN io_q[u] :
                ~io_q[u][k].isRead /\ fdOwner[io_q[u][k].fd] = c /\ r = io_q[u][k].str
           \/ \E u \in Threads :
                pc[u] = "write" /\ ~cur[u].isRead /\ fdOwner[cur[u].fd] = c /\ r = cur[u].str
<1> DEFINE queued(q) == {q[k] : k \in DOMAIN q}
           waiting == UNION {queued(io_q[u]) : u \in Threads}
           writing == {cur[u] : u \in {v \in Threads : pc[v] = "write"}}
           tasks == waiting \cup writing
           mine == {m \in tasks : ~m.isRead /\ fdOwner[m.fd] = c}
<1>1. RepliesFor(c) = queued(outq[c]) \cup {m.str : m \in mine}
  BY DEF RepliesFor
<1>2. \A m : m \in tasks <=> \/ \E u \in Threads : \E k \in DOMAIN io_q[u] : m = io_q[u][k]
                           \/ \E u \in Threads : pc[u] = "write" /\ m = cur[u]
  <2>1. \A m, u : m \in queued(io_q[u]) <=> \E k \in DOMAIN io_q[u] : m = io_q[u][k]
    OBVIOUS
  <2>2. \A m : m \in writing <=> \E u \in Threads : pc[u] = "write" /\ m = cur[u]
    OBVIOUS
  <2>3. \A m : m \in waiting <=> \E u \in Threads : m \in queued(io_q[u])
    <3> HIDE DEF queued
    <3> QED
      OBVIOUS
  <2>4. \A m : m \in tasks <=> m \in waiting \/ m \in writing
    <3> HIDE DEF waiting, writing
    <3> QED
      OBVIOUS
  <2>5. \A m : m \in waiting <=> \E u \in Threads : \E k \in DOMAIN io_q[u] : m = io_q[u][k]
    <3> HIDE DEF queued, waiting
    <3> QED
      BY <2>1, <2>3
  <2> HIDE DEF queued, waiting, writing, tasks
  <2> QED
    BY <2>2, <2>4, <2>5
<1>3. r \in queued(outq[c]) <=> \E k \in DOMAIN outq[c] : r = outq[c][k]
  OBVIOUS
<1> HIDE DEF tasks
<1>4. r \in {m.str : m \in mine} <=>
        \E m \in tasks : ~m.isRead /\ fdOwner[m.fd] = c /\ r = m.str
  OBVIOUS
<1> HIDE DEF mine, queued
<1>5. (\E m \in tasks : ~m.isRead /\ fdOwner[m.fd] = c /\ r = m.str) <=>
        \/ \E u \in Threads : \E k \in DOMAIN io_q[u] :
             ~io_q[u][k].isRead /\ fdOwner[io_q[u][k].fd] = c /\ r = io_q[u][k].str
        \/ \E u \in Threads :
             pc[u] = "write" /\ ~cur[u].isRead /\ fdOwner[cur[u].fd] = c /\ r = cur[u].str
  BY <1>2
<1> QED
  BY <1>1, <1>3, <1>4, <1>5

\* A command that waits has no reply, and one that was executed has one.
LEMMA RepliesAre ==
  ASSUME SInv, Alive,
         NEW c \in Clients, NEW s \in Stages, NEW t \in Threads, NEW i \in Nat, NEW r \in Replies,
         Has(c, s, t, i, r)
  PROVE  RepliesFor(c) = IF s \in Done THEN {r} ELSE {}
<1>1. TInv /\ WriterOK /\ Settled(c) /\ 0 \in Threads
  <2>1. 0 \in Threads
    BY IoAssumption, SMT DEF Threads
  <2> QED
    BY <2>1, SettledIs DEF SInv, FInv, Flight
<1>2. At(c, s, t, i) /\ (s = "queued" => r = TaskAt(t, i).str) /\ (s = "answered" => r = outq[c][i])
  BY DEF Has
<1>3. \A s1 \in Stages, t1 \in Threads, i1 \in Nat :
        At(c, s1, t1, i1) => s1 = s /\ t1 = t /\ i1 = i
  BY <1>1, <1>2 DEF Settled
<1>4. /\ outq[c] \in Seq(Replies) /\ DOMAIN outq[c] = 1 .. Len(outq[c])
      /\ \A u \in Threads : io_q[u] \in Seq(Tasks) /\ DOMAIN io_q[u] = 1 .. Len(io_q[u])
      /\ \A u \in Threads : \A k \in DOMAIN io_q[u] : io_q[u][k].fd \in Fds
      /\ \A u \in Threads : pc[u] = "write" => cur[u].fd \in Fds
  BY <1>1, LenProperties DEF TInv, TypeOK, ClientTypes, SharedTypes, QueueOK, CurOK, FdOf
<1>5. ASSUME NEW k \in DOMAIN outq[c]
      PROVE  s = "answered" /\ outq[c][k] = r
  <2>1. At(c, "answered", 0, k) /\ k \in Nat
    BY <1>4, <1>5 DEF At
  <2> QED
    BY <1>1, <1>2, <1>3, <2>1 DEF Stages
<1>6. ASSUME NEW u \in Threads, NEW k \in DOMAIN io_q[u], ~io_q[u][k].isRead,
             fdOwner[io_q[u][k].fd] = c
      PROVE  s = "queued" /\ io_q[u][k].str = r
  <2>1. k \in Nat \ {0} /\ k \in 1 .. Len(io_q[u]) /\ io_q[u][k].fd \in Fds
    BY <1>4
  <2>2. At(c, "queued", u, k)
    BY <1>6, <2>1 DEF At, WriteAt
  <2>3. s = "queued" /\ u = t /\ k = i
    BY <1>3, <2>1, <2>2 DEF Stages
  <2> QED
    BY <1>2, <2>1, <2>3 DEF TaskAt
<1>7. ASSUME NEW u \in Threads, pc[u] = "write", fdOwner[cur[u].fd] = c
      PROVE  s = "queued" /\ cur[u].str = r
  <2>1. At(c, "queued", u, 0)
    BY <1>4, <1>7 DEF At, WriteAt, FdOf
  <2>2. s = "queued" /\ u = t /\ i = 0
    BY <1>3, <2>1 DEF Stages
  <2> QED
    BY <1>2, <2>2 DEF TaskAt
<1>8. ASSUME NEW x, x \in RepliesFor(c)
      PROVE  s \in Done /\ x = r
  BY <1>5, <1>6, <1>7, <1>8, RepliesOne DEF Done
<1>9. s = "answered" => r \in RepliesFor(c)
  BY <1>2, <1>4, RepliesOne DEF At
<1>10. s = "queued" => r \in RepliesFor(c)
  <2> SUFFICES ASSUME s = "queued" PROVE r \in RepliesFor(c)
    OBVIOUS
  <2>1. PICK fd \in Fds : WriteAt(fd, t, i) /\ fdOwner[fd] = c
    BY <1>2 DEF At
  <2>2. CASE i = 0
    <3>1. pc[t] = "write" /\ ~cur[t].isRead /\ cur[t].fd = fd /\ r = cur[t].str
      BY <1>1, <1>2, <2>1, <2>2 DEF At, WriteAt, WriterOK, TaskAt, FdOf
    <3> QED
      BY <2>1, <3>1, RepliesOne
  <2>3. CASE i # 0
    <3>1. i \in DOMAIN io_q[t] /\ ~io_q[t][i].isRead /\ io_q[t][i].fd = fd /\ r = io_q[t][i].str
      BY <1>2, <1>4, <2>1, <2>3 DEF WriteAt, TaskAt
    <3> QED
      BY <2>1, <3>1, RepliesOne
  <2> QED
    BY <2>2, <2>3
<1> QED
  BY <1>8, <1>9, <1>10 DEF Done

\* The same after a step.
LEMMA RepliesAreNext ==
  ASSUME NEW c \in Clients, NEW s \in Stages, NEW t \in Threads, NEW i \in Nat, NEW r \in Replies
  PROVE  (SInv /\ Alive /\ Has(c, s, t, i, r))' =>
           RepliesFor(c)' = IF s \in Done THEN {r} ELSE {}
<1>1. SInv /\ Alive /\ Has(c, s, t, i, r) => RepliesFor(c) = IF s \in Done THEN {r} ELSE {}
  BY RepliesAre
<1>2. (SInv /\ Alive /\ Has(c, s, t, i, r) => RepliesFor(c) = IF s \in Done THEN {r} ELSE {})'
  BY <1>1, PTL
<1> QED
  BY <1>2

\* What the service sees of a client whose command is in a place.
LEMMA ViewIs ==
  ASSUME SInv, Alive,
         NEW c \in Clients, NEW s \in Stages, NEW t \in Threads, NEW i \in Nat, NEW r \in Replies,
         Has(c, s, t, i, r), cpc[c] = "reply"
  PROVE  /\ Phase(c) = IF s \in Done THEN "executed" ELSE "sent"
         /\ Asked(c) = Script[c][step[c]]
         /\ Answer(c) = IF s \in Done THEN r.ret ELSE Absent
<1>1. RepliesFor(c) = IF s \in Done THEN {r} ELSE {}
  BY RepliesAre
<1>2. (CHOOSE x \in {r} : TRUE) = r
  OBVIOUS
<1> QED
  BY <1>1, <1>2 DEF Phase, Asked, Answer

\* The same after a step.
LEMMA ViewNext ==
  ASSUME NEW c \in Clients, NEW s \in Stages, NEW t \in Threads, NEW i \in Nat, NEW r \in Replies
  PROVE  (SInv /\ Alive /\ Has(c, s, t, i, r) /\ cpc[c] = "reply")' =>
           /\ Phase(c)' = IF s \in Done THEN "executed" ELSE "sent"
           /\ Asked(c)' = Script[c][step[c]']
           /\ Answer(c)' = IF s \in Done THEN r.ret ELSE Absent
<1>1. SInv /\ Alive /\ Has(c, s, t, i, r) /\ cpc[c] = "reply" =>
        /\ Phase(c) = IF s \in Done THEN "executed" ELSE "sent"
        /\ Asked(c) = Script[c][step[c]]
        /\ Answer(c) = IF s \in Done THEN r.ret ELSE Absent
  BY ViewIs
<1>2. (SInv /\ Alive /\ Has(c, s, t, i, r) /\ cpc[c] = "reply" =>
        /\ Phase(c) = IF s \in Done THEN "executed" ELSE "sent"
        /\ Asked(c) = Script[c][step[c]]
        /\ Answer(c) = IF s \in Done THEN r.ret ELSE Absent)'
  BY <1>1, PTL
<1> QED
  BY <1>2

\* A client that waits for no reply is idle to the service.
LEMMA IdleView ==
  \A c \in Clients : cpc[c] # "reply" =>
    Phase(c) = "idle" /\ Asked(c) = Absent /\ Answer(c) = Absent
BY DEF Phase, Asked, Answer

\* The same after a step.
LEMMA IdleViewNext ==
  \A c \in Clients : cpc'[c] # "reply" =>
    Phase(c)' = "idle" /\ Asked(c)' = Absent /\ Answer(c)' = Absent
BY DEF Phase, Asked, Answer

-------------------------------------------------------------------------------
\* The service sees no change of a client.
SameView(c) == Phase(c)' = Phase(c) /\ Asked(c)' = Asked(c) /\ Answer(c)' = Answer(c)

\* A command on its way to the next place is not seen moving.
LEMMA StaysView ==
  ASSUME SInv, Alive, SInv', Alive', NEW c \in Clients, Stays(c)
  PROVE  SameView(c)
<1>1. CASE cpc[c] # "reply"
  BY <1>1, IdleView, IdleViewNext DEF Stays, SameView
<1>2. CASE cpc[c] = "reply"
  <2>1. Whole(c) /\ cpc'[c] = "reply" /\ step'[c] = step[c]
    BY <1>2 DEF SInv, Stays
  <2>2. PICK s \in Stages, t \in Threads, i \in Nat, r \in Replies : Has(c, s, t, i, r)
    BY <1>2, <2>1 DEF Whole
  <2>3. PICK s1 \in Stages, t1 \in Threads, i1 \in Nat :
          Has(c, s1, t1, i1, r)' /\ (s1 \in Done <=> s \in Done)
    BY <2>2 DEF Stays
  <2>4. /\ Phase(c) = IF s \in Done THEN "executed" ELSE "sent"
        /\ Asked(c) = Script[c][step[c]]
        /\ Answer(c) = IF s \in Done THEN r.ret ELSE Absent
    BY <1>2, <2>2, ViewIs
  <2>5. /\ Phase(c)' = IF s1 \in Done THEN "executed" ELSE "sent"
        /\ Asked(c)' = Script[c][step[c]']
        /\ Answer(c)' = IF s1 \in Done THEN r.ret ELSE Absent
    BY <2>1, <2>3, ViewNext
  <2> QED
    BY <2>1, <2>3, <2>4, <2>5 DEF SameView
<1> QED
  BY <1>1, <1>2

\* A step in which the service sees no client change and the database stays is none of its
\* steps.
LEMMA QuietStep ==
  ASSUME \A c \in Clients : SameView(c), UNCHANGED db
  PROVE  UNCHANGED Service!kvVars
BY DEF SameView, Service!kvVars

\* The second write of sendCmd sends the command.
LEMMA InvokeStep ==
  ASSUME SInv, Alive, SInv', Alive', NEW d \in Clients, SendPayload(d),
         \A c \in Clients \ {d} : SameView(c), UNCHANGED db
  PROVE  Service!KvNext
<1>1. TInv /\ Whole(d)
  BY DEF SInv, FInv
<1>2. cpc[d] = "payload" /\ cpc'[d] = "reply" /\ step' = step
  BY <1>1, SendPayloadWhole
<1>3. PICK s \in Stages \ Done, t \in Threads, i \in Nat, r \in Replies : Has(d, s, t, i, r)'
  BY <1>1, SendPayloadWhole
<1>4. PICK q : q = Script[d][step[d]]
  OBVIOUS
<1>5. q \in [op : {"set", "get", "shutdown"}, key : DbKeys, val : DbVals]
  <2>1. Script[d] \in Seq([op : {"set", "get", "shutdown"}, key : DbKeys, val : DbVals])
    BY ScriptAssumption
  <2>2. step[d] \in 1 .. Len(Script[d])
    <3>1. step[d] \in Nat /\ step[d] >= 1 /\ step[d] <= Len(Script[d])
      BY <1>1, <1>2 DEF TInv, TypeOK, ClientTypes, StepOK
    <3>2. Len(Script[d]) \in Nat
      BY <2>1
    <3> QED
      BY <3>1, <3>2
  <2> QED
    BY <1>4, <2>1, <2>2, ElementOfSeq
<1>6. Phase(d) = "idle" /\ Asked(d) = Absent /\ Answer(d) = Absent
  BY <1>2, IdleView
<1>7. Phase(d)' = "sent" /\ Asked(d)' = q /\ Answer(d)' = Absent
  BY <1>2, <1>3, <1>4, ViewNext
<1>8. /\ [c \in Clients |-> Phase(c)]' = [[c \in Clients |-> Phase(c)] EXCEPT ![d] = "sent"]
      /\ [c \in Clients |-> Asked(c)]' = [[c \in Clients |-> Asked(c)] EXCEPT ![d] = q]
      /\ [c \in Clients |-> Answer(c)]' = [c \in Clients |-> Answer(c)]
  BY <1>6, <1>7 DEF SameView
<1>9. Service!Invoke(d)
  BY <1>5, <1>6, <1>8 DEF Service!Invoke, Service!Requests
<1> QED
  BY <1>9 DEF Service!KvNext

\* The read of the reply is the response.
LEMMA RespondStep ==
  ASSUME SInv, Alive, NEW d \in Clients, Receive(d),
         \A c \in Clients \ {d} : SameView(c), UNCHANGED db
  PROVE  Service!KvNext
<1>1. TInv /\ Whole(d) /\ Settled(d)
  BY SettledIs DEF SInv, FInv, Flight
<1>2. cpc[d] = "reply" /\ cpc'[d] # "reply"
  BY <1>1, ReceiveWhole
<1>3. PICK t \in Threads, i \in Nat, r \in Replies : Has(d, "answered", t, i, r)
  BY <1>1, ReceiveWhole
<1>4. Phase(d) = "executed"
  BY <1>2, <1>3, ViewIs DEF Stages, Done
<1>5. Phase(d)' = "idle" /\ Asked(d)' = Absent /\ Answer(d)' = Absent
  BY <1>2, IdleViewNext
<1>6. /\ [c \in Clients |-> Phase(c)]' = [[c \in Clients |-> Phase(c)] EXCEPT ![d] = "idle"]
      /\ [c \in Clients |-> Asked(c)]' = [[c \in Clients |-> Asked(c)] EXCEPT ![d] = Absent]
      /\ [c \in Clients |-> Answer(c)]' = [[c \in Clients |-> Answer(c)] EXCEPT ![d] = Absent]
  BY <1>5 DEF SameView
<1>7. Service!Respond(d)
  BY <1>4, <1>6 DEF Service!Respond, Service!Nothing
<1> QED
  BY <1>7 DEF Service!KvNext

\* The turn of the drain loop that takes a client's command executes it: the one moment it
\* touches the database.
LEMMA ExecuteStep ==
  ASSUME SInv, Alive, SInv', Alive', NEW d \in Clients, ExecCommand,
         fdOwner[Head(exe_q).fd] = d, \A c \in Clients \ {d} : SameView(c)
  PROVE  Service!KvNext
<1>1. TInv /\ Flight /\ Whole(d)
  BY DEF SInv, FInv
<1>2. /\ cpc[d] = "reply" /\ cpc'[d] = "reply" /\ step'[d] = step[d]
      /\ Head(exe_q).cmd = Request(d)
  BY <1>1, ExecOwn
<1>3. PICK r0 \in Replies : Has(d, "parsed", 0, 1, r0)
  BY <1>1, ExecOwn
<1>4. PICK n \in Threads, i \in Nat, r \in Replies :
        /\ Has(d, "queued", n, i, r)'
        /\ r = [ret |-> RetOf(Request(d)), id |-> Request(d).id]
  BY <1>1, ExecOwn
<1>5. PICK q : q = Script[d][step[d]]
  OBVIOUS
<1>6. Request(d).op = q.op /\ Request(d).key = q.key /\ Request(d).val = q.val
  BY <1>5 DEF Request
<1>7. Phase(d) = "sent" /\ Asked(d) = q /\ Answer(d) = Absent
  <2>1. PICK z \in Threads, o \in Nat : z = 0 /\ o = 1
    BY IoAssumption, SMT DEF Threads
  <2>2. Has(d, "parsed", z, o, r0)
    BY <1>3, <2>1
  <2> QED
    BY <1>2, <1>5, <2>2, ViewIs DEF Stages, Done
<1>8. Phase(d)' = "executed" /\ Asked(d)' = q /\ Answer(d)' = RetOf(Request(d))
  <2>1. /\ Phase(d)' = IF "queued" \in Done THEN "executed" ELSE "sent"
        /\ Asked(d)' = Script[d][step[d]']
        /\ Answer(d)' = IF "queued" \in Done THEN r.ret ELSE Absent
    BY <1>2, <1>4, ViewNext DEF Stages
  <2> QED
    BY <1>2, <1>4, <1>5, <2>1 DEF Done
<1>9. PICK ret : ret = RetOf(Request(d))
  OBVIOUS
<1>10. /\ [c \in Clients |-> Phase(c)]' = [[c \in Clients |-> Phase(c)] EXCEPT ![d] = "executed"]
       /\ [c \in Clients |-> Asked(c)]' = [c \in Clients |-> Asked(c)]
       /\ [c \in Clients |-> Answer(c)]' = [[c \in Clients |-> Answer(c)] EXCEPT ![d] = ret]
  BY <1>7, <1>8, <1>9 DEF SameView
<1>11. db' = IF q.op = "set" THEN MapInsert(db, q.key, q.val) ELSE db
  BY <1>2, <1>6 DEF ExecCommand
<1>12. q \in [op : {"set", "get", "shutdown"}, key : DbKeys, val : DbVals]
  <2>1. Script[d] \in Seq([op : {"set", "get", "shutdown"}, key : DbKeys, val : DbVals])
    BY ScriptAssumption
  <2>2. step[d] \in 1 .. Len(Script[d])
    <3>1. step[d] \in Nat /\ step[d] >= 1 /\ step[d] <= Len(Script[d])
      BY <1>1, <1>2 DEF TInv, TypeOK, ClientTypes, StepOK
    <3>2. Len(Script[d]) \in Nat
      BY <2>1
    <3> QED
      BY <3>1, <3>2
  <2> QED
    BY <1>5, <2>1, <2>2, ElementOfSeq
<1>13. q.op \in {"set", "get", "shutdown"}
  BY <1>12
<1>14. /\ q.op = "set" => ret = "ok"
       /\ q.op = "get" => ret = IF MapFind(db, q.key) = Absent THEN "Not found!"
                                                             ELSE MapFind(db, q.key)
       /\ q.op = "shutdown" => ret = "server is shutdown!"
  BY <1>6, <1>9 DEF RetOf
<1>15. [c \in Clients |-> Phase(c)][d] = "sent" /\ [c \in Clients |-> Asked(c)][d] = q
  BY <1>7
<1>16. [c \in Clients |-> Asked(c)][d].key = q.key /\ [c \in Clients |-> Asked(c)][d].val = q.val
       /\ [c \in Clients |-> Asked(c)][d].op = q.op
  BY <1>15
<1>17. Service!MapInsert(db, q.key, q.val) = MapInsert(db, q.key, q.val)
  BY DEF Service!MapInsert, MapInsert, Service!Neighbours, Neighbours
<1>18. Service!MapFind(db, q.key) = MapFind(db, q.key)
  BY DEF Service!MapFind, MapFind
<1>19. PICK ins : ins = MapInsert(db, q.key, q.val)
  OBVIOUS
<1>20. PICK found : found = MapFind(db, q.key)
  OBVIOUS
<1>21. \/ /\ q.op = "set"
          /\ db' = ins
          /\ ret = "ok"
       \/ /\ q.op = "get"
          /\ ret = IF found = Absent THEN "Not found!" ELSE found
          /\ UNCHANGED db
       \/ /\ q.op = "shutdown"
          /\ ret = "server is shutdown!"
          /\ UNCHANGED db
  BY <1>11, <1>13, <1>14, <1>19, <1>20
<1>22. Service!Execute(d)
  <2>1. CASE q.op = "set" /\ db' = ins /\ ret = "ok"
    BY <1>10, <1>15, <1>16, <1>17, <1>19, <2>1 DEF Service!Execute
  <2>2. CASE q.op = "get" /\ ret = (IF found = Absent THEN "Not found!" ELSE found)
             /\ UNCHANGED db
    BY <1>10, <1>15, <1>16, <1>18, <1>20, <2>2 DEF Service!Execute
  <2>3. CASE q.op = "shutdown" /\ ret = "server is shutdown!" /\ UNCHANGED db
    BY <1>10, <1>15, <1>16, <2>3 DEF Service!Execute
  <2> QED
    BY <1>21, <2>1, <2>2, <2>3
<1> QED
  BY <1>22 DEF Service!KvNext

\* While no client has left and no thread parses a buffer it did not fill, every step of the
\* server is a step of the service, or none.
LEMMA StepIsService ==
  ASSUME SInv, Alive, SInv', Alive', [Next /\ Calm]_vars
  PROVE  [Service!KvNext]_Service!kvVars
<1>1. CASE UNCHANGED vars
  <2>1. UNCHANGED <<cpc, step, outq, fdOwner, io_q, pc, cur, db>>
    BY <1>1 DEF vars, clientVars, kernelVars, sharedVars, threadVars
  <2>2. \A c \in Clients : SameView(c)
    BY <2>1 DEF SameView, Phase, Asked, Answer, RepliesFor
  <2> QED
    BY <2>1, <2>2, QuietStep
<1>2. CASE Next /\ ~torn'
  <2>1. \A c \in Clients : Stays(c) => SameView(c)
    BY StaysView
  <2>2. CASE (\A c \in Clients : Stays(c)) /\ UNCHANGED db
    BY <2>1, <2>2, QuietStep
  <2>3. ASSUME NEW d \in Clients,
               Connect(d) \/ SendHeader(d) \/ SendPayload(d) \/ Receive(d),
               \A c \in Clients \ {d} : Stays(c), UNCHANGED db
        PROVE  [Service!KvNext]_Service!kvVars
    <3>1. CASE Connect(d) \/ SendHeader(d)
      <4>1. cpc[d] # "reply" /\ cpc'[d] # "reply"
        <5>1. cpc \in [Clients -> {"connect", "header", "payload", "reply", "done", "dead"}]
          BY DEF SInv, FInv, TInv, TypeOK, ClientTypes
        <5> QED
          BY <3>1, <5>1 DEF Connect, SendHeader, SendPiece, CpcAt
      <4>2. SameView(d)
        BY <4>1, IdleView, IdleViewNext DEF SameView
      <4> QED
        BY <2>1, <2>3, <4>2, QuietStep
    <3>2. CASE SendPayload(d)
      BY <2>1, <2>3, <3>2, InvokeStep
    <3>3. CASE Receive(d)
      BY <2>1, <2>3, <3>3, RespondStep
    <3> QED
      BY <2>3, <3>1, <3>2, <3>3
  <2>4. ASSUME NEW d \in Clients, ExecCommand, fdOwner[Head(exe_q).fd] = d,
               \A c \in Clients \ {d} : Stays(c)
        PROVE  [Service!KvNext]_Service!kvVars
    BY <2>1, <2>4, ExecuteStep
  <2> QED
    BY <1>2, <2>2, <2>3, <2>4, StepsAre
<1> QED
  BY <1>1, <1>2 DEF Calm

\* As long as no thread parses a buffer it did not fill, and no client leaves, the pipeline
\* of sockets, queues and threads does for every client what execCommand would do for it
\* directly: each command takes effect once between its send and its reply, and the reply
\* is its result.
THEOREM PipelineIsService == CalmSpec /\ []Alive => ImplementsKvService
<1>1. Init => Service!KvInit
  <2> SUFFICES ASSUME Init PROVE Service!KvInit
    OBVIOUS
  <2>1. \A c \in Clients : Phase(c) = "idle" /\ Asked(c) = Absent /\ Answer(c) = Absent
    BY IdleView DEF Init
  <2>2. db = EmptyMap
    BY DEF Init
  <2> QED
    BY <2>1, <2>2 DEF Service!KvInit, Service!Nothing, Service!EmptyMap, EmptyMap
<1>2. CalmSpec => []SInv
  BY InitSInv, SInvKept, PTL DEF CalmSpec
<1>3. SInv /\ Alive /\ SInv' /\ Alive' /\ [Next /\ Calm]_vars
        => [Service!KvNext]_Service!kvVars
  BY StepIsService
<1> QED
  BY <1>1, <1>2, <1>3, PTL DEF CalmSpec, ImplementsKvService, Service!KvSpec

\* When no client may exit, none leaves, so the pipeline implements the service whatever the
\* scripts and the number of threads.
THEOREM PipelineIsServiceIfAllStay ==
  ASSUME MayExit = {} PROVE CalmSpec => ImplementsKvService
<1>1. TInv /\ Alive /\ [Next /\ Calm]_vars => Alive'
  <2> SUFFICES ASSUME TInv, Alive, [Next]_vars PROVE Alive'
    OBVIOUS
  <2>1. ASSUME NEW d \in Clients, Client(d) \/ Exit(d) PROVE Alive'
    BY <2>1 DEF Alive, Client, Connect, SendHeader, SendPayload, SendPiece, Receive, Exit,
       CpcAt, TInv, TypeOK, ClientTypes
  <2>2. AeMain => Alive'
    BY MainFrame DEF clientVars, Alive
  <2>3. ASSUME NEW t \in Threads, IOThreadMain(t) PROVE Alive'
    BY <2>3, ThreadFrame DEF Alive
  <2>4. UNCHANGED vars => Alive'
    BY DEF vars, clientVars, Alive
  <2> QED
    BY <2>1, <2>2, <2>3, <2>4 DEF Next
<1>2. Init => Alive
  BY DEF Init, Alive
<1>3. TInv /\ [Next /\ Calm]_vars => TInv'
  BY TInvKept
<1>4. CalmSpec => []Alive
  BY InitTInv, <1>1, <1>2, <1>3, PTL DEF CalmSpec
<1> QED
  BY <1>4, PipelineIsService, PTL

\* Under the same timing every reply goes to the client whose command it answers, and
\* answers the command that client waits for.
THEOREM RepliesGoHome == CalmSpec /\ []Alive => []ReplyGoesToItsClient
<1>1. SInv /\ Alive => ReplyGoesToItsClient
  <2> SUFFICES ASSUME SInv, Alive, NEW c \in Clients, NEW i \in DOMAIN outq[c]
               PROVE  outq[c][i].id = <<c, step[c]>>
    BY DEF ReplyGoesToItsClient
  <2>1. TInv /\ Settled(c) /\ Whole(c)
    BY SettledIs DEF SInv, FInv, Flight
  <2>2. outq[c] \in Seq(Replies) /\ i \in 1 .. Len(outq[c]) /\ i \in Nat
    BY <2>1, LenProperties DEF TInv, TypeOK, ClientTypes
  <2>3. At(c, "answered", 0, i)
    BY <2>2 DEF At
  <2>4. PICK z \in Threads : z = 0
    BY IoAssumption, SMT DEF Threads
  <2>5. PICK r \in Replies : Has(c, "answered", z, i, r)
    BY <2>1, <2>2, <2>3, <2>4, PlaceIs DEF Stages
  <2> QED
    BY <2>5 DEF Has
<1>2. CalmSpec => []SInv
  BY InitSInv, SInvKept, PTL DEF CalmSpec
<1> QED
  BY <1>1, <1>2, PTL

===============================================================================
