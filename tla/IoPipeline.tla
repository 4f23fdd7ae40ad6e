------------------------------ MODULE IoPipeline ------------------------------
(***************************************************************************)
(* The request path of the server with IO threads switched on: the clients *)
(* of client.cpp, the kernel's sockets and edge-triggered epoll, the main  *)
(* thread's event loop (aeMain), the IO threads (IOThreadMain), and the    *)
(* queues, the fd set and the event table they share without a lock around *)
(* more than one operation.                                                *)
(*                                                                         *)
(* A step is what one thread does between two points where another thread  *)
(* can see or change the shared state: one system call, or one operation   *)
(* of a threadsafe_queue or threadsafe_unordered_set.                      *)
(***************************************************************************)
EXTENDS Naturals, Sequences, FiniteSets

CONSTANTS
  Clients,       \* the client threads of client.cpp
  Script,        \* client -> sequence of commands it sends, one at a time
  MayExit,       \* the clients whose process may end at any moment
  IOThreadNum,   \* Server::IOThreadNum
  Fds,           \* the descriptors accept() can return
  Listen,        \* config.master_socket_fd
  ListenBacklog, \* second argument of listen(); the kernel queues one more
  ExeBound,      \* bound on exe_q, reached only by a thread that spins
  TaskBound,     \* repeated tasks past this length of an io_q are not kept
  Keys, Vals,    \* keys and values of well-formed commands
  Blank,         \* an empty string, or what is left of one cut short
  Absent,        \* no node for a key
  NoConn,        \* a descriptor that is not open
  Bucket         \* key -> index of its bucket

DbKeys == Keys \cup {Blank}
DbVals == Vals \cup {Blank}

INSTANCE LossyMap

ASSUME IoAssumption ==
  /\ IOThreadNum \in Nat \ {0}
  /\ Fds \subseteq Nat /\ Listen \in Nat \ Fds
  /\ NoConn \notin Clients
  /\ Absent \notin DbVals
  /\ Bucket \in [DbKeys -> Nat]
  /\ MayExit \subseteq Clients
  /\ ListenBacklog \in Nat /\ ExeBound \in Nat /\ TaskBound \in Nat

ASSUME ScriptAssumption ==
  Script \in [Clients ->
                Seq([op : {"set", "get", "shutdown"}, key : DbKeys, val : DbVals])]

Threads == 0 .. IOThreadNum - 1

Ops == {"set", "get", "shutdown", "other"}
Rets == DbVals \cup {"ok", "Not found!", "server is shutdown!", "unknow cmd !"}

\* A command carries the request it comes from: <<client, index in its script>>,
\* or NoReq for one parsed from a buffer no client filled.  The code has no such
\* field and no action reads it.
NoReq == <<NoConn, 0>>
ReqIds == (Clients \cup {NoConn}) \X Nat
Commands == [op : Ops, key : DbKeys, val : DbVals, id : ReqIds]

Replies == [ret : Rets, id : ReqIds]
NoReply == [ret |-> Blank, id |-> NoReq]

\* IOThreadNews, and the two writes that carry a command.
\* NoTask stands for the task a thread has done with.
Tasks == [fd : Fds \cup {Listen}, isRead : BOOLEAN, str : Replies]
ReadTask(fd) == [fd |-> fd, isRead |-> TRUE, str |-> NoReply]
NoTask == ReadTask(Listen)
WriteTask(fd, reply) == [fd |-> fd, isRead |-> FALSE, str |-> reply]
Pieces == [part : {"header", "payload"}, cmd : Commands]

VARIABLES
  \* clients and the network
  cpc,        \* where each client is in sendCmd
  step,       \* index of its current command
  inq,        \* client -> pieces written and not yet read by the server
  outq,       \* client -> replies written and not yet read by the client
  err,        \* client -> whether its connection was reset
  \* kernel
  backlog,    \* connections waiting for accept()
  fdOwner,    \* fd -> the client at the other end, or NoConn
  interest,   \* fds registered with epoll
  ready,      \* fds whose next epoll_wait reports an event
  \* shared memory
  io_q,       \* thread -> its task queue
  exe_q,      \* parsed commands, with the fd they came from
  fdSet,      \* fds being processed
  masked,     \* fds with events[fd].mask = AE_READABLE
  db,         \* the database
  \* main thread
  mpc, mfd,   \* where aeMain is, and the fd it works on
  fired,      \* events of this round not handled yet
  serverStop,
  \* IO threads
  pc, cur,    \* where each thread is, and its task
  buff,       \* its buffer: the last command read, or NoCmd before the first
  \* the process, and history
  status,     \* "up", or how the process ended
  torn        \* history: some thread parsed a buffer it had not filled

clientVars == <<cpc, step, inq, outq, err>>
kernelVars == <<backlog, fdOwner, interest, ready>>
mainVars   == <<mpc, mfd, fired, serverStop>>
threadVars == <<pc, cur, buff>>
sharedVars == <<io_q, exe_q, fdSet, masked, db>>
vars == <<clientVars, kernelVars, mainVars, threadVars, sharedVars, status, torn>>

NoCmd == [op |-> "other", key |-> Blank, val |-> Blank, id |-> NoReq]

Up == status = "up"

Open(fd) == fdOwner[fd] # NoConn

\* Data, end of file or an error: what makes a registered socket ready.
HasInput(c) == inq[c] # <<>> \/ cpc[c] = "dead"

\* An arrival at client c's connection readies its fd if epoll watches it.
Wake(c) == {fd \in interest : fdOwner[fd] = c}

\* The descriptor accept() returns.
LowestFree(fd) == ~Open(fd) /\ \A g \in Fds : ~Open(g) => fd <= g

\* Mutation of ThreadOf: balances by load and forgets that a connection has one thread.
ThreadOfByLoad(fd) == (fd + Cardinality(fdSet)) % IOThreadNum

ThreadOf(fd) == fd % IOThreadNum

Init ==
  /\ cpc = [c \in Clients |-> "connect"]
  /\ step = [c \in Clients |-> 1]
  /\ inq = [c \in Clients |-> <<>>]
  /\ outq = [c \in Clients |-> <<>>]
  /\ err = [c \in Clients |-> "none"]
  /\ backlog = <<>>
  /\ fdOwner = [fd \in Fds |-> NoConn]
  /\ interest = {}
  /\ ready = {}
  /\ io_q = [t \in Threads |-> <<>>]
  /\ exe_q = <<>>
  /\ fdSet = {}
  /\ masked = {}
  /\ db = EmptyMap
  /\ mpc = "poll" /\ mfd = Listen /\ fired = {} /\ serverStop = FALSE
  /\ pc = [t \in Threads |-> "pop"]
  /\ cur = [t \in Threads |-> NoTask]
  /\ buff = [t \in Threads |-> NoCmd]
  /\ status = "up"
  /\ torn = FALSE

-------------------------------------------------------------------------------
\* The clients: connect(), then for every command two writes and a blocking read.

Request(c) ==
  LET r == Script[c][step[c]]
  IN  [op |-> r.op, key |-> r.key, val |-> r.val, id |-> <<c, step[c]>>]

CpcAt(c, i) == IF i <= Len(Script[c]) THEN "header" ELSE "done"

\* The kernel completes the handshake while its accept queue has room.
Connect(c) ==
  /\ cpc[c] = "connect"
  /\ Len(backlog) <= ListenBacklog
  /\ backlog' = Append(backlog, c)
  /\ cpc' = [cpc EXCEPT ![c] = CpcAt(c, 1)]
  /\ ready' = ready \cup {Listen}
  /\ UNCHANGED <<step, inq, outq, err, fdOwner, interest>>
  /\ UNCHANGED <<mainVars, threadVars, sharedVars, status, torn>>

\* One write() of sendCmd: the length, then the encoded command.
SendPiece(c, from, to) ==
  /\ cpc[c] = from
  /\ inq' = [inq EXCEPT ![c] = Append(@, [part |-> from, cmd |-> Request(c)])]
  /\ cpc' = [cpc EXCEPT ![c] = to]
  /\ ready' = ready \cup Wake(c)
  /\ UNCHANGED <<step, outq, err, backlog, fdOwner, interest>>
  /\ UNCHANGED <<mainVars, threadVars, sharedVars, status, torn>>

SendHeader(c)  == SendPiece(c, "header", "payload")
SendPayload(c) == SendPiece(c, "payload", "reply")

Receive(c) ==
  /\ cpc[c] = "reply"
  /\ outq[c] # <<>>
  /\ outq' = [outq EXCEPT ![c] = Tail(@)]
  /\ step' = [step EXCEPT ![c] = @ + 1]
  /\ cpc' = [cpc EXCEPT ![c] = CpcAt(c, step[c] + 1)]
  /\ UNCHANGED <<inq, err, kernelVars>>
  /\ UNCHANGED <<mainVars, threadVars, sharedVars, status, torn>>

\* The client's process ends and the kernel closes its socket: a FIN, or a reset
\* when replies were left unread.
Exit(c) ==
  /\ c \in MayExit
  /\ cpc[c] \notin {"connect", "dead"}
  /\ cpc' = [cpc EXCEPT ![c] = "dead"]
  /\ err' = [err EXCEPT ![c] = IF outq[c] # <<>> THEN "reset" ELSE @]
  /\ outq' = [outq EXCEPT ![c] = <<>>]
  /\ ready' = ready \cup Wake(c)
  /\ UNCHANGED <<step, inq, backlog, fdOwner, interest>>
  /\ UNCHANGED <<mainVars, threadVars, sharedVars, status, torn>>

Client(c) ==
  Connect(c) \/ SendHeader(c) \/ SendPayload(c) \/ Receive(c)

-------------------------------------------------------------------------------
\* The main thread.

\* epoll_wait, or its timeout when nothing is ready; each event is reported once.
AeApiPoll ==
  /\ mpc = "poll"
  /\ ~serverStop
  /\ fired' = ready
  /\ ready' = {}
  /\ mpc' = "events"
  /\ UNCHANGED <<backlog, fdOwner, interest, mfd, serverStop>>
  /\ UNCHANGED <<clientVars, threadVars, sharedVars, status, torn>>

\* aeMain returns, and main() after it: the process ends with its IO threads.
MainReturns ==
  /\ mpc = "poll"
  /\ serverStop
  /\ status' = "stopped"
  /\ UNCHANGED <<clientVars, kernelVars, mainVars, threadVars, sharedVars, torn>>

\* One accept() for an event of the listening socket.
Accept ==
  /\ mpc = "events"
  /\ Listen \in fired
  /\ backlog # <<>>
  /\ \E fd \in Fds :
       /\ LowestFree(fd)
       /\ fdOwner' = [fdOwner EXCEPT ![fd] = Head(backlog)]
       /\ mfd' = fd
  /\ backlog' = Tail(backlog)
  /\ fired' = fired \ {Listen}
  /\ mpc' = "register"
  /\ UNCHANGED <<interest, ready, serverStop>>
  /\ UNCHANGED <<clientVars, threadVars, sharedVars, status, torn>>

\* aeApiAddEvent asks for EPOLL_CTL_MOD when events[fd].mask is set, for
\* EPOLL_CTL_ADD when it is not; the kernel refuses the first for a descriptor it
\* does not watch and the second for one it does, and both for a closed one.
EpollCtlFails(fd) ==
  \/ ~Open(fd)
  \/ fd \in masked /\ fd \notin interest
  \/ fd \notin masked /\ fd \in interest

\* epoll_ctl in aeCreateFileEvent; errorHandling ends the process when it fails.
Register ==
  /\ mpc = "register"
  /\ ~EpollCtlFails(mfd)
  /\ interest' = interest \cup {mfd}
  /\ ready' = IF HasInput(fdOwner[mfd]) THEN ready \cup {mfd} ELSE ready
  /\ mpc' = "mask"
  /\ UNCHANGED <<backlog, fdOwner, mfd, fired, serverStop>>
  /\ UNCHANGED <<clientVars, threadVars, sharedVars, status, torn>>

RegisterFails ==
  /\ mpc = "register"
  /\ EpollCtlFails(mfd)
  /\ status' = "exit1"
  /\ UNCHANGED <<clientVars, kernelVars, mainVars, threadVars, sharedVars, torn>>

\* events[fd].mask |= mask, after epoll_ctl.
SetMask ==
  /\ mpc = "mask"
  /\ masked' = masked \cup {mfd}
  /\ mpc' = "events"
  /\ mfd' = Listen
  /\ UNCHANGED <<io_q, exe_q, fdSet, db, fired, serverStop>>
  /\ UNCHANGED <<clientVars, kernelVars, threadVars, status, torn>>

\* Mutation of PushReadTask: without the look into fdSet.
PushReadTaskAlways(fd) ==
  /\ mpc = "events"
  /\ fd \in fired \ {Listen}
  /\ io_q' = [io_q EXCEPT ![ThreadOf(fd)] = Append(@, ReadTask(fd))]
  /\ fired' = fired \ {fd}
  /\ mfd' = fd
  /\ mpc' = "insert"
  /\ UNCHANGED <<exe_q, fdSet, masked, db, serverStop>>
  /\ UNCHANGED <<clientVars, kernelVars, threadVars, status, torn>>

\* An event for a descriptor nobody is processing becomes a read task ...
PushReadTask(fd) ==
  /\ mpc = "events"
  /\ fd \in fired \ {Listen}
  /\ fd \notin fdSet
  /\ io_q' = [io_q EXCEPT ![ThreadOf(fd)] = Append(@, ReadTask(fd))]
  /\ fired' = fired \ {fd}
  /\ mfd' = fd
  /\ mpc' = "insert"
  /\ UNCHANGED <<exe_q, fdSet, masked, db, serverStop>>
  /\ UNCHANGED <<clientVars, kernelVars, threadVars, status, torn>>

\* ... and only then enters the set.
InsertFdSet ==
  /\ mpc = "insert"
  /\ fdSet' = fdSet \cup {mfd}
  /\ mpc' = "events"
  /\ mfd' = Listen
  /\ UNCHANGED <<io_q, exe_q, masked, db, fired, serverStop>>
  /\ UNCHANGED <<clientVars, kernelVars, threadVars, status, torn>>

\* An event for a descriptor in the set is forgotten.
DropEvent(fd) ==
  /\ mpc = "events"
  /\ fd \in fired \ {Listen}
  /\ fd \in fdSet
  /\ fired' = fired \ {fd}
  /\ UNCHANGED <<mpc, mfd, serverStop>>
  /\ UNCHANGED <<clientVars, kernelVars, threadVars, sharedVars, status, torn>>

\* Mutation of RetOf: GET without the test for nullptr.
RetOfUnchecked(cmd) ==
  CASE cmd.op = "set"      -> "ok"
    [] cmd.op = "get"      -> MapFind(db, cmd.key)
    [] cmd.op = "shutdown" -> "server is shutdown!"
    [] OTHER               -> "unknow cmd !"

\* What execCommand answers.
RetOf(cmd) ==
  CASE cmd.op = "set"      -> "ok"
    [] cmd.op = "get"      -> LET v == MapFind(db, cmd.key)
                              IN  IF v = Absent THEN "Not found!" ELSE v
    [] cmd.op = "shutdown" -> "server is shutdown!"
    [] OTHER               -> "unknow cmd !"

\* A task past TaskBound that repeats the last one is not kept: only a thread
\* that never comes back to its queue lets it grow so far.
PushWriteTask(fd, task) ==
  LET q == io_q[ThreadOf(fd)]
      repeated == Len(q) >= TaskBound /\ q # <<>> /\ q[Len(q)] = task
  IN  io_q' = [io_q EXCEPT ![ThreadOf(fd)] =
                 IF repeated THEN @ ELSE Append(@, task)]

\* Mutation of ExecCommand: front() without pop() when only one command is left.
ExecCommandKeepsLast ==
  /\ mpc = "events"
  /\ fired = {}
  /\ exe_q # <<>>
  /\ LET fd  == Head(exe_q).fd
         cmd == Head(exe_q).cmd
     IN  /\ db' = IF cmd.op = "set" THEN MapInsert(db, cmd.key, cmd.val) ELSE db
         /\ serverStop' = (serverStop \/ cmd.op = "shutdown")
         /\ PushWriteTask(fd, WriteTask(fd, [ret |-> RetOf(cmd), id |-> cmd.id]))
  /\ exe_q' = IF Len(exe_q) = 1 THEN exe_q ELSE Tail(exe_q)
  /\ UNCHANGED <<fdSet, masked, mpc, mfd, fired>>
  /\ UNCHANGED <<clientVars, kernelVars, threadVars, status, torn>>

\* One turn of the drain loop once the events are handled.
ExecCommand ==
  /\ mpc = "events"
  /\ fired = {}
  /\ exe_q # <<>>
  /\ LET fd  == Head(exe_q).fd
         cmd == Head(exe_q).cmd
     IN  /\ db' = IF cmd.op = "set" THEN MapInsert(db, cmd.key, cmd.val) ELSE db
         /\ serverStop' = (serverStop \/ cmd.op = "shutdown")
         /\ PushWriteTask(fd, WriteTask(fd, [ret |-> RetOf(cmd), id |-> cmd.id]))
  /\ exe_q' = Tail(exe_q)
  /\ UNCHANGED <<fdSet, masked, mpc, mfd, fired>>
  /\ UNCHANGED <<clientVars, kernelVars, threadVars, status, torn>>

EndRound ==
  /\ mpc = "events"
  /\ fired = {}
  /\ exe_q = <<>>
  /\ mpc' = "poll"
  /\ UNCHANGED <<mfd, fired, serverStop>>
  /\ UNCHANGED <<clientVars, kernelVars, threadVars, sharedVars, status, torn>>

AeMain ==
  \/ AeApiPoll \/ MainReturns
  \/ Accept \/ Register \/ RegisterFails \/ SetMask
  \/ \E fd \in Fds : PushReadTask(fd) \/ DropEvent(fd)
  \/ InsertFdSet \/ ExecCommand \/ EndRound

-------------------------------------------------------------------------------
\* The IO threads.

FdOf(t) == cur[t].fd
Goto(t, where) == pc' = [pc EXCEPT ![t] = where]

TryPop(t) ==
  /\ pc[t] = "pop"
  /\ io_q[t] # <<>>
  /\ cur' = [cur EXCEPT ![t] = Head(io_q[t])]
  /\ io_q' = [io_q EXCEPT ![t] = Tail(@)]
  /\ Goto(t, IF Head(io_q[t]).isRead THEN "header" ELSE "write")
  /\ UNCHANGED <<buff, exe_q, fdSet, masked, db>>
  /\ UNCHANGED <<clientVars, kernelVars, mainVars, status, torn>>

\* read() of the length, by what it finds.
ReadHeader(t) ==
  LET c == fdOwner[FdOf(t)]
  IN  /\ pc[t] = "header" /\ Open(FdOf(t))
      /\ inq[c] # <<>>
      /\ IF Head(inq[c]).part = "header"
         THEN Goto(t, "payload") /\ UNCHANGED status
         \* The start of a command taken for a length is beyond 2^32, and
         \* buff[len] = 0 is far outside the buffer.
         ELSE status' = "crashed" /\ UNCHANGED pc
      /\ inq' = [inq EXCEPT ![c] = Tail(@)]
      /\ UNCHANGED <<cpc, step, outq, err, cur, buff>>
      /\ UNCHANGED <<kernelVars, mainVars, sharedVars, torn>>

\* Mutation of ReadNothing: EAGAIN does not leave the read loop.
ReadNothingAgain(t) ==
  LET c == fdOwner[FdOf(t)]
  IN  /\ pc[t] = "header" /\ Open(FdOf(t))
      /\ ~HasInput(c)
      /\ UNCHANGED vars

\* Mutation of ReadNothing: EAGAIN is taken for the end of the stream.
ReadNothingCloses(t) ==
  LET c == fdOwner[FdOf(t)]
  IN  /\ pc[t] = "header" /\ Open(FdOf(t))
      /\ ~HasInput(c)
      /\ Goto(t, "close")
      /\ UNCHANGED <<cur, buff>>
      /\ UNCHANGED <<clientVars, kernelVars, mainVars, sharedVars, status, torn>>

\* EAGAIN: the thread gives up the task and the descriptor stays in fdSet.
ReadNothing(t) ==
  LET c == fdOwner[FdOf(t)]
  IN  /\ pc[t] = "header" /\ Open(FdOf(t))
      /\ ~HasInput(c)
      /\ Goto(t, "pop")
      /\ cur' = [cur EXCEPT ![t] = NoTask]
      /\ UNCHANGED buff
      /\ UNCHANGED <<clientVars, kernelVars, mainVars, sharedVars, status, torn>>

ReadEndOfFile(t) ==
  LET c == fdOwner[FdOf(t)]
  IN  /\ pc[t] = "header" /\ Open(FdOf(t))
      /\ inq[c] = <<>> /\ cpc[c] = "dead" /\ err[c] # "reset"
      /\ Goto(t, "close")
      /\ UNCHANGED <<cur, buff>>
      /\ UNCHANGED <<clientVars, kernelVars, mainVars, sharedVars, status, torn>>

\* EBADF, or ECONNRESET which is reported once: neither test of the code matches
\* and it goes on with len = 0.
ReadError(t) ==
  LET c == fdOwner[FdOf(t)]
  IN  /\ pc[t] = "header"
      /\ \/ ~Open(FdOf(t)) /\ UNCHANGED err
         \/ /\ Open(FdOf(t))
            /\ inq[c] = <<>> /\ cpc[c] = "dead" /\ err[c] = "reset"
            /\ err' = [err EXCEPT ![c] = "reported"]
      /\ Goto(t, "empty")
      /\ UNCHANGED <<cpc, step, inq, outq, cur, buff>>
      /\ UNCHANGED <<kernelVars, mainVars, sharedVars, status, torn>>

\* parseBinaryCmd on the buffer and exe_q.push.
ParseAndPush(t, cmd) ==
  /\ Len(exe_q) < ExeBound
  /\ exe_q' = Append(exe_q, [fd |-> FdOf(t), cmd |-> cmd])
  /\ buff' = [buff EXCEPT ![t] = cmd]
  /\ Goto(t, "header")
  /\ UNCHANGED <<cur, io_q, fdSet, masked, db, status>>

\* A thread's buffer before the first command: whatever its stack held.
Uninitialised == [op : Ops, key : {Blank}, val : {Blank}, id : {NoReq}]

\* Commands a thread can find in a buffer it did not fill, after buff[len] = 0
\* for the length of the command it waits for: the zero falls into the value,
\* into the key, or behind both.
Leftover(b) ==
  IF b = NoCmd THEN Uninitialised
  ELSE {b, [b EXCEPT !.val = Blank], [b EXCEPT !.key = Blank]}

\* The same for len = 0: the zero falls on the command flag and makes it CMD_SET.
LeftoverAtZero(b) ==
  IF b = NoCmd THEN Uninitialised ELSE {[b EXCEPT !.op = "set"]}

ReadPayload(t) ==
  LET c == fdOwner[FdOf(t)]
  IN  /\ pc[t] = "payload" /\ Open(FdOf(t))
      /\ inq[c] # <<>>
      /\ ParseAndPush(t, Head(inq[c]).cmd)
      /\ inq' = [inq EXCEPT ![c] = Tail(@)]
      /\ UNCHANGED <<cpc, step, outq, err, torn>>
      /\ UNCHANGED <<kernelVars, mainVars>>

\* read() of the command fails or finds nothing, and the code goes on with what
\* the buffer holds.
MissPayload(t) ==
  LET c == fdOwner[FdOf(t)]
  IN  /\ pc[t] = "payload"
      /\ Open(FdOf(t)) => inq[c] = <<>>
      /\ \E cmd \in Leftover(buff[t]) : ParseAndPush(t, cmd)
      /\ err' = IF Open(FdOf(t)) /\ err[c] = "reset"
                THEN [err EXCEPT ![c] = "reported"] ELSE err
      /\ torn' = TRUE
      /\ UNCHANGED <<cpc, step, inq, outq>>
      /\ UNCHANGED <<kernelVars, mainVars>>

ParseEmpty(t) ==
  /\ pc[t] = "empty"
  /\ \E cmd \in LeftoverAtZero(buff[t]) : ParseAndPush(t, cmd)
  /\ torn' = TRUE
  /\ UNCHANGED <<clientVars, kernelVars, mainVars>>

\* The lengths in an uninitialised buffer may point anywhere.
ParseGarbage(t) ==
  /\ \/ pc[t] = "payload" /\ (Open(FdOf(t)) => inq[fdOwner[FdOf(t)]] = <<>>)
     \/ pc[t] = "empty"
  /\ buff[t] = NoCmd
  /\ status' = "crashed"
  /\ torn' = TRUE
  /\ UNCHANGED <<clientVars, kernelVars, mainVars, threadVars, sharedVars>>

\* Mutation of Close: events[fd].mask is reset before the epoll_ctl of closeClient.
CloseUnmasking(t) ==
  LET fd == FdOf(t)
  IN  /\ pc[t] = "close"
      /\ fdOwner' = [fdOwner EXCEPT ![fd] = NoConn]
      /\ interest' = interest \ {fd}
      /\ ready' = ready \ {fd}
      /\ masked' = masked \ {fd}
      /\ Goto(t, "delev")
      /\ UNCHANGED <<backlog, cur, buff, io_q, exe_q, fdSet, db>>
      /\ UNCHANGED <<clientVars, mainVars, status, torn>>

\* closeClient: close(), which also takes the descriptor out of epoll.
Close(t) ==
  LET fd == FdOf(t)
  IN  /\ pc[t] = "close"
      /\ fdOwner' = [fdOwner EXCEPT ![fd] = NoConn]
      /\ interest' = interest \ {fd}
      /\ ready' = ready \ {fd}
      /\ Goto(t, "delev")
      /\ UNCHANGED <<backlog, cur, buff>>
      /\ UNCHANGED <<clientVars, mainVars, sharedVars, status, torn>>

\* aeApiDelEvent(AE_WRITABLE): EPOLL_CTL_MOD to level-triggered EPOLLIN if the mask
\* is still set, EPOLL_CTL_DEL if it is not.  The first changes nothing for a
\* descriptor epoll does not watch, which NoModOnLiveFd says is the only case.
DelEvent(t) ==
  /\ pc[t] = "delev"
  /\ interest' = IF FdOf(t) \in masked THEN interest ELSE interest \ {FdOf(t)}
  /\ ready' = ready \cap (interest' \cup {Listen})
  /\ Goto(t, "unmask")
  /\ UNCHANGED <<backlog, fdOwner, cur, buff>>
  /\ UNCHANGED <<clientVars, mainVars, sharedVars, status, torn>>

\* events[fd].mask = AE_NONE.
Unmask(t) ==
  /\ pc[t] = "unmask"
  /\ masked' = masked \ {FdOf(t)}
  /\ Goto(t, "erase")
  /\ UNCHANGED <<cur, buff, io_q, exe_q, fdSet, db>>
  /\ UNCHANGED <<clientVars, kernelVars, mainVars, status, torn>>

\* fdSet.erase, the last step of closing and of writing.
EraseFdSet(t) ==
  /\ pc[t] = "erase"
  /\ fdSet' = fdSet \ {FdOf(t)}
  /\ cur' = [cur EXCEPT ![t] = NoTask]
  /\ Goto(t, "pop")
  /\ UNCHANGED <<buff, io_q, exe_q, masked, db>>
  /\ UNCHANGED <<clientVars, kernelVars, mainVars, status, torn>>

\* The two writes of a reply, to whoever holds the descriptor now.
WriteReply(t) ==
  LET c == fdOwner[FdOf(t)]
  IN  /\ pc[t] = "write"
      /\ Open(FdOf(t)) => cpc[c] # "dead"
      /\ outq' = IF Open(FdOf(t)) THEN [outq EXCEPT ![c] = Append(@, cur[t].str)]
                                  ELSE outq
      /\ Goto(t, "erase")
      /\ UNCHANGED <<cpc, step, inq, err, cur, buff>>
      /\ UNCHANGED <<kernelVars, mainVars, sharedVars, status, torn>>

\* The peer is gone: the first write is answered by a reset.  If that arrives
\* before the second write, or before the first, SIGPIPE ends the server.
WriteToDead(t) ==
  LET c == fdOwner[FdOf(t)]
  IN  /\ pc[t] = "write"
      /\ Open(FdOf(t)) /\ cpc[c] = "dead"
      /\ \/ /\ status' = "killed"
            /\ UNCHANGED <<pc, err, ready>>
         \/ /\ err[c] = "none"
            /\ err' = [err EXCEPT ![c] = "reported"]
            /\ ready' = ready \cup Wake(c)
            /\ Goto(t, "erase")
            /\ UNCHANGED status
      /\ UNCHANGED <<cpc, step, inq, outq, cur, buff, backlog, fdOwner, interest>>
      /\ UNCHANGED <<mainVars, sharedVars, torn>>

IOThreadMain(t) ==
  \/ TryPop(t)
  \/ ReadHeader(t) \/ ReadNothing(t) \/ ReadEndOfFile(t) \/ ReadError(t)
  \/ ReadPayload(t) \/ MissPayload(t) \/ ParseEmpty(t) \/ ParseGarbage(t)
  \/ Close(t) \/ DelEvent(t) \/ Unmask(t) \/ EraseFdSet(t)
  \/ WriteReply(t) \/ WriteToDead(t)

Next ==
  /\ Up
  /\ \/ \E c \in Clients : Client(c) \/ Exit(c)
     \/ AeMain
     \/ \E t \in Threads : IOThreadMain(t)

Spec == Init /\ [][Next]_vars

\* Every thread keeps running, and so does a client that can take its next step.
\* A client may exit but need not.
Fairness ==
  /\ WF_vars(Up /\ AeMain)
  /\ \A t \in Threads : WF_vars(Up /\ IOThreadMain(t))
  /\ \A c \in Clients : WF_vars(Up /\ Client(c))

FairSpec == Spec /\ Fairness

\* The timing the code was written for: the second write of a command has arrived
\* whenever an IO thread reads for it, so no thread parses a buffer it did not fill.
Calm == ~torn'
CalmSpec == Init /\ [][Next /\ Calm]_vars
FairCalmSpec ==
  /\ CalmSpec
  /\ WF_vars(Up /\ AeMain)
  /\ \A t \in Threads : WF_vars(Up /\ IOThreadMain(t) /\ Calm)
  /\ \A c \in Clients : WF_vars(Up /\ Client(c))

-------------------------------------------------------------------------------
ClientTypes ==
  /\ cpc \in [Clients -> {"connect", "header", "payload", "reply", "done", "dead"}]
  /\ step \in [Clients -> Nat]
  /\ inq \in [Clients -> Seq(Pieces)]
  /\ outq \in [Clients -> Seq(Replies)]
  /\ err \in [Clients -> {"none", "reset", "reported"}]

KernelTypes ==
  /\ backlog \in Seq(Clients)
  /\ fdOwner \in [Fds -> Clients \cup {NoConn}]
  /\ interest \subseteq Fds
  /\ ready \subseteq Fds \cup {Listen}

SharedTypes ==
  /\ io_q \in [Threads -> Seq(Tasks)]
  /\ exe_q \in Seq([fd : Fds, cmd : Commands])
  /\ fdSet \subseteq Fds
  /\ masked \subseteq Fds
  /\ db \in Maps

MainTypes ==
  /\ mpc \in {"poll", "events", "register", "mask", "insert"}
  /\ mfd \in Fds \cup {Listen}
  /\ fired \subseteq Fds \cup {Listen}
  /\ serverStop \in BOOLEAN

ThreadTypes ==
  /\ pc \in [Threads -> {"pop", "header", "payload", "empty", "close", "delev",
                         "unmask", "erase", "write"}]
  /\ cur \in [Threads -> Tasks]
  /\ buff \in [Threads -> Commands]

ProcessTypes ==
  /\ status \in {"up", "stopped", "exit1", "killed", "crashed"}
  /\ torn \in BOOLEAN

\* The types of all variables.
TypeOK ==
  /\ ClientTypes /\ KernelTypes /\ SharedTypes
  /\ MainTypes /\ ThreadTypes /\ ProcessTypes

\* No two IO threads ever work on the same descriptor, so the unlocked steps of
\* closeClient and the two writes of a reply never interleave for one connection.
NoTwoThreadsOneFd ==
  \A t, u \in Threads :
    t # u /\ pc[t] # "pop" /\ pc[u] # "pop" => FdOf(t) # FdOf(u)

\* closeClient's late epoll_ctl never reaches a connection that took over the
\* number of the one just closed: MOD would make it level-triggered, DEL deaf.
NoModOnLiveFd ==
  \A t \in Threads : pc[t] \in {"delev", "unmask"} => FdOf(t) \notin interest

\* The server closes the connection of a client only after that client has gone,
\* however descriptors were reused in between.
NoWrongClose ==
  [][\A fd \in Fds :
       Open(fd) /\ fdOwner'[fd] # fdOwner[fd] => cpc[fdOwner[fd]] = "dead"]_vars

Tasked(fd, isRead) ==
  UNION {{<<t, i>> : i \in {j \in DOMAIN io_q[t] :
            io_q[t][j].fd = fd /\ io_q[t][j].isRead = isRead}} : t \in Threads}
Writers(fd) == {t \in Threads : pc[t] = "write" /\ FdOf(t) = fd}
Readers(fd) ==
  {t \in Threads : pc[t] \in {"header", "payload", "empty"} /\ FdOf(t) = fd}
Parsed(fd) == {i \in 1 .. Len(exe_q) : exe_q[i].fd = fd}

\* As long as no client has left, fdSet keeps at most one command of a connection
\* between the parser and the writer, and never queues a read task beside it,
\* although it is filled after the push and emptied after the write.
OneRequestInFlight ==
  (\A c \in Clients : cpc[c] # "dead") => \A fd \in Fds :
    /\ Cardinality(Tasked(fd, FALSE)) + Cardinality(Writers(fd))
         + Cardinality(Parsed(fd)) <= 1
    /\ Cardinality(Tasked(fd, TRUE)) + Cardinality(Readers(fd)) <= 1

\* A parsed command is answered: the main thread drains exe_q although connections
\* keep arriving, and the reading thread leaves its read loop and comes to the reply
\* queued behind it.
ParsedIsAnswered ==
  \A c \in Clients :
    (\E fd \in Fds : fdOwner[fd] = c /\ Parsed(fd) # {}) ~> cpc[c] # "reply"

-------------------------------------------------------------------------------
\* The pipeline implements KvService when the timing is calm and clients stay.

RepliesFor(c) ==
  LET queued(q) == {q[i] : i \in DOMAIN q}
      tasks == (UNION {queued(io_q[t]) : t \in Threads})
                 \cup {cur[t] : t \in {u \in Threads : pc[u] = "write"}}
  IN  queued(outq[c])
        \cup {n.str : n \in {m \in tasks : ~m.isRead /\ fdOwner[m.fd] = c}}

\* What the service sees of a client: where its command is, which it is, its answer.
Phase(c) ==
  IF cpc[c] # "reply" THEN "idle"
  ELSE IF RepliesFor(c) = {} THEN "sent" ELSE "executed"
Asked(c) == IF cpc[c] = "reply" THEN Script[c][step[c]] ELSE Absent
Answer(c) ==
  IF cpc[c] = "reply" /\ RepliesFor(c) # {}
  THEN (CHOOSE r \in RepliesFor(c) : TRUE).ret
  ELSE Absent

Service == INSTANCE KvService WITH
  phase   <- [c \in Clients |-> Phase(c)],
  request <- [c \in Clients |-> Asked(c)],
  answer  <- [c \in Clients |-> Answer(c)],
  store   <- db

\* Every command takes effect exactly once, between its send and its reply, and the
\* reply is its result, whichever threads its request and reply went through.
ImplementsKvService == Service!KvSpec

-------------------------------------------------------------------------------
\* What documentation and comments say and the code does not do; each is refuted by
\* a run of its own.

\* ae.cpp:90: the result of a command is sent to the client.
ReplyGoesToItsClient ==
  \A c \in Clients : \A i \in DOMAIN outq[c] : outq[c][i].id = <<c, step[c]>>

\* client.cpp:153: the client program waits for every client thread to finish.
EveryClientFinishes == \A c \in Clients : <>(cpc[c] = "done")

===============================================================================
