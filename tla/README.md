# Specifications of redis_learn

This directory holds the TLA+ specifications of the key-value server in `src/source/`: what its threads do
with a request, what its database is, what reaches its append-only file, how a master brings a slave up to
date, and the data structures that stand beside the dictionary. TLC checks them on small instances (the
`.cfg` files); the `*Proofs.tla` modules hold theorems that TLAPS checks for every value of the constants.
`PROJECT.json` lists for each definition the lines it models.

    tlc -workers 2 -config io_churn.cfg MCIoPipeline.tla      # one of the runs below
    tlapm IoPipelineProofs.tla                                # one of the proof modules

## 1. The system

| component | source | state | operations |
|---|---|---|---|
| Event loop | `ae.cpp`, `ae.h` | `events[]`, `fired[]`, epoll instance, `fdSet`, `exe_q`, `io_q[]` | `aeMain`, `aeApiPoll`, `aeCreateFileEvent`, `aeServerConnectToClient`, `closeClient` |
| IO threads | `ae.cpp` | a queue and a 1 KiB buffer per thread | `IOThreadMain`: pop a task, read a command and queue it, or write a reply |
| Server | `server.cpp`, `server.h` | `Dict`, rings `cmdbuff` and `aof_buff`, `incrAofStream`, `hz`, `cronloops`, `serverStop` | `execCommand`, `serverCron`, `writeInrcAofFile`, `AOFRW` (no caller) |
| Dictionary | `dict.cpp`, `dict.h` | two `Hashtable`s, `_rehashIdx` | `insert`, `find`, `erase`, `rehash`, `clear` |
| Queues and sets | `threadsafe_structures.h` | a deque or set and a mutex | `push`, `try_pop`, `empty`, `insert`, `erase`, `count` |
| Test client | `client.cpp` | a blocking socket per thread | connect; for every command write length, write command, read the reply |
| Replication | `replication.cpp`, `CmdBinaryBuff` in `server.cpp` | an offset on either side, one connection, the command buffer, a detached thread per file | handshake, `slaveIsConnected`, `syncWithSlave` with `sendFile`, `syncWithMaster` with `recvFile`, disconnect; called by `masterTest` and `slaveTest`, not by `main()` |
| Skip list | `skiplist.h` | nodes on levels, element count, a mutex | `insert_element`, `delete_element`, `search_element`, `clear`; called by a test function |
| List pack | `listpack.h` | one block of bytes; the caller's pointer into it | insert, append, prepend, replace, delete, delete a range, walk, get, length; included by no compiled file |
| HyperLogLog | `hyperLogLog.h` | registers, sparse or dense | `hllAdd`, `hllMerge`, `hllCount`; called by a test function |

How they interact. A client's bytes wake the main thread through edge-triggered epoll. `aeMain` turns the
event into a read task of IO thread `fd % IOThreadNum` unless `fd` is in `fdSet`, and then puts it there. The
IO thread reads and parses the command and pushes it on `exe_q`, which the main thread drains after the
events of a round: it executes each command on the `Dict`, adds writes to both rings and pushes the reply,
again to queue `fd % IOThreadNum`. The IO thread writes the reply and takes `fd` out of `fdSet`. When a read
finds the end of the stream, the IO thread closes the descriptor itself and undoes its registration, while
the main thread may be accepting the next connection under the same number. Before each round the main
thread runs `serverCron`, which empties `aof_buff` into the file once a second as it counts seconds.

Replication stands apart: no part of the server calls it, and its buffer is not the ring `execCommand` fills.
Master and slave are two processes with one connection. The master asks for the slave's offset and, if it is
not its own, sends a file or a piece of the command buffer; the slave answers, or takes what comes.

What is hard here:

- *Interleavings.* The queues and the set are locked one operation at a time; `events[]`, the descriptors
  and epoll are shared with no lock. Push and insert, write and erase, close and unregister are pairs that
  another thread can fall between.
- *Identity.* A connection is named by its descriptor everywhere, and descriptors are reused.
- *Partial input.* A command is two writes. The result of the second `read()` is not looked at.
- *Ordering and loss.* A full ring overwrites; the file is written through a buffered stream; the process can
  stop or die at any moment.
- *Liveness.* Edge triggering reports once. A dropped event is a request nobody reads.
- *Framing.* Neither side of replication marks where a message begins: each reads as many bytes as it expects,
  while a thread nobody waits for writes to the same socket.
- *Bytes edited in place.* The list pack and the sparse registers are walked by the lengths that stand in them,
  and every call moves what follows.
- *Walks without the lock.* A search of the skip list reads what a writer is changing.
- *Derived data.* `_nodeSize`, `_rehashIdx`, the mask of a closed descriptor and the period of the cron
  are all used after what they describe has changed.

What makes each component correct: no two IO threads share a descriptor, and no late step of `closeClient`
touches the next owner of a number (event loop and IO threads); a command takes effect once, between send
and reply, and its own client gets its result (the whole path); every key is found where it was put
(dictionary); chains stay sorted and nested while they change (skip list); the log holds what was executed, in
order (rings and file); both sides agree on where a message begins and on the offset they have reached
(replication); both ways of walking find the same entries and they read as what was stored (list pack); a count
that was set is the count that is read (HyperLogLog). The `hazards` of `PROJECT.json` list the places in the
code where each of these could fail, with the properties aimed at them.

## 2. The modules

    LossyMap        the map a caller of Dict sees (no variables)
      KvService     what a client is promised                <- implemented by IoPipeline
      MapStore      what the server needs of the database    <- implemented by Dict
      IoPipeline    clients, kernel, main thread, IO threads
      CmdBuff       the ring, as functions of rings (no variables)
        ServerCore  execCommand, serverCron, rings, file, stop and kill
      Dict          both hash tables and their chains
    SortedMap       a map of keys (one variable)             <- implemented by SkipList
      SkipList      chains and levels, writers with the mutex, searchers without
    Replication     master and slave on their connection
    ListPack        the block of bytes and the caller's pointer
    HyperLogLog     sparse and dense registers
    MC*             small instances for TLC
    Induction       induction over sets, recursive functions exist (no variables)
    IoPipelineProofs, ServerCoreProofs, DictProofs, ReplicationProofs, SkipListProofs, ListPackProofs,
    HyperLogLogProofs                                      theorems

**LossyMap.** `Dict::insert` links a new key in an occupied bucket in the place of the node that is there
(`dict.cpp:170`), so a map that forgets the other keys of the bucket is what callers see. The three larger
models use this map; `Dict` is shown to implement it.

**IoPipeline.** One action per system call or per locked operation, because those are the points at which
another thread sees or changes something. The program counters are `cpc` (clients, in `sendCmd`), `mpc` (main
thread) and `pc` (IO threads). `inq` and `outq` are the bytes in flight: requests in two pieces, replies in
one, because the client reads a reply with blocking reads and the server never looks at a partial one.
`ready` is the edge-triggered state of epoll: an arrival adds the descriptor, `AeApiPoll` takes all of it.
`fdOwner`, `interest` and `masked` are the kernel's descriptor table, epoll's interest list and `events[fd].mask`;
keeping the three apart is what shows the races around `closeClient`. A command carries the identity of the
request it was sent for, which no action reads. A thread that parses a buffer it has not filled
(`MissPayload`, `ParseEmpty`, `ParseGarbage`) takes any command the bytes left there can mean, or
crashes: reading an uninitialised buffer is undefined. `buff[len] = 0` cuts the previous command short, and
which part it cuts depends on lengths the model does not keep, so all three are allowed.

**KvService.** A client invokes one command, the command takes effect on the map at one moment, the answer
comes back. The mapping (`Phase`, `Asked`, `Answer` in `IoPipeline`) reads the answer from wherever the reply is: a
task, a thread, or the socket.

**ServerCore on CmdBuff.** The main thread alone. A step is a command, a cron, the end of a round (any `hz` of
`Rates`: the length of a round is time, not state), a partial flush of the `ofstream`, `~Server`, or death.
`cronloops` counts modulo `CronCycle`, a multiple of every period, which loses nothing: it is used only in a
remainder by one of the periods.

**Dict.** A table is a function from bucket indices to sequences of nodes. `Home` takes the remainder by one
less than the number of buckets, as `hash()` does with `_sizeMask`. Every operation follows the pointer code
case by case: `erase` in table 1 writes the head back, `rehash` moves only what hangs behind a head, the
first empty bucket it visits is a null pointer, the end of a rehash swaps the tables and clears one, and
`_rehashIdx` keeps its value. `LiveSpec` has the operations reachable from `main()` and `erase`; `Spec` has all.
Operations on a table of fewer than two buckets divide by zero or leave the array (`UseCrashes`).

**SkipList.** `insert_element` and `delete_element` hold the mutex, `search_element` does not. So the
steps are the writes a searcher can see (the level, and one level's pointers per turn of the loop) and the
searcher's reads: the condition of its loop reads a pointer twice and the body a third time. `saw` is a
history: whether the key searched was in the list at some moment of the search. Pointers are read and
written atomically and in program order, the kindest outcome of the data race. A deleted node is not freed and
keeps its pointers, so its place is not used again; `clear`, which does free, is called when nobody else is there.

**Replication.** `mpc` and `spc` say where the callers of the two sides are; an action is what a side does between
two reads, for nothing else of it can be seen from outside. What one call writes arrives in one piece, except the
file: `sendFile` runs in a detached thread and writes the length and then the content in blocks of 8192 bytes
(`SendFile`, one write a step; `Dumps` is how many), and whatever the master writes meanwhile falls between.
`recvFile` reads the content with one `read()`, which returns what of it has come (`ReadContent`): the blocks that
come later stay in the stream, where the next pack is expected. The stream to the slave is a sequence of items by
what they were written as; the slave takes the next one for what it expects (`Misread` when that is wrong). `early`
and `short` are histories: whether the master began a call too early, and whether a read of a file returned less
than the file. `syncWithMaster` reads one pack and returns: `BeginSync` is its caller's, the rest its own. The
handshake of the slave sends its pack twice, so the master reads each reply one call late; a slave that began at
offset 0 may so be sent the file by two calls in a row. Nobody answers a PING, and the master's read takes any pack
for the answer. A slave that left leaves the pack as it was constructed, with offset 0. The command buffer is always
zeros, since `writeCmdBack` has no caller: the slave parses 20 bytes of zeros as a SET of an empty key and counts
22. A length that is no multiple of 20 or reaches behind the buffer is undefined; one that has wrapped, because the
slave is ahead, cannot be allocated and ends the slave. After a file the slave clears its database and loads an
empty one, also when the master left in the middle. What happens after a misread or an undefined step is not
followed.

**ListPack.** The state is the block, byte by byte, because the hazards are in the encodings; `elems` and `pos`
are histories of what was stored and where the caller's pointer should be. The test for 24 bits
(`lpEncodeIntegerGetType`) holds of no number, so larger ones go to the 32-bit encoding, whose top byte is a
logical `and`: they are read back as other numbers (`ReadsAs`), and `ContentsAreKept` says which.

**HyperLogLog.** After its search `hllSparseSet` tests the position of the opcode where it means the opcode. Below
64 bytes a position looks like a ZERO, whatever is there; from 64 on like an XZERO (`LikeXzero`: two bytes give
way), from 128 on like a VAL (`LikeVal`: the run is split into VALs of its value, `SplitVal`, whose two bits of
length it runs over, and the count it compares is not initialized, so that it may as well do nothing), and again
from 256 on. The buffer it splices in is five bytes long however many are used, so the rest are runs of one zero
register (`Padded`); where one byte gives way to it the second byte of an XZERO stays behind as an opcode. `SetAt`
does just this. `MCHyperLogLog` restricts the ways a form grows to a size at which positions look like XZEROs and
VALs, for TLC; the theorems are about `HyperLogLog`. The left-over byte is at times an XZERO itself and takes the
byte behind it for its length: with all 16384 registers four sets (at 321, 100, 392, 400) are enough for the runs to
end before the last register (`hll_runs`), and `hllSparseSet` then refuses that one. `SetRegister` ORs into the old
value after the mask `HLL_REGISTERS` has cleared one bit of another register. An access outside the registers ends
the behaviour (`"undefined"`).

## 3. What the runs check

Passing runs:

| run | instance | properties | what it shows |
|---|---|---|---|
| `io_churn` | 2 clients, one of two commands that may exit anywhere, one that sends SHUTDOWN; 2 descriptors | `TypeOK`, `NoTwoThreadsOneFd`, `NoModOnLiveFd`, `OneRequestInFlight`, `NoWrongClose` | what must survive reuse of descriptors while `closeClient` runs; and that `fdSet`, filled after the push and emptied after the write, still keeps one command of a connection between parser and writer until somebody leaves, also when a command arrives late |
| `io_calm` | 2 clients that stay, 3 commands, 2 threads, calm timing, fairness | `ImplementsKvService`, `ParsedIsAnswered` | the pipeline implements the abstract service: each command takes effect once and its result is the reply; the drain loop ends and the reader comes back to its queue, so a parsed command is answered |
| `core_log` | 2 keys in one bucket, rings of 3 and 2, 5 commands, `hz` in 1..3 | `TypeOK`, `NothingSkipped`, `FileIsPrefix`, `CmdbuffIsTail`, `ReplayRebuildsDb`, `AofBuffIsWrittenOut` | what is executed is in the file, the stream or `aof_buff`, once and in order, through wraps, crons, stop and kill; the ring for replicas is the tail of the log; replaying gives the database; a command does not stay in `aof_buff` for ever |
| `skip_ops` | 3 keys, 2 levels, 3 nodes between two `clear`s, 1 searcher | `TypeOK`, `ChainsSorted`, `LevelsNested`, `CountIsExact`, `FoundWasThere`, `ImplementsSortedMap` | the list is well formed at every moment a searcher can look, in the middle of an insert or a delete too; each call changes its map at one moment; "found" is said only of a key that was there |
| `repl_sync` | 3 master and 5 slave offsets, with and without handshake, no file or one of 1 or 3 pieces | `TypeOK`, `OnlyHasteMisframes`, `RepliesMatchChecks`, `RepliesAreCurrent`, `InSyncAfterFull`, `SyncReturns` | the two sides lose each other's frames only after a call that began too early or a read that did not return the whole file; by which offset the master decides; a slave that took a file has the master's offset from then on; `syncWithSlave` returns |
| `list_ops` | 3 entries, strings and numbers on both sides of every bound that fits | `TypeOK`, `BackwardIsForward`, `NumeleIsCount`, `ContentsAreKept`, `PointerIsAtEntry` | lengths are read from the right as they were written from the left; contents, header and the caller's pointer follow every edit; every string gets some encoding |
| `hll_set` | 186 registers, 5 indices, 2 counts, forms of up to 16 and of 138 to 143 bytes | `TypeOK`, `SetIsRead`, `KeepsCounts` | runs split, padded and merged give back what was set, whatever their position looks like, but inside a run whose position looks like a VAL; a conversion that gets to every register keeps the counts, up to the bit the mask takes; one that does not leaves bytes that are long enough or ends the behaviour |
| `dict_all` | 3 keys, 4 buckets, every public operation | `TypeOK`, `ShortChains`, `AtHome`, `NoKeyTwice`, `CountsEnough`, `LastWriteWins`, `MapStoreUntilRehash` | the structure of both tables survives any sequence of calls, rehashes included; until the first rehash begins, each call is a step of the lossy map or changes nothing of it |

Runs in which TLC finds a disagreement between the code and its comments (`findings` in `PROJECT.json` quotes them):

| run | property | what the code does |
|---|---|---|
| `io_finish` | `EveryClientFinishes` | an event dropped because of `fdSet` is never repeated, and its client waits for ever |
| `io_wrong_reply` | `ReplyGoesToItsClient` | the result of a command of a client that left goes to the next owner of the descriptor |
| `skip_search` | `MissedWasMissing` | a node linked or deleted between two reads of a searcher makes it miss a key that was in the list all the time |
| `hll_runs` | `EveryRegisterHasARun` | a sparse set leaves the second byte of a long run behind, which is read as a run of its own and can swallow those that follow; then the last registers have no run and a set of one of them is refused |

Other disagreements seen while modelling, which have no run:

- *Event loop.* A command that arrives after its length makes the thread execute what its buffer held before
  (`ae.cpp:320`, `MissPayload`). A descriptor accepted before `closeClient` has reset its mask is registered with
  `EPOLL_CTL_MOD`; that fails and the server exits (`ae.cpp:216`). A read task that finds nothing leaves its
  descriptor in `fdSet` (`ae.cpp:312`; `server.h:166` calls the set the descriptors being processed). One `accept`
  per event although several connections may wait (`ae.cpp:129`). The disconnect of a client whose reply is being
  written is dropped and the connection stays open (`ae.cpp:72`). A read on a closed descriptor matches neither
  test of the loop, so the thread parses for ever (`ae.cpp:311`). The file is not written every second as
  `server.cpp:268` says, since the period is counted in rounds.
- *Dictionary.* A key that takes the place of another in its bucket is counted as one more node (`dict.cpp:170`;
  `dict.h:71` calls `_nodeSize` the number of nodes). `erase` in table 1 keeps the node (`dict.cpp:235`). A rehash
  moves nothing and its end clears a table (`dict.cpp:287`) or stops at a null pointer (`dict.cpp:252`).
- *Skip list.* A searcher can follow a null pointer (`FollowNull`). `insert_element` declares `update[]` one
  pointer too small (`skiplist.h:162`; the model takes it as large as `delete_element` does). After a delete
  `display_list` leaves out the top level, because `_skip_list_level` then is an index (`skiplist.h:213`, `328`).
- *Replication.* A master that leaves during the file leaves the slave with its offset and an empty database. What
  is tested against the command buffer is the master's offset, which starts where the caller sets it. `slaveTest`
  copies the configuration before it connects. The offsets the test functions use lie outside the buffer. A file
  longer than what one `read()` returns leaves its rest to be read as packs (`replication.cpp:299`). The master
  counts the bytes it sends, the slave 22 for each 20 it parses (`replication.cpp:127`, `server.h:206`).
- *List pack.* The test for 24 bits holds of no number, and larger numbers are read back as others. `lpGet`
  copies one character of a string into its buffer. `lpSafeToAdd` takes the size of a list that exists as 0 and
  reads one that does not. The constructor with a size makes a temporary object. The block is made by `new[]`
  and grown by `realloc`. `lpAssertValidEntry` is declared and not defined.
- *HyperLogLog.* `oldCount` is read before it is set (`hyperLogLog.h:468`). A set inside a run whose position looks
  like a VAL, behind the run's first register, is lost although the call returns 1: the registers before it, of which
  there may be hundreds, become a VAL with two bits for its length (`hyperLogLog.h:533`), so that the count comes to
  stand somewhere else; and where they are one or two and of the count's value, `hllUpdateRegisters` merges them with
  it and erases the longer of the two. `SetIsRead` leaves these sets out (`InsideVal`). A count beyond 32 makes
  `hllSparseSet` call itself without end (`hyperLogLog.h:406`). The conversion sets the encoding
  before it can fail, and the merge goes on outside the sparse bytes. `hllMerge` asks for dense registers
  (comment at `hyperLogLog.h:718`) and reads one byte a register. `hllDenseRegHisto` reads the histogram where
  it means the registers, and beyond its end.

### Bounds

- Two clients and two IO threads are the least with which two connections can share a thread or not, and a
  descriptor can pass from one client to another. Two descriptors: with one free at a time, every `accept`
  meets reuse. The theorems of section 4 do not have these bounds.
- `ExeBound` caps `exe_q`; only a thread that spins on a closed descriptor reaches it. A repeated task is not
  kept in an `io_q` beyond `TaskBound` for the same reason. `ListenBacklog` is the argument of `listen()`.
- `MaxCommands` = 5 exceeds the capacity of both rings, so both wrap or fill, `aof_buff` twice.
- `Rates` {1, 2, 3} with `CronCycle` 6: periods of 1, 2 and 3 rounds, changed at every round.
- `MaxNodes` caps `_nodeSize`; `SizeMod` is the modulus of `size_t`, far enough from `MaxNodes` that wrapping
  below zero cannot be taken for a small count. `RehashArgs` {0, 1}: with 1 the loop visits 10 buckets, more
  than a table of an instance has filled; 0 starts a rehash and visits none.
- In `skip_ops` 3 keys give a node a neighbour on both sides, and 2 levels a node that is on the level above or
  not. `MaxNodes` = 3 allows two keys with a third coming, or a deleted node with two live ones, between two
  `clear`s. One value: no step compares values, and an existing key gets its value in one step. One searcher:
  searchers change nothing and do not meet.
- `list_ops`: strings of length 0, 63, 64 (bounds of the string encoding), 125 and 126 (with the bytes in front
  of them on both sides of 127, the bound of the length behind an entry), strings that are or only look like
  numbers, and numbers next to the bounds of 7, 13 and 16 bits and beyond. 3 entries give an entry neighbours of
  any length. `MaxBytes` 214 makes `lpInsert` refuse some of them, `NumEleUnknown` 2 makes the header give up,
  and `IntMax` is that of 29 bits because TLC's numbers have 32; no number of an instance needs the 64-bit
  encoding (`NumbersAssumption`).
- `repl_sync`: files of no piece (what `dump_file` writes), one, and three, so that a read can return the first only,
  all, or what is between, and a file begun can meet the rest of another. Offsets 0 (nothing yet), equal offsets, the slave behind and ahead, differences that are and are not a
  multiple of 20, and a range that ends behind the buffer of 1024. `SizeMod` 4096 is far from all of them;
  `MaxThreads` 3 allows two files to interleave while a third begins.
- `hll_set`: 186 registers need the two-byte run, and the dense form is then long enough that a merge after a failed
  conversion of a long sparse form still lies within it, and after one of a short form does not. Forms of up to
  `FewBytes` = 16 are added to in every way. One of `ManyBytes` = 138 comes by adding one count at index 0 again and
  again, which puts five bytes there at a time; then again every index is set, 0 and 2 in runs at the beginning, 100,
  133 and 139 where the position looks like an XZERO or a VAL, in runs of one register and in what is left of the
  first. 143 bytes leave room for one such set. Two counts, so that a register can be raised. With so few
  registers the left-over byte is never that of a long run; `hll_runs` has all 16384, and indices whose runs are cut
  so that one is.
- `CHECK_DEADLOCK FALSE` except in `list_ops`: the processes really end, and so do the clients; of the registers
  nothing more is followed after an access outside them, and the bound on bytes ends the rest. A list pack
  always has a next call.

### Fairness

The main thread and each IO thread loop for ever, so each gets weak fairness on its next step; a client that can
take its next step takes it. Leaving (`Exit`), sending in `ServerCore`, `Kill` and `StreamFlush` get none.
`Calm` restricts the timing, not the code: the second write of a command has arrived whenever a thread reads for
it. Otherwise the thread executes what its buffer held before, and the pipeline implements nothing; `io_calm`
(with clients that stay) asks what it does once that is set aside. `AofBuffIsWrittenOut` rests on `cronloops`
passing a common multiple of the periods; it promises no time.

In `Replication` each side goes on with the call it is in, and a file thread with its writes (weak fairness on
`Master`, `Slave` and `SendFile`), because a blocked read returns when there is something to read. When a call
begins (`SendCheck`, `SendPing`, `BeginSync`), and whether a side leaves, is up to the callers and gets none: `masterTest`
and `slaveTest` call `syncWithSlave` and `syncWithMaster` once. So `SyncReturns` assumes of the slave's caller what
it needs, that it does not stay away from `syncWithMaster` for ever.

## 4. What is proved

For every set of clients, scripts, keys, values, descriptors, any number of IO threads and any bound:

- `IoPipelineProofs`. `TypeCorrect`, `ThreadsDoNotShareFds`. Inductive invariant `TInv`: the types, and that every
  task, read or reply, in a queue or in a thread's hands, belongs to the thread `fd % IOThreadNum` names.
  `NoTwoThreadsOneFd` alone is not inductive, because a step that pops a task must know who else can have it.
  `LateCloseIsHarmless`, `OnlyDeadClientsAreClosed`. Inductive invariant `CInv`: `TInv`, that a
  thread about to close has seen the end of its client, that an open connection has its mask set or is about to,
  and that a descriptor between `close` and the reset of its mask is not registered: its mask is still set, so
  the main thread that accepts it again asks for `EPOLL_CTL_MOD` and ends the process. So the failure of the
  registration is what keeps the late `epoll_ctl` from a live connection. TLC checks `CInv` on the instance of
  `io_churn` too.
  `OneRequestAtATime`, from the inductive invariant `FInv`: `TInv`, and while no client has left, that a client's
  command is in one place at most between the first write of `sendCmd` and the read of its reply (`OnePlace`,
  `Awaited`), and that what is under way for a descriptor is ordered with `fdSet` (`Work`): a descriptor something
  is under way for is in the set or enters it next, no read task waits beside a command, and the thread that takes
  a descriptor out of the set is the last that has to do with it. `OneRequestInFlight` speaks of the parser and
  the writer only; without the place of the command before and behind them, a step from the queue to a thread
  could be a second one.
- `IoPipelineProofs`, its second half. `PipelineIsService`: under `CalmSpec`, and while no client has left, `IoPipeline` implements
  `KvService`. `PipelineIsServiceIfAllStay`: where none may leave (the instance of `io_calm`) nothing more need be
  assumed. `RepliesGoHome`: under the same two conditions every reply answers the command its reader waits
  for; `io_wrong_reply` shows the second is needed. The inductive invariant `SInv` adds three things to `FInv`.
  `OneConn`: a client has one connection, waiting or accepted, so that what is read for a descriptor is this
  client's. `WriterOK`: a thread about to write has a write task. And for each client `Whole`: not only is its
  command in one place (`FInv`), it is there unharmed (`Has`): what the server has not read is exactly what the
  client wrote of it, what was parsed is the command itself, the reply is numbered for it. `FInv` alone leaves open
  which command a thread parses. The proof that a step keeps `Whole` first shows that it concerns the command of
  one client only (`ClientStays`, `MainStays`, `ExecStays`, `PopStays`, `OwnStays`); the same lemmas show that the
  service sees nothing of it (`StaysView`), which leaves three steps to match: `InvokeStep`, `ExecuteStep`,
  `RespondStep`. TLC found its parts true on the instances of `io_calm` and `io_churn`.
- `ServerCoreProofs`. `CoreTypeCorrect`, `LogIsComplete`, `FileIsAlwaysPrefix`, `RingIsTail`, `LogRebuildsDb`. Inductive invariant
  `CoreInv`: the types, that `aof_buff` starts at index 0 while the process lives (so that the scan by
  physical index is the order of arrival, and a full ring is emptied rather than wrapped), that file, stream
  and ring concatenate to the log, and that `cmdbuff`'s two ends and its size agree. `LogRebuildsDb` adds
  `DbIsReplay`, that the database is the replay of everything executed: the replay is a recursive function, of
  which `ReplaysExists` shows that it exists and `ReplayAppend` what one more command does to it.
- `DictProofs`. `DictTypeCorrect`, `ChainsStayShort`, `NodesStayHome`, `OneTablePerKey`, `EmptyMeansEmpty`,
  `LastWriteIsFound`, `DictIsLossyMapUntilRehash`: under `Spec` every call is a step of `MapStore` or changes nothing
  of its map until the first rehash begins, and `DictIsLossyMap`: `LiveSpec`, where none does, implements
  `MapStore`. Inductive invariant `DInv`: the
  properties of `dict_all` together with two facts none of them says, that a table is an array and that table 1
  links nothing before the first rehash. Each property needs the others: `insert` into table 0 keeps
  `NoKeyTwice` only because table 1 is empty before a rehash, `erase` keeps `CountsEnough` only because the
  chain has one node, and the swap at the end of a rehash keeps `AtHome` only because a table that counts
  as empty is. The refinement takes `DInv` with the size of table 0 fixed and shows that `find` reads one bucket
  (`FindIsBucket`), so that `insert` is `Put`, the neighbours in the bucket included, and `erase` is `Delete`.
  `UntilInv` says that this holds as long as no rehash has begun, which needs that one that has never ends
  (`RehashStaysOn`: `_rehashIdx` keeps its value) and that the call with which the first begins hides nothing,
  because it hangs an empty table beside table 0 or finds table 0 empty (`FirstWalkHidesNothing`,
  `FirstEndHidesNothing`).
- `ReplicationProofs`. `TypeCorrect`, `FullTransferEndsInSync`, `SyncDecidesByCurrentOffset`, `FramingNeedsHaste`,
  `QuestionsAreAnsweredOnce`. Five invariants. `TInv`: the types, and that every item in the stream has the
  shape its kind asks for. `PhaseInv`: the two offsets a connection starts with decide whether it ever sees a full
  transfer or an incremental one (`FullPhase`, `IncrPhase`), which is why a slave that took a file keeps the
  master's offset. `ReplyInv`: without a handshake a reply on its way excludes anything that moves the slave's
  offset. `FrameInv`: until a call begins early or a read of a file ends short, the items in the stream follow one another
  as the protocol has them, the pieces of a file in their order (`Chain`), the first is what the slave expects
  (`FirstOK`) and the last leaves what the file thread has still to write (`LastOK`), for files of any number of
  pieces. `OnlyHasteMisframes` says nothing of the stream, so it is far from inductive.
  `MatchInv`: the replies that are there or will be are those the master waits for and at most one more, and while
  the two shake hands nothing else is on the connection (`Shaking`), without which the reply a handshake sends twice
  could be sent beside one already counted.

- `SkipListProofs`. `TypesRight`, `SortedAlways`, `NestedAlways`, `CountAlwaysExact`, `FoundAlwaysWasThere`, and
  `ListIsMap`: `SkipList` implements `SortedMap`, writer and searchers in any interleaving: each insert and delete
  takes effect on the map at one step. The map has no search; `skip_search` shows that searches have no such step. Inductive invariant
  `ListInv`, in three parts. `Structure`: pointers go up in key order, also those of nodes that were taken out
  (`Ascending`), the levels nest (`Levelled`), and in the middle of a call the node being linked or unlinked is on
  exactly the levels already done or still to do, with `update[]` naming the place before it (`Linking`,
  `Unlinking`). `Roaming`: a searcher, who takes no lock, walks among nodes that were in the list at some moment of
  its search and nodes that a delete was taking out when it began, and from the second kind no pointer on level 0
  leads to another of them; that is why it can walk over deleted nodes and still find only what was there.
  `FoundWasThere` itself. `ChainsSorted` is about the chains only and not inductive: an insert goes behind what
  `update[]` named some steps before.
- `ListPackProofs`. `BlockIsKept`, `WalksAgree`, `CountIsKept`, `PointerIsKept`, `TextsAreKept`, for lists of every length, strings
  of every size and any limit of the block below 2^32. They follow from one inductive invariant, `LPInv`
  (`ListIsLaidOut`): there are offsets `off` and encodings `enc` such that the block holds each encoding at its
  offset with its length behind it, the next one follows, `LP_EOF` comes last, the header has the size and the
  count (`Layout`), `enc` are encodings of the history's texts in its order, and the pointer is at the offset of
  `pos`. Two groups of lemmas carry it. Reading: `lpCurrentEncodedSize` reads the length off every encoding
  (`IntEncodingsWellFormed`, `StringEncodingWellFormed`) and `lpDecodeBacklen` finds what `lpEncodeBacklen` wrote
  for all five sizes (`BacklenReads`), so that a step in either direction lands on an entry (`StepsRead`).
  Writing: every call puts a header before what it keeps, splices and keeps (`Changed`), and of a block spliced at
  entry boundaries the offsets behind move together (`BlockSpliced`). The invariant says which encoding was
  stored where; that `lpGet` makes the text of it again (`TextsAreKept`) needs both directions of the conversion:
  what `std::to_string` prints of a number is read as the number (`NumberOfDecimal`), and a text that
  `lpStringToInt64` takes for a number is the one that is printed (`DecimalOfNumber`), which is why "007" and "-0"
  have to stay strings. Then each of the encodings is read as it was written (`Reads7`, `Reads13`, `Reads16`,
  `StringIsRead`), those of 32 bits as the other number `ReadsAs` names (`Reads32`).
- `HyperLogLogProofs`. `HllTypeCorrect`, `WhatIsSetIsRead`, `CountsAreKept`, for any number of registers up to 16384, any
  indices and counts (up to 32) and sparse forms of any size: `MaxBytes` is any number, and that it is there is used
  nowhere. `TypeOK` is inductive; that the dense form is long enough is what keeps its accesses inside, and the other
  two properties follow from it step by step. For `SetIsRead` the walk of `OpAt` along the opcodes, a recursive
  function, is shown to exist and to take one opcode at a time (`OpAtIs`, `WalkSteps`). It depends only on the bytes in
  front of it (`Agree`, `WalkFollows`), so after a splice it comes to the same place by the same way, whatever byte was
  left over or is taken away behind; the bytes there are the run up to the index and the count, or the count alone at
  a run's first register (`SplitIs`, `SplitValIs`, `SetAtIs`), and `hllUpdateRegisters` leaves the count there: a VAL of
  its value behind it can shorten it but not change it (`UpdatedKeeps`, `UpdatedSays`). So the walk ends at the count
  (`WalkReads`). For the dense form bytes are taken apart into bits (`BitsOf`, `BitOrIs`) and a register is a field of
  two bytes (`FieldIs`): an OR only raises (`BitOrKeeps`), and what `ClearedNext` takes is bit 2 of the register after
  next of one that begins a byte, which is every fourth (`SetKeeps`, `Lost`). The conversion is another walk, which
  stops at a VAL that would go beyond the last register; if it has then counted all registers, it has met each in the
  opcode in which `OpAt` finds it (`WalkConverts`, `DenseHolds`), and otherwise nothing of it is kept. A merge after a
  conversion that failed goes on in the sparse bytes: what `TypeOK` says of their size is all that holds then, and
  `KeepsCounts` leaves the step out.
- `Induction`. The library's induction theorems take a predicate, which the provers at hand cannot be given; here
  they are stated over sets (`SetInduction`, `RankInduction`), and from them that a function defined along a chain
  of falling rank exists (`RecursionExists`) and is the only one (`RecursionIsUnique`). The walks of the skip list,
  of the list pack and of the registers, chains and the replay of a log are such functions: each is a `CHOOSE` of which nothing is known until one is shown to exist.

The assumptions are those named in the modules (`IoAssumption`, `ScriptAssumption`, `CoreAssumption`,
`DictAssumption`, `ReplicationAssumption`, `ListPackAssumption`, `NumbersAssumption`, `HyperLogLogAssumption`); TLC
evaluates them in every run.

Every invariant and every action property of a passing run, and the three refinements, are theorems. Only
model-checked: the liveness properties (`ParsedIsAnswered`, `AofBuffIsWrittenOut`, `SyncReturns`), which rest on
fairness and are out of the provers' reach.

## 5. Not modelled, and the plan

What is left that could be added, most valuable first:

1. `display_list`, which walks without the lock like the search. The mode without IO threads (`readQueryFromClient`) and time events, neither of which `main()` uses.
2. `hllCount`: the histogram of the registers. The estimate made of it is floating point, out of TLC's reach.

Left out for good:

- `AOFRW` and `reWriteBaseAofFile`: nothing calls them, and the child thread works on a copy of the server whose
  dictionary shares its nodes with the original and frees them, so that what follows the first call is undefined.
- `CmdBinaryBuff::writeCmdBack` and `REPL_STATE_LONG_CONNECT`: the one has no caller, the other is never sent.
- The size of `events[]` and `fired[]` (127): what a larger descriptor meets depends on the build.
- Memory (`realloc`, destructors, copies), and the text files of the skip list: input and output, not state.
- The 64-bit encoding of the list pack, `lpSafeToAdd`, and the buffer of `lpGet`.
- `repl_old.cpp` and `repl_old.h` are commented out; the test functions of `main.cpp` are sample calls not reached
  from `main()`; logging and the text of replies beyond their identity; `Dict::dump` and `load`, which are empty.
