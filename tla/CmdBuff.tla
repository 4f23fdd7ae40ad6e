-------------------------------- MODULE CmdBuff -------------------------------
(***************************************************************************)
(* The ring of commands that Server keeps twice: cmdbuff for replication   *)
(* and aof_buff for the append-only file.  A ring is a record, an          *)
(* operation a function from rings to rings.  Indices are physical, from   *)
(* 0, as CmdBuff::at takes them.                                           *)
(***************************************************************************)
EXTENDS Integers, Sequences

Rings(capacity, cmds) ==
  [v : [0 .. capacity - 1 -> cmds], start : 0 .. capacity - 1,
   end : 0 .. capacity - 1, size : 0 .. capacity, capacity : {capacity}]

EmptyRing(capacity, cmd) ==
  [v |-> [i \in 0 .. capacity - 1 |-> cmd],
   start |-> 0, end |-> 0, size |-> 0, capacity |-> capacity]

\* Mutation of PushBack: a full ring keeps its start.
PushBackKeepingStart(b, cmd) ==
  [v        |-> [b.v EXCEPT ![b.end] = cmd],
   start    |-> b.start,
   end      |-> (b.end + 1) % b.capacity,
   size     |-> IF b.size < b.capacity THEN b.size + 1 ELSE b.size,
   capacity |-> b.capacity]

\* Mutation of PushBack: the size also counts what was overwritten.
PushBackOvercounting(b, cmd) ==
  [v        |-> [b.v EXCEPT ![b.end] = cmd],
   start    |-> IF b.size < b.capacity THEN b.start ELSE (b.start + 1) % b.capacity,
   end      |-> (b.end + 1) % b.capacity,
   size     |-> b.size + 1,
   capacity |-> b.capacity]

\* A full ring forgets its oldest command.
PushBack(b, cmd) ==
  [v        |-> [b.v EXCEPT ![b.end] = cmd],
   start    |-> IF b.size < b.capacity THEN b.start ELSE (b.start + 1) % b.capacity,
   end      |-> (b.end + 1) % b.capacity,
   size     |-> IF b.size < b.capacity THEN b.size + 1 ELSE b.size,
   capacity |-> b.capacity]

Cleared(b) ==
  [v |-> b.v, start |-> 0, end |-> 0, size |-> 0, capacity |-> b.capacity]

\* at(0), at(1), ..., at(size - 1): what writeInrcAofFile writes.  The index is the
\* physical one, so this is the order of arrival only while start is 0.
Scanned(b) == [i \in 1 .. b.size |-> b.v[i - 1]]

\* The commands of the ring, oldest first.
Contents(b) == [i \in 1 .. b.size |-> b.v[(b.start + (i - 1)) % b.capacity]]
===============================================================================
