------------------------------ MODULE KvService -------------------------------
(***************************************************************************)
(* What the server promises a client that sends one command at a time: the *)
(* command takes effect on the database once, at some moment between the   *)
(* send and the reply, and the reply is its result.  Threads, queues and   *)
(* sockets do not appear.                                                  *)
(***************************************************************************)
CONSTANTS Clients, DbKeys, DbVals, Absent, Bucket

INSTANCE LossyMap

Requests == [op : {"set", "get", "shutdown"}, key : DbKeys, val : DbVals]
Nothing  == Absent   \* no request, or no answer yet

VARIABLES
  phase,    \* client -> "idle", "sent" or "executed"
  request,  \* client -> the command it waits for
  answer,   \* client -> the reply on its way to it
  store     \* the database

kvVars == <<phase, request, answer, store>>

KvInit ==
  /\ phase = [c \in Clients |-> "idle"]
  /\ request = [c \in Clients |-> Nothing]
  /\ answer = [c \in Clients |-> Nothing]
  /\ store = EmptyMap

Invoke(c) ==
  /\ phase[c] = "idle"
  /\ \E r \in Requests : request' = [request EXCEPT ![c] = r]
  /\ phase' = [phase EXCEPT ![c] = "sent"]
  /\ UNCHANGED <<answer, store>>

\* The one moment a command touches the database: execCommand.
Execute(c) ==
  /\ phase[c] = "sent"
  /\ LET r == request[c]
     IN  \/ /\ r.op = "set"
            /\ store' = MapInsert(store, r.key, r.val)
            /\ answer' = [answer EXCEPT ![c] = "ok"]
         \/ /\ r.op = "get"
            /\ answer' = [answer EXCEPT ![c] =
                 IF MapFind(store, r.key) = Absent THEN "Not found!"
                                                   ELSE MapFind(store, r.key)]
            /\ UNCHANGED store
         \/ /\ r.op = "shutdown"
            /\ answer' = [answer EXCEPT ![c] = "server is shutdown!"]
            /\ UNCHANGED store
  /\ phase' = [phase EXCEPT ![c] = "executed"]
  /\ UNCHANGED request

Respond(c) ==
  /\ phase[c] = "executed"
  /\ phase' = [phase EXCEPT ![c] = "idle"]
  /\ request' = [request EXCEPT ![c] = Nothing]
  /\ answer' = [answer EXCEPT ![c] = Nothing]
  /\ UNCHANGED store

KvNext == \E c \in Clients : Invoke(c) \/ Execute(c) \/ Respond(c)

KvSpec == KvInit /\ [][KvNext]_kvVars
===============================================================================
