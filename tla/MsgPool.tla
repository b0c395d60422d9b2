------------------------------ MODULE MsgPool ------------------------------
(***************************************************************************)
(* The life of the act_msg cells of activity.c at the level of the loads   *)
(* and stores of pool.c.  A sender takes a cell from act_msg_pool and      *)
(* queues it while it holds the lock of the activity it sends to; the      *)
(* thread of that activity takes the cell from the queue under the same    *)
(* lock and gives it back to the pool after it has let go of the lock.     *)
(* The pool is one for all activities and has no lock of its own.          *)
(*                                                                         *)
(* The list operations are taken apart as in pool.c: p->freed is read,     *)
(* then the link of the cell, then p->freed is written.  Carving a new     *)
(* cell increments p->used, a load and a store, within one block.          *)
(***************************************************************************)
EXTENDS Integers, Sequences, FiniteSets

CONSTANTS Act,      \* activities, each with its lock and its thread
          Sender,   \* threads that send messages
          MaxCells, \* bound: cells carved
          NULL

VARIABLES
  freed,     \* p->freed
  next_free, \* the link in each cell
  used,      \* number of cells carved from the block
  lock,      \* act->lock: the thread that holds it, or NULL
  msg_queue, \* act->msg_queue
  pc         \* place and registers of each thread

vars == <<freed, next_free, used, lock, msg_queue, pc>>

Cell == 1..MaxCells
Thread == Sender \union Act          \* an activity names its own thread
Idle == [at |-> "idle"]
At(t, where) == pc[t].at = where
Goto(t, place) == pc' = [pc EXCEPT ![t] = place]

Init ==
  /\ freed = NULL
  /\ next_free = [m \in Cell |-> NULL]
  /\ used = 0
  /\ lock = [a \in Act |-> NULL]
  /\ msg_queue = [a \in Act |-> <<>>]
  /\ pc = [t \in Thread |-> Idle]

activity_msg_send(s, a) ==
  /\ At(s, "idle") /\ lock[a] = NULL
  /\ lock' = [lock EXCEPT ![a] = s]
  /\ Goto(s, [at |-> "malloc", act |-> a])
  /\ UNCHANGED <<freed, next_free, used, msg_queue>>

pool_malloc_read_freed(s) ==
  /\ At(s, "malloc")
  /\ Goto(s, IF freed # NULL
             THEN [at |-> "link", act |-> pc[s].act, cell |-> freed]
             ELSE [at |-> "carve", act |-> pc[s].act, used |-> used])
  /\ UNCHANGED <<freed, next_free, used, lock, msg_queue>>

pool_malloc_read_link(s) ==
  /\ At(s, "link")
  /\ Goto(s, [at |-> "unlink", act |-> pc[s].act, cell |-> pc[s].cell,
              next |-> next_free[pc[s].cell]])
  /\ UNCHANGED <<freed, next_free, used, lock, msg_queue>>

pool_malloc_write_freed(s) ==
  /\ At(s, "unlink")
  /\ freed' = pc[s].next
  /\ Goto(s, [at |-> "enqueue", act |-> pc[s].act, cell |-> pc[s].cell])
  /\ UNCHANGED <<next_free, used, lock, msg_queue>>

pool_malloc_carve(s) ==
  /\ At(s, "carve") /\ pc[s].used < MaxCells
  /\ used' = pc[s].used + 1
  /\ Goto(s, [at |-> "enqueue", act |-> pc[s].act, cell |-> pc[s].used + 1])
  /\ UNCHANGED <<freed, next_free, lock, msg_queue>>

msg_enqueue(s) ==
  LET a == pc[s].act IN
  /\ At(s, "enqueue")
  /\ msg_queue' = [msg_queue EXCEPT ![a] = Append(@, pc[s].cell)]
  /\ lock' = [lock EXCEPT ![a] = NULL]
  /\ Goto(s, Idle)
  /\ UNCHANGED <<freed, next_free, used>>

(* The dequeue under the lock; the handler runs before the cell is freed.  *)
msg_dequeue(a) ==
  /\ At(a, "idle") /\ lock[a] = NULL /\ msg_queue[a] # <<>>
  /\ msg_queue' = [msg_queue EXCEPT ![a] = Tail(@)]
  /\ Goto(a, [at |-> "free", cell |-> Head(msg_queue[a])])
  /\ UNCHANGED <<freed, next_free, used, lock>>

pool_free_read_freed(a) ==
  /\ At(a, "free")
  /\ Goto(a, [at |-> "push", cell |-> pc[a].cell, next |-> freed])
  /\ UNCHANGED <<freed, next_free, used, lock, msg_queue>>

pool_free_write_freed(a) ==
  /\ At(a, "push")
  /\ freed' = pc[a].cell
  /\ Goto(a, [at |-> "relink", cell |-> pc[a].cell, next |-> pc[a].next])
  /\ UNCHANGED <<next_free, used, lock, msg_queue>>

(* p->freed is read once more for the store of the link.                   *)
pool_free_write_link(a) ==
  /\ At(a, "relink")
  /\ next_free' = IF freed = NULL THEN next_free
                  ELSE [next_free EXCEPT ![freed] = pc[a].next]
  /\ Goto(a, Idle)
  /\ UNCHANGED <<freed, used, lock, msg_queue>>

Next ==
  \/ \E s \in Sender :
       \/ \E a \in Act : activity_msg_send(s, a)
       \/ pool_malloc_read_freed(s)
       \/ pool_malloc_read_link(s)
       \/ pool_malloc_write_freed(s)
       \/ pool_malloc_carve(s)
       \/ msg_enqueue(s)
  \/ \E a \in Act :
       \/ msg_dequeue(a)
       \/ pool_free_read_freed(a)
       \/ pool_free_write_freed(a)
       \/ pool_free_write_link(a)

Spec == Init /\ [][Next]_vars
-----------------------------------------------------------------------------
(* Places where a message can be: position i of a queue, or a thread that  *)
(* is about to queue it or is handling it.                                 *)
Queued == UNION {{<<a, i>> : i \in 1..Len(msg_queue[a])} : a \in Act}
Holding == {t \in Thread : pc[t].at \in {"enqueue", "free"}}

(* A message sent to an activity is in a cell of its own until it has been *)
(* handled, so that it reaches "the message queue of the activity object"  *)
(* (activity.h:93) and no other message takes its place.                   *)
OneMessagePerCell ==
  /\ \A p, q \in Queued : msg_queue[p[1]][p[2]] = msg_queue[q[1]][q[2]] => p = q
  /\ \A t, u \in Holding : pc[t].cell = pc[u].cell => t = u
  /\ \A p \in Queued, t \in Holding : msg_queue[p[1]][p[2]] # pc[t].cell
=============================================================================
