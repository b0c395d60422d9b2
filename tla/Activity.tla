------------------------------ MODULE Activity ------------------------------
(***************************************************************************)
(* The activity objects of activity.c: each has a message queue and a      *)
(* thread that runs a libuev event loop; a manager starts, stops and lists *)
(* them.  Callers are any other threads of the program.                    *)
(*                                                                         *)
(* A region under act->lock is one step: everything else that touches the  *)
(* queue holds that lock too.  act->state is also written without it, by   *)
(* activity_run_local after pthread_create, and that write is a step of    *)
(* its own.  The act_manager_lock is held over several steps and is a      *)
(* variable.  Every allocation, and the set-up of the event loop and of    *)
(* the thread, may fail.                                                   *)
(*                                                                         *)
(* A message carries its identity, its type, and whether it owns a copy of *)
(* the caller's argument (ACT_ATTR_GC, in the message or in its exec item).*)
(* The pools are taken to be atomic here; MsgPool.tla looks inside them.   *)
(*                                                                         *)
(* activity_manager_fini frees the pools and the heap although messages    *)
(* may still be queued and threads at work.  A step that then touches a    *)
(* message, an exec item or an argument, and a join of a thread that has   *)
(* been joined, are undefined in C: nothing is said of what follows them.  *)
(***************************************************************************)
EXTENDS Integers, Sequences, FiniteSets

CONSTANTS Act,      \* the activity objects
          Caller,   \* threads that use them
          MaxMsgs,  \* bound: messages offered over the whole run
          MaxRuns,  \* bound: threads started for one activity
          None      \* no thread, no activity

ASSUME BoundAssumption == MaxMsgs \in Nat /\ MaxRuns \in Nat \ {0}
ASSUME NoneAssumption == None \notin Act /\ None \notin Caller

VARIABLES
  mgr,          \* manager: "down", "up", "failed" or "gone"; "broken" once
                \* a step has been taken that is undefined in C
  manager_lock, \* act_manager_lock: the caller that holds it, or None
  act_list,     \* activities registered
  state,        \* act->state
  msg_queue,    \* act->msg_queue
  event,        \* act->event: an unread post is in the eventfd
  running,      \* the event loop of act->ctx has not been told to exit
  timer,        \* act->timer is armed
  thread,       \* act->thread: number of the thread created last, 0 for none
  worker,       \* the threads of each activity: [at, msg]
  joined,       \* those of them that have been joined
  caller,       \* what each caller is doing
  nextId,       \* identity of the next message
  cells,        \* act_msg_pool: number of messages handed out
  items,        \* exec_item_pool: exec items handed out, by message
  heap          \* act_heapmem: argument copies allocated, by message

actVars == <<state, msg_queue, event, running, timer, thread, worker, joined>>
memVars == <<cells, items, heap>>
vars == <<mgr, manager_lock, act_list, actVars, caller, nextId, memVars>>

(* The pools and the heap have been freed.                                 *)
Freed == mgr \in {"gone", "broken"}

Run == 1..MaxRuns
Ids == 1..MaxMsgs
Types == {"user", "exec", "periodic", "stop"}
Msg == [id : 0..MaxMsgs, type : Types, gc : BOOLEAN]
Message(id, type, gc) == [id |-> id, type |-> type, gc |-> gc]
STOP == Message(0, "stop", FALSE)

Idle == [at |-> "idle"]
Goto(c, pc) == caller' = [caller EXCEPT ![c] = pc]
At(c, where) == caller[c].at = where

(* A thread that has been created and has not yet given up act->ctx.       *)
Active(a, r) == worker[a][r].at \notin {"none", "done"}
Work(at) == [at |-> at, msg |-> STOP]
SetWorker(a, r, w) == worker' = [worker EXCEPT ![a][r] = w]

Init ==
  /\ mgr = "down"
  /\ manager_lock = None
  /\ act_list = {}
  /\ state = [a \in Act |-> "NONE"]
  /\ msg_queue = [a \in Act |-> <<>>]
  /\ event = [a \in Act |-> FALSE]
  /\ running = [a \in Act |-> FALSE]
  /\ timer = [a \in Act |-> FALSE]
  /\ thread = [a \in Act |-> 0]
  /\ worker = [a \in Act |-> [r \in Run |-> Work("none")]]
  /\ joined = [a \in Act |-> {}]
  /\ caller = [c \in Caller |-> Idle]
  /\ nextId = 1
  /\ cells = 0
  /\ items = {}
  /\ heap = {}
-----------------------------------------------------------------------------
(* Slip, for the mutation runs: the event is not posted.                   *)
msg_enqueue_silent(a, m) ==
  /\ cells' = cells + 1
  /\ msg_queue' = [msg_queue EXCEPT ![a] = Append(@, m)]
  /\ UNCHANGED event

(* Called with act->lock held; the caller of msg_enqueue decides about the *)
(* failing pool_malloc.                                                    *)
msg_enqueue(a, m) ==
  /\ cells' = cells + 1
  /\ msg_queue' = [msg_queue EXCEPT ![a] = Append(@, m)]
  /\ event' = [event EXCEPT ![a] = TRUE]

(* Slip: the object goes on accepting messages behind the STOP.            *)
activity_set_pendding_exit_open(a, ret) ==
  /\ ret = "ok"
  /\ state[a] = "RUN"
  /\ msg_enqueue(a, STOP)
  /\ UNCHANGED state

(* The three outcomes of activity_set_pendding_exit.                       *)
activity_set_pendding_exit(a, ret) ==
  \/ /\ state[a] # "RUN"
     /\ ret = "refused"
     /\ UNCHANGED <<state, msg_queue, event, cells>>
  \/ /\ state[a] = "RUN"
     /\ ret = "nomem"
     /\ UNCHANGED <<state, msg_queue, event, cells>>
  \/ /\ state[a] = "RUN"
     /\ ret = "ok"
     /\ msg_enqueue(a, STOP)
     /\ state' = [state EXCEPT ![a] = "PENDING_STOP"]
-----------------------------------------------------------------------------
(* activity_msg_send, first part: the arguments are accepted, and with     *)
(* arg_size # 0 the argument is copied to the heap.                        *)
activity_msg_send_begin(c, a, gc) ==
  /\ mgr = "up" /\ At(c, "idle") /\ nextId <= MaxMsgs /\ a \in act_list
  /\ nextId' = nextId + 1
  /\ \/ /\ Goto(c, [at |-> "sending", act |-> a, msg |-> Message(nextId, "user", gc)])
        /\ heap' = IF gc THEN heap \union {nextId} ELSE heap
     \/ /\ gc                                         \* wof_alloc fails
        /\ UNCHANGED <<caller, heap>>
  /\ UNCHANGED <<mgr, manager_lock, act_list, actVars, cells, items>>

(* activity_exec, first part: an exec item, then the copy of the argument. *)
activity_exec_begin(c, a, gc) ==
  /\ mgr = "up" /\ At(c, "idle") /\ nextId <= MaxMsgs /\ a \in act_list
  /\ nextId' = nextId + 1
  /\ \/ /\ Goto(c, [at |-> "sending", act |-> a, msg |-> Message(nextId, "exec", gc)])
        /\ items' = items \union {nextId}
        /\ heap' = IF gc THEN heap \union {nextId} ELSE heap
     \/ UNCHANGED <<caller, items, heap>>             \* one of the two fails
  /\ UNCHANGED <<mgr, manager_lock, act_list, actVars, cells>>

(* Slip: the copy of the argument is forgotten.                            *)
Release_keeps_arg(m) ==
  /\ items' = IF m.type = "exec" THEN items \ {m.id} ELSE items
  /\ UNCHANGED heap

(* Giving back what a message that was not accepted, or has been handled,  *)
(* owned.                                                                  *)
Release(m) ==
  /\ heap' = IF m.gc THEN heap \ {m.id} ELSE heap
  /\ items' = IF m.type = "exec" THEN items \ {m.id} ELSE items

(* Slip: only a stopped object refuses messages.                           *)
Accepts_while_stopping(a) == state[a] \in {"RUN", "PENDING_STOP"}

(* The test of act->state in activity_msg_send.                            *)
Accepts(a) == state[a] = "RUN"

OwnsNothing(m) == ~m.gc /\ m.type # "exec"

(* activity_msg_send, second part, under act->lock; for an exec message    *)
(* the error path of activity_exec follows at once.                        *)
activity_msg_send(c) ==
  LET a == caller[c].act
      m == caller[c].msg
  IN
  /\ At(c, "sending")
  /\ \/ /\ Accepts(a)
        /\ msg_enqueue(a, m)
        /\ UNCHANGED <<items, heap>>
     \/ /\ Release(m)                \* not running, or no room in the pool
        /\ UNCHANGED <<msg_queue, event, cells>>
  /\ Freed => ~Accepts(a) /\ OwnsNothing(m)
  /\ Goto(c, Idle)
  /\ UNCHANGED <<mgr, manager_lock, act_list, state, running, timer, thread,
                 worker, nextId, joined>>

activity_periodic_event_enable(c, a) ==
  /\ mgr = "up" /\ At(c, "idle") /\ a \in act_list
  /\ timer' = [timer EXCEPT ![a] = running[a]]
  /\ UNCHANGED <<mgr, manager_lock, act_list, state, msg_queue, event, running,
                 thread, worker, caller, nextId, memVars, joined>>

activity_periodic_event_disable(c, a) ==
  /\ mgr = "up" /\ At(c, "idle") /\ a \in act_list
  /\ timer' = [timer EXCEPT ![a] = FALSE]
  /\ UNCHANGED <<mgr, manager_lock, act_list, state, msg_queue, event, running,
                 thread, worker, caller, nextId, memVars, joined>>
-----------------------------------------------------------------------------
(* activity_reg: the name check, the fresh object and its list node.       *)
activity_reg(c, a) ==
  /\ mgr = "up" /\ At(c, "idle") /\ manager_lock = None
  /\ a \notin act_list
  /\ manager_lock' = c
  /\ act_list' = act_list \union {a}
  /\ state' = [state EXCEPT ![a] = "STOP"]
  /\ msg_queue' = [msg_queue EXCEPT ![a] = <<>>]
  /\ Goto(c, [at |-> "run", act |-> a])
  /\ UNCHANGED <<mgr, event, running, timer, thread, worker, nextId, memVars, joined>>

activity_run(c, a) ==
  /\ mgr = "up" /\ At(c, "idle") /\ manager_lock = None
  /\ a \in act_list
  /\ manager_lock' = c
  /\ Goto(c, [at |-> "run", act |-> a])
  /\ UNCHANGED <<mgr, act_list, actVars, nextId, memVars>>

(* Slip: only the state RUN is asked about.                                *)
MayStart_unless_running(a) == state[a] # "RUN"

(* The tests of act->state at the head of activity_run_local.              *)
MayStart(a) == state[a] = "STOP"

(* activity_run_local up to pthread_create, which sets act->thread and     *)
(* lets the new thread run before act->state says so.                      *)
activity_run_local(c) ==
  LET a == caller[c].act
      r == thread[a] + 1
  IN
  /\ At(c, "run")
  /\ \/ /\ MayStart(a) /\ r \in Run
        /\ running' = [running EXCEPT ![a] = TRUE]
        /\ event' = [event EXCEPT ![a] = FALSE]
        /\ thread' = [thread EXCEPT ![a] = r]
        /\ SetWorker(a, r, Work("init"))
        /\ Goto(c, [at |-> "created", act |-> a])
        /\ UNCHANGED manager_lock
     \/ /\ Goto(c, Idle)            \* wrong state, or one of the set-ups fails
        /\ manager_lock' = None
        /\ UNCHANGED <<running, event, thread, worker>>
  /\ UNCHANGED <<mgr, act_list, state, msg_queue, timer, nextId, memVars, joined>>

(* The rest of activity_run_local: the write of act->state, outside        *)
(* act->lock, and the return to activity_run or activity_reg.              *)
activity_run_local_end(c) ==
  /\ At(c, "created")
  /\ state' = [state EXCEPT ![caller[c].act] = "RUN"]
  /\ manager_lock' = None
  /\ Goto(c, Idle)
  /\ UNCHANGED <<mgr, act_list, msg_queue, event, running, timer, thread, worker,
                 nextId, memVars, joined>>

(* activity_stop up to the unlock.  own is the thread whose end was asked  *)
(* for; the code does not keep it.                                         *)
activity_stop(c, a, wait_finish) ==
  /\ mgr = "up" /\ At(c, "idle") /\ a \in act_list
  /\ \E ret \in {"ok", "refused", "nomem"} :
       /\ activity_set_pendding_exit(a, ret)
       /\ Goto(c, IF ret = "ok" /\ wait_finish
                  THEN [at |-> "stopping", act |-> a, own |-> thread[a]]
                  ELSE Idle)
  /\ UNCHANGED <<mgr, manager_lock, act_list, running, timer, thread, worker,
                 nextId, items, heap, joined>>

(* act->thread is read only now, for pthread_join: it may name a thread    *)
(* started since, for which another stop waits too, or which nobody stops. *)
activity_stop_read_thread(c) ==
  LET pc == caller[c] IN
  /\ At(c, "stopping")
  /\ Goto(c, [at |-> "joining", act |-> pc.act, own |-> pc.own,
              target |-> thread[pc.act]])
  /\ UNCHANGED <<mgr, manager_lock, act_list, actVars, nextId, memVars>>

(* Another caller waits for the same thread.                               *)
JoinShared(c) ==
  \E d \in Caller \ {c} : /\ At(d, "joining")
                          /\ caller[d].act = caller[c].act
                          /\ caller[d].target = caller[c].target

(* activity_stop does not look at what pthread_join returns: a join of a   *)
(* thread that another caller is joining fails, and activity_stop returns  *)
(* at once.                                                                *)
activity_stop_joined(c) ==
  LET a == caller[c].act
      r == caller[c].target
  IN
  /\ At(c, "joining")
  /\ \/ /\ worker[a][r].at = "done"
        /\ joined' = [joined EXCEPT ![a] = @ \union {r}]
     \/ /\ JoinShared(c)
        /\ UNCHANGED joined
  /\ Goto(c, Idle)
  /\ UNCHANGED <<mgr, manager_lock, act_list, state, msg_queue, event, running,
                 timer, thread, worker, nextId, memVars>>

(* The program does something that is undefined in C.                      *)
Break ==
  /\ mgr' = "broken"
  /\ UNCHANGED <<manager_lock, act_list, actVars, caller, nextId, memVars>>

(* A thread may be joined only once.                                       *)
activity_stop_joins_again(c) ==
  /\ At(c, "joining")
  /\ caller[c].target \in joined[caller[c].act]
  /\ Break

(* A send that was begun before the pools and the heap were freed.         *)
activity_msg_send_after_fini(c) ==
  /\ mgr = "gone" /\ At(c, "sending")
  /\ Accepts(caller[c].act) \/ ~OwnsNothing(caller[c].msg)
  /\ Break
-----------------------------------------------------------------------------
(* The thread of an activity.  uev_run returns once uev_exit was called;   *)
(* it reads the eventfd before it calls msg_queue_handler.                 *)
activity_thread_init(a, r) ==
  /\ worker[a][r].at = "init"
  /\ SetWorker(a, r, Work("loop"))
  /\ UNCHANGED <<mgr, manager_lock, act_list, state, msg_queue, event, running,
                 timer, thread, caller, nextId, memVars, joined>>

uev_run_event(a, r) ==
  /\ worker[a][r].at = "loop" /\ running[a] /\ event[a]
  /\ event' = [event EXCEPT ![a] = FALSE]
  /\ SetWorker(a, r, Work("dequeue"))
  /\ UNCHANGED <<mgr, manager_lock, act_list, state, msg_queue, running, timer,
                 thread, caller, nextId, memVars, joined>>

(* periodic_event_cb sends to its own activity and ignores the result.     *)
periodic_event_cb(a, r) ==
  /\ Freed => ~Accepts(a)
  /\ worker[a][r].at = "loop" /\ running[a] /\ timer[a] /\ nextId <= MaxMsgs
  /\ nextId' = nextId + 1
  /\ \/ /\ Accepts(a)
        /\ msg_enqueue(a, Message(nextId, "periodic", FALSE))
     \/ UNCHANGED <<msg_queue, event, cells>>
  /\ UNCHANGED <<mgr, manager_lock, act_list, state, running, timer, thread,
                 worker, caller, items, heap, joined>>

msg_dequeue(a, r) ==
  /\ worker[a][r].at = "dequeue"
  /\ \/ /\ msg_queue[a] = <<>>
        /\ SetWorker(a, r, Work("loop"))
        /\ UNCHANGED msg_queue
     \/ /\ msg_queue[a] # <<>> /\ ~Freed
        /\ SetWorker(a, r, [at |-> "handle", msg |-> Head(msg_queue[a])])
        /\ msg_queue' = [msg_queue EXCEPT ![a] = Tail(@)]
  /\ UNCHANGED <<mgr, manager_lock, act_list, state, event, running, timer, thread,
                 caller, nextId, memVars, joined>>

(* Slips: a message is handled once for each post; the event loop is not   *)
(* told to end.                                                            *)
AfterMessage_returns == Work("loop")
uev_exit_ignored(a) == UNCHANGED <<running, timer>>

(* msg_queue_handler goes round again until the queue is empty.            *)
AfterMessage == Work("dequeue")

uev_exit(a) ==
  /\ running' = [running EXCEPT ![a] = FALSE]
  /\ timer' = [timer EXCEPT ![a] = FALSE]

pool_free_msg == cells' = cells - 1

(* act_msg_handler, then the message goes back to its pool.  uev_exit ends *)
(* the loop and stops its watchers.                                        *)
act_msg_handler(a, r) ==
  LET m == worker[a][r].msg IN
  /\ worker[a][r].at = "handle" /\ ~Freed
  /\ \/ /\ m.type = "stop"
        /\ uev_exit(a)
     \/ /\ m.type # "stop"
        /\ UNCHANGED <<running, timer>>
  /\ Release(m)
  /\ pool_free_msg
  /\ SetWorker(a, r, AfterMessage)
  /\ UNCHANGED <<mgr, manager_lock, act_list, state, msg_queue, event, thread,
                 caller, nextId, joined>>

(* A thread goes on with a message of the freed pools: it takes it off the *)
(* queue, handles it, or lets its timer queue one.                         *)
thread_after_fini(a, r) ==
  /\ mgr = "gone"
  /\ \/ worker[a][r].at = "dequeue" /\ msg_queue[a] # <<>>
     \/ worker[a][r].at = "handle"
     \/ worker[a][r].at = "loop" /\ running[a] /\ timer[a] /\ Accepts(a)
  /\ Break

(* Slip: the object counts as stopped before its fini callback has run.    *)
uev_run_return_early(a, r) ==
  /\ worker[a][r].at = "loop" /\ ~running[a]
  /\ SetWorker(a, r, Work("fini"))
  /\ state' = [state EXCEPT ![a] = "STOP"]
  /\ UNCHANGED <<mgr, manager_lock, act_list, msg_queue, event, running, timer,
                 thread, caller, nextId, memVars, joined>>

uev_run_return(a, r) ==
  /\ worker[a][r].at = "loop" /\ ~running[a]
  /\ SetWorker(a, r, Work("fini"))
  /\ UNCHANGED <<mgr, manager_lock, act_list, state, msg_queue, event, running,
                 timer, thread, caller, nextId, memVars, joined>>

(* cfg->fini, then the clean-up under act->lock.                           *)
activity_thread_exit(a, r) ==
  /\ worker[a][r].at = "fini"
  /\ event' = [event EXCEPT ![a] = FALSE]
  /\ timer' = [timer EXCEPT ![a] = FALSE]
  /\ state' = [state EXCEPT ![a] = "STOP"]
  /\ SetWorker(a, r, Work("done"))
  /\ UNCHANGED <<mgr, manager_lock, act_list, msg_queue, running, thread, caller,
                 nextId, memVars, joined>>
-----------------------------------------------------------------------------
activity_manager_init ==
  /\ mgr = "down"
  /\ mgr' \in {"up", "failed"}
  /\ UNCHANGED <<manager_lock, act_list, actVars, caller, nextId, memVars>>

activity_manager_fini(c) ==
  /\ mgr = "up" /\ At(c, "idle")
  /\ \A d \in Caller : ~At(d, "fini")
  /\ Goto(c, [at |-> "fini", todo |-> act_list])
  /\ UNCHANGED <<mgr, manager_lock, act_list, actVars, nextId, memVars>>

(* The first loop of activity_manager_fini ignores what                    *)
(* activity_set_pendding_exit returns.                                     *)
activity_manager_fini_stop(c, a) ==
  /\ At(c, "fini") /\ a \in caller[c].todo
  /\ \E ret \in {"ok", "refused", "nomem"} : activity_set_pendding_exit(a, ret)
  /\ Goto(c, [at |-> "fini", todo |-> caller[c].todo \ {a}])
  /\ UNCHANGED <<mgr, manager_lock, act_list, running, timer, thread, worker,
                 nextId, items, heap, joined>>

(* The second loop joins no thread; then the pools and the heap go, with   *)
(* all cells, exec items and copies.  The queues of the objects still lead *)
(* to them.                                                                *)
activity_manager_fini_end(c) ==
  /\ At(c, "fini") /\ caller[c].todo = {}
  /\ mgr' = "gone"
  /\ act_list' = {}
  /\ cells' = 0
  /\ items' = {}
  /\ heap' = {}
  /\ Goto(c, Idle)
  /\ UNCHANGED <<manager_lock, actVars, nextId>>
-----------------------------------------------------------------------------
CallerStep(c) ==
  \/ \E a \in Act, flag \in BOOLEAN :
       \/ activity_msg_send_begin(c, a, flag)
       \/ activity_exec_begin(c, a, flag)
       \/ activity_stop(c, a, flag)
  \/ \E a \in Act :
       \/ activity_reg(c, a)
       \/ activity_run(c, a)
       \/ activity_periodic_event_enable(c, a)
       \/ activity_periodic_event_disable(c, a)
  \/ activity_manager_fini(c)

(* A caller inside a call.                                                 *)
CallStep(c) == mgr # "broken" /\
  \/ activity_msg_send(c)
  \/ activity_msg_send_after_fini(c)
  \/ activity_run_local(c)
  \/ activity_run_local_end(c)
  \/ activity_stop_read_thread(c)
  \/ activity_stop_joined(c)
  \/ activity_stop_joins_again(c)
  \/ \E a \in Act : activity_manager_fini_stop(c, a)
  \/ activity_manager_fini_end(c)

WorkerStep(a, r) == mgr # "broken" /\
  \/ activity_thread_init(a, r)
  \/ uev_run_event(a, r)
  \/ msg_dequeue(a, r)
  \/ act_msg_handler(a, r)
  \/ uev_run_return(a, r)
  \/ activity_thread_exit(a, r)
  \/ thread_after_fini(a, r)

TimerStep(a, r) == mgr # "broken" /\ periodic_event_cb(a, r)

Next ==
  \/ activity_manager_init
  \/ \E c \in Caller : CallerStep(c) \/ CallStep(c)
  \/ \E a \in Act, r \in Run : WorkerStep(a, r) \/ TimerStep(a, r)

(* The operating system schedules the thread of an activity when it can    *)
(* run; nothing is assumed of the callers and the timers.                  *)
Fairness ==
  \A a \in Act : WF_vars(\E r \in Run : WorkerStep(a, r))

Spec == Init /\ [][Next]_vars
FairSpec == Spec /\ Fairness
-----------------------------------------------------------------------------
Handling(a) == {r \in Run : worker[a][r].at = "handle"}

(* Messages that the thread of a has taken and those still queued.         *)
InHand(a) == IF Handling(a) = {} THEN <<>>
             ELSE <<worker[a][CHOOSE r \in Handling(a) : TRUE].msg>>
Accepted(a) == InHand(a) \o msg_queue[a]
InFlight == {caller[c].msg : c \in {d \in Caller : At(d, "sending")}}
Owned == InFlight \union
         UNION {{Accepted(a)[i] : i \in 1..Len(Accepted(a))} : a \in Act}

Cells == UNION {{a} \X (1..Len(Accepted(a))) : a \in Act}

(* However starts, stops and registrations interleave, an activity never   *)
(* has two threads at work on the same event loop and queue: the write of  *)
(* act->state after pthread_create opens no gap for a second start, since  *)
(* the manager lock covers both.                                           *)
AtMostOneWorker ==
  \A a \in Act : \A r, q \in Run : Active(a, r) /\ Active(a, q) => r = q

(* A queued message is never forgotten: either the eventfd still holds a   *)
(* post or the thread is still going round the loop of msg_queue_handler,  *)
(* which ends only on an empty queue.                                      *)
NoLostWakeup ==
  \A a \in Act : msg_queue[a] # <<>> =>
    \/ event[a] /\ \E r \in Run : Active(a, r)
    \/ \E r \in Run : worker[a][r].at \in {"dequeue", "handle"}

(* ACTIVITY_MSG_STOP is the last message of a run: nothing is accepted     *)
(* behind it, so a thread that ends leaves an empty queue to the next one. *)
StopIsLast ==
  \A a \in Act :
    /\ \A i \in 1..Len(Accepted(a)) : Accepted(a)[i].type = "stop" =>
         i = Len(Accepted(a)) /\ state[a] = "PENDING_STOP"
    /\ state[a] = "STOP" => Accepted(a) = <<>>

(* Until the manager goes away, every argument copy, exec item and message *)
(* cell handed out belongs to exactly one message on its way: refused      *)
(* sends and handled messages leak nothing and free nothing twice.         *)
MemoryConserved ==
  ~Freed =>
    /\ heap = {m.id : m \in {n \in Owned : n.gc}}
    /\ items = {m.id : m \in {n \in Owned : n.type = "exec"}}
    /\ cells = Cardinality(Cells)

(* When activity_stop(act, 1) returns after its join and no other stop     *)
(* waits for the same thread, the thread it asked to end has ended, even   *)
(* if act->thread already named a later one when it was read.  With two    *)
(* stops on one thread the code promises neither of them anything.         *)
StopWaits ==
  [][\A c \in Caller : activity_stop_joined(c) /\ ~JoinShared(c) =>
       worker[caller[c].act][caller[c].own].at = "done"]_vars

(* Once activity_manager_fini has returned no thread of an activity is     *)
(* left: it "stops all activity objects and waits for their threads to     *)
(* exit" (activity.h:74).                                                  *)
FiniWaits == mgr = "gone" => \A a \in Act, r \in Run : ~Active(a, r)

(* A message that activity_msg_send accepted is handled, unless the        *)
(* manager is taken down first.                                            *)
AcceptedIsHandled ==
  \A a \in Act, m \in Ids :
    (\E i \in 1..Len(Accepted(a)) : Accepted(a)[i].id = m)
      ~> Freed \/ \A i \in 1..Len(Accepted(a)) : Accepted(a)[i].id # m

(* An activity that was told to stop does stop, unless the manager is      *)
(* taken down first: then its STOP message lies in memory that is freed.   *)
StopCompletes ==
  \A a \in Act : state[a] = "PENDING_STOP" ~> state[a] = "STOP" \/ Freed

StatusOf == [a \in Act |-> CASE state[a] = "RUN" -> "on"
                             [] state[a] = "PENDING_STOP" -> "closing"
                             [] OTHER -> "off"]

(* The users' messages: all those accepted but the STOP at their end.      *)
Users(ms) ==
  IF ms # <<>> /\ ms[Len(ms)].type = "stop" THEN Len(ms) - 1 ELSE Len(ms)
BoxOf == [a \in Act |-> [i \in 1..Users(Accepted(a)) |-> Accepted(a)[i].id]]

(* Each activity object is a mailbox: messages are accepted only while it  *)
(* runs, handled exactly once and in order, and all of them before it has  *)
(* stopped.                                                                *)
M == INSTANCE Mailbox WITH Msg <- Ids, status <- StatusOf, box <- BoxOf
ImplementsMailbox == M!Spec
=============================================================================
