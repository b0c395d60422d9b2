--------------------------- MODULE ActivityProofs ---------------------------
(***************************************************************************)
(* The activity objects of activity.c keep one thread each, lose no        *)
(* wake-up and accept nothing behind a STOP, for every number of objects,  *)
(* callers, messages and restarts.                                         *)
(***************************************************************************)
EXTENDS Activity, SequenceTheorems, FiniteSetTheorems, TLAPS

Places == {"none", "init", "loop", "dequeue", "handle", "fini", "done"}

(* The messages of users, as opposed to the STOP.                          *)
UserMsg == {m \in Msg : m.type # "stop" /\ m.id \in Ids}

CallerPlaces ==
  {Idle}
  \union [at : {"sending"}, act : Act, msg : UserMsg]
  \union [at : {"run", "created"}, act : Act]
  \union [at : {"stopping"}, act : Act, own : Run]
  \union [at : {"joining"}, act : Act, own : Run, target : Run]
  \union [at : {"fini"}, todo : SUBSET Act]

Shape ==
  /\ act_list \subseteq Act
  /\ state \in [Act -> {"NONE", "STOP", "RUN", "PENDING_STOP"}]
  /\ msg_queue \in [Act -> Seq(Msg)]
  /\ event \in [Act -> BOOLEAN]
  /\ running \in [Act -> BOOLEAN]
  /\ thread \in [Act -> 0..MaxRuns]
  /\ worker \in [Act -> [Run -> [at : Places, msg : Msg]]]
  /\ caller \in [Caller -> CallerPlaces]
  /\ nextId \in Nat \ {0}

(* Between pthread_create and the write of act->state.                     *)
Starting(a) == \E c \in Caller : At(c, "created") /\ caller[c].act = a

(* The caller that starts a thread holds the manager lock.                 *)
LockHeld == \A c \in Caller : caller[c].at \in {"run", "created"} => manager_lock = c

(* An object that was never registered has no thread.                      *)
OnlyRegistered ==
  mgr \notin {"gone", "broken"} => \A a \in Act : a \notin act_list => state[a] = "NONE"

(* One object, in terms of its state s, queue q, event e, event loop run,  *)
(* last thread t, threads w and whether it is just being started.          *)
Woken(q, e, at) == q # <<>> => e \/ at \in {"dequeue", "handle"}

NoStop(q) == \A i \in 1..Len(q) : q[i].type # "stop"

(* The STOP is the last message, in the queue or in the thread's hands.    *)
StopAtEnd(q, h) ==
  \/ q = <<>> /\ h.at = "handle" /\ h.msg.type = "stop"
  \/ /\ q # <<>>
     /\ h.at = "handle" => h.msg.type # "stop"
     /\ q[Len(q)].type = "stop"
     /\ \A i \in 1..Len(q) - 1 : q[i].type # "stop"

Threads(t, w) ==
  /\ \A r \in Run : (r > t => w[r].at = "none") /\ (r < t => w[r].at = "done")
  /\ t > 0 => w[t].at # "none"

AtRest(q, t, w) == q = <<>> /\ (t > 0 => w[t].at = "done")

JustStarted(q, e, run, t, w) ==
  q = <<>> /\ ~e /\ run /\ t > 0 /\ w[t].at \in {"init", "loop"}

Serving(q, e, run, t, w) ==
  /\ run /\ t > 0
  /\ w[t].at \in {"init", "loop", "dequeue", "handle"}
  /\ Woken(q, e, w[t].at)
  /\ NoStop(q)
  /\ w[t].at = "handle" => w[t].msg.type # "stop"

Ending(q, e, run, t, w) ==
  /\ t > 0
  /\ \/ /\ run
        /\ w[t].at \in {"init", "loop", "dequeue", "handle"}
        /\ Woken(q, e, w[t].at)
        /\ StopAtEnd(q, w[t])
     \/ /\ ~run
        /\ q = <<>>
        /\ w[t].at \in {"dequeue", "loop", "fini"}

OneAct(s, q, e, run, t, w, starting) ==
  /\ Threads(t, w)
  /\ starting => s = "STOP" /\ JustStarted(q, e, run, t, w)
  /\ s \in {"NONE", "STOP"} /\ ~starting => AtRest(q, t, w)
  /\ s = "RUN" => Serving(q, e, run, t, w)
  /\ s = "PENDING_STOP" => Ending(q, e, run, t, w)

ActInv(a) ==
  OneAct(state[a], msg_queue[a], event[a], running[a], thread[a], worker[a], Starting(a))

(* The threads that callers of activity_stop wait for.                     *)
JoinsInv ==
  \A c \in Caller :
    /\ At(c, "stopping") => caller[c].own <= thread[caller[c].act]
    /\ At(c, "joining") => /\ caller[c].own <= caller[c].target
                           /\ caller[c].target <= thread[caller[c].act]

Inv ==
  /\ Shape
  /\ LockHeld
  /\ OnlyRegistered
  /\ \A a \in Act : ActInv(a)
  /\ JoinsInv
-----------------------------------------------------------------------------
(* What the operations do to one object.                                   *)
Workers == [Run -> [at : Places, msg : Msg]]

LEMMA StopMsg == STOP \in Msg /\ STOP.type = "stop"
BY BoundAssumption DEF STOP, Message, Msg, Types

LEMMA WorkType ==
  ASSUME NEW at \in Places
  PROVE  Work(at) \in [at : Places, msg : Msg] /\ Work(at).at = at
BY StopMsg DEF Work

(* A thread at work is the last one created.                               *)
LEMMA LiveIsLast ==
  ASSUME NEW t \in 0..MaxRuns, NEW w \in Workers, Threads(t, w),
         NEW r \in Run, w[r].at \notin {"none", "done"}
  PROVE  r = t /\ t > 0
BY BoundAssumption DEF Threads, Run

(* A move of the last thread leaves the earlier and later ones alone.      *)
LEMMA MoveThread ==
  ASSUME NEW t \in 1..MaxRuns, NEW w \in Workers, Threads(t, w),
         NEW h \in [at : Places, msg : Msg], h.at # "none"
  PROVE  /\ [w EXCEPT ![t] = h] \in Workers
         /\ [w EXCEPT ![t] = h][t] = h
         /\ Threads(t, [w EXCEPT ![t] = h])
BY BoundAssumption DEF Threads, Run, Workers

(* msg_enqueue of a user's message.                                        *)
LEMMA EnqueueOne ==
  ASSUME NEW q \in Seq(Msg), NEW e, NEW run, NEW t, NEW w, NEW starting,
         NEW m \in Msg, m.type # "stop",
         OneAct("RUN", q, e, run, t, w, starting)
  PROVE  OneAct("RUN", Append(q, m), TRUE, run, t, w, starting)
<1>1. /\ Threads(t, w) /\ ~starting /\ Serving(q, e, run, t, w)
  BY DEF OneAct
<1>2. NoStop(Append(q, m))
  BY <1>1, AppendProperties DEF Serving, NoStop
<1>3. Serving(Append(q, m), TRUE, run, t, w)
  BY <1>1, <1>2 DEF Serving, Woken
<1> QED  BY <1>1, <1>3 DEF OneAct

(* activity_set_pendding_exit.                                             *)
LEMMA EnqueueStop ==
  ASSUME NEW q \in Seq(Msg), NEW e, NEW run, NEW t, NEW w, NEW starting,
         OneAct("RUN", q, e, run, t, w, starting)
  PROVE  OneAct("PENDING_STOP", Append(q, STOP), TRUE, run, t, w, starting)
<1>1. /\ Threads(t, w) /\ ~starting /\ Serving(q, e, run, t, w)
  BY DEF OneAct
<1> DEFINE p == Append(q, STOP)
<1>2. /\ p # <<>> /\ Len(p) = Len(q) + 1 /\ p[Len(p)] = STOP
      /\ \A i \in 1..Len(q) : p[i] = q[i]
      /\ Len(q) \in Nat
  BY StopMsg, AppendProperties
<1> HIDE DEF p
<1>3. StopAtEnd(p, w[t])
  BY <1>1, <1>2, StopMsg DEF StopAtEnd, Serving, NoStop
<1>4. Ending(p, TRUE, run, t, w)
  BY <1>1, <1>3 DEF Ending, Serving, Woken
<1> QED  BY <1>1, <1>4 DEF OneAct, p

(* activity_run_local, up to pthread_create.                               *)
LEMMA StartOne ==
  ASSUME NEW q, NEW e, NEW run, NEW t \in 0..MaxRuns, NEW w \in Workers,
         t + 1 \in Run,
         OneAct("STOP", q, e, run, t, w, FALSE)
  PROVE  OneAct("STOP", q, FALSE, TRUE, t + 1, [w EXCEPT ![t + 1] = Work("init")], TRUE)
<1> DEFINE v == [w EXCEPT ![t + 1] = Work("init")]
<1>1. Threads(t, w) /\ q = <<>> /\ (t > 0 => w[t].at = "done")
  BY DEF OneAct, AtRest
<1>2. v[t + 1].at = "init" /\ \A r \in Run : r # t + 1 => v[r] = w[r]
  BY WorkType DEF Workers, Places
<1> HIDE DEF v
<1>3. Threads(t + 1, v)
  BY <1>1, <1>2, BoundAssumption DEF Threads, Run
<1>4. JustStarted(q, FALSE, TRUE, t + 1, v)
  BY <1>1, <1>2 DEF JustStarted
<1> QED  BY <1>3, <1>4 DEF OneAct, v

(* The write of act->state after it.                                       *)
LEMMA StartedOne ==
  ASSUME NEW s, NEW q, NEW e, NEW run, NEW t, NEW w,
         OneAct(s, q, e, run, t, w, TRUE)
  PROVE  OneAct("RUN", q, e, run, t, w, FALSE)
<1>1. Threads(t, w) /\ JustStarted(q, e, run, t, w)
  BY DEF OneAct
<1>2. Serving(q, e, run, t, w)
  BY <1>1 DEF JustStarted, Serving, Woken, NoStop
<1> QED  BY <1>1, <1>2 DEF OneAct

(* activity_thread before its event loop.                                  *)
LEMMA InitOne ==
  ASSUME NEW s, NEW q, NEW e, NEW run, NEW t \in 1..MaxRuns, NEW w \in Workers, NEW starting,
         OneAct(s, q, e, run, t, w, starting), w[t].at = "init"
  PROVE  OneAct(s, q, e, run, t, [w EXCEPT ![t] = Work("loop")], starting)
<1> DEFINE v == [w EXCEPT ![t] = Work("loop")]
<1>1. v[t].at = "loop" /\ Threads(t, v)
  BY MoveThread, WorkType DEF OneAct, Places
<1> HIDE DEF v
<1>2. starting => s = "STOP" /\ JustStarted(q, e, run, t, v)
  BY <1>1 DEF OneAct, JustStarted
<1>3. s \in {"NONE", "STOP"} => starting
  BY DEF OneAct, AtRest
<1>4. s = "RUN" => Serving(q, e, run, t, v)
  BY <1>1 DEF OneAct, Serving, Woken
<1>5. s = "PENDING_STOP" => Ending(q, e, run, t, v)
  BY <1>1 DEF OneAct, Ending, Woken, StopAtEnd
<1> QED  BY <1>1, <1>2, <1>3, <1>4, <1>5 DEF OneAct, v

(* The event loop reads the eventfd.                                       *)
LEMMA EventOne ==
  ASSUME NEW s, NEW q, NEW e, NEW run, NEW t \in 1..MaxRuns, NEW w \in Workers, NEW starting,
         OneAct(s, q, e, run, t, w, starting), w[t].at = "loop", run, e
  PROVE  OneAct(s, q, FALSE, run, t, [w EXCEPT ![t] = Work("dequeue")], starting)
<1> DEFINE v == [w EXCEPT ![t] = Work("dequeue")]
<1>1. v[t].at = "dequeue" /\ Threads(t, v)
  BY MoveThread, WorkType DEF OneAct, Places
<1> HIDE DEF v
<1>2. ~starting
  BY DEF OneAct, JustStarted
<1>3. s \notin {"NONE", "STOP"}
  BY <1>2 DEF OneAct, AtRest
<1>4. s = "RUN" => Serving(q, FALSE, run, t, v)
  BY <1>1 DEF OneAct, Serving, Woken
<1>5. s = "PENDING_STOP" => Ending(q, FALSE, run, t, v)
  BY <1>1 DEF OneAct, Ending, Woken, StopAtEnd
<1> QED  BY <1>1, <1>2, <1>3, <1>4, <1>5 DEF OneAct, v

(* msg_dequeue finds the queue empty.                                      *)
LEMMA DequeueNone ==
  ASSUME NEW s, NEW e, NEW run, NEW t \in 1..MaxRuns, NEW w \in Workers, NEW starting,
         OneAct(s, <<>>, e, run, t, w, starting), w[t].at = "dequeue"
  PROVE  OneAct(s, <<>>, e, run, t, [w EXCEPT ![t] = Work("loop")], starting)
<1> DEFINE v == [w EXCEPT ![t] = Work("loop")]
<1>1. v[t].at = "loop" /\ Threads(t, v)
  BY MoveThread, WorkType DEF OneAct, Places
<1> HIDE DEF v
<1>2. ~starting
  BY DEF OneAct, JustStarted
<1>3. s \notin {"NONE", "STOP"}
  BY <1>2 DEF OneAct, AtRest
<1>4. s = "RUN" => Serving(<<>>, e, run, t, v)
  BY <1>1 DEF OneAct, Serving, Woken
<1>5. s = "PENDING_STOP" => Ending(<<>>, e, run, t, v)
  BY <1>1 DEF OneAct, Ending, StopAtEnd
<1> QED  BY <1>1, <1>2, <1>3, <1>4, <1>5 DEF OneAct, v

(* msg_dequeue takes the first message.                                    *)
LEMMA DequeueOne ==
  ASSUME NEW s, NEW q \in Seq(Msg), NEW e, NEW run, NEW t \in 1..MaxRuns, NEW w \in Workers,
         NEW starting,
         OneAct(s, q, e, run, t, w, starting), w[t].at = "dequeue", q # <<>>
  PROVE  OneAct(s, Tail(q), e, run, t, [w EXCEPT ![t] = [at |-> "handle", msg |-> Head(q)]],
                starting)
<1> DEFINE v == [w EXCEPT ![t] = [at |-> "handle", msg |-> Head(q)]]
           p == Tail(q)
<1>1. /\ Head(q) \in Msg /\ Head(q) = q[1] /\ Len(q) \in Nat \ {0}
      /\ p \in Seq(Msg) /\ Len(p) = Len(q) - 1
      /\ \A i \in 1..Len(p) : p[i] = q[i + 1]
      /\ p = <<>> <=> Len(q) = 1
  <2>1. /\ Head(q) \in Msg /\ Head(q) = q[1] /\ Len(q) \in Nat \ {0}
        /\ p \in Seq(Msg) /\ Len(p) = Len(q) - 1
        /\ \A i \in 1..Len(p) : p[i] = q[i + 1]
    BY HeadTailProperties
  <2> HIDE DEF p
  <2>2. p = <<>> <=> Len(p) = 0
    BY <2>1
  <2> QED  BY <2>1, <2>2
<1>2. v[t].at = "handle" /\ v[t].msg = q[1] /\ Threads(t, v)
  <2> DEFINE h == [at |-> "handle", msg |-> Head(q)]
  <2>1. h \in [at : Places, msg : Msg] /\ h.at = "handle" /\ h.msg = q[1]
    BY <1>1 DEF Places
  <2> HIDE DEF h
  <2>2. [w EXCEPT ![t] = h][t] = h /\ Threads(t, [w EXCEPT ![t] = h])
    BY <2>1, MoveThread DEF OneAct
  <2> QED  BY <2>1, <2>2 DEF h
<1> HIDE DEF v, p
<1>3. ~starting
  BY DEF OneAct, JustStarted
<1>4. s \notin {"NONE", "STOP"}
  BY <1>3 DEF OneAct, AtRest
<1>5. s = "RUN" => Serving(p, e, run, t, v)
  <2> SUFFICES ASSUME s = "RUN" PROVE Serving(p, e, run, t, v)
    OBVIOUS
  <2>1. run /\ NoStop(q)
    BY DEF OneAct, Serving
  <2>2. NoStop(p) /\ q[1].type # "stop"
    BY <1>1, <2>1 DEF NoStop
  <2> QED  BY <1>2, <2>1, <2>2 DEF Serving, Woken
<1>6. s = "PENDING_STOP" => Ending(p, e, run, t, v)
  <2> SUFFICES ASSUME s = "PENDING_STOP" PROVE Ending(p, e, run, t, v)
    OBVIOUS
  <2>1. run /\ StopAtEnd(q, w[t])
    BY DEF OneAct, Ending
  <2>2. /\ q[Len(q)].type = "stop"
        /\ \A i \in 1..Len(q) - 1 : q[i].type # "stop"
    BY <2>1 DEF StopAtEnd
  <2>3. StopAtEnd(p, v[t])
    <3>1. CASE Len(q) = 1
      BY <1>1, <1>2, <2>2, <3>1 DEF StopAtEnd
    <3>2. CASE Len(q) # 1
      <4>1. p # <<>> /\ 1 \in 1..Len(q) - 1
        BY <1>1, <3>2
      <4>2. Len(p) \in 1..Len(p) /\ Len(p) + 1 = Len(q)
        BY <1>1, <3>2
      <4>3. p[Len(p)].type = "stop"
        <5>1. p[Len(p)] = q[Len(p) + 1]
          BY <1>1, <4>2
        <5> QED  BY <2>2, <4>2, <5>1
      <4>4. ASSUME NEW i \in 1..Len(p) - 1 PROVE p[i].type # "stop"
        <5>1. i \in 1..Len(p) /\ i + 1 \in 1..Len(q) - 1
          BY <1>1
        <5>2. p[i] = q[i + 1]
          BY <1>1, <5>1
        <5> QED  BY <2>2, <5>1, <5>2
      <4> QED  BY <1>2, <2>2, <4>1, <4>3, <4>4 DEF StopAtEnd
    <3> QED  BY <3>1, <3>2
  <2> QED  BY <1>2, <2>1, <2>3 DEF Ending, Woken
<1> QED  BY <1>2, <1>3, <1>4, <1>5, <1>6 DEF OneAct, v, p

(* act_msg_handler of a user's message: msg_queue_handler goes round.      *)
LEMMA HandleOne ==
  ASSUME NEW s, NEW q, NEW e, NEW run, NEW t \in 1..MaxRuns, NEW w \in Workers, NEW starting,
         OneAct(s, q, e, run, t, w, starting), w[t].at = "handle", w[t].msg.type # "stop"
  PROVE  OneAct(s, q, e, run, t, [w EXCEPT ![t] = Work("dequeue")], starting)
<1> DEFINE v == [w EXCEPT ![t] = Work("dequeue")]
<1>1. v[t].at = "dequeue" /\ Threads(t, v)
  BY MoveThread, WorkType DEF OneAct, Places
<1> HIDE DEF v
<1>2. ~starting
  BY DEF OneAct, JustStarted
<1>3. s \notin {"NONE", "STOP"}
  BY <1>2 DEF OneAct, AtRest
<1>4. s = "RUN" => Serving(q, e, run, t, v)
  BY <1>1 DEF OneAct, Serving, Woken
<1>5. s = "PENDING_STOP" => Ending(q, e, run, t, v)
  BY <1>1 DEF OneAct, Ending, Woken, StopAtEnd
<1> QED  BY <1>1, <1>2, <1>3, <1>4, <1>5 DEF OneAct, v

(* act_msg_handler of the STOP: uev_exit.                                  *)
LEMMA HandleStop ==
  ASSUME NEW s \in {"NONE", "STOP", "RUN", "PENDING_STOP"},
         NEW q, NEW e, NEW run, NEW t \in 1..MaxRuns, NEW w \in Workers, NEW starting,
         OneAct(s, q, e, run, t, w, starting), w[t].at = "handle", w[t].msg.type = "stop"
  PROVE  /\ OneAct(s, q, e, FALSE, t, [w EXCEPT ![t] = Work("dequeue")], starting)
         /\ s = "PENDING_STOP" /\ q = <<>>
<1> DEFINE v == [w EXCEPT ![t] = Work("dequeue")]
<1>1. v[t].at = "dequeue" /\ Threads(t, v)
  BY MoveThread, WorkType DEF OneAct, Places
<1> HIDE DEF v
<1>2. ~starting
  BY DEF OneAct, JustStarted
<1>3. s = "PENDING_STOP"
  BY <1>2 DEF OneAct, AtRest, Serving
<1>4. q = <<>>
  BY <1>3 DEF OneAct, Ending, StopAtEnd
<1>5. Ending(q, e, FALSE, t, v)
  BY <1>1, <1>4 DEF Ending
<1> QED  BY <1>1, <1>2, <1>3, <1>4, <1>5 DEF OneAct, v

(* uev_run returns.                                                        *)
LEMMA ReturnOne ==
  ASSUME NEW s, NEW q, NEW e, NEW run, NEW t \in 1..MaxRuns, NEW w \in Workers, NEW starting,
         OneAct(s, q, e, run, t, w, starting), w[t].at = "loop", ~run
  PROVE  OneAct(s, q, e, run, t, [w EXCEPT ![t] = Work("fini")], starting)
<1> DEFINE v == [w EXCEPT ![t] = Work("fini")]
<1>1. v[t].at = "fini" /\ Threads(t, v)
  BY MoveThread, WorkType DEF OneAct, Places
<1> HIDE DEF v
<1>2. ~starting
  BY DEF OneAct, JustStarted
<1>3. s \notin {"NONE", "STOP", "RUN"}
  BY <1>2 DEF OneAct, AtRest, Serving
<1>4. s = "PENDING_STOP" => Ending(q, e, run, t, v)
  BY <1>1 DEF OneAct, Ending
<1> QED  BY <1>1, <1>2, <1>3, <1>4 DEF OneAct, v

(* The thread ends.                                                        *)
LEMMA ExitOne ==
  ASSUME NEW s \in {"NONE", "STOP", "RUN", "PENDING_STOP"},
         NEW q, NEW e, NEW run, NEW t \in 1..MaxRuns, NEW w \in Workers, NEW starting,
         OneAct(s, q, e, run, t, w, starting), w[t].at = "fini"
  PROVE  /\ OneAct("STOP", q, FALSE, run, t, [w EXCEPT ![t] = Work("done")], starting)
         /\ s = "PENDING_STOP" /\ q = <<>>
<1> DEFINE v == [w EXCEPT ![t] = Work("done")]
<1>1. v[t].at = "done" /\ Threads(t, v)
  BY MoveThread, WorkType DEF OneAct, Places
<1> HIDE DEF v
<1>2. ~starting
  BY DEF OneAct, JustStarted
<1>3. s = "PENDING_STOP"
  BY <1>2 DEF OneAct, AtRest, Serving
<1>4. q = <<>>
  BY <1>3 DEF OneAct, Ending
<1> QED  BY <1>1, <1>2, <1>3, <1>4 DEF OneAct, AtRest, v
-----------------------------------------------------------------------------
(* A step of one object leaves the others as they are.                     *)
LEMMA OthersKeep ==
  ASSUME \A b \in Act : ActInv(b), NEW a \in Act, ActInv(a)',
         \A b \in Act \ {a} :
           /\ state'[b] = state[b] /\ msg_queue'[b] = msg_queue[b]
           /\ event'[b] = event[b] /\ running'[b] = running[b]
           /\ thread'[b] = thread[b] /\ worker'[b] = worker[b]
           /\ Starting(b)' = Starting(b)
  PROVE  \A b \in Act : ActInv(b)'
<1> SUFFICES ASSUME NEW b \in Act, b # a PROVE ActInv(b)'
  OBVIOUS
<1>1. OneAct(state[b], msg_queue[b], event[b], running[b], thread[b], worker[b], Starting(b))
  BY DEF ActInv
<1> QED  BY <1>1 DEF ActInv

(* A step of a caller that neither creates a thread nor comes back from it.*)
LEMMA StartingSame ==
  ASSUME caller \in [Caller -> CallerPlaces], NEW c \in Caller, NEW pc, Goto(c, pc),
         caller[c].at # "created", pc.at # "created", NEW b \in Act
  PROVE  Starting(b)' = Starting(b)
<1>1. /\ caller'[c] = pc
      /\ \A d \in Caller : d # c => caller'[d] = caller[d]
  BY DEF Goto
<1>2. Starting(b)' <=> Starting(b)
  BY <1>1 DEF Starting, At
<1>3. Starting(b) \in BOOLEAN /\ Starting(b)' \in BOOLEAN
  BY Zenon DEF Starting
<1> QED  BY <1>2, <1>3, Zenon

(* Only the variables of object a have changed, and to proper values.      *)
OnlyOf(a) ==
  /\ state' \in [Act -> {"NONE", "STOP", "RUN", "PENDING_STOP"}]
  /\ msg_queue' \in [Act -> Seq(Msg)]
  /\ event' \in [Act -> BOOLEAN]
  /\ running' \in [Act -> BOOLEAN]
  /\ \A b \in Act \ {a} :
       /\ state'[b] = state[b] /\ msg_queue'[b] = msg_queue[b]
       /\ event'[b] = event[b] /\ running'[b] = running[b]
  /\ state[a] = "NONE" => state'[a] = "NONE"

(* A step of the thread of one object.                                     *)
LEMMA ThreadMoves ==
  ASSUME Inv, NEW a \in Act, NEW r \in Run, r = thread[a],
         NEW h \in [at : Places, msg : Msg], SetWorker(a, r, h),
         UNCHANGED <<mgr, manager_lock, act_list, thread, caller, nextId>>,
         OnlyOf(a),
         OneAct(state'[a], msg_queue'[a], event'[a], running'[a], r,
                [worker[a] EXCEPT ![r] = h], Starting(a))
  PROVE  Inv'
<1>0. Shape /\ LockHeld /\ OnlyRegistered /\ JoinsInv
  BY DEF Inv
<1>1. worker' = [worker EXCEPT ![a] = [worker[a] EXCEPT ![r] = h]]
  BY DEF SetWorker
<1>2. Shape'
  BY <1>0, <1>1 DEF Shape, OnlyOf
<1>3. LockHeld'
  BY <1>0 DEF LockHeld
<1>4. OnlyRegistered'
  BY <1>0 DEF OnlyRegistered, Shape, OnlyOf
<1>5. JoinsInv'
  BY <1>0 DEF JoinsInv, At
<1>6. \A b \in Act : Starting(b)' = Starting(b)
  BY DEF Starting, At
<1>7. ActInv(a)'
  <2>1. thread'[a] = r /\ worker'[a] = [worker[a] EXCEPT ![r] = h]
    BY <1>0, <1>1 DEF Shape
  <2> QED  BY <1>6, <2>1 DEF ActInv
<1>8. \A b \in Act : ActInv(b)'
  <2>1. \A b \in Act \ {a} :
          /\ state'[b] = state[b] /\ msg_queue'[b] = msg_queue[b]
          /\ event'[b] = event[b] /\ running'[b] = running[b]
          /\ thread'[b] = thread[b] /\ worker'[b] = worker[b]
    BY <1>0, <1>1 DEF Shape, OnlyOf
  <2>2. \A b \in Act : ActInv(b)
    BY DEF Inv
  <2> QED  BY <1>6, <1>7, <2>1, <2>2, OthersKeep
<1> QED  BY <1>2, <1>3, <1>4, <1>5, <1>8 DEF Inv

(* Steps that touch none of what the invariant is about.                   *)
LEMMA UntouchedKeeps ==
  ASSUME Inv, mgr' = mgr \/ mgr = "down" \/ mgr' = "broken",
         UNCHANGED <<manager_lock, act_list, state, msg_queue, event, running, thread, worker,
                     caller, nextId>>
  PROVE  Inv'
<1>1. Shape' /\ LockHeld' /\ OnlyRegistered' /\ JoinsInv'
  BY DEF Inv, Shape, LockHeld, OnlyRegistered, JoinsInv, At
<1>2. \A b \in Act : Starting(b)' = Starting(b)
  BY DEF Starting, At
<1>3. \A b \in Act : ActInv(b)'
  BY <1>2 DEF Inv, ActInv
<1> QED  BY <1>1, <1>3 DEF Inv

(* A step that is undefined in C.                                          *)
LEMMA BreakKeeps == ASSUME Inv, Break PROVE Inv'
BY UntouchedKeeps DEF Break, actVars

(* Each step of an object's thread.                                        *)
LEMMA WorkerKeeps ==
  ASSUME Inv, NEW a \in Act, NEW r \in Run, WorkerStep(a, r)
  PROVE  Inv'
<1> DEFINE OK == Inv'
<1>0. /\ Shape /\ ActInv(a)
      /\ state[a] \in {"NONE", "STOP", "RUN", "PENDING_STOP"}
      /\ msg_queue[a] \in Seq(Msg) /\ event[a] \in BOOLEAN /\ running[a] \in BOOLEAN
      /\ thread[a] \in 0..MaxRuns /\ worker[a] \in Workers
  BY DEF Inv, Shape, Workers
<1>1. OneAct(state[a], msg_queue[a], event[a], running[a], thread[a], worker[a], Starting(a))
  BY <1>0 DEF ActInv
<1>2. worker[a][r].at \notin {"none", "done"} => r = thread[a] /\ thread[a] \in 1..MaxRuns
  BY <1>0, <1>1, LiveIsLast, BoundAssumption DEF OneAct, Run
<1>4. \A p \in Places : Work(p) \in [at : Places, msg : Msg]
  BY WorkType
<1>5. CASE activity_thread_init(a, r)
  <2>1. /\ worker[a][r].at = "init" /\ SetWorker(a, r, Work("loop"))
        /\ UNCHANGED <<mgr, manager_lock, act_list, state, msg_queue, event, running, thread,
                       caller, nextId>>
    BY <1>5 DEF activity_thread_init
  <2>2. r = thread[a] /\ r \in 1..MaxRuns
    BY <1>2, <2>1
  <2>3. OneAct(state[a], msg_queue[a], event[a], running[a], r, [worker[a] EXCEPT ![r] = Work("loop")],
               Starting(a))
    BY <1>0, <1>1, <2>1, <2>2, InitOne
  <2>4. Work("loop") \in [at : Places, msg : Msg]
    BY <1>4 DEF Places
  <2>a. OnlyOf(a)
    BY <1>0, <2>1, <2>2, <2>3, <2>4 DEF Shape, OnlyOf
  <2>b. OneAct(state'[a], msg_queue'[a], event'[a], running'[a], r,
               [worker[a] EXCEPT ![r] = Work("loop")], Starting(a))
    BY <1>0, <2>1, <2>2, <2>3, <2>4 DEF Shape
  <2> QED  BY <2>1, <2>2, <2>3, <2>4, <2>a, <2>b, ThreadMoves
<1>6. CASE uev_run_event(a, r)
  <2>1. /\ worker[a][r].at = "loop" /\ running[a] /\ event[a]
        /\ event' = [event EXCEPT ![a] = FALSE]
        /\ SetWorker(a, r, Work("dequeue"))
        /\ UNCHANGED <<mgr, manager_lock, act_list, state, msg_queue, running, thread,
                       caller, nextId>>
    BY <1>6 DEF uev_run_event
  <2>2. r = thread[a] /\ r \in 1..MaxRuns
    BY <1>2, <2>1
  <2>3. OneAct(state[a], msg_queue[a], FALSE, running[a], r,
               [worker[a] EXCEPT ![r] = Work("dequeue")], Starting(a))
    BY <1>0, <1>1, <2>1, <2>2, EventOne
  <2>4. Work("dequeue") \in [at : Places, msg : Msg]
    BY <1>4 DEF Places
  <2>a. OnlyOf(a)
    BY <1>0, <2>1, <2>2, <2>3, <2>4 DEF Shape, OnlyOf
  <2>b. OneAct(state'[a], msg_queue'[a], event'[a], running'[a], r,
               [worker[a] EXCEPT ![r] = Work("dequeue")], Starting(a))
    BY <1>0, <2>1, <2>2, <2>3, <2>4 DEF Shape
  <2> QED  BY <2>1, <2>2, <2>3, <2>4, <2>a, <2>b, ThreadMoves
<1>7. CASE msg_dequeue(a, r)
  <2>1. /\ worker[a][r].at = "dequeue"
        /\ UNCHANGED <<mgr, manager_lock, act_list, state, event, running, thread, caller, nextId>>
    BY <1>7 DEF msg_dequeue
  <2>2. r = thread[a] /\ r \in 1..MaxRuns
    BY <1>2, <2>1
  <2>3. CASE msg_queue[a] = <<>>
    <3>1. SetWorker(a, r, Work("loop")) /\ UNCHANGED msg_queue
      BY <1>7, <2>3 DEF msg_dequeue
    <3>2. OneAct(state[a], msg_queue[a], event[a], running[a], r,
                 [worker[a] EXCEPT ![r] = Work("loop")], Starting(a))
      BY <1>0, <1>1, <2>1, <2>2, <2>3, DequeueNone
    <3>3. Work("loop") \in [at : Places, msg : Msg]
      BY <1>4 DEF Places
    <3>a. OnlyOf(a)
      BY <1>0, <2>1, <2>2, <3>1, <3>2, <3>3 DEF Shape, OnlyOf
    <3>b. OneAct(state'[a], msg_queue'[a], event'[a], running'[a], r,
                 [worker[a] EXCEPT ![r] = Work("loop")], Starting(a))
      BY <1>0, <2>1, <2>2, <3>1, <3>2, <3>3 DEF Shape
    <3> QED  BY <2>1, <2>2, <3>1, <3>2, <3>3, <3>a, <3>b, ThreadMoves
  <2>4. CASE msg_queue[a] # <<>>
    <3> DEFINE h == [at |-> "handle", msg |-> Head(msg_queue[a])]
    <3>1. SetWorker(a, r, h) /\ msg_queue' = [msg_queue EXCEPT ![a] = Tail(msg_queue[a])]
      BY <1>7, <2>4 DEF msg_dequeue
    <3>2. OneAct(state[a], Tail(msg_queue[a]), event[a], running[a], r,
                 [worker[a] EXCEPT ![r] = h], Starting(a))
      BY <1>0, <1>1, <2>1, <2>2, <2>4, DequeueOne
    <3>3. h \in [at : Places, msg : Msg] /\ Tail(msg_queue[a]) \in Seq(Msg)
      BY <1>0, <2>4, HeadTailProperties DEF Places
    <3> HIDE DEF h
    <3>a. OnlyOf(a)
      BY <1>0, <2>1, <2>2, <3>1, <3>2, <3>3 DEF Shape, OnlyOf
    <3>b. OneAct(state'[a], msg_queue'[a], event'[a], running'[a], r,
                 [worker[a] EXCEPT ![r] = h], Starting(a))
      BY <1>0, <2>1, <2>2, <3>1, <3>2, <3>3 DEF Shape
    <3> QED  BY <2>1, <2>2, <3>1, <3>2, <3>3, <3>a, <3>b, ThreadMoves
  <2> QED  BY <2>3, <2>4
<1>8. CASE act_msg_handler(a, r)
  <2>1. /\ worker[a][r].at = "handle" /\ SetWorker(a, r, Work("dequeue"))
        /\ UNCHANGED <<mgr, manager_lock, act_list, state, msg_queue, event, thread, caller, nextId>>
    BY <1>8 DEF act_msg_handler, AfterMessage
  <2>2. r = thread[a] /\ r \in 1..MaxRuns
    BY <1>2, <2>1
  <2>3. Work("dequeue") \in [at : Places, msg : Msg]
    BY <1>4 DEF Places
  <2>4. CASE worker[a][r].msg.type = "stop"
    <3>1. running' = [running EXCEPT ![a] = FALSE]
      BY <1>8, <2>4 DEF act_msg_handler, uev_exit
    <3>2. OneAct(state[a], msg_queue[a], event[a], FALSE, r,
                 [worker[a] EXCEPT ![r] = Work("dequeue")], Starting(a))
      BY <1>0, <1>1, <2>1, <2>2, <2>4, HandleStop
    <3>a. OnlyOf(a)
      BY <1>0, <2>1, <2>2, <2>3, <3>1, <3>2 DEF Shape, OnlyOf
    <3>b. OneAct(state'[a], msg_queue'[a], event'[a], running'[a], r,
                 [worker[a] EXCEPT ![r] = Work("dequeue")], Starting(a))
      BY <1>0, <2>1, <2>2, <2>3, <3>1, <3>2 DEF Shape
    <3> QED  BY <2>1, <2>2, <2>3, <3>1, <3>2, <3>a, <3>b, ThreadMoves
  <2>5. CASE worker[a][r].msg.type # "stop"
    <3>1. running' = running
      BY <1>8, <2>5 DEF act_msg_handler
    <3>2. OneAct(state[a], msg_queue[a], event[a], running[a], r,
                 [worker[a] EXCEPT ![r] = Work("dequeue")], Starting(a))
      BY <1>0, <1>1, <2>1, <2>2, <2>5, HandleOne
    <3>a. OnlyOf(a)
      BY <1>0, <2>1, <2>2, <2>3, <3>1, <3>2 DEF Shape, OnlyOf
    <3>b. OneAct(state'[a], msg_queue'[a], event'[a], running'[a], r,
                 [worker[a] EXCEPT ![r] = Work("dequeue")], Starting(a))
      BY <1>0, <2>1, <2>2, <2>3, <3>1, <3>2 DEF Shape
    <3> QED  BY <2>1, <2>2, <2>3, <3>1, <3>2, <3>a, <3>b, ThreadMoves
  <2> QED  BY <2>4, <2>5
<1>9. CASE uev_run_return(a, r)
  <2>1. /\ worker[a][r].at = "loop" /\ ~running[a] /\ SetWorker(a, r, Work("fini"))
        /\ UNCHANGED <<mgr, manager_lock, act_list, state, msg_queue, event, running, thread,
                       caller, nextId>>
    BY <1>9 DEF uev_run_return
  <2>2. r = thread[a] /\ r \in 1..MaxRuns
    BY <1>2, <2>1
  <2>3. OneAct(state[a], msg_queue[a], event[a], running[a], r,
               [worker[a] EXCEPT ![r] = Work("fini")], Starting(a))
    BY <1>0, <1>1, <2>1, <2>2, ReturnOne
  <2>4. Work("fini") \in [at : Places, msg : Msg]
    BY <1>4 DEF Places
  <2>a. OnlyOf(a)
    BY <1>0, <2>1, <2>2, <2>3, <2>4 DEF Shape, OnlyOf
  <2>b. OneAct(state'[a], msg_queue'[a], event'[a], running'[a], r,
               [worker[a] EXCEPT ![r] = Work("fini")], Starting(a))
    BY <1>0, <2>1, <2>2, <2>3, <2>4 DEF Shape
  <2> QED  BY <2>1, <2>2, <2>3, <2>4, <2>a, <2>b, ThreadMoves
<1>10. CASE activity_thread_exit(a, r)
  <2>1. /\ worker[a][r].at = "fini" /\ SetWorker(a, r, Work("done"))
        /\ event' = [event EXCEPT ![a] = FALSE] /\ state' = [state EXCEPT ![a] = "STOP"]
        /\ UNCHANGED <<mgr, manager_lock, act_list, msg_queue, running, thread, caller, nextId>>
    BY <1>10 DEF activity_thread_exit
  <2>2. r = thread[a] /\ r \in 1..MaxRuns
    BY <1>2, <2>1
  <2>3. /\ OneAct("STOP", msg_queue[a], FALSE, running[a], r,
                  [worker[a] EXCEPT ![r] = Work("done")], Starting(a))
        /\ state[a] = "PENDING_STOP"
    BY <1>0, <1>1, <2>1, <2>2, ExitOne
  <2>4. Work("done") \in [at : Places, msg : Msg]
    BY <1>4 DEF Places
  <2>a. OnlyOf(a)
    BY <1>0, <2>1, <2>2, <2>3, <2>4 DEF Shape, OnlyOf
  <2>b. OneAct(state'[a], msg_queue'[a], event'[a], running'[a], r,
               [worker[a] EXCEPT ![r] = Work("done")], Starting(a))
    BY <1>0, <2>1, <2>2, <2>3, <2>4 DEF Shape
  <2> QED  BY <2>1, <2>2, <2>3, <2>4, <2>a, <2>b, ThreadMoves
<1>11. CASE thread_after_fini(a, r)
  BY <1>11, BreakKeeps DEF thread_after_fini
<1> QED  BY <1>5, <1>6, <1>7, <1>8, <1>9, <1>10, <1>11 DEF WorkerStep
-----------------------------------------------------------------------------
(* What a caller keeps while it is inside a call.                          *)
LEMMA PlaceFields ==
  ASSUME NEW pc \in CallerPlaces
  PROVE  /\ pc.at = "sending" => pc.act \in Act /\ pc.msg \in UserMsg
         /\ pc.at \in {"run", "created"} => pc.act \in Act
         /\ pc.at = "stopping" => pc.act \in Act /\ pc.own \in Run
         /\ pc.at = "joining" => pc.act \in Act /\ pc.own \in Run /\ pc.target \in Run
         /\ pc.at = "fini" => pc.todo \subseteq Act
BY DEF CallerPlaces, Idle

LEMMA IdlePlace == Idle \in CallerPlaces /\ Idle.at = "idle"
BY DEF CallerPlaces, Idle

(* The step of a caller, given what it does to the objects.                *)
LEMMA CallerMoves ==
  ASSUME Inv, NEW c \in Caller, NEW pc \in CallerPlaces, Goto(c, pc),
         manager_lock' = manager_lock \/ manager_lock \in {None, c},
         pc.at \in {"run", "created"} => manager_lock' = c,
         act_list' \subseteq Act, nextId' \in Nat \ {0},
         state' \in [Act -> {"NONE", "STOP", "RUN", "PENDING_STOP"}],
         msg_queue' \in [Act -> Seq(Msg)],
         event' \in [Act -> BOOLEAN], running' \in [Act -> BOOLEAN],
         thread' \in [Act -> 0..MaxRuns], worker' \in [Act -> Workers],
         \A b \in Act : thread[b] <= thread'[b],
         pc.at = "stopping" => pc.own <= thread[pc.act],
         pc.at = "joining" => pc.own <= pc.target /\ pc.target <= thread[pc.act],
         OnlyRegistered', \A b \in Act : ActInv(b)'
  PROVE  Inv'
<1>0. Shape /\ LockHeld /\ JoinsInv
  BY DEF Inv
<1>1. /\ caller' \in [Caller -> CallerPlaces] /\ caller'[c] = pc
      /\ \A d \in Caller : d # c => caller'[d] = caller[d]
  BY <1>0 DEF Goto, Shape
<1>2. Shape'
  BY <1>0, <1>1 DEF Shape, Workers
<1>3. LockHeld'
  <2> SUFFICES ASSUME NEW d \in Caller, caller'[d].at \in {"run", "created"}
               PROVE  manager_lock' = d
    BY DEF LockHeld
  <2>1. CASE d = c
    BY <1>1, <2>1
  <2>2. CASE d # c
    <3>1. manager_lock = d
      BY <1>0, <1>1, <2>2 DEF LockHeld
    <3> QED  BY <2>2, <3>1, NoneAssumption
  <2> QED  BY <2>1, <2>2
<1>4. JoinsInv'
  <2> SUFFICES ASSUME NEW d \in Caller
               PROVE  /\ caller'[d].at = "stopping" => caller'[d].own <= thread'[caller'[d].act]
                      /\ caller'[d].at = "joining" =>
                           /\ caller'[d].own <= caller'[d].target
                           /\ caller'[d].target <= thread'[caller'[d].act]
    BY DEF JoinsInv, At
  <2>1. \A b \in Act : thread[b] \in Int /\ thread'[b] \in Int /\ thread[b] <= thread'[b]
    BY <1>0, BoundAssumption DEF Shape
  <2>2. /\ caller'[d].at = "stopping" => caller'[d].own <= thread[caller'[d].act]
        /\ caller'[d].at = "joining" =>
             /\ caller'[d].own <= caller'[d].target
             /\ caller'[d].target <= thread[caller'[d].act]
    BY <1>0, <1>1 DEF JoinsInv, At
  <2>3. caller'[d] \in CallerPlaces
    BY <1>1
  <2> DEFINE qc == caller'[d]
  <2>4. /\ qc.at = "stopping" => qc.act \in Act /\ qc.own \in Int
        /\ qc.at = "joining" => qc.act \in Act /\ qc.target \in Int
    BY <2>3, PlaceFields, BoundAssumption DEF Run
  <2>5. CASE qc.at = "stopping"
    BY <2>1, <2>2, <2>4, <2>5
  <2>6. CASE qc.at = "joining"
    BY <2>1, <2>2, <2>4, <2>6
  <2> QED  BY <2>5, <2>6
<1> QED  BY <1>2, <1>3, <1>4 DEF Inv

(* A step of a caller that leaves all objects alone.                       *)
LEMMA CallerQuiet ==
  ASSUME Inv, NEW c \in Caller, NEW pc \in CallerPlaces, Goto(c, pc),
         caller[c].at # "created", pc.at # "created",
         manager_lock' = manager_lock \/ manager_lock \in {None, c},
         pc.at = "run" => manager_lock' = c,
         act_list' \subseteq Act, nextId' \in Nat \ {0},
         UNCHANGED <<state, msg_queue, event, running, thread, worker>>,
         pc.at = "stopping" => pc.own <= thread[pc.act],
         pc.at = "joining" => pc.own <= pc.target /\ pc.target <= thread[pc.act],
         OnlyRegistered'
  PROVE  Inv'
<1>0. Shape
  BY DEF Inv
<1>1. \A b \in Act : ActInv(b)'
  <2> SUFFICES ASSUME NEW b \in Act PROVE ActInv(b)'
    OBVIOUS
  <2>1. Starting(b)' = Starting(b)
    BY <1>0, StartingSame DEF Shape
  <2>2. OneAct(state[b], msg_queue[b], event[b], running[b], thread[b], worker[b], Starting(b))
    BY DEF Inv, ActInv
  <2> QED  BY <2>1, <2>2 DEF ActInv
<1>2. \A b \in Act : thread[b] <= thread'[b]
  BY <1>0, BoundAssumption DEF Shape
<1>3. /\ state' \in [Act -> {"NONE", "STOP", "RUN", "PENDING_STOP"}]
      /\ msg_queue' \in [Act -> Seq(Msg)]
      /\ event' \in [Act -> BOOLEAN] /\ running' \in [Act -> BOOLEAN]
      /\ thread' \in [Act -> 0..MaxRuns] /\ worker' \in [Act -> Workers]
  BY <1>0 DEF Shape, Workers
<1>4. pc.at \in {"run", "created"} => manager_lock' = c
  OBVIOUS
<1> QED  BY <1>1, <1>2, <1>3, <1>4, CallerMoves

(* A step of a caller on the queue, event and state of one object.         *)
LEMMA CallerTouches ==
  ASSUME Inv, NEW c \in Caller, NEW pc \in CallerPlaces, Goto(c, pc),
         caller[c].at # "created", pc.at # "created",
         manager_lock' = manager_lock \/ manager_lock \in {None, c},
         pc.at = "run" => manager_lock' = c,
         act_list' \subseteq Act, nextId' \in Nat \ {0},
         NEW a \in Act, NEW s \in {"NONE", "STOP", "RUN", "PENDING_STOP"},
         NEW q \in Seq(Msg), NEW e \in BOOLEAN,
         state' = [state EXCEPT ![a] = s],
         msg_queue' = [msg_queue EXCEPT ![a] = q],
         event' = [event EXCEPT ![a] = e],
         UNCHANGED <<running, thread, worker>>,
         OneAct(s, q, e, running[a], thread[a], worker[a], Starting(a)),
         pc.at = "stopping" => pc.own <= thread[pc.act],
         pc.at # "joining",
         OnlyRegistered'
  PROVE  Inv'
<1>0. Shape /\ \A b \in Act : ActInv(b)
  BY DEF Inv
<1>1. \A b \in Act : Starting(b)' = Starting(b)
  BY <1>0, StartingSame DEF Shape
<1>2. /\ state'[a] = s /\ msg_queue'[a] = q /\ event'[a] = e
      /\ \A b \in Act \ {a} :
           /\ state'[b] = state[b] /\ msg_queue'[b] = msg_queue[b]
           /\ event'[b] = event[b]
  BY <1>0 DEF Shape
<1>3. ActInv(a)'
  BY <1>1, <1>2 DEF ActInv
<1>4. \A b \in Act : ActInv(b)'
  BY <1>0, <1>1, <1>2, <1>3, OthersKeep
<1>5. \A b \in Act : thread[b] <= thread'[b]
  BY <1>0, BoundAssumption DEF Shape
<1>6. /\ state' \in [Act -> {"NONE", "STOP", "RUN", "PENDING_STOP"}]
      /\ msg_queue' \in [Act -> Seq(Msg)]
      /\ event' \in [Act -> BOOLEAN] /\ running' \in [Act -> BOOLEAN]
      /\ thread' \in [Act -> 0..MaxRuns] /\ worker' \in [Act -> Workers]
  BY <1>0 DEF Shape, Workers
<1>7. pc.at \in {"run", "created"} => manager_lock' = c
  OBVIOUS
<1> QED  BY <1>4, <1>5, <1>6, <1>7, CallerMoves

(* A queue holds sequences of messages, and appending keeps them so.       *)
LEMMA AppendType ==
  ASSUME NEW q \in Seq(Msg), NEW m \in Msg
  PROVE  Append(q, m) \in Seq(Msg)
BY AppendProperties

(* activity_msg_send and activity_exec before act->lock.                   *)
LEMMA SendBeginKeeps ==
  ASSUME Inv, NEW c \in Caller, NEW a \in Act, NEW gc \in BOOLEAN,
         activity_msg_send_begin(c, a, gc) \/ activity_exec_begin(c, a, gc)
  PROVE  Inv'
<1>0. Shape /\ OnlyRegistered /\ caller[c].at = "idle" /\ nextId <= MaxMsgs /\ nextId' = nextId + 1
      /\ UNCHANGED <<mgr, manager_lock, act_list, state, msg_queue, event, running, thread, worker>>
  BY DEF Inv, activity_msg_send_begin, activity_exec_begin, actVars, At
<1>1. act_list' \subseteq Act /\ nextId' \in Nat \ {0} /\ OnlyRegistered'
  BY <1>0 DEF Shape, OnlyRegistered
<1>2. CASE UNCHANGED caller
  <2>1. Goto(c, caller[c]) /\ caller[c] \in CallerPlaces
    BY <1>0, <1>2 DEF Shape, Goto
  <2> QED  BY <1>0, <1>1, <2>1, CallerQuiet
<1>3. ASSUME NEW type \in {"user", "exec"},
             Goto(c, [at |-> "sending", act |-> a, msg |-> Message(nextId, type, gc)])
      PROVE  Inv'
  <2> DEFINE msg == Message(nextId, type, gc)
             pc == [at |-> "sending", act |-> a, msg |-> msg]
  <2>1. msg \in UserMsg
    BY <1>0, BoundAssumption DEF Message, Msg, UserMsg, Types, Ids, Shape
  <2> HIDE DEF msg
  <2>2. pc \in CallerPlaces /\ pc.at = "sending"
    BY <2>1 DEF CallerPlaces
  <2>3. Goto(c, pc)
    BY <1>3 DEF msg
  <2> HIDE DEF pc
  <2> QED  BY <1>0, <1>1, <2>2, <2>3, CallerQuiet
<1>4. \/ UNCHANGED caller
      \/ \E type \in {"user", "exec"} :
           Goto(c, [at |-> "sending", act |-> a, msg |-> Message(nextId, type, gc)])
  BY DEF activity_msg_send_begin, activity_exec_begin
<1> QED  BY <1>2, <1>3, <1>4

(* activity_msg_send under act->lock.                                      *)
LEMMA SendKeeps ==
  ASSUME Inv, NEW c \in Caller, activity_msg_send(c)
  PROVE  Inv'
<1> DEFINE a == caller[c].act
           m == caller[c].msg
<1>0. /\ Shape /\ OnlyRegistered /\ caller[c].at = "sending" /\ Goto(c, Idle)
      /\ UNCHANGED <<mgr, manager_lock, act_list, state, running, thread, worker, nextId>>
  BY DEF Inv, activity_msg_send, At
<1>1. a \in Act /\ m \in Msg /\ m.type # "stop"
  BY <1>0, PlaceFields DEF Shape, UserMsg
<1>2. act_list' \subseteq Act /\ nextId' \in Nat \ {0} /\ OnlyRegistered'
  BY <1>0 DEF Shape, OnlyRegistered
<1>3. CASE UNCHANGED <<msg_queue, event>>
  BY <1>0, <1>2, <1>3, IdlePlace, CallerQuiet
<1>4. CASE Accepts(a) /\ msg_enqueue(a, m)
  <2>1. /\ state[a] = "RUN"
        /\ msg_queue' = [msg_queue EXCEPT ![a] = Append(msg_queue[a], m)]
        /\ event' = [event EXCEPT ![a] = TRUE]
    BY <1>4 DEF Accepts, msg_enqueue
  <2>2. OneAct("RUN", msg_queue[a], event[a], running[a], thread[a], worker[a], Starting(a))
    BY <1>1, <2>1 DEF Inv, ActInv
  <2>3. msg_queue[a] \in Seq(Msg) /\ state' = [state EXCEPT ![a] = "RUN"]
    BY <1>0, <1>1, <2>1 DEF Shape
  <2>4. Append(msg_queue[a], m) \in Seq(Msg)
    BY <1>1, <2>3, AppendType
  <2>5. OneAct("RUN", Append(msg_queue[a], m), TRUE, running[a], thread[a], worker[a], Starting(a))
    BY <1>1, <2>2, <2>3, EnqueueOne
  <2> HIDE DEF a, m
  <2> QED  BY <1>0, <1>1, <1>2, <2>1, <2>3, <2>4, <2>5, IdlePlace, CallerTouches
<1> QED  BY <1>3, <1>4 DEF activity_msg_send

(* activity_set_pendding_exit, called by activity_stop and                 *)
(* activity_manager_fini.                                                  *)
LEMMA PenddingExitKeeps ==
  ASSUME Inv, NEW c \in Caller, NEW pc \in CallerPlaces, Goto(c, pc),
         caller[c].at # "created", pc.at \notin {"run", "created", "joining"},
         NEW a \in Act, NEW ret, activity_set_pendding_exit(a, ret),
         UNCHANGED <<mgr, manager_lock, act_list, running, thread, worker, nextId>>,
         pc.at = "stopping" => pc.own <= thread[pc.act]
  PROVE  Inv'
<1>0. Shape /\ OnlyRegistered
  BY DEF Inv
<1>1. act_list' \subseteq Act /\ nextId' \in Nat \ {0}
  BY <1>0 DEF Shape
<1>2. CASE UNCHANGED <<state, msg_queue, event>>
  <2>1. OnlyRegistered'
    BY <1>0, <1>2 DEF OnlyRegistered
  <2> QED  BY <1>1, <1>2, <2>1, CallerQuiet
<1>3. CASE state[a] = "RUN" /\ msg_enqueue(a, STOP)
           /\ state' = [state EXCEPT ![a] = "PENDING_STOP"]
  <2>1. /\ msg_queue' = [msg_queue EXCEPT ![a] = Append(msg_queue[a], STOP)]
        /\ event' = [event EXCEPT ![a] = TRUE]
    BY <1>3 DEF msg_enqueue
  <2>2. OneAct("RUN", msg_queue[a], event[a], running[a], thread[a], worker[a], Starting(a))
    BY <1>3 DEF Inv, ActInv
  <2>3. msg_queue[a] \in Seq(Msg)
    BY <1>0 DEF Shape
  <2>4. Append(msg_queue[a], STOP) \in Seq(Msg)
    BY <2>3, AppendType, StopMsg
  <2>5. OneAct("PENDING_STOP", Append(msg_queue[a], STOP), TRUE, running[a], thread[a],
               worker[a], Starting(a))
    BY <2>2, <2>3, EnqueueStop
  <2>6. OnlyRegistered'
    BY <1>0, <1>3 DEF OnlyRegistered, Shape
  <2> QED  BY <1>1, <1>3, <2>1, <2>4, <2>5, <2>6, CallerTouches
<1> QED  BY <1>2, <1>3 DEF activity_set_pendding_exit

(* A running object has a thread.                                          *)
LEMMA RunningHasThread ==
  ASSUME Inv, NEW a \in Act, state[a] \in {"RUN", "PENDING_STOP"}
  PROVE  thread[a] \in Run
<1>1. thread[a] \in 0..MaxRuns /\ thread[a] > 0
  BY DEF Inv, Shape, ActInv, OneAct, Serving, Ending
<1> QED  BY <1>1, BoundAssumption DEF Run

LEMMA StopKeeps ==
  ASSUME Inv, NEW c \in Caller, NEW a \in Act, NEW wait_finish \in BOOLEAN,
         activity_stop(c, a, wait_finish)
  PROVE  Inv'
<1>0. /\ caller[c].at = "idle"
      /\ UNCHANGED <<mgr, manager_lock, act_list, running, thread, worker, nextId>>
  BY DEF activity_stop, At
<1> DEFINE pc(ret) == IF ret = "ok" /\ wait_finish
                      THEN [at |-> "stopping", act |-> a, own |-> thread[a]]
                      ELSE Idle
<1>1. PICK ret \in {"ok", "refused", "nomem"} :
        activity_set_pendding_exit(a, ret) /\ Goto(c, pc(ret))
  BY DEF activity_stop
<1>2. CASE ret = "ok" /\ wait_finish
  <2> DEFINE qc == [at |-> "stopping", act |-> a, own |-> thread[a]]
  <2>1. thread[a] \in Run
    <3>1. state[a] = "RUN"
      BY <1>1, <1>2 DEF activity_set_pendding_exit
    <3> QED  BY <3>1, RunningHasThread
  <2>2. qc \in CallerPlaces /\ qc.at = "stopping" /\ qc.own <= thread[qc.act]
    BY <2>1, BoundAssumption DEF CallerPlaces, Run
  <2>3. Goto(c, qc)
    BY <1>1, <1>2
  <2> HIDE DEF qc
  <2> QED  BY <1>0, <1>1, <2>2, <2>3, PenddingExitKeeps
<1>3. CASE ~(ret = "ok" /\ wait_finish)
  <2>1. Goto(c, Idle)
    BY <1>1, <1>3
  <2> QED  BY <1>0, <1>1, <2>1, IdlePlace, PenddingExitKeeps
<1> QED  BY <1>2, <1>3

(* Registration: the object that takes part in no run yet is at rest.      *)
LEMMA RegKeeps ==
  ASSUME Inv, NEW c \in Caller, NEW a \in Act, activity_reg(c, a)
  PROVE  Inv'
<1> DEFINE pc == [at |-> "run", act |-> a]
<1>0. /\ Shape /\ OnlyRegistered /\ LockHeld
      /\ caller[c].at = "idle" /\ manager_lock = None /\ a \notin act_list
      /\ mgr = "up" /\ mgr' = mgr /\ manager_lock' = c /\ act_list' = act_list \union {a}
      /\ state' = [state EXCEPT ![a] = "STOP"]
      /\ msg_queue' = [msg_queue EXCEPT ![a] = <<>>]
      /\ Goto(c, pc)
      /\ UNCHANGED <<event, running, thread, worker, nextId>>
  BY DEF Inv, activity_reg, At
<1>1. pc \in CallerPlaces /\ pc.at = "run"
  BY DEF CallerPlaces
<1> HIDE DEF pc
<1>2. act_list' \subseteq Act /\ nextId' \in Nat \ {0} /\ event' = [event EXCEPT ![a] = event[a]]
      /\ event[a] \in BOOLEAN
  BY <1>0 DEF Shape
<1>3. OnlyRegistered'
  BY <1>0 DEF OnlyRegistered, Shape
<1>4. state[a] = "NONE"
  BY <1>0 DEF OnlyRegistered
<1>5. ~Starting(a)
  BY <1>4 DEF Inv, ActInv, OneAct
<1>6. OneAct("STOP", <<>>, event[a], running[a], thread[a], worker[a], Starting(a))
  BY <1>4, <1>5 DEF Inv, ActInv, OneAct, AtRest
<1>7. <<>> \in Seq(Msg)
  BY EmptySeq
<1> QED  BY <1>0, <1>1, <1>2, <1>3, <1>6, <1>7, CallerTouches

(* activity_run_local up to pthread_create: the manager lock keeps every   *)
(* other caller out.                                                       *)
LEMMA RunLocalKeeps ==
  ASSUME Inv, NEW c \in Caller, activity_run_local(c)
  PROVE  Inv'
<1>a. PICK a \in Act : a = caller[c].act
  BY PlaceFields DEF Inv, activity_run_local, At, Shape
<1> DEFINE r == thread[a] + 1
<1>0. /\ Shape /\ OnlyRegistered /\ LockHeld /\ caller[c].at = "run" /\ a \in Act
      /\ manager_lock = c
      /\ UNCHANGED <<mgr, act_list, state, msg_queue, nextId>>
  BY DEF Inv, activity_run_local, At, LockHeld
<1>1. act_list' \subseteq Act /\ nextId' \in Nat \ {0} /\ OnlyRegistered'
  BY <1>0 DEF Shape, OnlyRegistered
<1>2. CASE Goto(c, Idle) /\ UNCHANGED <<running, event, thread, worker>>
  BY <1>0, <1>1, <1>2, IdlePlace, CallerQuiet
<1>3. CASE /\ state[a] = "STOP" /\ r \in Run
           /\ running' = [running EXCEPT ![a] = TRUE]
           /\ event' = [event EXCEPT ![a] = FALSE]
           /\ thread' = [thread EXCEPT ![a] = r]
           /\ SetWorker(a, r, Work("init"))
           /\ Goto(c, [at |-> "created", act |-> a])
           /\ UNCHANGED manager_lock
  <2> DEFINE pc == [at |-> "created", act |-> a]
             w == [worker[a] EXCEPT ![r] = Work("init")]
  <2>1. pc \in CallerPlaces /\ pc.at = "created" /\ pc.act = a /\ Goto(c, pc)
    BY <1>0, <1>3 DEF CallerPlaces
  <2>2. /\ caller'[c] = pc
        /\ \A d \in Caller : d # c => caller'[d] = caller[d]
        /\ \A d \in Caller : d # c => caller[d].at # "created"
    BY <1>0, <2>1, NoneAssumption DEF Goto, Shape, LockHeld
  <2>3. \A b \in Act : ~Starting(b)
    BY <1>0, <2>2 DEF Starting, At
  <2>4. /\ Starting(a)'
        /\ \A b \in Act \ {a} : ~Starting(b)'
    BY <2>1, <2>2 DEF Starting, At
  <2>5. /\ msg_queue[a] \in Seq(Msg) /\ thread[a] \in 0..MaxRuns /\ worker[a] \in Workers
        /\ OneAct("STOP", msg_queue[a], event[a], running[a], thread[a], worker[a], FALSE)
    <3>1. OneAct("STOP", msg_queue[a], event[a], running[a], thread[a], worker[a], Starting(a))
      BY <1>0, <1>3 DEF Inv, ActInv
    <3>2. Starting(a) = FALSE
      BY <1>0, <2>3
    <3> QED  BY <1>0, <3>1, <3>2 DEF Shape, Workers
  <2>6. OneAct("STOP", msg_queue[a], FALSE, TRUE, r, w, TRUE)
    BY <1>3, <2>5, StartOne
  <2>7. w \in Workers
    <3>1. Work("init") \in [at : Places, msg : Msg]
      BY WorkType DEF Places
    <3> QED  BY <1>3, <2>5, <3>1 DEF Workers
  <2>8. worker' = [worker EXCEPT ![a] = w]
    BY <1>3 DEF SetWorker
  <2> HIDE DEF pc, w
  <2>9. /\ state'[a] = "STOP" /\ msg_queue'[a] = msg_queue[a] /\ event'[a] = FALSE
        /\ running'[a] = TRUE /\ thread'[a] = r /\ worker'[a] = w
        /\ \A b \in Act \ {a} :
             /\ state'[b] = state[b] /\ msg_queue'[b] = msg_queue[b]
             /\ event'[b] = event[b] /\ running'[b] = running[b]
             /\ thread'[b] = thread[b] /\ worker'[b] = worker[b]
    BY <1>0, <1>3, <2>8 DEF Shape
  <2>10. ActInv(a)'
    <3>1. Starting(a)' \in BOOLEAN
      BY Zenon DEF Starting
    <3>2. Starting(a)' = TRUE
      BY <2>4, <3>1
    <3> QED  BY <2>6, <2>9, <3>2 DEF ActInv
  <2>11. \A b \in Act \ {a} : Starting(b)' = Starting(b)
    <3>1. \A b \in Act : Starting(b)' \in BOOLEAN /\ Starting(b) \in BOOLEAN
      BY Zenon DEF Starting
    <3> QED  BY <2>3, <2>4, <3>1
  <2>12. \A b \in Act : ActInv(b)
    BY DEF Inv
  <2>13. \A b \in Act : ActInv(b)'
    BY <1>0, <2>9, <2>10, <2>11, <2>12, OthersKeep
  <2>14. \A b \in Act : thread[b] <= thread'[b]
    <3>1. \A b \in Act : thread[b] \in Int /\ thread[b] <= thread[b]
      BY <1>0, BoundAssumption DEF Shape
    <3>2. thread[a] <= thread'[a]
      BY <1>0, <2>9, <3>1
    <3> QED  BY <2>9, <3>1, <3>2
  <2>15. /\ state' \in [Act -> {"NONE", "STOP", "RUN", "PENDING_STOP"}]
         /\ msg_queue' \in [Act -> Seq(Msg)]
         /\ event' \in [Act -> BOOLEAN] /\ running' \in [Act -> BOOLEAN]
    BY <1>0, <1>3 DEF Shape
  <2>16. thread' \in [Act -> 0..MaxRuns] /\ worker' \in [Act -> Workers]
    <3>1. r \in 0..MaxRuns
      BY <1>3, BoundAssumption DEF Run
    <3> HIDE DEF r
    <3> QED  BY <1>0, <1>3, <2>7, <2>8, <3>1 DEF Shape, Workers
  <2> QED  BY <1>0, <1>1, <1>3, <2>1, <2>13, <2>14, <2>15, <2>16, CallerMoves
<1> QED  BY <1>a, <1>2, <1>3 DEF activity_run_local, MayStart

(* The write of act->state after it.                                       *)
LEMMA RunLocalEndKeeps ==
  ASSUME Inv, NEW c \in Caller, activity_run_local_end(c)
  PROVE  Inv'
<1>a. PICK a \in Act : a = caller[c].act
  BY PlaceFields DEF Inv, activity_run_local_end, At, Shape
<1>0. /\ Shape /\ OnlyRegistered /\ LockHeld /\ caller[c].at = "created" /\ a \in Act
      /\ manager_lock = c /\ Goto(c, Idle)
      /\ state' = [state EXCEPT ![a] = "RUN"]
      /\ UNCHANGED <<mgr, act_list, msg_queue, event, running, thread, worker, nextId>>
  BY <1>a DEF Inv, activity_run_local_end, At, LockHeld
<1>1. act_list' \subseteq Act /\ nextId' \in Nat \ {0}
  BY <1>0 DEF Shape
<1>2. /\ caller'[c] = Idle
      /\ \A d \in Caller : d # c => caller'[d] = caller[d]
      /\ \A d \in Caller : d # c => caller[d].at # "created"
  BY <1>0, NoneAssumption DEF Goto, Shape, LockHeld
<1>3. /\ Starting(a)
      /\ \A b \in Act \ {a} : ~Starting(b)
      /\ \A b \in Act : ~Starting(b)'
  BY <1>a, <1>0, <1>2, IdlePlace DEF Starting, At
<1>4. \A b \in Act : Starting(b)' \in BOOLEAN /\ Starting(b) \in BOOLEAN
  BY Zenon DEF Starting
<1>5. /\ Starting(a) = TRUE /\ Starting(a)' = FALSE
      /\ \A b \in Act \ {a} : Starting(b)' = Starting(b)
  BY <1>0, <1>3, <1>4
<1>6. /\ state'[a] = "RUN"
      /\ \A b \in Act \ {a} : state'[b] = state[b]
  BY <1>0 DEF Shape
<1>7. \A b \in Act : ActInv(b)
  BY DEF Inv
<1>8. OneAct(state[a], msg_queue[a], event[a], running[a], thread[a], worker[a], TRUE)
  BY <1>0, <1>5, <1>7 DEF ActInv
<1>9. OneAct("RUN", msg_queue[a], event[a], running[a], thread[a], worker[a], FALSE)
  BY <1>8, StartedOne
<1>10. ActInv(a)'
  BY <1>0, <1>5, <1>6, <1>9 DEF ActInv
<1>11. \A b \in Act : ActInv(b)'
  BY <1>0, <1>5, <1>6, <1>7, <1>10, OthersKeep
<1>12. OnlyRegistered'
  <2>1. state[a] = "STOP"
    BY <1>8 DEF OneAct
  <2> QED  BY <1>0, <1>6, <2>1 DEF OnlyRegistered
<1>13. \A b \in Act : thread[b] <= thread'[b]
  BY <1>0, BoundAssumption DEF Shape
<1>14. /\ state' \in [Act -> {"NONE", "STOP", "RUN", "PENDING_STOP"}]
       /\ msg_queue' \in [Act -> Seq(Msg)]
       /\ event' \in [Act -> BOOLEAN] /\ running' \in [Act -> BOOLEAN]
       /\ thread' \in [Act -> 0..MaxRuns] /\ worker' \in [Act -> Workers]
  BY <1>0 DEF Shape, Workers
<1> QED  BY <1>0, <1>1, <1>11, <1>12, <1>13, <1>14, IdlePlace, CallerMoves

(* activity_run, and the end of activity_stop.                             *)
LEMMA PassingKeeps ==
  ASSUME Inv, NEW c \in Caller,
         \/ \E a \in Act : activity_run(c, a)
         \/ activity_stop_read_thread(c)
         \/ activity_stop_joined(c)
         \/ activity_manager_fini(c)
         \/ activity_manager_fini_end(c)
  PROVE  Inv'
<1>0. Shape /\ OnlyRegistered /\ JoinsInv
  BY DEF Inv
<1>1. ASSUME NEW a \in Act, activity_run(c, a) PROVE Inv'
  <2> DEFINE pc == [at |-> "run", act |-> a]
  <2>1. pc \in CallerPlaces /\ pc.at = "run"
    BY DEF CallerPlaces
  <2>2. /\ Goto(c, pc) /\ caller[c].at = "idle" /\ manager_lock = None /\ manager_lock' = c
        /\ UNCHANGED <<mgr, act_list, state, msg_queue, event, running, thread, worker, nextId>>
    BY <1>1 DEF activity_run, actVars, At
  <2> HIDE DEF pc
  <2>3. act_list' \subseteq Act /\ nextId' \in Nat \ {0} /\ OnlyRegistered'
    BY <1>0, <2>2 DEF Shape, OnlyRegistered
  <2> QED  BY <2>1, <2>2, <2>3, CallerQuiet
<1>2. CASE activity_stop_read_thread(c)
  <2> DEFINE a == caller[c].act
             pc == [at |-> "joining", act |-> a, own |-> caller[c].own, target |-> thread[a]]
  <2>1. /\ Goto(c, pc) /\ caller[c].at = "stopping"
        /\ UNCHANGED <<mgr, manager_lock, act_list, state, msg_queue, event, running, thread,
                       worker, nextId>>
    BY <1>2 DEF activity_stop_read_thread, actVars, At
  <2>2. a \in Act /\ caller[c].own \in Run /\ caller[c].own <= thread[a]
    BY <1>0, <2>1, PlaceFields DEF Shape, JoinsInv, At
  <2>3. thread[a] \in Run
    BY <1>0, <2>2, BoundAssumption DEF Shape, Run
  <2>4. /\ pc \in CallerPlaces /\ pc.at = "joining"
        /\ pc.own <= pc.target /\ pc.target <= thread[pc.act]
    BY <2>2, <2>3, BoundAssumption DEF CallerPlaces, Run
  <2> HIDE DEF pc
  <2>5. act_list' \subseteq Act /\ nextId' \in Nat \ {0} /\ OnlyRegistered'
    BY <1>0, <2>1 DEF Shape, OnlyRegistered
  <2> QED  BY <2>1, <2>4, <2>5, CallerQuiet
<1>3. CASE activity_stop_joined(c)
  <2>1. /\ Goto(c, Idle) /\ caller[c].at = "joining"
        /\ UNCHANGED <<mgr, manager_lock, act_list, state, msg_queue, event, running, thread,
                       worker, nextId>>
    BY <1>3 DEF activity_stop_joined, actVars, At
  <2>2. act_list' \subseteq Act /\ nextId' \in Nat \ {0} /\ OnlyRegistered'
    BY <1>0, <2>1 DEF Shape, OnlyRegistered
  <2> QED  BY <2>1, <2>2, IdlePlace, CallerQuiet
<1>4. CASE activity_manager_fini(c)
  <2> DEFINE pc == [at |-> "fini", todo |-> act_list]
  <2>1. pc \in CallerPlaces /\ pc.at = "fini"
    BY <1>0 DEF CallerPlaces, Shape
  <2>2. /\ Goto(c, pc) /\ caller[c].at = "idle"
        /\ UNCHANGED <<mgr, manager_lock, act_list, state, msg_queue, event, running, thread,
                       worker, nextId>>
    BY <1>4 DEF activity_manager_fini, actVars, At
  <2> HIDE DEF pc
  <2>3. act_list' \subseteq Act /\ nextId' \in Nat \ {0} /\ OnlyRegistered'
    BY <1>0, <2>2 DEF Shape, OnlyRegistered
  <2> QED  BY <2>1, <2>2, <2>3, CallerQuiet
<1>5. CASE activity_manager_fini_end(c)
  <2>1. /\ Goto(c, Idle) /\ caller[c].at = "fini" /\ mgr' = "gone" /\ act_list' = {}
        /\ UNCHANGED <<manager_lock, state, msg_queue, event, running, thread, worker, nextId>>
    BY <1>5 DEF activity_manager_fini_end, actVars, At
  <2>2. act_list' \subseteq Act /\ nextId' \in Nat \ {0} /\ OnlyRegistered'
    BY <1>0, <2>1 DEF Shape, OnlyRegistered
  <2> QED  BY <2>1, <2>2, IdlePlace, CallerQuiet
<1> QED  BY <1>1, <1>2, <1>3, <1>4, <1>5

(* The first loop of activity_manager_fini.                                *)
LEMMA FiniStopKeeps ==
  ASSUME Inv, NEW c \in Caller, NEW a \in Act, activity_manager_fini_stop(c, a)
  PROVE  Inv'
<1> DEFINE pc == [at |-> "fini", todo |-> caller[c].todo \ {a}]
<1>1. /\ caller[c].at = "fini" /\ Goto(c, pc)
      /\ UNCHANGED <<mgr, manager_lock, act_list, running, thread, worker, nextId>>
  BY DEF activity_manager_fini_stop, At
<1>2. caller[c].todo \subseteq Act
  BY <1>1, PlaceFields DEF Inv, Shape
<1>3. pc \in CallerPlaces /\ pc.at = "fini"
  BY <1>2 DEF CallerPlaces
<1>4. PICK ret \in {"ok", "refused", "nomem"} : activity_set_pendding_exit(a, ret)
  BY DEF activity_manager_fini_stop
<1> HIDE DEF pc
<1> QED  BY <1>1, <1>3, <1>4, PenddingExitKeeps

(* The periodic event of an object sends to the object itself.             *)
LEMMA PeriodicKeeps ==
  ASSUME Inv, NEW a \in Act, NEW r \in Run, periodic_event_cb(a, r)
  PROVE  Inv'
<1> DEFINE m == Message(nextId, "periodic", FALSE)
<1>0. /\ Shape /\ LockHeld /\ OnlyRegistered /\ JoinsInv /\ \A b \in Act : ActInv(b)
      /\ nextId <= MaxMsgs /\ nextId' = nextId + 1
      /\ UNCHANGED <<mgr, manager_lock, act_list, state, running, thread, worker, caller>>
  BY DEF Inv, periodic_event_cb
<1>1. m \in Msg /\ m.type # "stop"
  BY <1>0, BoundAssumption DEF Message, Msg, Types, Shape
<1> HIDE DEF m
<1>2. nextId' \in Nat \ {0} /\ LockHeld' /\ OnlyRegistered' /\ JoinsInv'
  BY <1>0 DEF Shape, LockHeld, OnlyRegistered, JoinsInv, At
<1>3. \A b \in Act : Starting(b)' = Starting(b)
  BY <1>0 DEF Starting, At
<1>4. CASE UNCHANGED <<msg_queue, event>>
  <2>1. Shape'
    BY <1>0, <1>2, <1>4 DEF Shape
  <2>2. \A b \in Act : ActInv(b)'
    BY <1>0, <1>3, <1>4 DEF ActInv
  <2> QED  BY <1>2, <2>1, <2>2 DEF Inv
<1>5. CASE Accepts(a) /\ msg_enqueue(a, m)
  <2>1. /\ state[a] = "RUN"
        /\ msg_queue' = [msg_queue EXCEPT ![a] = Append(msg_queue[a], m)]
        /\ event' = [event EXCEPT ![a] = TRUE]
        /\ msg_queue[a] \in Seq(Msg)
    BY <1>0, <1>5 DEF Accepts, msg_enqueue, Shape
  <2>2. Append(msg_queue[a], m) \in Seq(Msg)
    BY <1>1, <2>1, AppendType
  <2>3. Shape'
    BY <1>0, <1>2, <2>1, <2>2 DEF Shape
  <2>4. OneAct("RUN", msg_queue[a], event[a], running[a], thread[a], worker[a], Starting(a))
    BY <1>0, <2>1 DEF ActInv
  <2>5. OneAct("RUN", Append(msg_queue[a], m), TRUE, running[a], thread[a], worker[a], Starting(a))
    BY <1>1, <2>1, <2>4, EnqueueOne
  <2>6. /\ msg_queue'[a] = Append(msg_queue[a], m) /\ event'[a] = TRUE
        /\ \A b \in Act \ {a} : msg_queue'[b] = msg_queue[b] /\ event'[b] = event[b]
    BY <1>0, <2>1 DEF Shape
  <2>7. ActInv(a)'
    BY <1>0, <1>3, <2>1, <2>5, <2>6 DEF ActInv
  <2>8. \A b \in Act : ActInv(b)'
    BY <1>0, <1>3, <2>6, <2>7, OthersKeep
  <2> QED  BY <1>2, <2>3, <2>8 DEF Inv
<1> QED  BY <1>4, <1>5 DEF periodic_event_cb, m

LEMMA InitHolds == Init => Inv
<1> SUFFICES ASSUME Init PROVE Inv
  OBVIOUS
<1>1. Shape
  <2>1. Work("none") \in [at : Places, msg : Msg]
    BY WorkType DEF Places
  <2>2. <<>> \in Seq(Msg)
    BY EmptySeq
  <2> QED  BY <2>1, <2>2, IdlePlace, BoundAssumption DEF Init, Shape
<1>2. LockHeld /\ OnlyRegistered /\ JoinsInv /\ \A a \in Act : ~Starting(a)
  BY IdlePlace DEF Init, LockHeld, OnlyRegistered, JoinsInv, Starting, At
<1>3. ASSUME NEW a \in Act PROVE ActInv(a)
  <2>1. /\ state[a] = "NONE" /\ msg_queue[a] = <<>> /\ thread[a] = 0
        /\ \A r \in Run : worker[a][r].at = "none"
    BY WorkType DEF Init, Places
  <2>2. Threads(thread[a], worker[a])
    BY <2>1, BoundAssumption DEF Threads, Run
  <2> QED  BY <1>2, <2>1, <2>2 DEF ActInv, OneAct, AtRest
<1> QED  BY <1>1, <1>2, <1>3 DEF Inv

LEMMA StepKeeps == Inv /\ [Next]_vars => Inv'
<1> SUFFICES ASSUME Inv, [Next]_vars PROVE Inv'
  OBVIOUS
<1>1. ASSUME NEW c \in Caller, CallerStep(c) PROVE Inv'
  <2>1. ASSUME NEW a \in Act, \/ activity_periodic_event_enable(c, a)
                              \/ activity_periodic_event_disable(c, a)
        PROVE  Inv'
    BY <2>1, UntouchedKeeps DEF activity_periodic_event_enable, activity_periodic_event_disable
  <2> QED  BY <1>1, <2>1, SendBeginKeeps, StopKeeps, RegKeeps, PassingKeeps DEF CallerStep
<1>2. ASSUME NEW c \in Caller, CallStep(c) PROVE Inv'
  BY <1>2, SendKeeps, RunLocalKeeps, RunLocalEndKeeps, PassingKeeps, FiniStopKeeps, BreakKeeps
  DEF CallStep, activity_stop_joins_again, activity_msg_send_after_fini
<1>3. CASE activity_manager_init
  BY <1>3, UntouchedKeeps DEF activity_manager_init, actVars
<1>4. CASE UNCHANGED vars
  BY <1>4, UntouchedKeeps DEF vars, actVars
<1>5. ASSUME NEW a \in Act, NEW r \in Run, TimerStep(a, r) PROVE Inv'
  BY <1>5, PeriodicKeeps DEF TimerStep
<1> QED  BY <1>1, <1>2, <1>3, <1>4, <1>5, WorkerKeeps DEF Next

LEMMA Invariance == Spec => []Inv
BY InitHolds, StepKeeps, PTL DEF Spec
-----------------------------------------------------------------------------
(* The thread of a has taken a message from the queue.                     *)
Busy(a) == thread[a] \in Run /\ worker[a][thread[a]].at = "handle"

(* Accepted, for the queue q and the threads w of an object.               *)
Taken(q, w) ==
  (IF {r \in Run : w[r].at = "handle"} = {} THEN <<>>
   ELSE <<w[CHOOSE r \in {r \in Run : w[r].at = "handle"} : TRUE].msg>>) \o q

LEMMA TakenIs ==
  ASSUME NEW q \in Seq(Msg), NEW t \in 0..MaxRuns, NEW w \in Workers, Threads(t, w)
  PROVE  /\ ~(t \in Run /\ w[t].at = "handle") => Taken(q, w) = q
         /\ t \in Run /\ w[t].at = "handle" => Taken(q, w) = <<w[t].msg>> \o q
<1> DEFINE H == {r \in Run : w[r].at = "handle"}
<1>1. \A r \in H : r = t
  BY LiveIsLast
<1>2. ASSUME ~(t \in Run /\ w[t].at = "handle") PROVE Taken(q, w) = q
  <2>1. H = {}
    BY <1>1, <1>2
  <2> QED  BY <2>1, ConcatEmptySeq DEF Taken
<1>3. ASSUME t \in Run, w[t].at = "handle" PROVE Taken(q, w) = <<w[t].msg>> \o q
  <2>1. H = {t}
    BY <1>1, <1>3
  <2>2. (CHOOSE r \in H : TRUE) = t
    BY <2>1
  <2> QED  BY <2>1, <2>2 DEF Taken
<1> QED  BY <1>2, <1>3

LEMMA AcceptedIs ==
  ASSUME Inv, NEW a \in Act
  PROVE  /\ ~Busy(a) => Accepted(a) = msg_queue[a]
         /\ Busy(a) => Accepted(a) = <<worker[a][thread[a]].msg>> \o msg_queue[a]
<1>1. /\ thread[a] \in 0..MaxRuns /\ worker[a] \in Workers /\ Threads(thread[a], worker[a])
      /\ msg_queue[a] \in Seq(Msg)
  BY DEF Inv, Shape, ActInv, OneAct, Workers
<1>2. Accepted(a) = Taken(msg_queue[a], worker[a])
  BY DEF Accepted, InHand, Handling, Taken
<1> QED  BY <1>1, <1>2, TakenIs DEF Busy

(* A message in front of a sequence of messages.                           *)
LEMMA ConsProperties ==
  ASSUME NEW m \in Msg, NEW q \in Seq(Msg)
  PROVE  /\ <<m>> \o q \in Seq(Msg) /\ Len(<<m>> \o q) = Len(q) + 1 /\ Len(q) \in Nat
         /\ (<<m>> \o q)[1] = m
         /\ \A i \in 1..Len(q) : (<<m>> \o q)[i + 1] = q[i]
         /\ \A i \in 2..Len(q) + 1 : (<<m>> \o q)[i] = q[i - 1]
<1>1. <<m>> \in Seq(Msg) /\ Len(<<m>>) = 1 /\ Len(q) \in Nat
  OBVIOUS
<1> QED  BY <1>1, ConcatProperties

(* AtMostOneWorker: an activity never has two threads at work on the same  *)
(* event loop and queue (activity_run_local, activity_thread).             *)
THEOREM OneWorker == Spec => []AtMostOneWorker
<1>1. ASSUME Inv PROVE AtMostOneWorker
  <2>1. ASSUME NEW a \in Act, NEW r \in Run, Active(a, r) PROVE r = thread[a]
    <3>1. /\ thread[a] \in 0..MaxRuns /\ worker[a] \in Workers
          /\ Threads(thread[a], worker[a])
      BY <1>1 DEF Inv, Shape, ActInv, OneAct, Workers
    <3>2. worker[a][r].at \notin {"none", "done"}
      BY <2>1 DEF Active
    <3> QED  BY <3>1, <3>2, LiveIsLast
  <2> QED  BY <2>1 DEF AtMostOneWorker
<1> QED  BY <1>1, Invariance, PTL

(* NoLostWakeup: a queued message always has a post in the eventfd or a    *)
(* thread inside the loop of msg_queue_handler.                            *)
THEOREM WakeupNotLost == Spec => []NoLostWakeup
<1>1. ASSUME Inv PROVE NoLostWakeup
  <2> SUFFICES ASSUME NEW a \in Act, msg_queue[a] # <<>>
               PROVE  \/ event[a] /\ \E r \in Run : Active(a, r)
                      \/ \E r \in Run : worker[a][r].at \in {"dequeue", "handle"}
    BY DEF NoLostWakeup
  <2>1. OneAct(state[a], msg_queue[a], event[a], running[a], thread[a], worker[a], Starting(a))
        /\ state[a] \in {"NONE", "STOP", "RUN", "PENDING_STOP"}
    BY <1>1 DEF Inv, ActInv, Shape
  <2>2. state[a] \in {"RUN", "PENDING_STOP"}
    BY <2>1 DEF OneAct, AtRest, JustStarted
  <2>3. thread[a] \in Run
    BY <1>1, <2>2, RunningHasThread
  <2>4. /\ worker[a][thread[a]].at \in {"init", "loop", "dequeue", "handle"}
        /\ Woken(msg_queue[a], event[a], worker[a][thread[a]].at)
    BY <2>1, <2>2 DEF OneAct, Serving, Ending
  <2> QED  BY <2>3, <2>4 DEF Woken, Active
<1> QED  BY <1>1, Invariance, PTL

(* Where the STOP can be, from the invariant.                              *)
LEMMA StopPlace == ASSUME Inv PROVE StopIsLast
<1> SUFFICES ASSUME NEW a \in Act
             PROVE  /\ \A i \in 1..Len(Accepted(a)) : Accepted(a)[i].type = "stop" =>
                         i = Len(Accepted(a)) /\ state[a] = "PENDING_STOP"
                    /\ state[a] = "STOP" => Accepted(a) = <<>>
  BY DEF StopIsLast
<1> DEFINE q == msg_queue[a]
           t == thread[a]
           w == worker[a]
<1>1. /\ OneAct(state[a], q, event[a], running[a], t, w, Starting(a))
      /\ state[a] \in {"NONE", "STOP", "RUN", "PENDING_STOP"}
      /\ q \in Seq(Msg) /\ w \in Workers
  BY DEF Inv, ActInv, Shape, Workers
<1>2. /\ ~Busy(a) => Accepted(a) = q
      /\ Busy(a) => Accepted(a) = <<w[t].msg>> \o q
      /\ Busy(a) => t \in Run /\ w[t].at = "handle" /\ w[t].msg \in Msg
  BY <1>1, AcceptedIs DEF Busy, Workers
<1>3. t > 0 => t \in Run
  BY BoundAssumption DEF Inv, Shape, Run
<1> HIDE DEF q, t, w
<1>4. CASE state[a] \in {"NONE", "STOP"}
  <2>1. q = <<>> /\ ~Busy(a)
    BY <1>1, <1>2, <1>4, BoundAssumption DEF OneAct, AtRest, JustStarted, Run
  <2> QED  BY <1>2, <1>4, <2>1
<1>5. CASE state[a] = "RUN"
  <2>1. NoStop(q) /\ (w[t].at = "handle" => w[t].msg.type # "stop")
    BY <1>1, <1>5 DEF OneAct, Serving
  <2>2. CASE ~Busy(a)
    BY <1>2, <1>5, <2>1, <2>2 DEF NoStop
  <2>3. CASE Busy(a)
    <3>1. \A i \in 1..Len(Accepted(a)) : i = 1 \/ i \in 2..Len(q) + 1
      BY <1>1, <1>2, <2>3, ConsProperties
    <3>2. \A i \in 1..Len(Accepted(a)) : Accepted(a)[i].type # "stop"
      <4>1. ASSUME NEW i \in 2..Len(q) + 1 PROVE Accepted(a)[i].type # "stop"
        <5>1. Accepted(a)[i] = q[i - 1] /\ Len(q) \in Nat
          BY <1>1, <1>2, <2>3, ConsProperties
        <5>2. i - 1 \in 1..Len(q)
          BY <5>1
        <5> QED  BY <2>1, <5>1, <5>2 DEF NoStop
      <4>2. Accepted(a)[1] = w[t].msg
        BY <1>1, <1>2, <2>3, ConsProperties
      <4> QED  BY <1>2, <2>1, <2>3, <3>1, <4>1, <4>2
    <3> QED  BY <1>5, <3>2
  <2> QED  BY <2>2, <2>3
<1>6. CASE state[a] = "PENDING_STOP"
  <2>1. Ending(q, event[a], running[a], t, w)
    BY <1>1, <1>6 DEF OneAct
  <2>2. CASE ~Busy(a)
    <3>1. w[t].at # "handle"
      BY <1>3, <2>1, <2>2 DEF Busy, Ending, t, w
    <3>2. CASE q = <<>>
      BY <1>2, <1>6, <2>2, <3>2
    <3>3. CASE q # <<>>
      <4>1. /\ q[Len(q)].type = "stop" /\ Len(q) \in Nat
            /\ \A i \in 1..Len(q) - 1 : q[i].type # "stop"
        BY <1>1, <2>1, <3>1, <3>3 DEF Ending, StopAtEnd
      <4>2. \A i \in 1..Len(q) : i = Len(q) \/ i \in 1..Len(q) - 1
        BY <4>1
      <4> QED  BY <1>2, <1>6, <2>2, <4>1, <4>2
    <3> QED  BY <3>2, <3>3
  <2>3. CASE Busy(a)
    <3>1. StopAtEnd(q, w[t]) /\ w[t].at = "handle"
      BY <1>2, <2>1, <2>3 DEF Ending
    <3>2. CASE q = <<>>
      <4>1. Len(Accepted(a)) = 1
        BY <1>1, <1>2, <2>3, <3>2, ConsProperties
      <4> QED  BY <1>6, <4>1
    <3>3. CASE q # <<>>
      <4>1. /\ w[t].msg.type # "stop" /\ Len(q) \in Nat
            /\ \A i \in 1..Len(q) - 1 : q[i].type # "stop"
        BY <1>1, <3>1, <3>3 DEF StopAtEnd
      <4>2. /\ Len(Accepted(a)) = Len(q) + 1 /\ Accepted(a)[1] = w[t].msg
            /\ \A i \in 2..Len(q) + 1 : Accepted(a)[i] = q[i - 1]
        BY <1>1, <1>2, <2>3, ConsProperties
      <4>3. ASSUME NEW i \in 1..Len(Accepted(a)), i # Len(Accepted(a))
            PROVE  Accepted(a)[i].type # "stop"
        <5>1. CASE i = 1
          BY <4>1, <4>2, <5>1
        <5>2. CASE i # 1
          <6>1. i \in 2..Len(q) + 1 /\ i - 1 \in 1..Len(q) - 1
            BY <4>1, <4>2, <4>3, <5>2
          <6> QED  BY <4>1, <4>2, <6>1
        <5> QED  BY <5>1, <5>2
      <4> QED  BY <1>6, <4>3
    <3> QED  BY <3>2, <3>3
  <2> QED  BY <2>2, <2>3
<1> QED  BY <1>1, <1>4, <1>5, <1>6

(* StopIsLast: nothing is accepted behind ACTIVITY_MSG_STOP, and a thread  *)
(* that ends leaves an empty queue to the next one.                        *)
THEOREM StopLast == Spec => []StopIsLast
BY StopPlace, Invariance, PTL

(* StopWaits: activity_stop reads act->thread after it has let go of       *)
(* act->lock, and may join a later thread than the one it asked to end;    *)
(* that one has ended all the same, unless another stop waits for the same *)
(* thread and pthread_join has failed.                                     *)
THEOREM StopHasWaited == Spec => StopWaits
<1>1. ASSUME Inv, NEW c \in Caller, activity_stop_joined(c), ~JoinShared(c)
      PROVE  worker[caller[c].act][caller[c].own].at = "done"
  <2>1. /\ caller[c].at = "joining" /\ caller[c] \in CallerPlaces
        /\ worker[caller[c].act][caller[c].target].at = "done"
        /\ caller[c].own <= caller[c].target
        /\ caller[c].target <= thread[caller[c].act]
    BY <1>1 DEF activity_stop_joined, At, Inv, Shape, JoinsInv
  <2>2. PICK a \in Act : a = caller[c].act
    BY <2>1, PlaceFields
  <2>3. PICK own \in Run, target \in Run : own = caller[c].own /\ target = caller[c].target
    BY <2>1, PlaceFields
  <2>4. thread[a] \in 0..MaxRuns /\ Threads(thread[a], worker[a])
    BY <1>1 DEF Inv, Shape, ActInv, OneAct
  <2>5. own < thread[a] => worker[a][own].at = "done"
    BY <2>4 DEF Threads
  <2>6. own = thread[a] => own = target
    BY <2>1, <2>2, <2>3, <2>4, BoundAssumption DEF Run
  <2>7. own < thread[a] \/ own = thread[a]
    BY <2>1, <2>2, <2>3, <2>4, BoundAssumption DEF Run
  <2> QED  BY <2>1, <2>2, <2>3, <2>5, <2>6, <2>7
<1>2. Inv /\ [Next]_vars =>
        [\A c \in Caller : activity_stop_joined(c) /\ ~JoinShared(c) =>
           worker[caller[c].act][caller[c].own].at = "done"]_vars
  BY <1>1
<1> QED  BY <1>2, Invariance, PTL DEF Spec, StopWaits
-----------------------------------------------------------------------------
(* The mailbox of Mailbox.tla that an object implements.                   *)
Box(ms) == [i \in 1..Users(ms) |-> ms[i].id]

LEMMA UsersAll ==
  ASSUME NEW ms \in Seq(Msg), NoStop(ms)
  PROVE  Users(ms) = Len(ms)
<1>1. ms # <<>> => Len(ms) \in 1..Len(ms)
  BY EmptySeq
<1> QED  BY <1>1 DEF Users, NoStop

LEMMA FunctionIsSeq ==
  ASSUME NEW S, NEW n \in Nat, NEW f \in [1..n -> S]
  PROVE  f \in Seq(S) /\ Len(f) = n
OBVIOUS

LEMMA BoxIsSeq ==
  ASSUME NEW ms \in Seq(Msg)
  PROVE  /\ Users(ms) \in Nat /\ Users(ms) <= Len(ms)
         /\ Box(ms) \in Seq(0..MaxMsgs) /\ Len(Box(ms)) = Users(ms)
         /\ \A i \in 1..Users(ms) : Box(ms)[i] = ms[i].id
<1>1. Len(ms) \in Nat /\ (ms # <<>> => Len(ms) # 0)
  BY EmptySeq, LenProperties
<1>2. Users(ms) \in Nat /\ Users(ms) <= Len(ms)
  BY <1>1 DEF Users
<1>3. \A i \in 1..Users(ms) : ms[i].id \in 0..MaxMsgs
  <2> SUFFICES ASSUME NEW i \in 1..Users(ms) PROVE ms[i].id \in 0..MaxMsgs
    OBVIOUS
  <2>1. ms[i] \in Msg
    BY <1>1, <1>2, ElementOfSeq
  <2> QED  BY <2>1 DEF Msg
<1> HIDE DEF Users
<1>4. Box(ms) \in [1..Users(ms) -> 0..MaxMsgs]
  BY <1>3 DEF Box
<1>5. Box(ms) \in Seq(0..MaxMsgs) /\ Len(Box(ms)) = Users(ms)
  BY <1>2, <1>4, FunctionIsSeq
<1> QED  BY <1>2, <1>5 DEF Box

(* Accepting a user's message, and the STOP.                               *)
LEMMA BoxAccepts ==
  ASSUME NEW ms \in Seq(Msg), NoStop(ms), NEW m \in UserMsg
  PROVE  Box(Append(ms, m)) = Append(Box(ms), m.id)
<1> DEFINE ns == Append(ms, m)
<1>1. m \in Msg /\ m.type # "stop" /\ m.id \in 0..MaxMsgs
  BY DEF UserMsg, Msg
<1>2. /\ ns \in Seq(Msg) /\ Len(ns) = Len(ms) + 1 /\ Len(ms) \in Nat /\ ns[Len(ms) + 1] = m
      /\ \A i \in 1..Len(ms) : ns[i] = ms[i]
  BY <1>1, AppendProperties
<1>3. NoStop(ns)
  BY <1>1, <1>2 DEF NoStop
<1> HIDE DEF ns
<1>4. Users(ns) = Len(ms) + 1 /\ Users(ms) = Len(ms)
  BY <1>2, <1>3, UsersAll
<1> DEFINE bs == Box(ms)
           cs == Box(ns)
           ds == Append(bs, m.id)
<1>5. /\ cs \in Seq(0..MaxMsgs) /\ Len(cs) = Len(ms) + 1
      /\ \A i \in 1..Len(ms) + 1 : cs[i] = ns[i].id
  BY <1>2, <1>4, BoxIsSeq
<1>6. /\ bs \in Seq(0..MaxMsgs) /\ Len(bs) = Len(ms)
      /\ \A i \in 1..Len(ms) : bs[i] = ms[i].id
  BY <1>4, BoxIsSeq
<1> HIDE DEF bs, cs
<1>7. /\ ds \in Seq(0..MaxMsgs) /\ Len(ds) = Len(ms) + 1
      /\ \A i \in 1..Len(ms) : ds[i] = bs[i]
      /\ ds[Len(ms) + 1] = m.id
  BY <1>1, <1>6, AppendProperties
<1> HIDE DEF ds
<1>8. ASSUME NEW i \in 1..Len(ms) + 1 PROVE cs[i] = ds[i]
  <2>1. CASE i = Len(ms) + 1
    BY <1>2, <1>5, <1>7, <2>1
  <2>2. CASE i # Len(ms) + 1
    <3>1. i \in 1..Len(ms)
      BY <1>2, <2>2
    <3> QED  BY <1>2, <1>5, <1>6, <1>7, <3>1
  <2> QED  BY <2>1, <2>2
<1>9. cs = ds
  BY <1>5, <1>7, <1>8, SeqEqual
<1> QED  BY <1>9 DEF bs, cs, ds, ns

LEMMA BoxCloses ==
  ASSUME NEW ms \in Seq(Msg), NoStop(ms)
  PROVE  Box(Append(ms, STOP)) = Box(ms)
<1> DEFINE ns == Append(ms, STOP)
<1>1. /\ ns # <<>> /\ Len(ns) = Len(ms) + 1 /\ Len(ms) \in Nat /\ ns[Len(ns)].type = "stop"
      /\ \A i \in 1..Len(ms) : ns[i] = ms[i]
  BY StopMsg, AppendProperties
<1> HIDE DEF ns
<1>2. Users(ns) = Len(ms)
  BY <1>1 DEF Users
<1>3. Users(ms) = Len(ms)
  BY UsersAll
<1> QED  BY <1>1, <1>2, <1>3 DEF Box, ns

(* Handling a user's message, and the STOP.                                *)
LEMMA BoxHandles ==
  ASSUME NEW m \in Msg, m.type # "stop", NEW q \in Seq(Msg)
  PROVE  /\ Box(<<m>> \o q) # <<>>
         /\ Tail(Box(<<m>> \o q)) = Box(q)
<1> DEFINE ms == <<m>> \o q
<1>1. /\ ms \in Seq(Msg) /\ Len(ms) = Len(q) + 1 /\ Len(q) \in Nat /\ ms[1] = m
      /\ \A i \in 1..Len(q) : ms[i + 1] = q[i]
      /\ \A i \in 2..Len(q) + 1 : ms[i] = q[i - 1]
  BY ConsProperties
<1> HIDE DEF ms
<1>2. Users(ms) = Users(q) + 1
  <2>1. CASE q = <<>>
    BY <1>1, <2>1 DEF Users
  <2>2. CASE q # <<>>
    <3>1. Len(q) # 0
      BY <2>2, EmptySeq
    <3>2. ms # <<>> /\ ms[Len(ms)] = q[Len(q)]
      BY <1>1, <3>1
    <3> QED  BY <1>1, <2>2, <3>2 DEF Users
  <2> QED  BY <2>1, <2>2
<1> DEFINE bs == Box(ms)
           cs == Box(q)
           n == Users(q)
<1>3. /\ n \in Nat /\ n <= Len(q) /\ cs \in Seq(0..MaxMsgs) /\ Len(cs) = n
      /\ \A i \in 1..n : cs[i] = q[i].id
  BY BoxIsSeq
<1>4. /\ bs \in Seq(0..MaxMsgs) /\ Len(bs) = n + 1
      /\ \A i \in 1..n + 1 : bs[i] = ms[i].id
  BY <1>1, <1>2, BoxIsSeq
<1> HIDE DEF bs, cs, n
<1>5. bs # <<>>
  BY <1>3, <1>4, EmptySeq
<1>6. /\ Tail(bs) \in Seq(0..MaxMsgs) /\ Len(Tail(bs)) = n
      /\ \A i \in 1..n : Tail(bs)[i] = bs[i + 1]
  BY <1>3, <1>4, <1>5, HeadTailProperties
<1>7. ASSUME NEW i \in 1..n PROVE Tail(bs)[i] = cs[i]
  <2>1. i \in 1..Len(q) /\ i + 1 \in 1..n + 1
    BY <1>1, <1>3
  <2> QED  BY <1>1, <1>3, <1>4, <1>6, <2>1
<1>8. Tail(bs) = cs
  BY <1>3, <1>6, <1>7, SeqEqual
<1> QED  BY <1>5, <1>8 DEF bs, cs, ms

LEMMA BoxEmpty ==
  /\ Box(<<>>) = <<>>
  /\ \A m \in Msg : m.type = "stop" => Box(<<m>> \o <<>>) = <<>>
<1>1. Users(<<>>) = 0
  BY DEF Users
<1>2. ASSUME NEW m \in Msg, m.type = "stop" PROVE Users(<<m>> \o <<>>) = 0
  BY <1>2, ConsProperties, EmptySeq DEF Users
<1> QED  BY <1>1, <1>2 DEF Box

(* What may happen to the status and the box of one object in a step.      *)
MailStep(s, s1, b, b1) ==
  \/ s1 = s /\ b1 = b
  \/ s = "off" /\ s1 = "on" /\ b1 = b
  \/ s = "on" /\ s1 = s /\ \E m \in Ids : b1 = Append(b, m)
  \/ s # "off" /\ b # <<>> /\ s1 = s /\ b1 = Tail(b)
  \/ s = "on" /\ s1 = "closing" /\ b1 = b
  \/ s = "closing" /\ b = <<>> /\ s1 = "off" /\ b1 = b

Status(s) == CASE s = "RUN" -> "on" [] s = "PENDING_STOP" -> "closing" [] OTHER -> "off"

LEMMA Mapped ==
  /\ StatusOf = [a \in Act |-> Status(state[a])]
  /\ BoxOf = [a \in Act |-> Box(Accepted(a))]
  /\ StatusOf' = [a \in Act |-> Status(state'[a])]
  /\ BoxOf' = [a \in Act |-> Box(Accepted(a)')]
BY DEF StatusOf, BoxOf, Status, Box

(* A step of one object is a step of its mailbox.                          *)
LEMMA MailLift ==
  ASSUME NEW a \in Act,
         \A b \in Act \ {a} : state'[b] = state[b] /\ Accepted(b)' = Accepted(b),
         MailStep(Status(state[a]), Status(state'[a]), Box(Accepted(a)), Box(Accepted(a)'))
  PROVE  [M!Next]_(M!vars)
<1> DEFINE S == StatusOf
           S1 == StatusOf'
           B == BoxOf
           B1 == BoxOf'
<1>1. /\ S[a] = Status(state[a]) /\ S1[a] = Status(state'[a])
      /\ B[a] = Box(Accepted(a)) /\ B1[a] = Box(Accepted(a)')
      /\ S1 = [S EXCEPT ![a] = S1[a]] /\ B1 = [B EXCEPT ![a] = B1[a]]
      /\ S = [S EXCEPT ![a] = S[a]] /\ B = [B EXCEPT ![a] = B[a]]
  BY Mapped
<1>2. MailStep(S[a], S1[a], B[a], B1[a])
  BY <1>1
<1>3. S1[a] = S[a] => S1 = S
  BY <1>1
<1>4. B1[a] = B[a] => B1 = B
  BY <1>1
<1> HIDE DEF S, S1, B, B1
<1>5. CASE S1[a] = S[a] /\ B1[a] = B[a]
  BY <1>3, <1>4, <1>5 DEF M!vars, S, S1, B, B1
<1>6. CASE S[a] = "off" /\ S1[a] = "on" /\ B1[a] = B[a]
  <2>1. M!Start(a)
    BY <1>1, <1>4, <1>6 DEF M!Start, S, S1, B, B1
  <2> QED  BY <2>1 DEF M!Next
<1>7. CASE S[a] = "on" /\ S1[a] = S[a] /\ \E m \in Ids : B1[a] = Append(B[a], m)
  <2>1. PICK m \in Ids : B1[a] = Append(B[a], m)
    BY <1>7
  <2>2. M!Accept(a, m)
    BY <1>1, <1>3, <1>7, <2>1 DEF M!Accept, S, S1, B, B1
  <2> QED  BY <2>2 DEF M!Next
<1>8. CASE S[a] # "off" /\ B[a] # <<>> /\ S1[a] = S[a] /\ B1[a] = Tail(B[a])
  <2>1. M!Handle(a)
    BY <1>1, <1>3, <1>8 DEF M!Handle, S, S1, B, B1
  <2> QED  BY <2>1 DEF M!Next
<1>9. CASE S[a] = "on" /\ S1[a] = "closing" /\ B1[a] = B[a]
  <2>1. M!Close(a)
    BY <1>1, <1>4, <1>9 DEF M!Close, S, S1, B, B1
  <2> QED  BY <2>1 DEF M!Next
<1>10. CASE S[a] = "closing" /\ B[a] = <<>> /\ S1[a] = "off" /\ B1[a] = B[a]
  <2>1. M!Finish(a)
    BY <1>1, <1>4, <1>10 DEF M!Finish, S, S1, B, B1
  <2> QED  BY <2>1 DEF M!Next
<1> QED  BY <1>2, <1>5, <1>6, <1>7, <1>8, <1>9, <1>10 DEF MailStep

(* A step that leaves all mailboxes alone.                                 *)
LEMMA MailQuiet ==
  ASSUME \A b \in Act : Status(state'[b]) = Status(state[b]) /\ Accepted(b)' = Accepted(b)
  PROVE  [M!Next]_(M!vars)
<1>1. StatusOf' = StatusOf /\ BoxOf' = BoxOf
  BY Mapped
<1> QED  BY <1>1 DEF M!vars

(* Accepted depends on the queue and the threads of the object only.       *)
LEMMA AcceptedTaken ==
  /\ \A a \in Act : Accepted(a) = Taken(msg_queue[a], worker[a])
  /\ \A a \in Act : Accepted(a)' = Taken(msg_queue'[a], worker'[a])
BY DEF Accepted, InHand, Handling, Taken

(* A thread that moves, but neither takes nor finishes a message.          *)
LEMMA TakenSame ==
  ASSUME NEW w \in Workers, NEW r \in Run, w[r].at # "handle",
         NEW h \in [at : Places, msg : Msg], h.at # "handle", NEW q
  PROVE  Taken(q, [w EXCEPT ![r] = h]) = Taken(q, w)
<1> DEFINE v == [w EXCEPT ![r] = h]
           H(u) == {p \in Run : u[p].at = "handle"}
<1>1. v[r] = h /\ \A p \in Run : p # r => v[p] = w[p]
  BY DEF Workers
<1> HIDE DEF v
<1>2. H(v) = H(w) /\ \A p \in H(w) : v[p] = w[p]
  BY <1>1
<1>3. H(w) # {} => v[CHOOSE p \in H(w) : TRUE] = w[CHOOSE p \in H(w) : TRUE]
  BY <1>2
<1>4. CASE H(w) = {}
  BY <1>2, <1>4 DEF Taken, v
<1>5. CASE H(w) # {}
  <2> DEFINE pick == CHOOSE p \in H(w) : TRUE
  <2>1. Taken(q, v) = <<v[pick].msg>> \o q /\ Taken(q, w) = <<w[pick].msg>> \o q
    BY <1>2, <1>5 DEF Taken
  <2> QED  BY <1>3, <1>5, <2>1 DEF v
<1> QED  BY <1>4, <1>5

(* A message appended to the queue is the last one accepted.               *)
LEMMA TakenAppend ==
  ASSUME NEW q \in Seq(Msg), NEW m \in Msg,
         NEW t \in 0..MaxRuns, NEW w \in Workers, Threads(t, w)
  PROVE  Taken(Append(q, m), w) = Append(Taken(q, w), m) /\ Taken(q, w) \in Seq(Msg)
<1>1. Append(q, m) \in Seq(Msg)
  BY AppendType
<1>2. CASE t \in Run /\ w[t].at = "handle"
  <2>1. w[t].msg \in Msg
    BY <1>2 DEF Workers
  <2> DEFINE s == <<w[t].msg>>
  <2>2. s \in Seq(Msg) /\ <<m>> \in Seq(Msg)
    BY <2>1
  <2>3. Taken(Append(q, m), w) = s \o Append(q, m) /\ Taken(q, w) = s \o q
    BY <1>1, <1>2, TakenIs
  <2> HIDE DEF s
  <2>4. s \o Append(q, m) = (s \o q) \o <<m>>
    BY <2>2, AppendIsConcat, ConcatAssociative
  <2>5. s \o q \in Seq(Msg)
    BY <2>2, ConcatProperties
  <2>6. Append(s \o q, m) = (s \o q) \o <<m>>
    BY <2>5, AppendIsConcat
  <2> QED  BY <2>3, <2>4, <2>5, <2>6
<1>3. CASE ~(t \in Run /\ w[t].at = "handle")
  BY <1>1, <1>3, TakenIs
<1> QED  BY <1>2, <1>3

LEMMA ObjectFacts ==
  ASSUME Inv, NEW a \in Act
  PROVE  /\ state[a] \in {"NONE", "STOP", "RUN", "PENDING_STOP"}
         /\ msg_queue[a] \in Seq(Msg)
         /\ thread[a] \in 0..MaxRuns /\ worker[a] \in Workers /\ Threads(thread[a], worker[a])
         /\ OneAct(state[a], msg_queue[a], event[a], running[a], thread[a], worker[a], Starting(a))
BY DEF Inv, Shape, ActInv, OneAct, Workers

LEMMA QuietThread ==
  ASSUME Inv, NEW a \in Act, NEW r \in Run, worker[a][r].at # "handle",
         NEW h \in [at : Places, msg : Msg], h.at # "handle",
         SetWorker(a, r, h), UNCHANGED msg_queue
  PROVE  \A b \in Act : Accepted(b)' = Accepted(b)
<1>1. /\ worker[a] \in Workers
      /\ worker'[a] = [worker[a] EXCEPT ![r] = h]
      /\ \A b \in Act : b # a => worker'[b] = worker[b]
  BY DEF SetWorker, Inv, Shape, Workers
<1>2. Accepted(a)' = Accepted(a)
  BY <1>1, AcceptedTaken, TakenSame
<1> QED  BY <1>1, <1>2, AcceptedTaken

LEMMA MailEnqueue ==
  ASSUME Inv, NEW a \in Act, state[a] = "RUN", NEW m \in Msg,
         msg_queue' = [msg_queue EXCEPT ![a] = Append(msg_queue[a], m)], UNCHANGED worker
  PROVE  /\ \A b \in Act \ {a} : Accepted(b)' = Accepted(b)
         /\ Accepted(a) \in Seq(Msg) /\ NoStop(Accepted(a))
         /\ Accepted(a)' = Append(Accepted(a), m)
<1>1. /\ msg_queue'[a] = Append(msg_queue[a], m)
      /\ \A b \in Act \ {a} : msg_queue'[b] = msg_queue[b]
  BY DEF Inv, Shape
<1>2. Accepted(a) \in Seq(Msg) /\ Accepted(a)' = Append(Accepted(a), m)
  BY <1>1, ObjectFacts, AcceptedTaken, TakenAppend
<1>3. NoStop(Accepted(a))
  BY StopPlace DEF StopIsLast, NoStop
<1> QED  BY <1>1, <1>2, <1>3, AcceptedTaken

(* A user's message, sent by a caller or by the timer.                     *)
LEMMA MailAccept ==
  ASSUME Inv, NEW a \in Act, Accepts(a), NEW m \in UserMsg, msg_enqueue(a, m),
         UNCHANGED <<worker, state>>
  PROVE  [M!Next]_(M!vars)
<1>1. /\ state[a] = "RUN" /\ m \in Msg /\ m.id \in Ids
      /\ msg_queue' = [msg_queue EXCEPT ![a] = Append(msg_queue[a], m)]
  BY DEF Accepts, msg_enqueue, UserMsg
<1>2. /\ \A b \in Act \ {a} : Accepted(b)' = Accepted(b)
      /\ Accepted(a) \in Seq(Msg) /\ NoStop(Accepted(a))
      /\ Accepted(a)' = Append(Accepted(a), m)
  BY <1>1, MailEnqueue
<1>3. Box(Accepted(a)') = Append(Box(Accepted(a)), m.id)
  BY <1>2, BoxAccepts
<1>4. Status(state[a]) = "on" /\ Status(state'[a]) = "on"
  BY <1>1 DEF Status
<1>5. MailStep(Status(state[a]), Status(state'[a]), Box(Accepted(a)), Box(Accepted(a)'))
  BY <1>1, <1>3, <1>4 DEF MailStep
<1> QED  BY <1>2, <1>5, MailLift

LEMMA MailClose ==
  ASSUME Inv, NEW a \in Act, NEW ret, activity_set_pendding_exit(a, ret), UNCHANGED worker
  PROVE  [M!Next]_(M!vars)
<1>1. CASE UNCHANGED <<state, msg_queue>>
  BY <1>1, MailQuiet, AcceptedTaken
<1>2. CASE state[a] = "RUN" /\ msg_enqueue(a, STOP)
           /\ state' = [state EXCEPT ![a] = "PENDING_STOP"]
  <2>1. /\ state'[a] = "PENDING_STOP" /\ \A b \in Act \ {a} : state'[b] = state[b]
        /\ msg_queue' = [msg_queue EXCEPT ![a] = Append(msg_queue[a], STOP)]
    BY <1>2 DEF msg_enqueue, Inv, Shape
  <2>2. /\ \A b \in Act \ {a} : Accepted(b)' = Accepted(b)
        /\ Accepted(a) \in Seq(Msg) /\ NoStop(Accepted(a))
        /\ Accepted(a)' = Append(Accepted(a), STOP)
    BY <1>2, <2>1, MailEnqueue, StopMsg
  <2>3. Box(Accepted(a)') = Box(Accepted(a))
    BY <2>2, BoxCloses
  <2>4. Status(state[a]) = "on" /\ Status(state'[a]) = "closing"
    BY <1>2, <2>1 DEF Status
  <2>5. MailStep(Status(state[a]), Status(state'[a]), Box(Accepted(a)), Box(Accepted(a)'))
    BY <2>3, <2>4 DEF MailStep
  <2> QED  BY <2>1, <2>2, <2>5, MailLift
<1> QED  BY <1>1, <1>2 DEF activity_set_pendding_exit

(* msg_dequeue only moves a message from the queue to the thread's hands.  *)
LEMMA DequeueKeepsAll ==
  ASSUME Inv, NEW a \in Act, NEW r \in Run, msg_dequeue(a, r)
  PROVE  UNCHANGED state /\ \A b \in Act : Accepted(b)' = Accepted(b)
<1>1. worker[a][r].at = "dequeue" /\ UNCHANGED <<state, thread>>
  BY DEF msg_dequeue
<1>2. /\ msg_queue[a] \in Seq(Msg) /\ thread[a] \in 0..MaxRuns /\ worker[a] \in Workers
      /\ Threads(thread[a], worker[a])
  BY ObjectFacts
<1>3. r = thread[a]
  BY <1>1, <1>2, LiveIsLast
<1>4. CASE msg_queue[a] = <<>>
  <2>1. SetWorker(a, r, Work("loop")) /\ UNCHANGED msg_queue
    BY <1>4 DEF msg_dequeue
  <2>2. Work("loop") \in [at : Places, msg : Msg] /\ Work("loop").at = "loop"
    BY WorkType DEF Places
  <2>3. \A b \in Act : Accepted(b)' = Accepted(b)
    BY <1>1, <2>1, <2>2, QuietThread
  <2> QED  BY <1>1, <2>3
<1>5. CASE msg_queue[a] # <<>>
  <2> DEFINE q == msg_queue[a]
             h == [at |-> "handle", msg |-> Head(q)]
             w == [worker[a] EXCEPT ![r] = h]
  <2>1. /\ worker'[a] = w /\ msg_queue'[a] = Tail(q)
        /\ \A b \in Act \ {a} : worker'[b] = worker[b] /\ msg_queue'[b] = msg_queue[b]
    BY <1>5 DEF msg_dequeue, SetWorker, Inv, Shape
  <2>2. /\ Head(q) \in Msg /\ Head(q) = q[1] /\ Tail(q) \in Seq(Msg) /\ Len(q) \in Nat
        /\ Len(Tail(q)) = Len(q) - 1
        /\ \A i \in 1..Len(Tail(q)) : Tail(q)[i] = q[i + 1]
    BY <1>2, <1>5, HeadTailProperties
  <2>3. w \in Workers /\ w[r] = h /\ Threads(r, w)
    <3>1. h \in [at : Places, msg : Msg] /\ h.at # "none" /\ r \in 1..MaxRuns
      BY <2>2 DEF Places, Run
    <3> HIDE DEF h
    <3> QED  BY <1>2, <1>3, <3>1, MoveThread
  <2>4. Taken(Tail(q), w) = <<Head(q)>> \o Tail(q)
    <3>1. w[r].at = "handle" /\ w[r].msg = Head(q)
      BY <2>3
    <3>2. Tail(q) \in Seq(Msg) /\ r \in 0..MaxRuns
      BY <1>2, <1>3, <2>2
    <3> HIDE DEF w, h
    <3> QED  BY <2>3, <3>1, <3>2, TakenIs
  <2>5. Taken(q, worker[a]) = q
    BY <1>1, <1>2, <1>3, TakenIs
  <2>6. <<Head(q)>> \o Tail(q) = q
    <3> DEFINE x == Head(q)
               y == Tail(q)
               z == <<x>> \o y
    <3>1. x \in Msg /\ y \in Seq(Msg)
      BY <2>2
    <3> HIDE DEF x, y
    <3>2. /\ z \in Seq(Msg) /\ Len(z) = Len(y) + 1 /\ z[1] = x
          /\ \A i \in 2..Len(y) + 1 : z[i] = y[i - 1]
      BY <3>1, ConsProperties
    <3> HIDE DEF z
    <3>3. Len(z) = Len(q)
      BY <2>2, <3>2 DEF y
    <3>4. ASSUME NEW i \in 1..Len(q) PROVE z[i] = q[i]
      <4>1. CASE i = 1
        BY <2>2, <3>2, <4>1 DEF x
      <4>2. CASE i # 1
        <5>1. i \in 2..Len(y) + 1 /\ i - 1 \in 1..Len(y) /\ (i - 1) + 1 = i
          BY <2>2, <4>2 DEF y
        <5>2. y[i - 1] = q[(i - 1) + 1]
          BY <2>2, <5>1 DEF y
        <5> QED  BY <3>2, <5>1, <5>2
      <4> QED  BY <4>1, <4>2
    <3>5. z = q
      BY <1>2, <3>2, <3>3, <3>4, SeqEqual
    <3> QED  BY <3>5 DEF x, y, z
  <2>7. Accepted(a)' = Accepted(a)
    BY <2>1, <2>4, <2>5, <2>6, AcceptedTaken
  <2>8. \A b \in Act : Accepted(b)' = Accepted(b)
    BY <2>1, <2>7, AcceptedTaken
  <2> QED  BY <1>1, <2>8
<1> QED  BY <1>4, <1>5

(* act_msg_handler takes the oldest message out of the mailbox.            *)
LEMMA HandleTakesFirst ==
  ASSUME Inv, NEW a \in Act, NEW r \in Run, act_msg_handler(a, r)
  PROVE  /\ worker[a][r].at = "handle" /\ r = thread[a] /\ r \in 1..MaxRuns
         /\ worker[a][r].msg \in Msg
         /\ Accepted(a) = <<worker[a][r].msg>> \o msg_queue[a] /\ Accepted(a)' = msg_queue[a]
         /\ \A b \in Act \ {a} : Accepted(b)' = Accepted(b)
         /\ UNCHANGED state
<1> DEFINE q == msg_queue[a]
           m == worker[a][r].msg
           w == [worker[a] EXCEPT ![r] = Work("dequeue")]
<1>1. /\ worker[a][r].at = "handle" /\ UNCHANGED <<state, msg_queue, thread>>
      /\ SetWorker(a, r, Work("dequeue"))
  BY DEF act_msg_handler, AfterMessage
<1>2. /\ q \in Seq(Msg) /\ thread[a] \in 0..MaxRuns /\ worker[a] \in Workers
      /\ state[a] \in {"NONE", "STOP", "RUN", "PENDING_STOP"}
      /\ Threads(thread[a], worker[a])
      /\ OneAct(state[a], q, event[a], running[a], thread[a], worker[a], Starting(a))
  BY ObjectFacts
<1>3. r = thread[a] /\ r \in 1..MaxRuns /\ m \in Msg
  BY <1>1, <1>2, LiveIsLast DEF Run, Workers
<1>4. /\ worker'[a] = w
      /\ \A b \in Act \ {a} : worker'[b] = worker[b]
  BY <1>1 DEF SetWorker, Inv, Shape
<1>5. w \in Workers /\ w[r].at = "dequeue" /\ Threads(r, w)
  BY <1>2, <1>3, MoveThread, WorkType DEF Places
<1> HIDE DEF w
<1>6. Accepted(a) = <<m>> \o q
  BY <1>1, <1>2, <1>3, TakenIs, AcceptedTaken
<1>7. Taken(q, w) = q
  BY <1>2, <1>3, <1>5, TakenIs
<1>8. Accepted(a)' = q
  BY <1>1, <1>4, <1>7, AcceptedTaken
<1>9. \A b \in Act \ {a} : Accepted(b)' = Accepted(b)
  BY <1>1, <1>4, AcceptedTaken
<1> QED  BY <1>1, <1>3, <1>6, <1>8, <1>9

LEMMA MailHandle ==
  ASSUME Inv, NEW a \in Act, NEW r \in Run, act_msg_handler(a, r)
  PROVE  [M!Next]_(M!vars)
<1> DEFINE q == msg_queue[a]
           m == worker[a][r].msg
<1>1. worker[a][r].at = "handle" /\ UNCHANGED state
  BY HandleTakesFirst
<1>2. /\ q \in Seq(Msg) /\ worker[a] \in Workers
      /\ state[a] \in {"NONE", "STOP", "RUN", "PENDING_STOP"}
      /\ OneAct(state[a], q, event[a], running[a], thread[a], worker[a], Starting(a))
  BY ObjectFacts
<1>3. r = thread[a] /\ r \in 1..MaxRuns /\ m \in Msg
  BY HandleTakesFirst
<1>6. Accepted(a) = <<m>> \o q
  BY HandleTakesFirst
<1>8. Accepted(a)' = q
  BY HandleTakesFirst
<1>9. \A b \in Act \ {a} : state'[b] = state[b] /\ Accepted(b)' = Accepted(b)
  BY HandleTakesFirst
<1>10. Status(state'[a]) = Status(state[a])
  BY <1>1
<1>11. MailStep(Status(state[a]), Status(state'[a]), Box(Accepted(a)), Box(Accepted(a)'))
  <2>1. CASE m.type = "stop"
    <3>1. q = <<>>
      BY <1>1, <1>2, <1>3, <2>1, HandleStop
    <3>2. Box(<<m>> \o q) = <<>> /\ Box(q) = <<>>
      BY <1>3, <2>1, <3>1, BoxEmpty
    <3> QED  BY <1>6, <1>8, <1>10, <3>2 DEF MailStep
  <2>2. CASE m.type # "stop"
    <3>1. Box(<<m>> \o q) # <<>> /\ Tail(Box(<<m>> \o q)) = Box(q)
      BY <1>2, <1>3, <2>2, BoxHandles
    <3>2. Status(state[a]) # "off"
      <4>1. state[a] \in {"RUN", "PENDING_STOP"}
        BY <1>1, <1>2, <1>3 DEF OneAct, AtRest, JustStarted
      <4> QED  BY <4>1 DEF Status
    <3> HIDE DEF q, m
    <3> QED  BY <1>6, <1>8, <1>10, <3>1, <3>2 DEF MailStep
  <2> QED  BY <2>1, <2>2
<1> QED  BY <1>9, <1>11, MailLift

(* The other steps of an object's thread; its end completes the stop.      *)
LEMMA ThreadKeepsAll ==
  ASSUME Inv, NEW a \in Act, NEW r \in Run,
         \/ activity_thread_init(a, r) \/ uev_run_event(a, r)
         \/ uev_run_return(a, r) \/ activity_thread_exit(a, r)
  PROVE  \A b \in Act : Accepted(b)' = Accepted(b)
<1>1. PICK at \in {"loop", "dequeue", "fini", "done"} :
        /\ worker[a][r].at # "handle" /\ SetWorker(a, r, Work(at)) /\ UNCHANGED msg_queue
  BY DEF activity_thread_init, uev_run_event, uev_run_return, activity_thread_exit
<1>2. Work(at) \in [at : Places, msg : Msg] /\ Work(at).at # "handle"
  BY WorkType DEF Places
<1> QED  BY <1>1, <1>2, QuietThread

LEMMA MailThread ==
  ASSUME Inv, NEW a \in Act, NEW r \in Run,
         \/ activity_thread_init(a, r) \/ uev_run_event(a, r)
         \/ uev_run_return(a, r) \/ activity_thread_exit(a, r)
  PROVE  [M!Next]_(M!vars)
<1>3. \A b \in Act : Accepted(b)' = Accepted(b)
  BY ThreadKeepsAll
<1>4. CASE UNCHANGED state
  BY <1>3, <1>4, MailQuiet
<1>5. CASE activity_thread_exit(a, r)
  <2>1. /\ worker[a][r].at = "fini"
        /\ state'[a] = "STOP" /\ \A b \in Act \ {a} : state'[b] = state[b]
    BY <1>5 DEF activity_thread_exit, Inv, Shape
  <2>2. /\ msg_queue[a] \in Seq(Msg) /\ thread[a] \in 0..MaxRuns /\ worker[a] \in Workers
        /\ state[a] \in {"NONE", "STOP", "RUN", "PENDING_STOP"}
        /\ Threads(thread[a], worker[a])
        /\ OneAct(state[a], msg_queue[a], event[a], running[a], thread[a], worker[a], Starting(a))
    BY ObjectFacts
  <2>3. r = thread[a] /\ r \in 1..MaxRuns
    BY <2>1, <2>2, LiveIsLast DEF Run
  <2>4. state[a] = "PENDING_STOP" /\ msg_queue[a] = <<>>
    BY <2>1, <2>2, <2>3, ExitOne
  <2>5. Accepted(a) = <<>>
    BY <2>1, <2>2, <2>3, <2>4, TakenIs, AcceptedTaken
  <2>6. Status(state[a]) = "closing" /\ Status(state'[a]) = "off"
    BY <2>1, <2>4 DEF Status
  <2>7. MailStep(Status(state[a]), Status(state'[a]), Box(Accepted(a)), Box(Accepted(a)'))
    BY <1>3, <2>5, <2>6, BoxEmpty DEF MailStep
  <2> QED  BY <1>3, <2>1, <2>7, MailLift
<1> QED  BY <1>4, <1>5 DEF activity_thread_init, uev_run_event, uev_run_return

(* The calls that start and register objects.                              *)
LEMMA RegKeepsAll ==
  ASSUME Inv, NEW c \in Caller, NEW a \in Act, activity_reg(c, a)
  PROVE  /\ \A b \in Act : Accepted(b)' = Accepted(b)
         /\ state[a] = "NONE" /\ state'[a] = "STOP"
         /\ \A b \in Act \ {a} : state'[b] = state[b]
<1>1. /\ state[a] = "NONE" /\ state'[a] = "STOP"
      /\ \A b \in Act \ {a} : state'[b] = state[b] /\ msg_queue'[b] = msg_queue[b]
      /\ msg_queue'[a] = <<>> /\ UNCHANGED worker
  BY DEF activity_reg, Inv, Shape, OnlyRegistered
<1>2. msg_queue[a] = <<>>
  BY <1>1, ObjectFacts DEF OneAct, AtRest
<1> QED  BY <1>1, <1>2, AcceptedTaken

LEMMA RunLocalKeepsAll ==
  ASSUME Inv, NEW c \in Caller, activity_run_local(c)
  PROVE  UNCHANGED state /\ \A b \in Act : Accepted(b)' = Accepted(b)
<1>a. PICK a \in Act : a = caller[c].act
  BY PlaceFields DEF Inv, activity_run_local, At, Shape
<1>1. UNCHANGED <<state, msg_queue>>
  BY DEF activity_run_local
<1>2. CASE UNCHANGED worker
  BY <1>1, <1>2, AcceptedTaken
<1>3. CASE thread[a] + 1 \in Run /\ SetWorker(a, thread[a] + 1, Work("init"))
  <2>1. Work("init") \in [at : Places, msg : Msg] /\ Work("init").at # "handle"
    BY WorkType DEF Places
  <2>2. worker[a][thread[a] + 1].at # "handle"
    BY <1>3, ObjectFacts, BoundAssumption DEF Threads, Run
  <2> QED  BY <1>1, <1>3, <2>1, <2>2, QuietThread
<1> QED  BY <1>a, <1>2, <1>3 DEF activity_run_local

LEMMA MailStart ==
  ASSUME Inv, NEW c \in Caller,
         \/ \E a \in Act : activity_reg(c, a)
         \/ activity_run_local(c)
         \/ activity_run_local_end(c)
  PROVE  [M!Next]_(M!vars)
<1>1. ASSUME NEW a \in Act, activity_reg(c, a) PROVE [M!Next]_(M!vars)
  <2>1. \A b \in Act : Status(state'[b]) = Status(state[b])
    BY <1>1, RegKeepsAll DEF Status
  <2> QED  BY <1>1, <2>1, RegKeepsAll, MailQuiet
<1>2. CASE activity_run_local(c)
  BY <1>2, RunLocalKeepsAll, MailQuiet
<1>3. CASE activity_run_local_end(c)
  <2>a. PICK a \in Act : a = caller[c].act
    BY <1>3, PlaceFields DEF Inv, activity_run_local_end, At, Shape
  <2>1. /\ state'[a] = "RUN" /\ \A b \in Act \ {a} : state'[b] = state[b]
        /\ UNCHANGED <<msg_queue, worker>> /\ Starting(a)
    BY <1>3, <2>a DEF activity_run_local_end, At, Starting, Inv, Shape
  <2>2. state[a] = "STOP"
    BY <2>1, ObjectFacts DEF OneAct
  <2>3. Status(state[a]) = "off" /\ Status(state'[a]) = "on"
    BY <2>1, <2>2 DEF Status
  <2>4. \A b \in Act : Accepted(b)' = Accepted(b)
    BY <2>1, AcceptedTaken
  <2>5. MailStep(Status(state[a]), Status(state'[a]), Box(Accepted(a)), Box(Accepted(a)'))
    BY <2>3, <2>4 DEF MailStep
  <2> QED  BY <2>1, <2>4, <2>5, MailLift
<1> QED  BY <1>1, <1>2, <1>3

(* Steps that neither send nor start nor stop.                             *)
LEMMA MailIdle ==
  ASSUME UNCHANGED <<state, msg_queue, worker>>
  PROVE  [M!Next]_(M!vars)
BY AcceptedTaken, MailQuiet

LEMMA MailStepOfNext ==
  ASSUME Inv, [Next]_vars
  PROVE  [M!Next]_(M!vars)
<1> DEFINE OK == [M!Next]_(M!vars)
<1>1. ASSUME NEW c \in Caller, CallerStep(c) PROVE OK
  <2>1. ASSUME NEW a \in Act, NEW flag \in BOOLEAN, activity_stop(c, a, flag) PROVE OK
    BY <2>1, MailClose DEF activity_stop
  <2>2. ASSUME NEW a \in Act, activity_reg(c, a) PROVE OK
    BY <2>2, MailStart
  <2>3. CASE UNCHANGED <<state, msg_queue, worker>>
    BY <2>3, MailIdle
  <2> QED
    BY <1>1, <2>1, <2>2, <2>3
    DEF CallerStep, activity_msg_send_begin, activity_exec_begin, activity_run,
        activity_periodic_event_enable, activity_periodic_event_disable,
        activity_manager_fini, actVars
<1>2. ASSUME NEW c \in Caller, CallStep(c) PROVE OK
  <2>1. CASE activity_msg_send(c)
    <3>a. PICK a \in Act : a = caller[c].act
      BY <2>1, PlaceFields DEF Inv, activity_msg_send, At, Shape
    <3>b. PICK m \in UserMsg : m = caller[c].msg
      BY <2>1, PlaceFields DEF Inv, activity_msg_send, At, Shape
    <3>1. CASE Accepts(a) /\ msg_enqueue(a, m)
      BY <2>1, <3>1, MailAccept DEF activity_msg_send
    <3>2. CASE UNCHANGED msg_queue
      BY <2>1, <3>2, MailIdle DEF activity_msg_send
    <3> QED  BY <2>1, <3>a, <3>b, <3>1, <3>2 DEF activity_msg_send
  <2>2. CASE activity_run_local(c) \/ activity_run_local_end(c)
    BY <2>2, MailStart
  <2>3. ASSUME NEW a \in Act, activity_manager_fini_stop(c, a) PROVE OK
    BY <2>3, MailClose DEF activity_manager_fini_stop
  <2>4. CASE \/ activity_stop_read_thread(c) \/ activity_stop_joined(c)
             \/ activity_manager_fini_end(c)
    BY <2>4, MailIdle
    DEF activity_stop_read_thread, activity_stop_joined, activity_manager_fini_end, actVars
  <2>5. CASE Break
    BY <2>5, MailIdle DEF Break, actVars
  <2> QED
    BY <1>2, <2>1, <2>2, <2>3, <2>4, <2>5
    DEF CallStep, activity_stop_joins_again, activity_msg_send_after_fini
<1>3. ASSUME NEW a \in Act, NEW r \in Run, WorkerStep(a, r) PROVE OK
  <2>1. CASE Break
    BY <2>1, MailIdle DEF Break, actVars
  <2> QED
    BY <1>3, <2>1, MailThread, DequeueKeepsAll, MailQuiet, MailHandle
    DEF WorkerStep, thread_after_fini
<1>4. ASSUME NEW a \in Act, NEW r \in Run, periodic_event_cb(a, r) PROVE OK
  <2> DEFINE m == Message(nextId, "periodic", FALSE)
  <2>1. m \in UserMsg
    BY <1>4, BoundAssumption
    DEF periodic_event_cb, Message, Msg, UserMsg, Types, Ids, Inv, Shape
  <2>2. UNCHANGED <<state, worker>>
    BY <1>4 DEF periodic_event_cb
  <2>3. CASE Accepts(a) /\ msg_enqueue(a, m)
    <3> HIDE DEF m
    <3> QED  BY <2>1, <2>2, <2>3, MailAccept
  <2>4. CASE UNCHANGED msg_queue
    BY <2>2, <2>4, MailIdle
  <2> QED  BY <1>4, <2>3, <2>4 DEF periodic_event_cb
<1>5. CASE activity_manager_init
  BY <1>5, MailIdle DEF activity_manager_init, actVars
<1>6. CASE UNCHANGED vars
  BY <1>6, MailIdle DEF vars, actVars
<1> QED  BY <1>1, <1>2, <1>3, <1>4, <1>5, <1>6 DEF Next, TimerStep

LEMMA MailInit == Init => M!Init
<1> SUFFICES ASSUME Init PROVE M!Init
  OBVIOUS
<1>1. Inv
  BY InitHolds
<1>2. ASSUME NEW a \in Act PROVE Accepted(a) = <<>> /\ Status(state[a]) = "off"
  <2>1. state[a] = "NONE" /\ msg_queue[a] = <<>> /\ thread[a] = 0
    BY DEF Init
  <2>2. ~Busy(a)
    BY <2>1, BoundAssumption DEF Busy, Run
  <2> QED  BY <1>1, <2>1, <2>2, AcceptedIs DEF Status
<1> QED  BY <1>2, BoxEmpty, Mapped DEF M!Init

(* ImplementsMailbox: every activity object behaves as a mailbox; its      *)
(* messages are accepted only while it runs, handled once and in order,    *)
(* and all of them before it has stopped (activity_msg_send, msg_dequeue,  *)
(* act_msg_handler, activity_thread).                                      *)
THEOREM ObjectIsMailbox == Spec => ImplementsMailbox
<1>1. Inv /\ [Next]_vars => [M!Next]_(M!vars)
  BY MailStepOfNext
<1> QED  BY <1>1, MailInit, Invariance, PTL DEF Spec, ImplementsMailbox, M!Spec
-----------------------------------------------------------------------------
(* Memory.  Each argument copy and each exec item is counted for the one   *)
(* message that owns it, and no two messages on their way have the same    *)
(* identity, so that what is given back is never still in use.             *)
Kinds == {"gc", "exec"}
Owns(m, k) == IF k = "gc" THEN m.gc ELSE m.type = "exec"
Store(k) == IF k = "gc" THEN heap ELSE items

Sending(c) == caller[c].at = "sending"
Slots(a) == 1..Len(Accepted(a))

Owner(k, x) ==
  \/ \E c \in Caller : Sending(c) /\ Owns(caller[c].msg, k) /\ caller[c].msg.id = x
  \/ \E a \in Act : \E i \in Slots(a) : Owns(Accepted(a)[i], k) /\ Accepted(a)[i].id = x

(* The messages accepted, of which only the STOPs have identity 0.         *)
Kept ==
  \A a \in Act :
    /\ Accepted(a) \in Seq(Msg)
    /\ \A i \in Slots(a) :
         Accepted(a)[i] = STOP \/ (Accepted(a)[i] \in UserMsg /\ Accepted(a)[i].id < nextId)

Distinct ==
  /\ \A c \in Caller : Sending(c) =>
       /\ caller[c].msg.id < nextId
       /\ \A d \in Caller : Sending(d) /\ caller[d].msg.id = caller[c].msg.id => d = c
       /\ \A a \in Act : \A i \in Slots(a) : Accepted(a)[i].id # caller[c].msg.id
  /\ \A a, b \in Act : \A i \in Slots(a), j \in Slots(b) :
       Accepted(a)[i].id = Accepted(b)[j].id =>
         (a = b /\ i = j) \/ Accepted(a)[i].id = 0

Stored == \A k \in Kinds : \A x : x \in Store(k) <=> Owner(k, x)

Counted == IsFiniteSet(Cells) /\ cells = Cardinality(Cells)

Mem == Kept /\ Distinct /\ Stored /\ Counted

LEMMA StopOwnsNothing == \A k \in Kinds : ~Owns(STOP, k) /\ STOP.id = 0
BY DEF Kinds, Owns, STOP, Message

(* The identities of the messages on their way are numbers.                *)
LEMMA IdTypes ==
  ASSUME Inv, Mem
  PROVE  /\ \A a \in Act : Accepted(a) \in Seq(Msg) /\ Len(Accepted(a)) \in Nat
         /\ \A a \in Act : \A i \in Slots(a) :
              Accepted(a)[i].id \in Nat /\ Accepted(a)[i].id < nextId
         /\ \A c \in Caller : Sending(c) =>
              caller[c].msg \in UserMsg /\ caller[c].msg.id \in Ids /\ caller[c].msg.id < nextId
         /\ nextId \in Nat \ {0}
<1>1. nextId \in Nat \ {0}
  BY DEF Inv, Shape
<1>2. \A a \in Act : Accepted(a) \in Seq(Msg) /\ Len(Accepted(a)) \in Nat
  BY LenProperties DEF Mem, Kept
<1>3. ASSUME NEW a \in Act, NEW i \in Slots(a)
      PROVE  Accepted(a)[i].id \in Nat /\ Accepted(a)[i].id < nextId
  <2>1. Accepted(a)[i] = STOP \/ (Accepted(a)[i] \in UserMsg /\ Accepted(a)[i].id < nextId)
    BY DEF Mem, Kept
  <2> QED  BY <1>1, <2>1, BoundAssumption DEF STOP, Message, UserMsg, Ids
<1>4. \A c \in Caller : Sending(c) =>
        caller[c].msg \in UserMsg /\ caller[c].msg.id \in Ids /\ caller[c].msg.id < nextId
  BY PlaceFields DEF Inv, Shape, Sending, UserMsg, Mem, Distinct
<1> QED  BY <1>1, <1>2, <1>3, <1>4

(* The message cells in use.                                               *)
LEMMA CellsGrow ==
  ASSUME Counted, NEW a \in Act, Len(Accepted(a)) \in Nat,
         Len(Accepted(a)') = Len(Accepted(a)) + 1,
         \A b \in Act \ {a} : Accepted(b)' = Accepted(b), cells' = cells + 1
  PROVE  Counted'
<1> DEFINE n == Len(Accepted(a))
           p == <<a, n + 1>>
<1>1. Cells' = Cells \union {p} /\ p \notin Cells
  <2>1. ASSUME NEW x PROVE x \in Cells' <=> x \in Cells \/ x = p
    <3>1. x \in Cells' <=> \E b \in Act : \E j \in 1..Len(Accepted(b)') : x = <<b, j>>
      BY DEF Cells
    <3>2. x \in Cells <=> \E b \in Act : \E j \in 1..Len(Accepted(b)) : x = <<b, j>>
      BY DEF Cells
    <3>3. \A j : j \in 1..Len(Accepted(a)') <=> j \in 1..Len(Accepted(a)) \/ j = n + 1
      OBVIOUS
    <3> QED  BY <3>1, <3>2, <3>3
  <2>2. p \notin Cells
    BY DEF Cells
  <2> QED  BY <2>1, <2>2
<1> HIDE DEF p
<1>2. IsFiniteSet(Cells \union {p}) /\ Cardinality(Cells \union {p}) = Cardinality(Cells) + 1
  BY <1>1, FS_AddElement DEF Counted
<1> QED  BY <1>1, <1>2 DEF Counted

LEMMA CellsShrink ==
  ASSUME Counted, NEW a \in Act, Len(Accepted(a)) \in Nat \ {0},
         Len(Accepted(a)') = Len(Accepted(a)) - 1,
         \A b \in Act \ {a} : Accepted(b)' = Accepted(b), cells' = cells - 1
  PROVE  Counted'
<1> DEFINE n == Len(Accepted(a))
           p == <<a, n>>
<1>1. Cells' = Cells \ {p} /\ p \in Cells
  <2>1. ASSUME NEW x PROVE x \in Cells' <=> x \in Cells /\ x # p
    <3>1. x \in Cells' <=> \E b \in Act : \E j \in 1..Len(Accepted(b)') : x = <<b, j>>
      BY DEF Cells
    <3>2. x \in Cells <=> \E b \in Act : \E j \in 1..Len(Accepted(b)) : x = <<b, j>>
      BY DEF Cells
    <3>3. \A j : j \in 1..Len(Accepted(a)') <=> j \in 1..Len(Accepted(a)) /\ j # n
      OBVIOUS
    <3> QED  BY <3>1, <3>2, <3>3
  <2>2. p \in Cells
    BY DEF Cells
  <2> QED  BY <2>1, <2>2
<1> HIDE DEF p
<1>2. IsFiniteSet(Cells \ {p}) /\ Cardinality(Cells \ {p}) = Cardinality(Cells) - 1
  BY <1>1, FS_RemoveElement DEF Counted
<1> QED  BY <1>1, <1>2 DEF Counted

LEMMA CellsSame ==
  ASSUME Counted, \A b \in Act : Accepted(b)' = Accepted(b), cells' = cells
  PROVE  Counted'
<1>1. Cells' = Cells
  BY DEF Cells
<1> QED  BY <1>1 DEF Counted

(* A message m is accepted behind the others.  It is the STOP, a new one,  *)
(* or comes from a caller that gives it up.                                *)
LEMMA MemAppend ==
  ASSUME Inv, Mem, NEW a \in Act, NEW m \in Msg,
         Accepted(a)' = Append(Accepted(a), m),
         \A b \in Act \ {a} : Accepted(b)' = Accepted(b),
         nextId' \in Nat, nextId <= nextId',
         \A d \in Caller : Sending(d)' => Sending(d) /\ caller'[d].msg = caller[d].msg,
         \/ m = STOP
         \/ /\ m \in UserMsg /\ m.id < nextId'
            /\ \A b \in Act : \A i \in Slots(b) : Accepted(b)[i].id # m.id
            /\ \A d \in Caller : Sending(d)' => caller[d].msg.id # m.id,
         \A k \in Kinds : \A x :
           (\E c \in Caller : Sending(c) /\ Owns(caller[c].msg, k) /\ caller[c].msg.id = x)
             <=> \/ \E c \in Caller : Sending(c)' /\ Owns(caller'[c].msg, k) /\ caller'[c].msg.id = x
                 \/ Owns(m, k) /\ m.id = x,
         UNCHANGED <<heap, items>>, cells' = cells + 1
  PROVE  Mem'
<1> DEFINE n == Len(Accepted(a))
<1>1. /\ n \in Nat /\ Accepted(a)' \in Seq(Msg) /\ Len(Accepted(a)') = n + 1
      /\ Accepted(a)'[n + 1] = m
      /\ \A i \in 1..n : Accepted(a)'[i] = Accepted(a)[i]
      /\ \A i : i \in 1..n + 1 <=> i \in 1..n \/ i = n + 1
  BY IdTypes, AppendProperties
<1>2. /\ Slots(a)' = 1..n + 1 /\ Slots(a) = 1..n
      /\ \A b \in Act \ {a} : Slots(b)' = Slots(b)
  BY <1>1 DEF Slots
<1> HIDE DEF n
<1>3. /\ \A b \in Act : \A i \in Slots(b) : Accepted(b)[i].id \in Nat /\ Accepted(b)[i].id < nextId
      /\ \A c \in Caller : Sending(c) => caller[c].msg.id \in Ids /\ caller[c].msg.id < nextId
      /\ nextId \in Nat /\ \A j \in Ids : j \in Nat \ {0}
  BY IdTypes, BoundAssumption DEF Ids
<1>4. Kept'
  <2>1. ASSUME NEW b \in Act PROVE Accepted(b)' \in Seq(Msg)
    BY <1>1 DEF Mem, Kept
  <2>2. ASSUME NEW b \in Act, NEW i \in Slots(b)
        PROVE  \/ Accepted(b)[i] = STOP
               \/ Accepted(b)[i] \in UserMsg /\ Accepted(b)[i].id < nextId'
    BY <1>3 DEF Mem, Kept
  <2>3. ASSUME NEW b \in Act, NEW i \in Slots(b)'
        PROVE  \/ Accepted(b)'[i] = STOP
               \/ Accepted(b)'[i] \in UserMsg /\ Accepted(b)'[i].id < nextId'
    BY <1>1, <1>2, <2>2
  <2> QED  BY <2>1, <2>3 DEF Kept
<1>5. Distinct'
  <2>1. ASSUME NEW c \in Caller, Sending(c)'
        PROVE  /\ caller'[c].msg.id < nextId'
               /\ \A d \in Caller : Sending(d)' /\ caller'[d].msg.id = caller'[c].msg.id => d = c
               /\ \A b \in Act : \A i \in Slots(b)' : Accepted(b)'[i].id # caller'[c].msg.id
    <3>1. Sending(c) /\ caller'[c].msg = caller[c].msg /\ caller[c].msg.id < nextId'
          /\ caller[c].msg.id # 0
      BY <1>3, <2>1
    <3>2. \A d \in Caller : Sending(d)' /\ caller'[d].msg.id = caller'[c].msg.id => d = c
      BY <3>1 DEF Mem, Distinct
    <3>3. m.id # caller[c].msg.id
      BY <2>1, <3>1 DEF STOP, Message
    <3>4. \A b \in Act : \A i \in Slots(b) : Accepted(b)[i].id # caller[c].msg.id
      BY <3>1 DEF Mem, Distinct
    <3>5. \A b \in Act : \A i \in Slots(b)' : Accepted(b)'[i].id # caller[c].msg.id
      BY <1>1, <1>2, <3>3, <3>4
    <3> QED  BY <3>1, <3>2, <3>5
  <2>2. ASSUME NEW b \in Act, NEW d \in Act, NEW i \in Slots(b)', NEW j \in Slots(d)',
               Accepted(b)'[i].id = Accepted(d)'[j].id
        PROVE  (b = d /\ i = j) \/ Accepted(b)'[i].id = 0
    <3>1. \A e \in Act : \A l \in Slots(e)' :
            \/ l \in Slots(e) /\ Accepted(e)'[l] = Accepted(e)[l]
            \/ e = a /\ l = n + 1 /\ Accepted(e)'[l] = m
      BY <1>1, <1>2
    <3>2. m.id = 0 \/ \A e \in Act : \A l \in Slots(e) : Accepted(e)[l].id # m.id
      BY DEF STOP, Message
    <3>3. CASE i \in Slots(b) /\ Accepted(b)'[i] = Accepted(b)[i]
      <4>1. CASE j \in Slots(d) /\ Accepted(d)'[j] = Accepted(d)[j]
        BY <2>2, <3>3, <4>1 DEF Mem, Distinct
      <4>2. CASE d = a /\ j = n + 1 /\ Accepted(d)'[j] = m
        BY <2>2, <3>2, <3>3, <4>2
      <4> QED  BY <3>1, <4>1, <4>2
    <3>4. CASE b = a /\ i = n + 1 /\ Accepted(b)'[i] = m
      BY <2>2, <3>1, <3>2, <3>4
    <3> QED  BY <3>1, <3>3, <3>4
  <2> QED  BY <2>1, <2>2 DEF Distinct
<1>6. Stored'
  <2> SUFFICES ASSUME NEW k \in Kinds, NEW x PROVE x \in Store(k)' <=> Owner(k, x)'
    BY DEF Stored
  <2>1. x \in Store(k)' <=> Owner(k, x)
    BY DEF Mem, Stored, Store
  <2>2. (\E b \in Act : \E i \in Slots(b)' : Owns(Accepted(b)'[i], k) /\ Accepted(b)'[i].id = x)
        <=> \/ \E b \in Act : \E i \in Slots(b) : Owns(Accepted(b)[i], k) /\ Accepted(b)[i].id = x
            \/ Owns(m, k) /\ m.id = x
    <3>1. \A e \in Act : \A l \in Slots(e)' :
            \/ l \in Slots(e) /\ Accepted(e)'[l] = Accepted(e)[l]
            \/ e = a /\ l = n + 1 /\ Accepted(e)'[l] = m
      BY <1>1, <1>2
    <3>2. \A e \in Act : \A l \in Slots(e) : l \in Slots(e)' /\ Accepted(e)'[l] = Accepted(e)[l]
      BY <1>1, <1>2
    <3>3. n + 1 \in Slots(a)' /\ Accepted(a)'[n + 1] = m
      BY <1>1, <1>2
    <3>4. ASSUME NEW b \in Act, NEW i \in Slots(b)',
                 Owns(Accepted(b)'[i], k), Accepted(b)'[i].id = x
          PROVE  \/ \E e \in Act : \E l \in Slots(e) : Owns(Accepted(e)[l], k) /\ Accepted(e)[l].id = x
                 \/ Owns(m, k) /\ m.id = x
      BY <3>1, <3>4
    <3>5. ASSUME NEW b \in Act, NEW i \in Slots(b),
                 Owns(Accepted(b)[i], k), Accepted(b)[i].id = x
          PROVE  \E l \in Slots(b)' : Owns(Accepted(b)'[l], k) /\ Accepted(b)'[l].id = x
      BY <3>2, <3>5
    <3>6. ASSUME Owns(m, k), m.id = x
          PROVE  \E l \in Slots(a)' : Owns(Accepted(a)'[l], k) /\ Accepted(a)'[l].id = x
      BY <3>3, <3>6
    <3> QED  BY <3>4, <3>5, <3>6, Zenon
  <2>3. Owner(k, x)' <=>
          \/ \E c \in Caller : Sending(c)' /\ Owns(caller'[c].msg, k) /\ caller'[c].msg.id = x
          \/ \E b \in Act : \E i \in Slots(b)' : Owns(Accepted(b)'[i], k) /\ Accepted(b)'[i].id = x
    BY DEF Owner, Owns
  <2> QED  BY <2>1, <2>2, <2>3 DEF Owner
<1>7. Counted'
  BY <1>1, CellsGrow DEF Mem, n
<1> QED  BY <1>4, <1>5, <1>6, <1>7 DEF Mem

(* The thread of a has handled the oldest message.                         *)
LEMMA MemHandle ==
  ASSUME Inv, Mem, NEW a \in Act, NEW m \in Msg, NEW q \in Seq(Msg),
         Accepted(a) = <<m>> \o q, Accepted(a)' = q,
         \A b \in Act \ {a} : Accepted(b)' = Accepted(b),
         Release(m), cells' = cells - 1, UNCHANGED <<caller, nextId>>
  PROVE  Mem'
<1> DEFINE n == Len(Accepted(a))
<1>1. /\ n \in Nat \ {0} /\ Accepted(a)[1] = m /\ Len(Accepted(a)') = n - 1
      /\ \A i \in 1..n - 1 : Accepted(a)'[i] = Accepted(a)[i + 1]
  BY ConsProperties
<1>2. /\ Slots(a)' = 1..n - 1 /\ Slots(a) = 1..n
      /\ \A b \in Act \ {a} : Slots(b)' = Slots(b)
  BY <1>1 DEF Slots
<1> HIDE DEF n
<1>3. \A i \in 1..n - 1 : i + 1 \in 1..n /\ i + 1 # 1
  BY <1>1
<1>4. /\ 1 \in 1..n
      /\ \A i \in 1..n : i # 1 => i - 1 \in 1..n - 1 /\ (i - 1) + 1 = i
  BY <1>1
(* Where the slot i of b was before.                                       *)
<1> DEFINE Was(b, i) == IF b = a THEN i + 1 ELSE i
<1>5. ASSUME NEW b \in Act, NEW i \in Slots(b)'
      PROVE  /\ Was(b, i) \in Slots(b) /\ Accepted(b)'[i] = Accepted(b)[Was(b, i)]
             /\ ~(b = a /\ Was(b, i) = 1)
  BY <1>1, <1>2, <1>3
<1>6. ASSUME NEW b \in Act, NEW i \in Slots(b), ~(b = a /\ i = 1)
      PROVE  \E j \in Slots(b)' : Accepted(b)'[j] = Accepted(b)[i]
  <2>1. CASE b # a
    BY <1>2, <2>1
  <2>2. CASE b = a
    <3>1. i - 1 \in Slots(a)' /\ (i - 1) + 1 = i
      BY <1>2, <1>4, <1>6, <2>2
    <3>2. Accepted(a)'[i - 1] = Accepted(a)[i]
      BY <1>1, <1>2, <3>1
    <3> QED  BY <2>2, <3>1, <3>2
  <2> QED  BY <2>1, <2>2
<1>7. Kept'
  <2>1. \A b \in Act : Accepted(b)' \in Seq(Msg)
    BY DEF Mem, Kept
  <2>2. ASSUME NEW b \in Act, NEW i \in Slots(b)'
        PROVE  \/ Accepted(b)'[i] = STOP
               \/ Accepted(b)'[i] \in UserMsg /\ Accepted(b)'[i].id < nextId'
    BY <1>5 DEF Mem, Kept
  <2> QED  BY <2>1, <2>2 DEF Kept
<1>8. Distinct'
  <2>1. ASSUME NEW c \in Caller, Sending(c)'
        PROVE  /\ caller'[c].msg.id < nextId'
               /\ \A d \in Caller : Sending(d)' /\ caller'[d].msg.id = caller'[c].msg.id => d = c
               /\ \A b \in Act : \A i \in Slots(b)' : Accepted(b)'[i].id # caller'[c].msg.id
    BY <1>5, <2>1 DEF Mem, Distinct, Sending
  <2>2. ASSUME NEW b \in Act, NEW d \in Act, NEW i \in Slots(b)', NEW j \in Slots(d)',
               Accepted(b)'[i].id = Accepted(d)'[j].id
        PROVE  (b = d /\ i = j) \/ Accepted(b)'[i].id = 0
    <3>1. (b = d /\ Was(b, i) = Was(d, j)) \/ Accepted(b)[Was(b, i)].id = 0
      BY <1>5, <2>2 DEF Mem, Distinct
    <3>2. Accepted(b)'[i] = Accepted(b)[Was(b, i)]
      BY <1>5
    <3>3. b = d /\ Was(b, i) = Was(d, j) => i = j
      <4>1. b = a => i \in Int
        BY <1>1, <1>2
      <4>2. d = a => j \in Int
        BY <1>1, <1>2
      <4> QED  BY <4>1, <4>2
    <3> QED  BY <3>1, <3>2, <3>3
  <2> QED  BY <2>1, <2>2 DEF Distinct
<1>9. Stored'
  <2> SUFFICES ASSUME NEW k \in Kinds, NEW x PROVE x \in Store(k)' <=> Owner(k, x)'
    BY DEF Stored
  <2>1. x \in Store(k)' <=> x \in Store(k) /\ ~(Owns(m, k) /\ x = m.id)
    BY DEF Release, Store, Owns, Kinds
  <2>2. x \in Store(k) <=> Owner(k, x)
    BY DEF Mem, Stored
  <2>3. ASSUME Owner(k, x)' PROVE Owner(k, x) /\ ~(Owns(m, k) /\ x = m.id)
    <3>1. CASE \E c \in Caller : Sending(c)' /\ Owns(caller'[c].msg, k) /\ caller'[c].msg.id = x
      <4>1. PICK c \in Caller : Sending(c) /\ Owns(caller[c].msg, k) /\ caller[c].msg.id = x
        BY <3>1 DEF Sending
      <4>2. Accepted(a)[1].id # x
        BY <1>2, <1>4, <4>1 DEF Mem, Distinct
      <4> QED  BY <1>1, <4>1, <4>2 DEF Owner
    <3>2. CASE \E b \in Act : \E i \in Slots(b)' :
                 Owns(Accepted(b)'[i], k) /\ Accepted(b)'[i].id = x
      <4>0. PICK b \in Act : \E i \in Slots(b)' : Owns(Accepted(b)'[i], k) /\ Accepted(b)'[i].id = x
        BY <3>2
      <4>1. PICK i \in Slots(b)' : Owns(Accepted(b)'[i], k) /\ Accepted(b)'[i].id = x
        BY <4>0
      <4>2. /\ Was(b, i) \in Slots(b) /\ ~(b = a /\ Was(b, i) = 1)
            /\ Owns(Accepted(b)[Was(b, i)], k) /\ Accepted(b)[Was(b, i)].id = x
        BY <1>5, <4>1
      <4>3. x # 0
        <5>1. Accepted(b)[Was(b, i)] # STOP
          BY <4>2, StopOwnsNothing
        <5>2. Accepted(b)[Was(b, i)] \in UserMsg
          BY <4>2, <5>1 DEF Mem, Kept
        <5> QED  BY <4>2, <5>2, BoundAssumption DEF UserMsg, Ids
      <4>4. m.id # x
        BY <1>1, <1>2, <1>4, <4>2, <4>3 DEF Mem, Distinct
      <4> QED  BY <4>2, <4>4 DEF Owner
    <3>3. Owner(k, x)' <=>
            \/ \E c \in Caller : Sending(c)' /\ Owns(caller'[c].msg, k) /\ caller'[c].msg.id = x
            \/ \E b \in Act : \E i \in Slots(b)' : Owns(Accepted(b)'[i], k) /\ Accepted(b)'[i].id = x
      BY DEF Owner, Owns
    <3> QED  BY <2>3, <3>1, <3>2, <3>3
  <2>4. ASSUME Owner(k, x), ~(Owns(m, k) /\ x = m.id) PROVE Owner(k, x)'
    <3>1. CASE \E c \in Caller : Sending(c) /\ Owns(caller[c].msg, k) /\ caller[c].msg.id = x
      BY <3>1 DEF Owner, Sending, Owns
    <3>2. CASE \E b \in Act : \E i \in Slots(b) : Owns(Accepted(b)[i], k) /\ Accepted(b)[i].id = x
      <4>0. PICK b \in Act : \E i \in Slots(b) : Owns(Accepted(b)[i], k) /\ Accepted(b)[i].id = x
        BY <3>2
      <4>1. PICK i \in Slots(b) : Owns(Accepted(b)[i], k) /\ Accepted(b)[i].id = x
        BY <4>0
      <4>2. ~(b = a /\ i = 1)
        BY <1>1, <2>4, <4>1
      <4>3. \E j \in Slots(b)' : Owns(Accepted(b)'[j], k) /\ Accepted(b)'[j].id = x
        BY <1>6, <4>1, <4>2
      <4> QED  BY <4>3 DEF Owner, Owns
    <3> QED  BY <2>4, <3>1, <3>2 DEF Owner
  <2> QED  BY <2>1, <2>2, <2>3, <2>4
<1>10. Counted'
  BY <1>1, CellsShrink DEF Mem, n
<1> QED  BY <1>7, <1>8, <1>9, <1>10 DEF Mem

(* Steps after which the same messages are accepted as before.             *)
LEMMA KeptSame ==
  ASSUME Inv, Mem, \A b \in Act : Accepted(b)' = Accepted(b),
         nextId' \in Nat, nextId <= nextId'
  PROVE  /\ Kept' /\ \A b \in Act : Slots(b)' = Slots(b)
         /\ \A b \in Act : \A i \in Slots(b) : Accepted(b)[i].id < nextId'
<1>1. \A b \in Act : Slots(b)' = Slots(b)
  BY DEF Slots
<1>2. /\ \A b \in Act : \A i \in Slots(b) : Accepted(b)[i].id \in Nat /\ Accepted(b)[i].id < nextId
      /\ nextId \in Nat
  BY IdTypes
<1>3. \A b \in Act : \A i \in Slots(b) : Accepted(b)[i].id < nextId'
  BY <1>2
<1>4. Kept'
  BY <1>1, <1>3 DEF Mem, Kept
<1> QED  BY <1>1, <1>3, <1>4

LEMMA MemQuiet ==
  ASSUME Inv, Mem, \A b \in Act : Accepted(b)' = Accepted(b),
         nextId' \in Nat, nextId <= nextId',
         \A d \in Caller : Sending(d)' <=> Sending(d),
         \A d \in Caller : Sending(d) => caller'[d].msg = caller[d].msg,
         UNCHANGED <<cells, items, heap>>
  PROVE  Mem'
<1>1. Kept' /\ \A b \in Act : Slots(b)' = Slots(b)
  BY KeptSame
<1>2. \A c \in Caller : Sending(c) => caller[c].msg.id < nextId'
  BY IdTypes, BoundAssumption DEF Ids
<1>3. Distinct'
  BY <1>1, <1>2 DEF Mem, Distinct
<1>4. Stored'
  <2> SUFFICES ASSUME NEW k \in Kinds, NEW x PROVE x \in Store(k)' <=> Owner(k, x)'
    BY DEF Stored
  <2>1. x \in Store(k)' <=> Owner(k, x)
    BY DEF Mem, Stored, Store
  <2>2. Owner(k, x)' <=> Owner(k, x)
    BY <1>1 DEF Owner, Owns
  <2> QED  BY <2>1, <2>2
<1>5. Counted'
  BY CellsSame DEF Mem
<1> QED  BY <1>1, <1>3, <1>4, <1>5 DEF Mem

(* A caller gives back what its message owned.                             *)
LEMMA MemRefuse ==
  ASSUME Inv, Mem, \A b \in Act : Accepted(b)' = Accepted(b),
         NEW c \in Caller, Sending(c), ~Sending(c)', NEW m, m = caller[c].msg,
         \A d \in Caller : d # c => caller'[d] = caller[d],
         Release(m), UNCHANGED <<cells, nextId>>
  PROVE  Mem'
<1>0. nextId' \in Nat /\ nextId <= nextId'
  BY DEF Inv, Shape
<1>1. Kept' /\ \A b \in Act : Slots(b)' = Slots(b)
  BY <1>0, KeptSame
<1>2. \A d \in Caller : d # c => (Sending(d)' <=> Sending(d))
  BY DEF Sending
<1>3. Distinct'
  BY <1>1, <1>2 DEF Mem, Distinct
<1>4. Stored'
  <2> SUFFICES ASSUME NEW k \in Kinds, NEW x PROVE x \in Store(k)' <=> Owner(k, x)'
    BY DEF Stored
  <2>1. x \in Store(k)' <=> x \in Store(k) /\ ~(Owns(m, k) /\ x = m.id)
    BY DEF Release, Store, Owns, Kinds
  <2>2. x \in Store(k) <=> Owner(k, x)
    BY DEF Mem, Stored
  <2>3. /\ \A d \in Caller : Sending(d) /\ caller[d].msg.id = m.id => d = c
        /\ \A a \in Act : \A i \in Slots(a) : Accepted(a)[i].id # m.id
    BY DEF Mem, Distinct
  <2>4. Owner(k, x)' <=>
          \/ \E d \in Caller : d # c /\ Sending(d) /\ Owns(caller[d].msg, k) /\ caller[d].msg.id = x
          \/ \E a \in Act : \E i \in Slots(a) : Owns(Accepted(a)[i], k) /\ Accepted(a)[i].id = x
    <3>1. Owner(k, x)' <=>
          \/ \E d \in Caller : Sending(d)' /\ Owns(caller'[d].msg, k) /\ caller'[d].msg.id = x
          \/ \E a \in Act : \E i \in Slots(a) : Owns(Accepted(a)[i], k) /\ Accepted(a)[i].id = x
      BY <1>1 DEF Owner, Owns
    <3> QED  BY <1>2, <3>1
  <2> QED  BY <2>1, <2>2, <2>3, <2>4 DEF Owner
<1>5. Counted'
  BY CellsSame DEF Mem
<1> QED  BY <1>1, <1>3, <1>4, <1>5 DEF Mem

(* A caller makes a message with a new identity and what it owns.          *)
LEMMA MemBegin ==
  ASSUME Inv, Mem, \A b \in Act : Accepted(b)' = Accepted(b),
         NEW c \in Caller, ~Sending(c), Sending(c)',
         NEW m \in UserMsg, caller'[c].msg = m, m.id = nextId, nextId' = nextId + 1,
         \A d \in Caller : d # c => caller'[d] = caller[d],
         \A k \in Kinds : Store(k)' = IF Owns(m, k) THEN Store(k) \union {m.id} ELSE Store(k),
         UNCHANGED cells
  PROVE  Mem'
<1>0. nextId' \in Nat /\ nextId <= nextId' /\ nextId \in Nat /\ nextId < nextId'
  BY DEF Inv, Shape
<1>1. Kept' /\ \A b \in Act : Slots(b)' = Slots(b)
  BY <1>0, KeptSame
<1>2. \A d \in Caller : d # c => (Sending(d)' <=> Sending(d))
  BY DEF Sending
<1>3. /\ \A b \in Act : \A i \in Slots(b) : Accepted(b)[i].id # m.id
      /\ \A d \in Caller : Sending(d) => caller[d].msg.id # m.id /\ caller[d].msg.id < nextId'
  BY <1>0, IdTypes, BoundAssumption DEF Ids
<1>4. Distinct'
  <2>1. ASSUME NEW d \in Caller, Sending(d)'
        PROVE  /\ caller'[d].msg.id < nextId'
               /\ \A e \in Caller : Sending(e)' /\ caller'[e].msg.id = caller'[d].msg.id => e = d
               /\ \A b \in Act : \A i \in Slots(b)' : Accepted(b)'[i].id # caller'[d].msg.id
    <3>1. CASE d = c
      BY <1>0, <1>1, <1>2, <1>3, <3>1
    <3>2. CASE d # c
      BY <1>1, <1>2, <1>3, <2>1, <3>2 DEF Mem, Distinct
    <3> QED  BY <3>1, <3>2
  <2>2. ASSUME NEW b \in Act, NEW d \in Act, NEW i \in Slots(b)', NEW j \in Slots(d)',
               Accepted(b)'[i].id = Accepted(d)'[j].id
        PROVE  (b = d /\ i = j) \/ Accepted(b)'[i].id = 0
    BY <1>1, <2>2 DEF Mem, Distinct
  <2> QED  BY <2>1, <2>2 DEF Distinct
<1>5. Stored'
  <2> SUFFICES ASSUME NEW k \in Kinds, NEW x PROVE x \in Store(k)' <=> Owner(k, x)'
    BY DEF Stored
  <2>1. x \in Store(k)' <=> x \in Store(k) \/ (Owns(m, k) /\ x = m.id)
    OBVIOUS
  <2>2. x \in Store(k) <=> Owner(k, x)
    BY DEF Mem, Stored
  <2>3. Owner(k, x)' <=> Owner(k, x) \/ (Owns(m, k) /\ x = m.id)
    <3>1. Owner(k, x)' <=>
          \/ \E d \in Caller : Sending(d)' /\ Owns(caller'[d].msg, k) /\ caller'[d].msg.id = x
          \/ \E a \in Act : \E i \in Slots(a) : Owns(Accepted(a)[i], k) /\ Accepted(a)[i].id = x
      BY <1>1 DEF Owner, Owns
    <3> QED  BY <1>2, <3>1 DEF Owner
  <2> QED  BY <2>1, <2>2, <2>3
<1>6. Counted'
  BY CellsSame DEF Mem
<1> QED  BY <1>1, <1>4, <1>5, <1>6 DEF Mem

(* A caller that is not sending, before or after the step.                 *)
LEMMA NotSending ==
  ASSUME Inv, NEW c \in Caller, NEW pc, Goto(c, pc), ~Sending(c), pc.at # "sending"
  PROVE  /\ \A d \in Caller : Sending(d)' <=> Sending(d)
         /\ \A d \in Caller : Sending(d) => caller'[d].msg = caller[d].msg
<1>1. caller'[c] = pc /\ \A d \in Caller : d # c => caller'[d] = caller[d]
  BY DEF Goto, Inv, Shape
<1> QED  BY <1>1 DEF Sending

(* A step that neither sends nor takes a message, by a caller or not.      *)
LEMMA MemRest ==
  ASSUME Inv, Mem, \A b \in Act : Accepted(b)' = Accepted(b),
         UNCHANGED <<nextId, cells, items, heap>>,
         \/ UNCHANGED caller
         \/ \E c \in Caller : \E pc : Goto(c, pc) /\ ~Sending(c) /\ pc.at # "sending"
  PROVE  Mem'
<1>1. nextId' \in Nat /\ nextId <= nextId'
  BY DEF Inv, Shape
<1>2. /\ \A d \in Caller : Sending(d)' <=> Sending(d)
      /\ \A d \in Caller : Sending(d) => caller'[d].msg = caller[d].msg
  <2>1. CASE UNCHANGED caller
    BY <2>1 DEF Sending
  <2>2. ASSUME NEW c \in Caller, NEW pc, Goto(c, pc), ~Sending(c), pc.at # "sending"
        PROVE  /\ \A d \in Caller : Sending(d)' <=> Sending(d)
               /\ \A d \in Caller : Sending(d) => caller'[d].msg = caller[d].msg
    BY <2>2, NotSending
  <2> QED  BY <2>1, <2>2
<1> QED  BY <1>1, <1>2, MemQuiet

(* activity_set_pendding_exit of a caller.                                 *)
LEMMA MemStop ==
  ASSUME Inv, Mem, NEW c \in Caller, NEW pc, Goto(c, pc), ~Sending(c), pc.at # "sending",
         NEW a \in Act, NEW ret, activity_set_pendding_exit(a, ret),
         UNCHANGED <<worker, nextId, items, heap>>
  PROVE  Mem'
<1>1. CASE UNCHANGED <<msg_queue, cells>>
  <2>1. \A b \in Act : Accepted(b)' = Accepted(b)
    BY <1>1, AcceptedTaken
  <2> QED  BY <1>1, <2>1, MemRest
<1>2. CASE state[a] = "RUN" /\ msg_enqueue(a, STOP)
  <2>1. /\ msg_queue' = [msg_queue EXCEPT ![a] = Append(msg_queue[a], STOP)]
        /\ cells' = cells + 1
    BY <1>2 DEF msg_enqueue
  <2>2. /\ \A b \in Act \ {a} : Accepted(b)' = Accepted(b)
        /\ Accepted(a)' = Append(Accepted(a), STOP)
    BY <1>2, <2>1, StopMsg, MailEnqueue
  <2>3. /\ \A d \in Caller : Sending(d)' <=> Sending(d)
        /\ \A d \in Caller : Sending(d) => caller'[d].msg = caller[d].msg
    BY NotSending
  <2>4. nextId' \in Nat /\ nextId <= nextId'
    BY DEF Inv, Shape
  <2>5. ASSUME NEW k \in Kinds, NEW x
        PROVE  (\E d \in Caller : Sending(d) /\ Owns(caller[d].msg, k) /\ caller[d].msg.id = x)
                 <=> \/ \E d \in Caller :
                          Sending(d)' /\ Owns(caller'[d].msg, k) /\ caller'[d].msg.id = x
                     \/ Owns(STOP, k) /\ STOP.id = x
    BY <2>3, StopOwnsNothing
  <2> QED  BY <2>1, <2>2, <2>3, <2>4, <2>5, StopMsg, MemAppend
<1> QED  BY <1>1, <1>2 DEF activity_set_pendding_exit

(* The two halves of a send.                                               *)
LEMMA MemSendBegin ==
  ASSUME Inv, Mem, NEW c \in Caller, NEW a \in Act, NEW gc \in BOOLEAN,
         activity_msg_send_begin(c, a, gc) \/ activity_exec_begin(c, a, gc)
  PROVE  Mem'
<1>1. /\ ~Sending(c) /\ nextId <= MaxMsgs /\ nextId' = nextId + 1 /\ UNCHANGED cells
      /\ UNCHANGED <<msg_queue, worker>>
  BY DEF activity_msg_send_begin, activity_exec_begin, At, Sending, actVars
<1>2. \A b \in Act : Accepted(b)' = Accepted(b)
  BY <1>1, AcceptedTaken
<1>3. nextId \in Nat \ {0} /\ nextId' \in Nat /\ nextId <= nextId'
  BY <1>1 DEF Inv, Shape
<1>4. CASE UNCHANGED <<caller, heap, items>>
  <2>1. /\ \A d \in Caller : Sending(d)' <=> Sending(d)
        /\ \A d \in Caller : Sending(d) => caller'[d].msg = caller[d].msg
    BY <1>4 DEF Sending
  <2> QED  BY <1>1, <1>2, <1>3, <1>4, <2>1, MemQuiet
<1>5. ASSUME NEW type \in {"user", "exec"},
             Goto(c, [at |-> "sending", act |-> a, msg |-> Message(nextId, type, gc)]),
             items' = IF type = "exec" THEN items \union {nextId} ELSE items,
             heap' = IF gc THEN heap \union {nextId} ELSE heap
      PROVE  Mem'
  <2> DEFINE m == Message(nextId, type, gc)
             pc == [at |-> "sending", act |-> a, msg |-> m]
  <2>1. m \in UserMsg /\ m.id = nextId /\ m.gc = gc /\ m.type = type
    BY <1>1, <1>3, BoundAssumption DEF Message, Msg, UserMsg, Types, Ids
  <2>2. pc.at = "sending" /\ pc.msg = m
    OBVIOUS
  <2>3. caller'[c] = pc /\ \A d \in Caller : d # c => caller'[d] = caller[d]
    BY <1>5 DEF Goto, Inv, Shape
  <2> HIDE DEF m, pc
  <2>4. Sending(c)' /\ caller'[c].msg = m
    BY <2>2, <2>3 DEF Sending
  <2>5. \A k \in Kinds : Store(k)' = IF Owns(m, k) THEN Store(k) \union {m.id} ELSE Store(k)
    BY <1>5, <2>1 DEF Store, Owns, Kinds
  <2>6. PICK n \in UserMsg : n = m
    BY <2>1
  <2> QED  BY <1>1, <1>2, <2>1, <2>3, <2>4, <2>5, <2>6, MemBegin
<1>6. CASE activity_msg_send_begin(c, a, gc)
  <2>1. \/ UNCHANGED <<caller, heap, items>>
        \/ /\ Goto(c, [at |-> "sending", act |-> a, msg |-> Message(nextId, "user", gc)])
           /\ heap' = IF gc THEN heap \union {nextId} ELSE heap
           /\ items' = items
    BY <1>6 DEF activity_msg_send_begin
  <2> QED  BY <1>4, <1>5, <2>1
<1>7. CASE activity_exec_begin(c, a, gc)
  <2>1. \/ UNCHANGED <<caller, heap, items>>
        \/ /\ Goto(c, [at |-> "sending", act |-> a, msg |-> Message(nextId, "exec", gc)])
           /\ heap' = IF gc THEN heap \union {nextId} ELSE heap
           /\ items' = items \union {nextId}
    BY <1>7 DEF activity_exec_begin
  <2> QED  BY <1>4, <1>5, <2>1
<1> QED  BY <1>6, <1>7

LEMMA MemSend ==
  ASSUME Inv, Mem, NEW c \in Caller, activity_msg_send(c)
  PROVE  Mem'
<1>1. Sending(c) /\ Goto(c, Idle) /\ UNCHANGED <<state, worker, nextId>>
  BY DEF activity_msg_send, At, Sending
<1>2. PICK a \in Act, m \in UserMsg : a = caller[c].act /\ m = caller[c].msg
  BY <1>1, PlaceFields DEF Inv, Shape, Sending
<1>3. ~Sending(c)' /\ \A d \in Caller : d # c => caller'[d] = caller[d]
  BY <1>1, IdlePlace DEF Goto, Inv, Shape, Sending
<1>4. CASE Accepts(a) /\ msg_enqueue(a, m) /\ UNCHANGED <<items, heap>>
  <2>1. /\ state[a] = "RUN" /\ m \in Msg /\ cells' = cells + 1
        /\ msg_queue' = [msg_queue EXCEPT ![a] = Append(msg_queue[a], m)]
    BY <1>4 DEF Accepts, msg_enqueue, UserMsg
  <2>2. /\ \A b \in Act \ {a} : Accepted(b)' = Accepted(b)
        /\ Accepted(a)' = Append(Accepted(a), m)
    BY <1>1, <2>1, MailEnqueue
  <2>3. /\ nextId' \in Nat /\ nextId <= nextId'
        /\ m.id < nextId'
        /\ \A b \in Act : \A i \in Slots(b) : Accepted(b)[i].id # m.id
        /\ \A d \in Caller : Sending(d) /\ d # c => caller[d].msg.id # m.id
    BY <1>1, <1>2 DEF Inv, Shape, Mem, Distinct
  <2>4. \A d \in Caller : Sending(d)' => d # c /\ Sending(d) /\ caller'[d].msg = caller[d].msg
    BY <1>3 DEF Sending
  <2>5. ASSUME NEW k \in Kinds, NEW x
        PROVE  (\E d \in Caller : Sending(d) /\ Owns(caller[d].msg, k) /\ caller[d].msg.id = x)
                 <=> \/ \E d \in Caller :
                          Sending(d)' /\ Owns(caller'[d].msg, k) /\ caller'[d].msg.id = x
                     \/ Owns(m, k) /\ m.id = x
    <3>1. \A d \in Caller : Sending(d) /\ d # c => Sending(d)'
      BY <1>3 DEF Sending
    <3> QED  BY <1>1, <1>2, <2>4, <3>1
  <2> QED  BY <1>4, <2>1, <2>2, <2>3, <2>4, <2>5, MemAppend
<1>5. CASE Release(m) /\ UNCHANGED <<msg_queue, cells>>
  <2>1. \A b \in Act : Accepted(b)' = Accepted(b)
    BY <1>1, <1>5, AcceptedTaken
  <2> QED  BY <1>1, <1>2, <1>3, <1>5, <2>1, MemRefuse
<1> QED  BY <1>2, <1>4, <1>5 DEF activity_msg_send

(* The message of the timer, which owns nothing.                           *)
LEMMA MemPeriodic ==
  ASSUME Inv, Mem, NEW a \in Act, NEW r \in Run, periodic_event_cb(a, r)
  PROVE  Mem'
<1> DEFINE n == Message(nextId, "periodic", FALSE)
<1>1. /\ nextId <= MaxMsgs /\ nextId' = nextId + 1 /\ UNCHANGED <<state, worker, caller, items, heap>>
      /\ nextId \in Nat \ {0} /\ nextId' \in Nat /\ nextId <= nextId' /\ nextId < nextId'
  BY DEF periodic_event_cb, Inv, Shape
<1>2. n \in UserMsg /\ n.id = nextId /\ ~n.gc /\ n.type # "exec"
  BY <1>1, BoundAssumption DEF Message, Msg, UserMsg, Types, Ids
<1> HIDE DEF n
<1>3. PICK m \in UserMsg : m = n
  BY <1>2
<1>4. /\ \A d \in Caller : Sending(d)' <=> Sending(d)
      /\ \A d \in Caller : Sending(d) => caller'[d].msg = caller[d].msg
  BY <1>1 DEF Sending
<1>5. CASE Accepts(a) /\ msg_enqueue(a, m)
  <2>1. /\ state[a] = "RUN" /\ m \in Msg /\ cells' = cells + 1
        /\ msg_queue' = [msg_queue EXCEPT ![a] = Append(msg_queue[a], m)]
    BY <1>5 DEF Accepts, msg_enqueue, UserMsg
  <2>2. /\ \A b \in Act \ {a} : Accepted(b)' = Accepted(b)
        /\ Accepted(a)' = Append(Accepted(a), m)
    BY <1>1, <2>1, MailEnqueue
  <2>3. /\ m.id < nextId'
        /\ \A b \in Act : \A i \in Slots(b) : Accepted(b)[i].id # m.id
        /\ \A d \in Caller : Sending(d)' => caller[d].msg.id # m.id
    BY <1>1, <1>2, <1>3, <1>4, IdTypes, BoundAssumption DEF Ids
  <2>4. \A k \in Kinds : ~Owns(m, k)
    BY <1>2, <1>3 DEF Owns, Kinds
  <2>5. ASSUME NEW k \in Kinds, NEW x
        PROVE  (\E d \in Caller : Sending(d) /\ Owns(caller[d].msg, k) /\ caller[d].msg.id = x)
                 <=> \/ \E d \in Caller :
                          Sending(d)' /\ Owns(caller'[d].msg, k) /\ caller'[d].msg.id = x
                     \/ Owns(m, k) /\ m.id = x
    BY <1>4, <2>4
  <2> QED  BY <1>1, <1>4, <2>1, <2>2, <2>3, <2>5, MemAppend
<1>6. CASE UNCHANGED <<msg_queue, cells>>
  <2>1. \A b \in Act : Accepted(b)' = Accepted(b)
    BY <1>1, <1>6, AcceptedTaken
  <2> QED  BY <1>1, <1>4, <1>6, <2>1, MemQuiet
<1> QED  BY <1>3, <1>5, <1>6 DEF periodic_event_cb, n

(* What has been freed stays freed.                                        *)
LEMMA FreedForGood ==
  ASSUME Freed, [Next]_vars
  PROVE  Freed'
<1>1. mgr # "down" /\ mgr # "up"
  BY DEF Freed
<1>2. ASSUME NEW c \in Caller, CallerStep(c) PROVE UNCHANGED mgr
  BY <1>2
  DEF CallerStep, activity_msg_send_begin, activity_exec_begin, activity_stop, activity_reg,
      activity_run, activity_periodic_event_enable, activity_periodic_event_disable,
      activity_manager_fini
<1>3. ASSUME NEW c \in Caller, CallStep(c) PROVE mgr' \in {mgr, "gone", "broken"}
  BY <1>3
  DEF CallStep, activity_msg_send, activity_msg_send_after_fini, activity_run_local,
      activity_run_local_end, activity_stop_read_thread, activity_stop_joined,
      activity_stop_joins_again, activity_manager_fini_stop, activity_manager_fini_end, Break
<1>4. ASSUME NEW a \in Act, NEW r \in Run, WorkerStep(a, r) PROVE mgr' \in {mgr, "broken"}
  BY <1>4
  DEF WorkerStep, activity_thread_init, uev_run_event, msg_dequeue, act_msg_handler,
      uev_run_return, activity_thread_exit, thread_after_fini, Break
<1>5. ASSUME NEW a \in Act, NEW r \in Run, TimerStep(a, r) PROVE UNCHANGED mgr
  BY <1>5 DEF TimerStep, periodic_event_cb
<1>6. mgr' \in {mgr, "gone", "broken"}
  BY <1>1, <1>2, <1>3, <1>4, <1>5 DEF Next, activity_manager_init, vars
<1> QED  BY <1>6 DEF Freed

LEMMA MemStep ==
  ASSUME Inv, Mem, [Next]_vars, ~Freed'
  PROVE  Mem'
<1>0. ~Break
  BY DEF Break, Freed
<1>1. ASSUME NEW c \in Caller, CallerStep(c) PROVE Mem'
  <2>1. ASSUME NEW a \in Act, NEW flag \in BOOLEAN, activity_stop(c, a, flag) PROVE Mem'
    <3>1. ~Sending(c) /\ UNCHANGED <<worker, nextId, items, heap>>
      BY <2>1 DEF activity_stop, At, Sending
    <3>2. PICK ret, pc : activity_set_pendding_exit(a, ret) /\ Goto(c, pc) /\ pc.at # "sending"
      BY <2>1, IdlePlace DEF activity_stop
    <3> QED  BY <3>1, <3>2, MemStop
  <2>2. ASSUME NEW a \in Act, activity_reg(c, a) PROVE Mem'
    <3>1. /\ ~Sending(c) /\ Goto(c, [at |-> "run", act |-> a])
          /\ UNCHANGED <<nextId, cells, items, heap>>
      BY <2>2 DEF activity_reg, At, Sending, memVars
    <3>2. \A b \in Act : Accepted(b)' = Accepted(b)
      BY <2>2, RegKeepsAll
    <3> QED  BY <3>1, <3>2, MemRest
  <2>3. ASSUME NEW a \in Act, activity_run(c, a) PROVE Mem'
    <3>1. /\ ~Sending(c) /\ Goto(c, [at |-> "run", act |-> a])
          /\ UNCHANGED <<msg_queue, worker, nextId, cells, items, heap>>
      BY <2>3 DEF activity_run, At, Sending, memVars, actVars
    <3> QED  BY <3>1, AcceptedTaken, MemRest
  <2>4. ASSUME NEW a \in Act, \/ activity_periodic_event_enable(c, a)
                              \/ activity_periodic_event_disable(c, a)
        PROVE  Mem'
    BY <2>4, AcceptedTaken, MemRest
    DEF activity_periodic_event_enable, activity_periodic_event_disable, memVars
  <2>5. CASE activity_manager_fini(c)
    <3>1. /\ ~Sending(c) /\ Goto(c, [at |-> "fini", todo |-> act_list])
          /\ UNCHANGED <<msg_queue, worker, nextId, cells, items, heap>>
      BY <2>5 DEF activity_manager_fini, At, Sending, memVars, actVars
    <3> QED  BY <3>1, AcceptedTaken, MemRest
  <2> QED  BY <1>1, <2>1, <2>2, <2>3, <2>4, <2>5, MemSendBegin DEF CallerStep
<1>2. ASSUME NEW c \in Caller, CallStep(c) PROVE Mem'
  <2>1. CASE activity_run_local(c)
    <3>1. /\ ~Sending(c) /\ UNCHANGED <<nextId, cells, items, heap>>
          /\ \E pc : Goto(c, pc) /\ pc.at # "sending"
      BY <2>1, IdlePlace DEF activity_run_local, At, Sending, memVars
    <3> QED  BY <2>1, <3>1, RunLocalKeepsAll, MemRest
  <2>2. CASE activity_run_local_end(c)
    <3>1. /\ ~Sending(c) /\ Goto(c, Idle) /\ Idle.at # "sending"
          /\ UNCHANGED <<msg_queue, worker, nextId, cells, items, heap>>
      BY <2>2, IdlePlace DEF activity_run_local_end, At, Sending, memVars
    <3> QED  BY <3>1, AcceptedTaken, MemRest
  <2>3. ASSUME NEW a \in Act, activity_manager_fini_stop(c, a) PROVE Mem'
    <3>1. ~Sending(c) /\ UNCHANGED <<worker, nextId, items, heap>>
      BY <2>3 DEF activity_manager_fini_stop, At, Sending
    <3>2. PICK ret, pc : activity_set_pendding_exit(a, ret) /\ Goto(c, pc) /\ pc.at # "sending"
      BY <2>3 DEF activity_manager_fini_stop
    <3> QED  BY <3>1, <3>2, MemStop
  <2>4. CASE \/ activity_stop_read_thread(c) \/ activity_stop_joined(c)
    <3>1. /\ ~Sending(c) /\ UNCHANGED <<msg_queue, worker, nextId, cells, items, heap>>
          /\ \E pc : Goto(c, pc) /\ pc.at # "sending"
      BY <2>4, IdlePlace
      DEF activity_stop_read_thread, activity_stop_joined, At, Sending, memVars, actVars
    <3> QED  BY <3>1, AcceptedTaken, MemRest
  <2>5. ~activity_manager_fini_end(c)
    BY DEF activity_manager_fini_end, Freed
  <2> QED
    BY <1>0, <1>2, <2>1, <2>2, <2>3, <2>4, <2>5, MemSend
    DEF CallStep, activity_stop_joins_again, activity_msg_send_after_fini
<1>3. ASSUME NEW a \in Act, NEW r \in Run, WorkerStep(a, r) PROVE Mem'
  <2>1. CASE activity_thread_init(a, r) \/ uev_run_event(a, r) \/ uev_run_return(a, r)
             \/ activity_thread_exit(a, r)
    <3>1. UNCHANGED <<caller, nextId, cells, items, heap>>
      BY <2>1
      DEF activity_thread_init, uev_run_event, uev_run_return, activity_thread_exit, memVars
    <3> QED  BY <2>1, <3>1, ThreadKeepsAll, MemRest
  <2>2. CASE msg_dequeue(a, r)
    <3>1. UNCHANGED <<caller, nextId, cells, items, heap>>
      BY <2>2 DEF msg_dequeue, memVars
    <3> QED  BY <2>2, <3>1, DequeueKeepsAll, MemRest
  <2>3. CASE act_msg_handler(a, r)
    <3>1. Release(worker[a][r].msg) /\ cells' = cells - 1 /\ UNCHANGED <<caller, nextId>>
      BY <2>3 DEF act_msg_handler, pool_free_msg
    <3>2. PICK m \in Msg, q \in Seq(Msg) : m = worker[a][r].msg /\ q = msg_queue[a]
      BY <2>3, HandleTakesFirst, ObjectFacts
    <3>3. /\ Accepted(a) = <<m>> \o q /\ Accepted(a)' = q
          /\ \A b \in Act \ {a} : Accepted(b)' = Accepted(b)
      BY <2>3, <3>2, HandleTakesFirst
    <3> QED  BY <3>1, <3>2, <3>3, MemHandle
  <2> QED  BY <1>0, <1>3, <2>1, <2>2, <2>3 DEF WorkerStep, thread_after_fini
<1>4. CASE activity_manager_init
  BY <1>4, AcceptedTaken, MemRest DEF activity_manager_init, actVars, memVars
<1>5. CASE UNCHANGED vars
  BY <1>5, AcceptedTaken, MemRest DEF vars, actVars, memVars
<1>6. ASSUME NEW a \in Act, NEW r \in Run, TimerStep(a, r) PROVE Mem'
  BY <1>6, MemPeriodic DEF TimerStep
<1> QED  BY <1>1, <1>2, <1>3, <1>4, <1>5, <1>6 DEF Next

LEMMA MemInit == Init => Mem
<1> SUFFICES ASSUME Init PROVE Mem
  OBVIOUS
<1>1. ASSUME NEW a \in Act PROVE Accepted(a) = <<>>
  <2>1. msg_queue[a] = <<>> /\ thread[a] = 0
    BY DEF Init
  <2>2. ~Busy(a)
    BY <2>1, BoundAssumption DEF Busy, Run
  <2> QED  BY <2>1, <2>2, InitHolds, AcceptedIs
<1>2. /\ \A a \in Act : Slots(a) = {} /\ Accepted(a) \in Seq(Msg)
      /\ \A c \in Caller : ~Sending(c)
  <2>1. \A a \in Act : Slots(a) = {}
    BY <1>1 DEF Slots
  <2>2. \A a \in Act : Accepted(a) \in Seq(Msg)
    BY <1>1, EmptySeq
  <2>3. \A c \in Caller : ~Sending(c)
    BY IdlePlace DEF Init, Sending
  <2> QED  BY <2>1, <2>2, <2>3
<1>3. Kept /\ Distinct
  BY <1>2 DEF Kept, Distinct
<1>4. Stored
  BY <1>2 DEF Stored, Store, Owner, Init
<1>5. Cells = {}
  BY <1>2 DEF Cells, Slots
<1>6. Counted
  BY <1>5, FS_EmptySet DEF Counted, Init
<1> QED  BY <1>3, <1>4, <1>6 DEF Mem

(* MemoryConserved: every argument copy, exec item and message cell handed *)
(* out belongs to exactly one message on its way, whatever fails or is     *)
(* refused (activity_msg_send, activity_exec, act_msg_handler).            *)
THEOREM MemorySafe == Spec => []MemoryConserved
<1>1. ASSUME Mem PROVE MemoryConserved
  <2>1. ASSUME NEW k \in Kinds
        PROVE  Store(k) = {m.id : m \in {n \in Owned : Owns(n, k)}}
    <3>1. \A m : m \in Owned <=> \/ \E c \in Caller : Sending(c) /\ m = caller[c].msg
                                 \/ \E a \in Act : \E i \in Slots(a) : m = Accepted(a)[i]
      BY DEF Owned, InFlight, Sending, At, Slots
    <3>2. \A x : x \in Store(k) <=> Owner(k, x)
      BY <1>1 DEF Mem, Stored
    <3>3. \A x : Owner(k, x) <=> \E m \in Owned : Owns(m, k) /\ m.id = x
      BY <3>1 DEF Owner
    <3> QED  BY <3>2, <3>3
  <2>2. heap = {m.id : m \in {n \in Owned : n.gc}}
    BY <2>1 DEF Kinds, Store, Owns
  <2>3. items = {m.id : m \in {n \in Owned : n.type = "exec"}}
    BY <2>1 DEF Kinds, Store, Owns
  <2> QED  BY <1>1, <2>2, <2>3 DEF Mem, Counted, MemoryConserved
<1> DEFINE MemUntilFini == Freed \/ Mem
<1>2. Inv /\ MemUntilFini /\ [Next]_vars => MemUntilFini'
  BY MemStep, FreedForGood
<1>3. Init => MemUntilFini
  BY MemInit
<1>4. MemUntilFini => MemoryConserved
  BY <1>1 DEF MemoryConserved
<1> QED  BY <1>2, <1>3, <1>4, Invariance, PTL DEF Spec
=============================================================================
