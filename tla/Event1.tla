------------------------------- MODULE Event1 -------------------------------
(***************************************************************************)
(* The event flags of event1.c: threads post bits and wait for all or any  *)
(* of a set of bits, with or without a timeout, and may clear them.        *)
(*                                                                         *)
(* Between pthread_mutex_lock and the next wait or unlock nothing else     *)
(* runs, so a pass through the loop of a waiting function is one step.  A  *)
(* condition variable wakes all waiters on a broadcast, may wake one       *)
(* without cause, and a woken thread competes for the mutex before it goes *)
(* on.  The mutex is a variable only because one error path of             *)
(* event_timedwait returns without unlocking it.                           *)
(***************************************************************************)
EXTENDS Integers, FiniteSets

CONSTANTS Bit,     \* the bits of e->value in use
          Thread,  \* threads that use the event
          Request  \* the waits they ask for: [set, all, clear, timed]

(* EVENT_FLAG_AND or _OR, and _CLEAR.                                      *)
ASSUME RequestAssumption ==
  Request \subseteq [set : (SUBSET Bit) \ {{}}, all : BOOLEAN, clear : BOOLEAN, timed : BOOLEAN]

VARIABLES value,   \* e->value, as the set of bits that are 1
          mutex,   \* "free", or "lost" once it was never unlocked
          pc,      \* what each thread is doing
          result   \* what its last wait returned

vars == <<value, mutex, pc, result>>

Idle == [at |-> "idle"]

(* A thread inside a wait: "called" and "checking" (after a wait) get the  *)
(* mutex next, "blocked" is in the condition variable, "expired" has been  *)
(* given an error by it.                                                   *)
Waiting(t) == pc[t].at # "idle"
Looking(t) == pc[t].at \in {"called", "checking"}
Place(req, match, at) == [at |-> at, req |-> req, match |-> match]
Goto(t, place) == pc' = [pc EXCEPT ![t] = place]

(* The test of the wanted bits against e->value.                           *)
Matches(v, req) ==
  IF req.all THEN req.set \subseteq v ELSE v \intersect req.set # {}

NoResult == [rc |-> "none", recved |-> {}, wanted |-> {}, all |-> FALSE, timed |-> FALSE]

Init ==
  /\ value = {}
  /\ mutex = "free"
  /\ pc = [t \in Thread |-> Idle]
  /\ result = [t \in Thread |-> NoResult]

(* Slip, for the mutation runs: only one waiter is woken.        *)
Broadcast_one ==
  \/ \E t \in Thread : /\ pc[t].at = "blocked"
                       /\ pc' = [pc EXCEPT ![t].at = "checking"]
  \/ (\A t \in Thread : pc[t].at # "blocked") /\ UNCHANGED pc

(* pthread_cond_broadcast.                                                 *)
Broadcast ==
  pc' = [t \in Thread |-> IF pc[t].at = "blocked" THEN [pc[t] EXCEPT !.at = "checking"]
                          ELSE pc[t]]

event_post(set) ==
  /\ mutex = "free"
  /\ value' = value \union set
  /\ Broadcast
  /\ UNCHANGED <<mutex, result>>

(* A thread calls event_wait or event_timedwait.                           *)
Call(t, req) ==
  /\ pc[t] = Idle
  /\ Goto(t, Place(req, FALSE, "called"))
  /\ result' = [result EXCEPT ![t] = NoResult]
  /\ UNCHANGED <<value, mutex>>

(* What *recved is set to.                                                 *)
Received(req) == value \intersect req.set

(* The end of both functions, once a match was found or there will be none.*)
Return(t, match) ==
  LET req == pc[t].req IN
  /\ result' = [result EXCEPT ![t] =
                  [rc |-> IF match THEN "ok" ELSE "ETIMEDOUT",
                   recved |-> IF match THEN Received(req) ELSE {},
                   wanted |-> req.set, all |-> req.all, timed |-> req.timed]]
  /\ value' = IF match /\ req.clear THEN value \ req.set ELSE value
  /\ Goto(t, Idle)
  /\ UNCHANGED mutex

(* Slip: a woken thread does not look again.                               *)
event_wait_once(t) ==
  /\ Looking(t) /\ ~pc[t].req.timed /\ mutex = "free"
  /\ \/ /\ pc[t].at = "checking" \/ Matches(value, pc[t].req)
        /\ Return(t, TRUE)
     \/ /\ pc[t].at = "called" /\ ~Matches(value, pc[t].req)
        /\ Goto(t, Place(pc[t].req, FALSE, "blocked"))
        /\ UNCHANGED <<value, mutex, result>>

(* event_wait leaves the loop on a match and waits otherwise.              *)
event_wait(t) ==
  /\ Looking(t) /\ ~pc[t].req.timed /\ mutex = "free"
  /\ \/ /\ Matches(value, pc[t].req)
        /\ Return(t, TRUE)
     \/ /\ ~Matches(value, pc[t].req)
        /\ Goto(t, Place(pc[t].req, FALSE, "blocked"))
        /\ UNCHANGED <<value, mutex, result>>

(* event_timedwait notes a match and waits once more all the same; only    *)
(* after that wait does the loop end.                                      *)
event_timedwait(t) ==
  LET req == pc[t].req IN
  /\ Looking(t) /\ req.timed /\ mutex = "free"
  /\ \/ /\ pc[t].match
        /\ Return(t, TRUE)
     \/ /\ ~pc[t].match
        /\ Goto(t, Place(req, Matches(value, req), "blocked"))
        /\ UNCHANGED <<value, mutex, result>>

(* The wait ends with ETIMEDOUT, or with EINVAL for an unnormalised time.  *)
event_timedwait_expire(t) ==
  /\ pc[t].at = "blocked" /\ pc[t].req.timed
  /\ Goto(t, [pc[t] EXCEPT !.at = "expired"])
  /\ UNCHANGED <<value, mutex, result>>

(* Slip: the error of the wait does not end the loop.                      *)
event_timedwait_end_retries(t) ==
  /\ pc[t].at = "expired" /\ mutex = "free"
  /\ \/ pc[t].match /\ Return(t, TRUE)
     \/ /\ ~pc[t].match
        /\ Goto(t, [pc[t] EXCEPT !.at = "checking"])
        /\ UNCHANGED <<value, mutex, result>>

event_timedwait_end(t) ==
  /\ pc[t].at = "expired" /\ mutex = "free"
  /\ Return(t, pc[t].match)

(* clock_gettime fails: the function returns with the mutex locked.        *)
event_timedwait_no_clock(t) ==
  /\ pc[t].at = "called" /\ pc[t].req.timed /\ mutex = "free"
  /\ mutex' = "lost"
  /\ Goto(t, Idle)
  /\ UNCHANGED <<value, result>>

(* The condition variable wakes a thread without cause.                    *)
SpuriousWakeup(t) ==
  /\ pc[t].at = "blocked"
  /\ Goto(t, [pc[t] EXCEPT !.at = "checking"])
  /\ UNCHANGED <<value, mutex, result>>

Step(t) ==
  \/ event_wait(t)
  \/ event_timedwait(t)
  \/ event_timedwait_expire(t)
  \/ event_timedwait_end(t)

Next ==
  \/ \E set \in (SUBSET Bit) \ {{}} : event_post(set)
  \/ \E t \in Thread :
       \/ \E req \in Request : Call(t, req)
       \/ Step(t)
       \/ event_timedwait_no_clock(t)
       \/ SpuriousWakeup(t)

(* Threads that can run do run, and the deadline of a timed wait is        *)
(* absolute: however often the thread is woken, it expires.  Neither posts *)
(* nor spurious wake-ups are promised.                                     *)
Fairness ==
  \A t \in Thread : WF_vars(Step(t)) /\ SF_vars(event_timedwait_expire(t))

Spec == Init /\ [][Next]_vars /\ Fairness
-----------------------------------------------------------------------------
(* No post is missed, however posts, clears and timeouts of other threads  *)
(* interleave with a thread's going to sleep: in event_wait no thread      *)
(* sleeps while its bits are there; in event_timedwait one may, but it has *)
(* noted the match and returns 0 when that wait is over.                   *)
NoMissedPost ==
  \A t \in Thread : pc[t].at = "blocked" /\ Matches(value, pc[t].req) =>
    pc[t].req.timed /\ pc[t].match

(* event_wait returns 0 only with the bits it waited for, although another *)
(* thread may have cleared them between the broadcast and its waking up.   *)
WaitDelivers ==
  \A t \in Thread :
    result[t].rc = "ok" /\ ~result[t].timed =>
      IF result[t].all THEN result[t].recved = result[t].wanted
                       ELSE result[t].recved # {}

(* A thread cannot wait for ever for bits that are there to stay.          *)
NotStarved ==
  \A t \in Thread :
    []<>(mutex = "lost" \/ ~(Waiting(t) /\ Matches(value, pc[t].req)))

(* A timed wait comes to an end.                                           *)
TimedReturns ==
  \A t \in Thread :
    (Waiting(t) /\ pc[t].req.timed) ~> (pc[t] = Idle \/ mutex = "lost")
=============================================================================
