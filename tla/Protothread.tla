---------------------------- MODULE Protothread ----------------------------
(***************************************************************************)
(* The macros of pt.h and pt-sem.h over local continuations that are line  *)
(* numbers (lc-switch.h), in the program pt-sem.h documents them with: a   *)
(* producer and a consumer share a bounded buffer and are called by a      *)
(* driver, a protothread as well, as `producer() & consumer()'.  C does    *)
(* not say which operand comes first; a build settles it for good.         *)
(*                                                                         *)
(* A thread is a function that is called again and again: each call goes   *)
(* on from the line where the last one returned.  A step is one statement. *)
(***************************************************************************)
EXTENDS Integers, Sequences

CONSTANTS NUM_ITEMS, BUFSIZE

ASSUME PtAssumption == NUM_ITEMS \in Nat \ {0} /\ BUFSIZE \in Nat \ {0}

VARIABLES
  lc,       \* thread -> the line its next call goes on from
  running,  \* the function that executes: a thread or, outside, "main"
  line,     \* the statement it is at
  sem,      \* the counters of the semaphores
  done,     \* produced and consumed, the static loop counters
  buffer,
  result,   \* what the operands of & have returned in this pass, -1 before
  left,     \* the operand this build evaluates first
  passes,   \* history: evaluations of the driver's condition, up to a bound
  taken     \* history: the last item consumed and its number

ptVars == <<lc, running, line, sem, done, buffer, result, left, passes, taken>>

PT_WAITING == 0
PT_EXITED == 2
PT_ENDED == 3

Workers == {"producer", "consumer"}
PassBound == 2 * NUM_ITEMS + 2     \* where counting passes stops

ProtothreadInit ==
  /\ lc = [t \in Workers \union {"driver"} |-> "begin"]
  /\ running = "main" /\ line = "begin"
  /\ sem = [empty |-> 0, full |-> 0, mutex |-> 0]
  /\ done = [t \in Workers |-> 0]
  /\ buffer = <<>>
  /\ result = [t \in Workers |-> -1]
  /\ left \in Workers
  /\ passes = 0 /\ taken = [item |-> 0, number |-> 0]

(* PT_BEGIN: the call goes on from the local continuation.                 *)
PT_BEGIN(t) == running' = t /\ line' = lc[t]

PT_SCHEDULE(value) == value < PT_EXITED

(* The & of C on what a thread returns, two bits.                          *)
And(a, b) == 2 * ((a \div 2) * (b \div 2)) + (a % 2) * (b % 2)

Other(t) == CHOOSE u \in Workers : u # t

(* The condition of PT_WAIT_THREAD when worker t has returned value: the   *)
(* other operand is called, or both are known and the driver waits or ends.*)
ReturnToDriver(t, value) ==
  LET r == [result EXCEPT ![t] = value] IN
  \/ /\ r[Other(t)] = -1
     /\ PT_BEGIN(Other(t)) /\ result' = r
     /\ UNCHANGED passes
  \/ /\ r[Other(t)] # -1
     /\ IF PT_SCHEDULE(And(r["producer"], r["consumer"]))
        THEN running' = "main" /\ line' = "begin"
        ELSE running' = "driver" /\ line' = "end"
     /\ result' = [u \in Workers |-> -1]
     /\ passes' = IF passes < PassBound THEN passes + 1 ELSE passes

-----------------------------------------------------------------------------
(* main calls the driver until it has ended.                               *)
main ==
  /\ running = "main" /\ line = "begin"
  /\ PT_BEGIN("driver")
  /\ UNCHANGED <<lc, sem, done, buffer, result, left, passes, taken>>

(* The statements of the driver before it waits; PT_INIT of both threads.  *)
driver_thread ==
  /\ running = "driver" /\ line = "begin"
  /\ sem' = [empty |-> 0, full |-> BUFSIZE, mutex |-> 1]
  /\ lc' = [lc EXCEPT !["producer"] = "begin", !["consumer"] = "begin"]
  /\ line' = "wait_thread"
  /\ UNCHANGED <<running, done, buffer, result, left, passes, taken>>

PT_WAIT_THREAD ==
  /\ running = "driver" /\ line = "wait_thread"
  /\ lc' = [lc EXCEPT !["driver"] = "wait_thread"]
  /\ PT_BEGIN(left)
  /\ UNCHANGED <<sem, done, buffer, result, left, passes, taken>>

(* PT_END of the driver.                                                   *)
driver_thread_end ==
  /\ running = "driver" /\ line = "end"
  /\ lc' = [lc EXCEPT !["driver"] = "begin"]
  /\ running' = "main" /\ line' = "over"
  /\ UNCHANGED <<sem, done, buffer, result, left, passes, taken>>

(* for(done = 0; done < NUM_ITEMS; ...): the start of the loop.            *)
LoopBegins(t) ==
  /\ running = t /\ line = "begin"
  /\ done' = [done EXCEPT ![t] = 0]
  /\ line' = "loop"
  /\ UNCHANGED <<lc, running, sem, buffer, result, left, passes, taken>>

(* Slip: the local continuation is behind the test.                        *)
Continuation_behind(here, next) == next

(* LC_SET comes before the test, so that every call tests again.           *)
Continuation(here, next) == here

(* PT_SEM_WAIT, which waits until the counter is above 0 and takes one.    *)
PT_SEM_WAIT(t, s, next) ==
  /\ lc' = [lc EXCEPT ![t] = Continuation(line, next)]
  /\ \/ /\ sem[s] > 0
        /\ sem' = [sem EXCEPT ![s] = @ - 1]
        /\ line' = next
        /\ UNCHANGED <<running, result, passes>>
     \/ sem[s] = 0 /\ ReturnToDriver(t, PT_WAITING) /\ UNCHANGED sem
  /\ UNCHANGED <<done, buffer, left, taken>>

(* Another turn of the loop.                                               *)
LoopTurns(t) ==
  /\ running = t /\ line = "loop" /\ done[t] < NUM_ITEMS
  /\ line' = "wait_buffer"
  /\ UNCHANGED <<lc, running, sem, done, buffer, result, left, passes, taken>>

Wait(t) ==
  /\ running = t
  /\ \/ line = "wait_buffer" /\ PT_SEM_WAIT(t, IF t = "producer" THEN "full" ELSE "empty", "wait_mutex")
     \/ line = "wait_mutex" /\ PT_SEM_WAIT(t, "mutex", "work")

(* The critical section, the two PT_SEM_SIGNAL and the loop's ++.          *)
Produce ==
  /\ running = "producer" /\ line = "work"
  /\ buffer' = Append(buffer, done["producer"])
  /\ sem' = [sem EXCEPT !.mutex = @ + 1, !.empty = @ + 1]
  /\ done' = [done EXCEPT !["producer"] = @ + 1]
  /\ line' = "loop"
  /\ UNCHANGED <<lc, running, result, left, passes, taken>>

Consume ==
  /\ running = "consumer" /\ line = "work"
  /\ taken' = [item |-> IF buffer = <<>> THEN -1 ELSE Head(buffer), number |-> done["consumer"]]
  /\ buffer' = IF buffer = <<>> THEN buffer ELSE Tail(buffer)
  /\ sem' = [sem EXCEPT !.mutex = @ + 1, !.full = @ + 1]
  /\ done' = [done EXCEPT !["consumer"] = @ + 1]
  /\ line' = "loop"
  /\ UNCHANGED <<lc, running, result, left, passes>>

(* PT_END of a worker: it is as it was before its first call.              *)
PT_END(t) ==
  /\ running = t /\ line = "loop" /\ done[t] >= NUM_ITEMS
  /\ lc' = [lc EXCEPT ![t] = "begin"]
  /\ ReturnToDriver(t, PT_ENDED)
  /\ UNCHANGED <<sem, done, buffer, left, taken>>

ProtothreadNext ==
  \/ main \/ driver_thread \/ driver_thread_end \/ PT_WAIT_THREAD \/ Produce \/ Consume
  \/ \E t \in Workers : LoopBegins(t) \/ LoopTurns(t) \/ Wait(t) \/ PT_END(t)

ProtothreadSpec == ProtothreadInit /\ [][ProtothreadNext]_ptVars
-----------------------------------------------------------------------------
(* The buffer never holds more than it has room for, nothing is taken from *)
(* an empty one, and what is taken is the item of that number, although    *)
(* both threads are left and called again in the middle of their loops and *)
(* start from the beginning when they are called after their end.          *)
BufferGuarded ==
  /\ Len(buffer) <= BUFSIZE
  /\ taken.item = taken.number
  /\ running = "main" /\ passes > 0 =>
       sem = [empty |-> Len(buffer), full |-> BUFSIZE - Len(buffer), mutex |-> 1]

(* In a build that calls the producer first the program ends in as many    *)
(* passes as the buffer must be filled, with everything produced and       *)
(* consumed once.  (In the other order the consumer ends one pass after    *)
(* the producer, which has then begun again.)                              *)
DriverEnds ==
  left = "producer" =>
    /\ passes <= (NUM_ITEMS + BUFSIZE - 1) \div BUFSIZE
    /\ running = "main" /\ line = "over" =>
         buffer = <<>> /\ \A t \in Workers : done[t] = NUM_ITEMS

(* Protothreads that wait for each other through semaphores keep their     *)
(* places in their loops over all their returns, and the driver ends.      *)
ThreadsRight == BufferGuarded /\ DriverEnds
=============================================================================
