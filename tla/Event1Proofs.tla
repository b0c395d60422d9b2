---------------------------- MODULE Event1Proofs ----------------------------
(***************************************************************************)
(* event1.c misses no post and event_wait delivers what was waited for,    *)
(* for every number of threads, every set of bits and every wait.          *)
(***************************************************************************)
EXTENDS Event1, TLAPS

(* The places inside a wait; only a timed one expires, and only a timed    *)
(* one notes a match before it returns.                                    *)
Places == {"called", "checking", "blocked", "expired"}
Inside == {w \in [at : Places, req : Request, match : BOOLEAN] :
             (w.at = "expired" => w.req.timed) /\ (w.match => w.req.timed)}
Results == [rc : {"none", "ok", "ETIMEDOUT"}, recved : SUBSET Bit, wanted : SUBSET Bit,
            all : BOOLEAN, timed : BOOLEAN]

(* The shape of the state that every step relies on.                       *)
Shape ==
  /\ value \in SUBSET Bit
  /\ pc \in [Thread -> {Idle} \union Inside]
  /\ result \in [Thread -> Results]

(* A thread that sleeps without having noted a match has none.             *)
Unmatched ==
  \A t \in Thread : pc[t].at = "blocked" /\ ~pc[t].match => ~Matches(value, pc[t].req)

Inv == Shape /\ Unmatched /\ WaitDelivers

(* A place inside a wait is never the idle one.                            *)
LEMMA InsideNotIdle ==
  ASSUME NEW w \in {Idle} \union Inside, w.at # "idle"
  PROVE  w \in Inside
BY DEF Idle

(* Bits that are taken away do not satisfy a waiting thread.               *)
LEMMA FewerBits ==
  ASSUME NEW v, NEW w, w \subseteq v, NEW req \in Request, Matches(w, req)
  PROVE  Matches(v, req)
BY DEF Matches

(* The call, the wait and the return put a thread at the place given; a    *)
(* thread that sleeps there without a match has no match.                  *)
LEMMA GotoSafe ==
  ASSUME Shape, Unmatched, NEW t \in Thread, NEW w \in {Idle} \union Inside,
         Goto(t, w), value' \in SUBSET value,
         w.at = "blocked" /\ ~w.match => ~Matches(value', w.req)
  PROVE  /\ pc' \in [Thread -> {Idle} \union Inside]
         /\ Unmatched'
<1>1. pc' = [pc EXCEPT ![t] = w]
  BY DEF Goto
<1>2. pc' \in [Thread -> {Idle} \union Inside]
  BY <1>1 DEF Shape
<1>3. ASSUME NEW u \in Thread, pc'[u].at = "blocked", ~pc'[u].match
      PROVE  ~Matches(value', pc'[u].req)
  <2>1. CASE u = t
    BY <1>1, <1>3, <2>1 DEF Shape
  <2>2. CASE u # t
    <3>1. pc'[u] = pc[u]
      BY <1>1, <2>2 DEF Shape
    <3>2. ~Matches(value, pc[u].req)
      BY <1>3, <3>1 DEF Unmatched
    <3>3. pc[u] \in Inside
      BY <1>3, <3>1, InsideNotIdle DEF Shape
    <3>4. pc[u].req \in Request
      BY <3>3 DEF Inside
    <3> QED  BY <3>1, <3>2, <3>4, FewerBits
  <2> QED  BY <2>1, <2>2
<1> QED  BY <1>2, <1>3 DEF Unmatched

(* What a returning wait reports, and what it leaves of the bits.          *)
LEMMA ReturnSafe ==
  ASSUME Inv, NEW t \in Thread, pc[t] \in Inside, NEW match \in BOOLEAN,
         match /\ ~pc[t].req.timed => Matches(value, pc[t].req),
         Return(t, match)
  PROVE  Inv'
<1> DEFINE req == pc[t].req
           new == [rc |-> IF match THEN "ok" ELSE "ETIMEDOUT",
                   recved |-> IF match THEN Received(req) ELSE {},
                   wanted |-> req.set, all |-> req.all, timed |-> req.timed]
<1>1. /\ result' = [result EXCEPT ![t] = new]
      /\ value' = IF match /\ req.clear THEN value \ req.set ELSE value
      /\ Goto(t, Idle)
  BY DEF Return
<1>2. req \in [set : (SUBSET Bit) \ {{}}, all : BOOLEAN, clear : BOOLEAN, timed : BOOLEAN]
  BY RequestAssumption DEF Inside
<1>3. new \in Results
  BY <1>2 DEF Results, Received, Inv, Shape
<1>4. value' \in SUBSET value /\ value' \in SUBSET Bit
  BY <1>1 DEF Inv, Shape
<1>5. /\ pc' \in [Thread -> {Idle} \union Inside]
      /\ Unmatched'
  BY <1>1, <1>4, GotoSafe DEF Inv, Idle
<1>6. Shape'
  <2>1. result' \in [Thread -> Results]
    BY <1>1, <1>3 DEF Inv, Shape
  <2> QED  BY <1>4, <1>5, <2>1 DEF Shape
<1>7. WaitDelivers'
  <2> SUFFICES ASSUME NEW u \in Thread, result'[u].rc = "ok", ~result'[u].timed
               PROVE  IF result'[u].all THEN result'[u].recved = result'[u].wanted
                                        ELSE result'[u].recved # {}
    BY DEF WaitDelivers
  <2>1. CASE u # t
    <3>1. result'[u] = result[u]
      BY <1>1, <2>1 DEF Inv, Shape
    <3> QED  BY <3>1 DEF Inv, WaitDelivers
  <2>2. CASE u = t
    <3>1. result'[u] = new
      BY <1>1, <2>2 DEF Inv, Shape
    <3>2. match /\ ~req.timed
      BY <3>1
    <3>3. Matches(value, req)
      BY <3>2
    <3> QED  BY <1>2, <3>1, <3>2, <3>3 DEF Matches, Received
  <2> QED  BY <2>1, <2>2
<1> QED  BY <1>5, <1>6, <1>7 DEF Inv

(* A step that moves one thread and neither takes bits away nor reports a  *)
(* result.                                                                 *)
LEMMA MoveSafe ==
  ASSUME Inv, NEW t \in Thread, NEW w \in {Idle} \union Inside, Goto(t, w),
         w.at = "blocked" /\ ~w.match => ~Matches(value, w.req),
         UNCHANGED <<value, result>>
  PROVE  Inv'
<1>1. value' \in SUBSET value /\ value' = value /\ result' = result
  OBVIOUS
<1>2. /\ pc' \in [Thread -> {Idle} \union Inside]
      /\ Unmatched'
  BY <1>1, GotoSafe DEF Inv
<1>3. Shape'
  BY <1>1, <1>2 DEF Inv, Shape
<1>4. WaitDelivers'
  BY <1>1 DEF Inv, WaitDelivers
<1> QED  BY <1>2, <1>3, <1>4 DEF Inv

(* A post wakes every thread that sleeps, so none is left asleep with its  *)
(* bits there.                                                             *)
LEMMA PostSafe ==
  ASSUME Inv, NEW set \in SUBSET Bit, event_post(set)
  PROVE  Inv'
<1>1. /\ value' = value \union set
      /\ result' = result
      /\ pc' = [t \in Thread |-> IF pc[t].at = "blocked" THEN [pc[t] EXCEPT !.at = "checking"]
                                 ELSE pc[t]]
  BY DEF event_post, Broadcast
<1>2. ASSUME NEW t \in Thread
      PROVE  pc'[t] \in {Idle} \union Inside /\ pc'[t].at # "blocked"
  <2>1. CASE pc[t].at = "blocked"
    <3>1. pc[t] \in Inside
      BY <2>1, InsideNotIdle DEF Inv, Shape
    <3>2. pc'[t] = [pc[t] EXCEPT !.at = "checking"]
      BY <1>1, <2>1
    <3> QED  BY <3>1, <3>2 DEF Inside, Places
  <2>2. CASE pc[t].at # "blocked"
    <3>1. pc'[t] = pc[t]
      BY <1>1, <2>2
    <3> QED  BY <2>2, <3>1 DEF Inv, Shape
  <2> QED  BY <2>1, <2>2
<1>3. pc' \in [Thread -> {Idle} \union Inside]
  BY <1>1, <1>2
<1>4. value' \in SUBSET Bit
  BY <1>1 DEF Inv, Shape
<1>5. Unmatched'
  BY <1>2 DEF Unmatched
<1>6. WaitDelivers'
  BY <1>1 DEF Inv, WaitDelivers
<1> QED  BY <1>1, <1>3, <1>4, <1>5, <1>6 DEF Inv, Shape

(* Every step of a waiting thread keeps the invariant.                     *)
LEMMA StepSafe ==
  ASSUME Inv, NEW t \in Thread,
         \/ \E req \in Request : Call(t, req)
         \/ Step(t)
         \/ event_timedwait_no_clock(t)
         \/ SpuriousWakeup(t)
  PROVE  Inv'
<1>0. pc[t].at # "idle" => pc[t] \in Inside
  BY InsideNotIdle DEF Inv, Shape
<1>1. ASSUME NEW req \in Request, Call(t, req)
      PROVE  Inv'
  <2> DEFINE w == Place(req, FALSE, "called")
  <2>1. w \in Inside /\ w.at = "called"
    BY DEF Place, Inside, Places
  <2>2. Goto(t, w) /\ value' = value /\ result' = [result EXCEPT ![t] = NoResult]
    BY <1>1 DEF Call
  <2> HIDE DEF w
  <2>3. /\ pc' \in [Thread -> {Idle} \union Inside]
        /\ Unmatched'
    BY <2>1, <2>2, GotoSafe DEF Inv
  <2>4. NoResult \in Results /\ NoResult.rc = "none"
    BY DEF NoResult, Results
  <2>5. result' \in [Thread -> Results]
    BY <2>2, <2>4 DEF Inv, Shape
  <2>6. WaitDelivers'
    <3> SUFFICES ASSUME NEW u \in Thread, result'[u].rc = "ok", ~result'[u].timed
                 PROVE  IF result'[u].all THEN result'[u].recved = result'[u].wanted
                                          ELSE result'[u].recved # {}
      BY DEF WaitDelivers
    <3>1. result'[u] = result[u]
      BY <2>2, <2>4 DEF Inv, Shape
    <3> QED  BY <3>1 DEF Inv, WaitDelivers
  <2> QED  BY <2>2, <2>3, <2>5, <2>6 DEF Inv, Shape
<1>2. CASE event_wait(t)
  <2>1. pc[t] \in Inside /\ ~pc[t].req.timed
    BY <1>0, <1>2 DEF event_wait, Looking
  <2>2. CASE Matches(value, pc[t].req) /\ Return(t, TRUE)
    BY <2>1, <2>2, ReturnSafe
  <2>3. CASE /\ ~Matches(value, pc[t].req)
             /\ Goto(t, Place(pc[t].req, FALSE, "blocked"))
             /\ UNCHANGED <<value, mutex, result>>
    <3> DEFINE w == Place(pc[t].req, FALSE, "blocked")
    <3>1. w \in Inside /\ w.req = pc[t].req
      BY <2>1 DEF Place, Inside, Places
    <3> HIDE DEF w
    <3> QED  BY <2>3, <3>1, MoveSafe DEF w
  <2> QED  BY <1>2, <2>2, <2>3 DEF event_wait
<1>3. CASE event_timedwait(t)
  <2>1. pc[t] \in Inside /\ pc[t].req.timed
    BY <1>0, <1>3 DEF event_timedwait, Looking
  <2>2. CASE Return(t, TRUE)
    BY <2>1, <2>2, ReturnSafe
  <2>3. CASE /\ Goto(t, Place(pc[t].req, Matches(value, pc[t].req), "blocked"))
             /\ UNCHANGED <<value, mutex, result>>
    <3> DEFINE w == Place(pc[t].req, Matches(value, pc[t].req), "blocked")
    <3>1. Matches(value, pc[t].req) \in BOOLEAN
      BY <2>1, RequestAssumption DEF Matches, Inside
    <3>2. w \in Inside /\ w.req = pc[t].req /\ w.match = Matches(value, pc[t].req)
      BY <2>1, <3>1 DEF Place, Inside, Places
    <3>3. Goto(t, w)
      BY <2>3
    <3> HIDE DEF w
    <3> QED  BY <2>3, <3>2, <3>3, MoveSafe
  <2> QED  BY <1>3, <2>2, <2>3 DEF event_timedwait
<1>4. CASE event_timedwait_expire(t)
  <2>1. pc[t] \in Inside
    BY <1>0, <1>4 DEF event_timedwait_expire
  <2>2. [pc[t] EXCEPT !.at = "expired"] \in Inside
    BY <1>4, <2>1 DEF event_timedwait_expire, Inside, Places
  <2>3. [pc[t] EXCEPT !.at = "expired"].at # "blocked"
    BY <2>1 DEF Inside
  <2> QED  BY <1>4, <2>2, <2>3, MoveSafe DEF event_timedwait_expire
<1>5. CASE event_timedwait_end(t)
  <2>1. pc[t] \in Inside
    BY <1>0, <1>5 DEF event_timedwait_end
  <2>2. pc[t].req.timed /\ pc[t].match \in BOOLEAN
    BY <1>5, <2>1 DEF event_timedwait_end, Inside
  <2>3. Return(t, pc[t].match)
    BY <1>5 DEF event_timedwait_end
  <2> QED  BY <2>1, <2>2, <2>3, ReturnSafe
<1>6. CASE event_timedwait_no_clock(t)
  BY <1>6, MoveSafe DEF event_timedwait_no_clock, Idle
<1>7. CASE SpuriousWakeup(t)
  <2>1. pc[t] \in Inside
    BY <1>0, <1>7 DEF SpuriousWakeup
  <2>2. [pc[t] EXCEPT !.at = "checking"] \in Inside
    BY <2>1 DEF Inside, Places
  <2>3. [pc[t] EXCEPT !.at = "checking"].at # "blocked"
    BY <2>1 DEF Inside
  <2> QED  BY <1>7, <2>2, <2>3, MoveSafe DEF SpuriousWakeup
<1> QED  BY <1>1, <1>2, <1>3, <1>4, <1>5, <1>6, <1>7 DEF Step

(* event1.c misses no post and event_wait returns only with the bits it    *)
(* waited for, for every number of threads and every wait: the test of the *)
(* bits and the going to sleep are one step under the mutex, a post wakes  *)
(* all, and a woken thread looks again.                                    *)
LEMMA WakeupsSafe == Spec => [](NoMissedPost /\ WaitDelivers)
<1>1. Init => Inv
  <2> SUFFICES ASSUME Init PROVE Inv
    OBVIOUS
  <2>1. NoResult \in Results /\ NoResult.rc = "none"
    BY DEF NoResult, Results
  <2>2. Shape
    BY <2>1 DEF Init, Shape
  <2>3. Unmatched
    BY DEF Init, Unmatched, Idle
  <2>4. WaitDelivers
    BY <2>1 DEF Init, WaitDelivers
  <2> QED  BY <2>2, <2>3, <2>4 DEF Inv
<1>2. Inv /\ [Next]_vars => Inv'
  <2> SUFFICES ASSUME Inv, [Next]_vars PROVE Inv'
    OBVIOUS
  <2>1. ASSUME NEW set \in (SUBSET Bit) \ {{}}, event_post(set) PROVE Inv'
    BY <2>1, PostSafe
  <2>2. ASSUME NEW t \in Thread,
               \/ \E req \in Request : Call(t, req)
               \/ Step(t)
               \/ event_timedwait_no_clock(t)
               \/ SpuriousWakeup(t)
        PROVE  Inv'
    BY <2>2, StepSafe
  <2>3. CASE UNCHANGED vars
    BY <2>3 DEF vars, Inv, Shape, Unmatched, WaitDelivers
  <2> QED  BY <2>1, <2>2, <2>3 DEF Next
<1>3. Inv => NoMissedPost /\ WaitDelivers
  <2> SUFFICES ASSUME Inv, NEW t \in Thread, pc[t].at = "blocked", Matches(value, pc[t].req)
               PROVE  pc[t].req.timed /\ pc[t].match
    BY DEF Inv, NoMissedPost
  <2>1. pc[t].match
    BY DEF Inv, Unmatched
  <2>2. pc[t] \in Inside
    BY InsideNotIdle DEF Inv, Shape
  <2> QED  BY <2>1, <2>2 DEF Inside
<1> QED  BY <1>1, <1>2, <1>3, PTL DEF Spec

(* No thread sleeps in event_wait while the bits it waits for are there,   *)
(* and one that sleeps so in event_timedwait has noted them and returns 0, *)
(* for every number of threads.                                            *)
THEOREM NoPostMissed == Spec => []NoMissedPost
BY WakeupsSafe, PTL

(* event_wait returns only with the bits it waited for, although others    *)
(* may have taken them between the post and the wakeup.                    *)
THEOREM WaitSatisfied == Spec => []WaitDelivers
BY WakeupsSafe, PTL
=============================================================================
