-------------------------------- MODULE Fifo --------------------------------
(***************************************************************************)
(* What queue.h promises to its callers: a bounded first-in first-out      *)
(* buffer of bytes.  There is no buffer memory and no index here, only the *)
(* sequence of stored items and the result of the last call.  Queue.tla is *)
(* checked to implement this specification.                                *)
(***************************************************************************)
EXTENDS Integers, Sequences

CONSTANTS Item,      \* the values a byte may have
          Capacity,  \* the number of items the buffer can hold
          MaxBurst   \* longest block a caller passes in or asks for

VARIABLES fifo,      \* the items stored, oldest first
          out        \* the last call's result: [op, ret, data]

vars == <<fifo, out>>

Bursts == UNION {[1..n -> Item] : n \in 0..MaxBurst}

Result(op, ret, data) == [op |-> op, ret |-> ret, data |-> data]

Shortest(m, n) == IF m < n THEN m ELSE n

Init ==
  /\ fifo = <<>>
  /\ out = Result("init", 0, <<>>)

Clear ==
  /\ fifo' = <<>>
  /\ out' = Result("clear", 1, <<>>)

(* A full buffer refuses the new item and keeps the old ones.              *)
Add(x) ==
  \/ /\ Len(fifo) < Capacity
     /\ fifo' = Append(fifo, x)
     /\ out' = Result("append", 1, <<>>)
  \/ /\ Len(fifo) = Capacity
     /\ fifo' = fifo
     /\ out' = Result("append", 0, <<>>)

Get ==
  \/ /\ fifo # <<>>
     /\ fifo' = Tail(fifo)
     /\ out' = Result("get", 1, <<Head(fifo)>>)
  \/ /\ fifo = <<>>
     /\ fifo' = fifo
     /\ out' = Result("get", 0, <<>>)

(* A block is stored whole or not at all.                                  *)
Enqueue(data) ==
  \/ /\ Len(fifo) + Len(data) <= Capacity
     /\ fifo' = fifo \o data
     /\ out' = Result("enqueue", Len(data), <<>>)
  \/ /\ Len(fifo) + Len(data) > Capacity
     /\ fifo' = fifo
     /\ out' = Result("enqueue", 0, <<>>)

(* A peek shows some of the oldest items, in order, and at least one when  *)
(* there is one to show; how many is the implementation's choice.          *)
Peek(op, n) ==
  \E k \in 0..Shortest(n, Len(fifo)) :
    /\ n > 0 /\ fifo # <<>> => k > 0
    /\ fifo' = fifo
    /\ out' = Result(op, k, SubSeq(fifo, 1, k))

Release(n) ==
  LET k == Shortest(n, Len(fifo)) IN
  /\ fifo' = SubSeq(fifo, k + 1, Len(fifo))
  /\ out' = Result("release", k, <<>>)

Available ==
  /\ fifo' = fifo
  /\ out' = Result("available", Capacity - Len(fifo), <<>>)

Stored ==
  /\ fifo' = fifo
  /\ out' = Result("items", Len(fifo), <<>>)

Next ==
  \/ Clear
  \/ \E x \in Item : Add(x)
  \/ Get
  \/ \E data \in Bursts : Enqueue(data)
  \/ \E n \in 0..MaxBurst : Peek("peek", n)
  \/ Peek("view", Capacity)
  \/ \E n \in 0..MaxBurst : Release(n)
  \/ Available
  \/ Stored

Spec == Init /\ [][Next]_vars
=============================================================================
