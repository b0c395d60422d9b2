------------------------------- MODULE Queue -------------------------------
(***************************************************************************)
(* The ring buffer of queue.c.  Every operation but the two counters runs  *)
(* between OS_ENTER_CRITICAL and OS_EXIT_CRITICAL, so each is one step;    *)
(* the counters read one uint16_t, which is a single load.                 *)
(*                                                                         *)
(* Indices are uint16_t.  Modulus stands for 2^16, so a sum of two indices *)
(* is taken modulo Modulus exactly where the C code stores it in a         *)
(* uint16_t.  Reading outside buff is undefined behaviour: it delivers     *)
(* Beyond, and the indices of the last call are recorded in touched.       *)
(*                                                                         *)
(* view and room are the callers' own memory: the pointer that             *)
(* queue_peek_noncopy returned, used by the consumer outside the critical  *)
(* section, and the free space the producer last saw.                      *)
(***************************************************************************)
EXTENDS Integers, Sequences

CONSTANTS Item,      \* the values a byte may have
          Size,      \* queue->size
          Modulus,   \* 2^16, the range of uint16_t
          MaxBurst,  \* longest block a caller passes in or asks for
          Beyond     \* whatever lies outside the buffer

ASSUME SizeAssumption == Size \in Nat \ {0} /\ Modulus \in Nat /\ Size < Modulus
ASSUME BurstAssumption == MaxBurst \in Nat /\ MaxBurst < Modulus
ASSUME ItemAssumption == Item # {} /\ Beyond \notin Item

VARIABLES buff,      \* queue->buff
          head,      \* queue->head
          num_items, \* queue->num_items
          out,       \* result of the last call
          touched,   \* indices of buff the last call read or wrote
          view,      \* what the consumer still holds of its last peek_noncopy
          room       \* free space the producer last read, -1 when none is held

vars == <<buff, head, num_items, out, touched, view, room>>

Index == 0..Size-1
U16(n) == n % Modulus
Bursts == UNION {[1..n -> Item] : n \in 0..MaxBurst}
Result(op, ret, data) == [op |-> op, ret |-> ret, data |-> data]
NoView == [at |-> 0, data |-> <<>>]
Shorter(m, n) == IF m < n THEN m ELSE n

(* The n cells from index at on, and what a load from them delivers.       *)
Cells(at, n) == at .. at+n-1
Load(at, n) == [k \in 1..n |-> IF at+k-1 \in Index THEN buff[at+k-1] ELSE Beyond]

(* Slips a change to this code could introduce, for the mutation runs:     *)
(* a boundary test that is late by one, and a tail that skips a cell.      *)
Wrap_late(n) == IF n > Size THEN n - Size ELSE n

(* Reduction of an index by the one conditional subtraction the code does. *)
Wrap(n) == IF n >= Size THEN n - Size ELSE n

FreeCell_skips == Wrap(U16(head + num_items + 1))

(* tail of queue_append and queue_enqueue: the first free cell.            *)
FreeCell == Wrap(U16(head + num_items))

(* The consumer gives back the first n bytes of what it was looking at.    *)
Consume(v, n) ==
  IF n >= Len(v.data) THEN NoView
  ELSE [at |-> v.at + n, data |-> SubSeq(v.data, n+1, Len(v.data))]

Init ==
  /\ buff \in [Index -> Item]
  /\ head = 0
  /\ num_items = 0
  /\ out = Result("init", 0, <<>>)
  /\ touched = {}
  /\ view = NoView
  /\ room = -1

queue_clear ==
  /\ num_items' = 0
  /\ head' = 0
  /\ out' = Result("clear", 1, <<>>)
  /\ touched' = {}
  /\ view' = NoView
  /\ UNCHANGED <<buff, room>>

queue_append(x) ==
  /\ \/ /\ num_items < Size
        /\ num_items' = num_items + 1
        /\ buff' = [buff EXCEPT ![FreeCell] = x]
        /\ touched' = {FreeCell}
        /\ out' = Result("append", 1, <<>>)
     \/ /\ num_items >= Size
        /\ touched' = {}
        /\ out' = Result("append", 0, <<>>)
        /\ UNCHANGED <<buff, num_items>>
  /\ room' = -1
  /\ UNCHANGED <<head, view>>

queue_get ==
  /\ \/ /\ num_items = 0
        /\ out' = Result("get", 0, <<>>)
        /\ touched' = {}
        /\ UNCHANGED <<head, num_items, view>>
     \/ /\ num_items # 0
        /\ out' = Result("get", 1, Load(head, 1))
        /\ touched' = {head}
        /\ head' = IF head + 1 >= Size THEN 0 ELSE head + 1
        /\ num_items' = num_items - 1
        /\ view' = Consume(view, 1)
  /\ UNCHANGED <<buff, room>>

queue_num_items ==
  /\ out' = Result("items", num_items, <<>>)
  /\ touched' = {}
  /\ UNCHANGED <<buff, head, num_items, view, room>>

queue_num_available ==
  /\ room' = Size - num_items
  /\ out' = Result("available", Size - num_items, <<>>)
  /\ touched' = {}
  /\ UNCHANGED <<buff, head, num_items, view>>

(* The block goes into the cells from tail to the end of buff, then into   *)
(* those from 0 on: the two memcpy calls.                                  *)
queue_enqueue(data) ==
  LET n == Len(data)
      tail == FreeCell
      temp == Size - tail
      first == Shorter(n, temp)
  IN
  /\ \/ /\ n <= Size - num_items
        /\ touched' = Cells(tail, first) \union Cells(0, n - first)
        /\ buff' = [i \in Index |->
                      IF i \in Cells(tail, first) THEN data[i - tail + 1]
                      ELSE IF i \in Cells(0, n - first) THEN data[temp + i + 1]
                      ELSE buff[i]]
        /\ num_items' = num_items + n
        /\ out' = Result("enqueue", n, <<>>)
     \/ /\ n > Size - num_items
        /\ touched' = {}
        /\ out' = Result("enqueue", 0, <<>>)
        /\ UNCHANGED <<buff, num_items>>
  /\ room' = -1
  /\ UNCHANGED <<head, view>>

(* Slip: the end of the buffer is not looked at.                           *)
Contiguous_ignores_end == num_items

(* The oldest items that lie in one piece, as the two peeks work it out.   *)
Contiguous ==
  IF U16(head + num_items) > Size THEN Size - head ELSE num_items

queue_peek_consequent(n) ==
  LET k == Shorter(n, Contiguous) IN
  /\ touched' = Cells(head, k)
  /\ out' = Result("peek", k, Load(head, k))
  /\ UNCHANGED <<buff, head, num_items, view, room>>

(* The caller reads the cells behind the pointer after the call.           *)
queue_peek_noncopy ==
  LET k == Contiguous IN
  /\ touched' = Cells(head, k)
  /\ out' = Result("view", k, Load(head, k))
  /\ view' = IF k = 0 THEN NoView ELSE [at |-> head, data |-> Load(head, k)]
  /\ UNCHANGED <<buff, head, num_items, room>>

(* Slip: more is released than is stored, and num_items wraps below zero.  *)
queue_release_unclamped(n) ==
  /\ head' = Wrap(U16(head + n))
  /\ num_items' = U16(num_items - n)
  /\ touched' = {}
  /\ out' = Result("release", n, <<>>)
  /\ view' = Consume(view, n)
  /\ UNCHANGED <<buff, room>>

queue_release(n) ==
  LET k == Shorter(n, num_items) IN
  /\ head' = Wrap(U16(head + k))
  /\ num_items' = num_items - k
  /\ touched' = {}
  /\ out' = Result("release", k, <<>>)
  /\ view' = Consume(view, k)
  /\ UNCHANGED <<buff, room>>

Next ==
  \/ queue_clear
  \/ \E x \in Item : queue_append(x)
  \/ queue_get
  \/ queue_num_items
  \/ queue_num_available
  \/ \E data \in Bursts : queue_enqueue(data)
  \/ \E n \in 0..MaxBurst : queue_peek_consequent(n)
  \/ queue_peek_noncopy
  \/ \E n \in 0..MaxBurst : queue_release(n)

Spec == Init /\ [][Next]_vars
-----------------------------------------------------------------------------
(* The variables have the values the C types and Size allow.               *)
TypeOK ==
  /\ buff \in [Index -> Item]
  /\ head \in Index
  /\ num_items \in 0..Size
  /\ room \in -1..Size

(* No call of queue.c reads or writes outside the buffer it was given,     *)
(* although neither peek checks its range against queue->size again.       *)
InBounds == touched \subseteq Index

(* The bytes behind the pointer that queue_peek_noncopy returned keep      *)
(* their values for as long as the consumer holds them, whatever the       *)
(* producer stores meanwhile: the pointer is used with interrupts enabled. *)
PeekedDataStable ==
  \A k \in 1..Len(view.data) :
    /\ view.at + k - 1 \in Index
    /\ buff[view.at + k - 1] = view.data[k]

(* A block no longer than the free space the producer read before with     *)
(* queue_num_available, outside any critical section, is still accepted:   *)
(* consumer calls in between only make room.                               *)
RoomStillThere == room <= Size - num_items

(* The items stored, oldest first.                                         *)
contents == [i \in 1..num_items |-> buff[(head + i - 1) % Size]]

(* What a peek delivers is the oldest stored items in order, "contiguous   *)
(* data, without wrapping round" (queue.c:142 and 166).                    *)
PeekShowsStored ==
  out.op \in {"peek", "view"} => out.data = SubSeq(contents, 1, out.ret)

(* queue.c implements the bounded first-in first-out buffer: every call    *)
(* returns what the buffer without wrap-around would return.               *)
F == INSTANCE Fifo WITH fifo <- contents, Capacity <- Size
ImplementsFifo == F!Spec
=============================================================================
