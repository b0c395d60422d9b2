----------------------------- MODULE LogBuffer -----------------------------
(***************************************************************************)
(* The log buffer of logbuffer.c: a memory of fixed size that keeps the    *)
(* most recent bytes put into it, whatever the lengths of the puts.        *)
(*                                                                         *)
(* The stream of bytes ever put is numbered 1, 2, ... and a byte is its    *)
(* number, so a reading tells exactly which bytes are kept and in which    *)
(* order.  0 is memory nobody has written.  tail + length is at most twice *)
(* an int, which uint32_t holds, so the sums need no width here.           *)
(***************************************************************************)
EXTENDS Integers

CONSTANTS Size,     \* mem_size
          MaxPut,   \* longest put
          MaxTotal  \* bound: bytes put in a behaviour

ASSUME SizeAssumption == Size \in Nat \ {0}
ASSUME PutAssumption == MaxPut \in Nat /\ MaxTotal \in Nat

VARIABLES mem,         \* p_obj->mem, indexed from 0
          tail,        \* p_obj->tail, where the next byte goes
          round_flag,  \* p_obj->round_flag: the memory has been filled once
          total        \* history: how many bytes were put

vars == <<mem, tail, round_flag, total>>

Index == 0 .. Size-1

Init ==
  /\ mem = [i \in Index |-> 0]
  /\ tail = 0
  /\ round_flag = FALSE
  /\ total = 0

(* Slip, for the mutation runs: the oldest part of too long a put is kept. *)
Discarded_none(length) == 0

(* How many bytes of a put are dropped from its front.                     *)
Discarded(length) == IF length > Size THEN length - Size ELSE 0

(* tail has reached the end of the memory and goes back to its start.      *)
AtEnd(end) == end >= Size

(* The put of the next n bytes of the stream: up to the end of the memory, *)
(* and the rest from its start.                                            *)
logbuffer_puts(n) ==
  LET length == n - Discarded(n)
      u8dat(k) == total + Discarded(n) + k + 1
      toEnd == Size - tail
  IN  /\ total + n <= MaxTotal
      /\ mem' = [i \in Index |->
                   IF i >= tail /\ i - tail < length THEN u8dat(i - tail)
                   ELSE IF toEnd + i < length THEN u8dat(toEnd + i)
                   ELSE mem[i]]
      /\ tail' = IF AtEnd(tail + length) THEN tail + length - Size ELSE tail + length
      /\ round_flag' = (round_flag \/ AtEnd(tail + length))
      /\ total' = total + n

(* What logbuffer_gets copies out and logbuffer_gets_to_fd writes: from    *)
(* tail to the end of the memory and then from its start, or only the      *)
(* start as long as the memory has not been filled.                        *)
logbuffer_gets ==
  LET toEnd == Size - tail IN
  IF round_flag THEN [k \in 1..Size |-> IF k <= toEnd THEN mem[tail + k - 1]
                                        ELSE mem[k - toEnd - 1]]
  ELSE [k \in 1..tail |-> mem[k - 1]]

Next == \E n \in 0..MaxPut : logbuffer_puts(n)

Spec == Init /\ [][Next]_vars
-----------------------------------------------------------------------------
(* tail is an index of the memory, between puts of any length.             *)
TypeOK ==
  /\ mem \in [Index -> Nat]
  /\ tail \in Index
  /\ round_flag \in BOOLEAN
  /\ total \in Nat

(* A reading is the last bytes put, in order: all of them until the memory *)
(* is full, and the last Size of them ever after, for puts that end before *)
(* the end of the memory, at it or past it, and puts longer than it.       *)
LastBytes ==
  LET n == IF total < Size THEN total ELSE Size
  IN  logbuffer_gets = [k \in 1..n |-> total - n + k]
=============================================================================
