------------------------------- MODULE Bitmap -------------------------------
(***************************************************************************)
(* The bitmap of bitmap.h, and the loop bitmap_foreach over its set bits.  *)
(* A byte is the set of its bits that are 1, and has Width bits (8 in the  *)
(* code).  The loop is one step per bit it visits; its caller changes the  *)
(* bitmap between loops.                                                   *)
(***************************************************************************)
EXTENDS Integers, FiniteSetsExt

CONSTANTS Size,   \* bytes of the bitmap
          Width   \* bits of a byte

VARIABLES bitmap,   \* the bytes
          bit,      \* the variable of bitmap_foreach
          visited   \* history: the bits the body of the loop was run for

vars == <<bitmap, bit, visited>>

ByteIndex == 0 .. Size-1
BitIndex == 0 .. Width-1
Bits == 0 .. Size*Width - 1

Init ==
  /\ bitmap \in [ByteIndex -> SUBSET BitIndex]
  /\ bit = -1
  /\ visited = {}

(* The bit of its byte that 1 << (bit%8) selects.                          *)
Mask(b) == b % Width

bitmap_bit_get(b) == Mask(b) \in bitmap[b \div Width]

(* A negative bit says that no loop is under way.                          *)
Looping == bit >= 0

bitmap_bit_set(b, enable) ==
  /\ ~Looping
  /\ bitmap' = [bitmap EXCEPT ![b \div Width] =
                  IF enable THEN @ \union {Mask(b)} ELSE @ \ {Mask(b)}]
  /\ visited' = {}
  /\ UNCHANGED bit

bitmap_all_set(enable) ==
  /\ ~Looping
  /\ bitmap' = [i \in ByteIndex |-> IF enable THEN BitIndex ELSE {}]
  /\ visited' = {}
  /\ UNCHANGED bit

(* The bytes the search does not skip as zero.                             *)
Searched(start_bit) ==
  {i \in ByteIndex : i >= start_bit \div Width /\ bitmap[i] # {}}

(* The search.  j starts at start_bit % 8 and is not set back to 0 for the *)
(* next byte, so only the first byte that is not zero is really looked at: *)
(* without a hit in it, j has reached 8 and every later byte is passed by. *)
bitmap_next_enable_bit_get(start_bit) ==
  LET i == Min(Searched(start_bit))
      hits == {j \in bitmap[i] : j >= start_bit % Width}
  IN  IF Searched(start_bit) = {} \/ hits = {} THEN -1 ELSE i*Width + Min(hits)

(* The loop visits the bit found, or ends.                                 *)
Visit(b) ==
  /\ bit' = b
  /\ visited' = (IF Looping THEN visited ELSE {}) \union ({b} \ {-1})
  /\ UNCHANGED bitmap

bitmap_foreach ==
  \/ ~Looping /\ Visit(bitmap_next_enable_bit_get(0))
  \/ Looping /\ Visit(bitmap_next_enable_bit_get(bit + 1))

Next ==
  \/ \E b \in Bits, enable \in BOOLEAN : bitmap_bit_set(b, enable)
  \/ \E enable \in BOOLEAN : bitmap_all_set(enable)
  \/ bitmap_foreach

Spec == Init /\ [][Next]_vars
-----------------------------------------------------------------------------
IsSet == {b \in Bits : bitmap_bit_get(b)}

(* When bitmap_foreach ends it has visited every set bit.                  *)
ForeachComplete ==
  [][Looping /\ bit' = -1 => visited = IsSet]_vars
=============================================================================
