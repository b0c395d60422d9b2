------------------------------ MODULE WordOps ------------------------------
(***************************************************************************)
(* The operations of linux_bitops.h on one word, which is a number here:   *)
(* finding a bit, counting bits, rotating.  They are what the bitmaps of   *)
(* Bitops take for granted.                                                *)
(***************************************************************************)
EXTENDS Integers, FiniteSets, FiniteSetsExt
LOCAL INSTANCE Bitwise

(* The search by halves, for a compiler without __builtin_ffsl; width is a *)
(* power of 2.                                                             *)
bitops_ffs_portable(x0, width) ==
  LET halve[s \in 0 .. width] ==    \* <<i, x>> once the halves down to s are done
        IF s = width THEN <<1, x0>>
        ELSE LET p == halve[IF s = 0 THEN 1 ELSE 2 * s]
                 low == p[2] % 2^s
             IN  IF s > 0 /\ low = 0 THEN <<p[1] + s, p[2] \div 2^s>> ELSE p
  IN  IF x0 = 0 THEN 0 ELSE halve[1][1]

(* Counting bits in place: sums of 1, of 2 and of 4 neighbouring bits.     *)
hweight8(x) ==
  LET x1 == x - ((x \div 2) & \h55)
      x2 == (x1 & \h33) + ((x1 \div 4) & \h33)
  IN  (x2 + (x2 \div 16)) & \h0f

hweight16(x) ==
  LET x1 == x - ((x \div 2) & \h5555)
      x2 == (x1 & \h3333) + ((x1 \div 4) & \h3333)
      x3 == (x2 + (x2 \div 16)) & \h0f0f
  IN  (x3 + (x3 \div 256)) & \h1f

hweight32(x) ==
  LET x1 == x - ((x \div 2) & \h55555555)
      x2 == (x1 & \h33333333) + ((x1 \div 4) & \h33333333)
      x3 == (x2 + (x2 \div 16)) & \h0f0f0f0f
      x4 == x3 + (x3 \div 256)
  IN  (x4 + (x4 \div 65536)) & \h3f

(* Without a builtin, and for words of other widths: one bit at a time.    *)
hweight_loop(x) ==
  LET n[y \in 0..x] == IF y = 0 THEN 0 ELSE 1 + n[y & (y - 1)] IN n[x]

(* The rotations of w-bit words.                                           *)
bitops_rol(x, n, w) == (((x * 2^n) % 2^w) | (x \div 2^(w - n)))
bitops_ror(x, n, w) == ((x \div 2^n) | ((x * 2^(w - n)) % 2^w))

BitsOf(x, w) == {b \in 0 .. w-1 : (x \div 2^b) % 2 = 1}

(* On every byte, alone and as the parts of wider words: the searches find *)
(* the lowest bit, the four ways of counting agree with the number of      *)
(* bits, and the rotations move every bit round the word and back.         *)
WordOpsRight(x) ==
  LET B == BitsOf(x, 8)
      wide == x * 256 + x
  IN
  /\ bitops_ffs_portable(x, 8) = (IF B = {} THEN 0 ELSE Min(B) + 1)
  /\ hweight8(x) = Cardinality(B) /\ hweight_loop(x) = Cardinality(B)
  /\ hweight16(wide) = 2 * Cardinality(B)
  /\ hweight32((x \div 2) * 2^24 + wide) = 2 * Cardinality(B) + Cardinality(B \ {0})
  /\ \A n \in 1..7 :
       /\ BitsOf(bitops_rol(x, n, 8), 8) = {(b + n) % 8 : b \in B}
       /\ bitops_ror(bitops_rol(wide, n, 16), n, 16) = wide
=============================================================================
