------------------------------- MODULE Bitops -------------------------------
(***************************************************************************)
(* The bitmaps of linux_bitops.h: arrays of words of WordBits bits (the    *)
(* BITS_PER_LONG of the code).  A word is the set of its bits that are 1.  *)
(* Two bitmaps of nbits bits are kept, so that a call may have its source  *)
(* and its destination in different memory or in the same.  The bits of    *)
(* the last word above nbits, the overhead bits, hold anything.  `bits' is *)
(* the meaning of the memory: each bitmap as the set of its bits.          *)
(***************************************************************************)
EXTENDS Integers, Sequences, FiniteSets, FiniteSetsExt, SequencesExt

CONSTANTS WordBits,  \* BITS_PER_LONG
          Sizes      \* the numbers of bits a bitmap may have

VARIABLES nbits,  \* the argument `bits' of every call
          map,    \* bitmap -> word index -> word
          bits    \* history: bitmap -> set of the bits that are 1

bitopsVars == <<nbits, map, bits>>

Maps == 1..2
Ones == 0 .. WordBits-1
Complement(w) == Ones \ w
XorBits(v, w) == (v \ w) \union (w \ v)
Shl(w, n) == {b + n : b \in w} \intersect Ones
Shr(w, n) == {b - n : b \in w} \intersect Ones

BITOPS_DIV_CEIL(n, d) == (n + d - 1) \div d
BITS_TO_LONGS(n) == BITOPS_DIV_CEIL(n, WordBits)
BITMAP_FIRST_WORD_MASK(start) == Shl(Ones, start % WordBits)
BITMAP_LAST_WORD_MASK(n) == Shr(Ones, (-n) % WordBits)

L == BITS_TO_LONGS(nbits)
Words == 0 .. L-1
LastMask == BITMAP_LAST_WORD_MASK(nbits)

(* __builtin_ffsl: one more than the lowest bit, 0 for a zero word.        *)
bitops_ffs(w) == IF w = {} THEN 0 ELSE Min(w) + 1
bitops_ffz(w) == bitops_ffs(Complement(w))

(* __builtin_popcountl.                                                    *)
hweight_long(w) == Cardinality(w)

bitmap_zero == [i \in Words |-> {}]

bitmap_fill == [i \in Words |-> IF i < L-1 THEN Ones ELSE LastMask]

set_bit(m, bit) == [m EXCEPT ![bit \div WordBits] = @ \union {bit % WordBits}]
clear_bit(m, bit) == [m EXCEPT ![bit \div WordBits] = @ \ {bit % WordBits}]
change_bit(m, bit) == [m EXCEPT ![bit \div WordBits] = XorBits(@, {bit % WordBits})]
test_bit(m, bit) == bit % WordBits \in m[bit \div WordBits]

(* The words a range of bits covers, each with the bits of it in the       *)
(* range: the first word from start on, whole words, and what is left of   *)
(* the last word when there is any.                                        *)
RangeMask(start, n, i) ==
  LET end == start + n
      l == end \div WordBits
      mask == IF i = start \div WordBits THEN BITMAP_FIRST_WORD_MASK(start) ELSE Ones
      taken == IF l > start \div WordBits THEN l * WordBits - start ELSE 0
  IN  CASE i < start \div WordBits \/ i > l -> {}
        [] i < l -> mask
        [] OTHER -> IF n - taken > 0 THEN mask \intersect BITMAP_LAST_WORD_MASK(end) ELSE {}

bitmap_set(m, start, n) == [i \in Words |-> m[i] \union RangeMask(start, n, i)]
bitmap_clear(m, start, n) == [i \in Words |-> m[i] \ RangeMask(start, n, i)]

(* The search of find_next_bit and find_next_zero_bit; w[i] is the word or *)
(* its complement.                                                         *)
Search(w, start) ==
  LET first == start \div WordBits
      t(i) == IF i = first THEN w[i] \intersect BITMAP_FIRST_WORD_MASK(start) ELSE w[i]
      hits == {i \in first .. L-1 : t(i) # {}}
      pos == Min(hits) * WordBits + bitops_ffs(t(Min(hits))) - 1
  IN  IF start >= nbits \/ hits = {} THEN nbits ELSE IF pos >= nbits THEN nbits ELSE pos

find_next_bit(m, start) == Search(m, start)
find_next_zero_bit(m, start) == Search([i \in Words |-> Complement(m[i])], start)

(* The bits a loop visits: find(m, 0), and find(m, bit + 1) behind a bit.  *)
Visits(find(_, _), m) ==
  LET at[k \in 0..nbits] == IF k = 0 THEN find(m, 0) ELSE find(m, at[k-1] + 1)
  IN  SelectSeq([k \in 1..nbits |-> at[k-1]], LAMBDA b : b < nbits)

for_each_set_bit(m) == Visits(find_next_bit, m)
for_each_clear_bit(m) == Visits(find_next_zero_bit, m)

bitmap_weight(m) ==
  FoldSet(LAMBDA i, sum : sum + hweight_long(m[i]),
          hweight_long(m[L-1] \intersect LastMask), 0 .. L-2)

(* The comparisons: every word but the last whole, the last under a mask.  *)
Usable(m, i) == IF i < L-1 THEN m[i] ELSE m[i] \intersect LastMask

bitmap_equal(m1, m2) ==
  /\ \A i \in 0 .. L-2 : m1[i] = m2[i]
  /\ XorBits(m1[L-1], m2[L-1]) \intersect LastMask = {}

bitmap_intersects(m1, m2) == \E i \in Words : Usable(m1, i) \intersect m2[i] # {}
bitmap_subset(m1, m2) == \A i \in Words : Usable(m1, i) \intersect Complement(m2[i]) = {}
bitmap_empty(m) == \A i \in Words : Usable(m, i) = {}
bitmap_full(m) == \A i \in Words : Usable([j \in Words |-> Complement(m[j])], i) = {}

bitmap_or(m1, m2) == [i \in Words |-> m1[i] \union m2[i]]
bitmap_and(m1, m2) == [i \in Words |-> m1[i] \intersect m2[i]]
bitmap_andnot(m1, m2) == [i \in Words |-> Usable([j \in Words |-> m1[j] \ m2[j]], i)]
bitmap_xor(m1, m2) == [i \in Words |-> XorBits(m1[i], m2[i])]
bitmap_complement(m) == [i \in Words |-> Usable([j \in Words |-> Complement(m[j])], i)]

(* The shifts write word after word, and src may be the bitmap written:    *)
(* mm is both bitmaps, and every word is read when its turn comes.         *)
Clear(m, from, to) == [i \in Words |-> IF i \in from..to THEN {} ELSE m[i]]

bitmap_shift_right(mm, d, s, n) ==
  LET nb == n \div WordBits
      nbt == n % WordBits
      Move(m, i) ==   \* bitmap[i] from src[i + nb] and the word above it
        [m EXCEPT ![d][i] =
           Shr(Usable(m[s], i + nb), nbt) \union
             IF nbt = 0 \/ i + nb = L-1 THEN {}
             ELSE Shl(Usable(m[s], i + nb + 1), WordBits - nbt)]
      moved == FoldLeft(Move, mm, [k \in 1 .. L - nb |-> k - 1])
  IN  IF n > nbits THEN [mm EXCEPT ![d] = bitmap_zero]
      ELSE [moved EXCEPT ![d] = Clear(@, L - nb, L-1)]

(* Slip: the words are written from the lowest up, as a shift to the right *)
(* does, so a shift in place reads what it has already overwritten.        *)
bitmap_shift_left_upwards(mm, d, s, n) ==
  LET nb == n \div WordBits
      nbt == n % WordBits
      Move(m, i) ==
        [m EXCEPT ![d][i + nb] =
           Shl(m[s][i], nbt) \union IF nbt = 0 \/ i = 0 THEN {} ELSE Shr(m[s][i-1], WordBits - nbt)]
      moved == FoldLeft(Move, mm, [k \in 1 .. L - nb |-> k - 1])
  IN  IF n >= nbits THEN [mm EXCEPT ![d] = bitmap_zero]
      ELSE [moved EXCEPT ![d] = Clear(@, 0, nb - 1)]

bitmap_shift_left(mm, d, s, n) ==
  LET nb == n \div WordBits
      nbt == n % WordBits
      Move(m, i) ==   \* bitmap[i + nb] from src[i] and the word below it
        [m EXCEPT ![d][i + nb] =
           Shl(Usable(m[s], i), nbt) \union
             IF nbt = 0 \/ i = 0 THEN {} ELSE Shr(m[s][i-1], WordBits - nbt)]
      moved == FoldLeft(Move, mm, [k \in 1 .. L - nb |-> L - nb - k])
  IN  IF n >= nbits THEN [mm EXCEPT ![d] = bitmap_zero]
      ELSE [moved EXCEPT ![d] = Clear(@, 0, nb - 1)]
-----------------------------------------------------------------------------
Bits == 0 .. nbits-1
Content(m) == {b \in Bits : test_bit(m, b)}

BitopsInit ==
  /\ nbits \in Sizes
  /\ map \in [Maps -> [Words -> {{}, Ones}]]
  /\ bits = [d \in Maps |-> Content(map[d])]

Write(d, m, set) ==
  map' = [map EXCEPT ![d] = m] /\ bits' = [bits EXCEPT ![d] = set] /\ UNCHANGED nbits

OneBit(d) ==
  \E b \in Bits :
    \/ Write(d, set_bit(map[d], b), bits[d] \union {b})
    \/ Write(d, clear_bit(map[d], b), bits[d] \ {b})
    \/ Write(d, change_bit(map[d], b), XorBits(bits[d], {b}))

Span(d) ==
  \E start \in Bits : \E n \in 0 .. nbits - start :
    \/ Write(d, bitmap_set(map[d], start, n), bits[d] \union (start .. start+n-1))
    \/ Write(d, bitmap_clear(map[d], start, n), bits[d] \ (start .. start+n-1))

Whole(d) ==
  \/ Write(d, bitmap_zero, {})
  \/ Write(d, bitmap_fill, Bits)
  \/ \E s \in Maps : Write(d, map[s], bits[s])          \* bitmap_copy
  \/ \E s \in Maps : Write(d, bitmap_complement(map[s]), Bits \ bits[s])

Combine(d) ==
  \E s, t \in Maps :
    \/ Write(d, bitmap_or(map[s], map[t]), bits[s] \union bits[t])
    \/ Write(d, bitmap_and(map[s], map[t]), bits[s] \intersect bits[t])
    \/ Write(d, bitmap_andnot(map[s], map[t]), bits[s] \ bits[t])
    \/ Write(d, bitmap_xor(map[s], map[t]), XorBits(bits[s], bits[t]))

(* A shift to the right by exactly nbits, where nbits is a multiple of the *)
(* word, writes the word before the bitmap: its callers must not ask it.   *)
MayShiftRight(n) == n # nbits \/ nbits % WordBits # 0

Shift(d) ==
  \E s \in Maps, n \in 0 .. nbits + 1 :
    \/ /\ MayShiftRight(n)
       /\ map' = bitmap_shift_right(map, d, s, n)
       /\ bits' = [bits EXCEPT ![d] = {b - n : b \in bits[s]} \intersect Bits]
       /\ UNCHANGED nbits
    \/ /\ map' = bitmap_shift_left(map, d, s, n)
       /\ bits' = [bits EXCEPT ![d] = {b + n : b \in bits[s]} \intersect Bits]
       /\ UNCHANGED nbits

BitopsNext == \E d \in Maps : OneBit(d) \/ Span(d) \/ Whole(d) \/ Combine(d) \/ Shift(d)
-----------------------------------------------------------------------------
(* Whatever calls are made, and whatever the overhead bits hold, a bitmap  *)
(* is the set the calls say: ranges that end at a word's end or inside it, *)
(* the set operations, and the shifts, from another bitmap or in place.    *)
BitmapsAreSets == \A d \in Maps : Content(map[d]) = bits[d]

(* The searches, the loops, the counting and the comparisons answer for    *)
(* the bits below nbits alone, whatever the overhead bits hold.            *)
BitmapTestsRight ==
  \A d \in Maps :
    LET m == map[d]  other == map[3 - d]
        FirstFrom(set, b) == Min({c \in set : c >= b} \union {nbits})
    IN
    /\ \A b \in 0 .. nbits :
         /\ find_next_bit(m, b) = FirstFrom(bits[d], b)
         /\ find_next_zero_bit(m, b) = FirstFrom(Bits \ bits[d], b)
    /\ for_each_set_bit(m) = SetToSortSeq(bits[d], <)
    /\ for_each_clear_bit(m) = SetToSortSeq(Bits \ bits[d], <)
    /\ bitmap_weight(m) = Cardinality(bits[d])
    /\ bitmap_equal(m, other) = (bits[d] = bits[3 - d])
    /\ bitmap_intersects(m, other) = (bits[d] \intersect bits[3 - d] # {})
    /\ bitmap_subset(m, other) = (bits[d] \subseteq bits[3 - d])
    /\ bitmap_empty(m) = (bits[d] = {})
    /\ bitmap_full(m) = (bits[d] = Bits)
=============================================================================
