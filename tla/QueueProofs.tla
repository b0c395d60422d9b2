---------------------------- MODULE QueueProofs ----------------------------
(***************************************************************************)
(* Proofs about queue.c for every buffer size, byte set and burst length.  *)
(***************************************************************************)
EXTENDS Queue, SequenceTheorems, TLAPS

(* A sum of indices that fits uint16_t is stored as it is.                 *)
LEMMA U16Fits ==
  ASSUME NEW n \in Nat, n < Modulus
  PROVE  U16(n) = n
BY SizeAssumption DEF U16

(* Storing any natural number in a uint16_t leaves a uint16_t.             *)
LEMMA U16Range ==
  ASSUME NEW n \in Nat
  PROVE  U16(n) \in 0..Modulus-1
BY SizeAssumption DEF U16

(* A sum that overflows once is reduced by Modulus once.                   *)
LEMMA U16Once ==
  ASSUME NEW n \in Nat, n >= Modulus, n < 2 * Modulus
  PROVE  U16(n) = n - Modulus
BY SizeAssumption DEF U16

(* The one conditional subtraction brings the sum of an index and a count  *)
(* back into the buffer, even where the sum has overflowed.                *)
LEMMA WrapInIndex ==
  ASSUME NEW h \in Index, NEW n \in 0..Size
  PROVE  Wrap(U16(h + n)) \in Index
<1>1. CASE h + n < Modulus
  <2>1. U16(h + n) = h + n
    BY <1>1, U16Fits, SizeAssumption DEF Index
  <2> QED  BY <2>1, SizeAssumption DEF Wrap, Index
<1>2. CASE h + n >= Modulus
  <2>1. U16(h + n) = h + n - Modulus
    BY <1>2, U16Once, SizeAssumption DEF Index
  <2> QED  BY <2>1, <1>2, SizeAssumption DEF Wrap, Index
<1> QED  BY <1>1, <1>2, SizeAssumption DEF Index

(* A block to be stored is a sequence of items.                            *)
LEMMA BurstIsSeq ==
  ASSUME NEW data \in Bursts
  PROVE  data \in Seq(Item) /\ Len(data) \in 0..MaxBurst
<1>1. PICK n \in 0..MaxBurst : data \in [1..n -> Item]
  BY DEF Bursts
<1> QED  BY <1>1, BurstAssumption

(* Every call keeps head inside the buffer, num_items between 0 and size,  *)
(* and puts only bytes in the buffer: for every size below 2^16, those     *)
(* for which head + num_items overflows included.                          *)
THEOREM TypeCorrect == Spec => []TypeOK
<1>1. Init => TypeOK
  BY SizeAssumption DEF Init, TypeOK, Index
<1>2. TypeOK /\ [Next]_vars => TypeOK'
  <2> SUFFICES ASSUME TypeOK, [Next]_vars PROVE TypeOK'
    OBVIOUS
  <2> USE SizeAssumption
  <2>0. FreeCell \in Index
    BY WrapInIndex DEF FreeCell, TypeOK
  <2>1. CASE queue_clear
    BY <2>1 DEF queue_clear, TypeOK, Index
  <2>2. ASSUME NEW x \in Item, queue_append(x) PROVE TypeOK'
    BY <2>2, <2>0 DEF queue_append, TypeOK, Index
  <2>3. CASE queue_get
    BY <2>3 DEF queue_get, TypeOK, Index
  <2>4. CASE queue_num_items
    BY <2>4 DEF queue_num_items, TypeOK
  <2>5. CASE queue_num_available
    BY <2>5 DEF queue_num_available, TypeOK
  <2>6. ASSUME NEW data \in Bursts, queue_enqueue(data) PROVE TypeOK'
    <3>1. data \in Seq(Item) /\ Len(data) \in Nat
      BY BurstIsSeq, BurstAssumption
    <3>2. CASE Len(data) > Size - num_items
      BY <2>6, <3>1, <3>2 DEF queue_enqueue, TypeOK
    <3>3. CASE Len(data) <= Size - num_items
      <4> DEFINE tail == FreeCell
                 first == Shorter(Len(data), Size - tail)
      <4>0. /\ first \in Nat /\ first <= Len(data) /\ first <= Size - tail
            /\ first < Len(data) => first = Size - tail
        BY <2>0, <3>1 DEF Shorter, Index
      <4>a. buff' = [i \in Index |->
                       IF i \in Cells(tail, first) THEN data[i - tail + 1]
                       ELSE IF i \in Cells(0, Len(data) - first) THEN data[Size - tail + i + 1]
                       ELSE buff[i]]
        BY <2>6, <3>1, <3>3 DEF queue_enqueue, TypeOK
      <4> HIDE DEF tail, first
      <4>b. tail \in Nat
        BY <2>0 DEF tail, Index
      <4>c. ASSUME NEW i \in Index, i \in Cells(tail, first)
            PROVE  data[i - tail + 1] \in Item
        <5>1. i - tail + 1 \in 1..Len(data)
          BY <4>c, <4>0, <4>b, <3>1 DEF Cells, Index
        <5> QED  BY <5>1, <3>1
      <4>d. ASSUME NEW i \in Index, i \in Cells(0, Len(data) - first)
            PROVE  data[Size - tail + i + 1] \in Item
        <5>1. Size - tail + i + 1 \in 1..Len(data)
          BY <4>d, <4>0, <4>b, <3>1 DEF Cells, Index
        <5> QED  BY <5>1, <3>1
      <4>1. buff' \in [Index -> Item]
        BY <4>a, <4>c, <4>d DEF TypeOK
      <4> QED  BY <4>1, <2>6, <3>1, <3>3 DEF queue_enqueue, TypeOK
    <3> QED  BY <3>1, <3>2, <3>3 DEF TypeOK
  <2>7. ASSUME NEW n \in 0..MaxBurst, queue_peek_consequent(n) PROVE TypeOK'
    BY <2>7 DEF queue_peek_consequent, TypeOK
  <2>8. CASE queue_peek_noncopy
    BY <2>8 DEF queue_peek_noncopy, TypeOK
  <2>9. ASSUME NEW n \in 0..MaxBurst, queue_release(n) PROVE TypeOK'
    <3>1. Shorter(n, num_items) \in 0..num_items
      BY BurstAssumption DEF Shorter, TypeOK
    <3>2. Wrap(U16(head + Shorter(n, num_items))) \in Index
      BY <3>1, WrapInIndex DEF TypeOK
    <3> QED  BY <2>9, <3>1, <3>2 DEF queue_release, TypeOK
  <2>10. CASE UNCHANGED vars
    BY <2>10 DEF vars, TypeOK
  <2> QED
    BY <2>1, <2>2, <2>3, <2>4, <2>5, <2>6, <2>7, <2>8, <2>9, <2>10 DEF Next
<1> QED  BY <1>1, <1>2, PTL DEF Spec
-----------------------------------------------------------------------------
(* What the consumer holds is the front of what is stored, in one piece.   *)
ViewHeld ==
  /\ view \in [at : Nat, data : Seq(Item)]
  /\ Len(view.data) > 0 =>
       /\ view.at = head
       /\ Len(view.data) <= num_items
       /\ head + Len(view.data) <= Size

RingInv ==
  /\ TypeOK
  /\ ViewHeld
  /\ InBounds
  /\ PeekedDataStable
  /\ RoomStillThere

(* Dropping the first n bytes from the consumer's view.                    *)
LEMMA ConsumeView ==
  ASSUME NEW v \in [at : Nat, data : Seq(Item)], NEW n \in Nat
  PROVE  /\ Consume(v, n) \in [at : Nat, data : Seq(Item)]
         /\ Len(Consume(v, n).data) > 0 =>
              /\ n < Len(v.data)
              /\ Consume(v, n).at = v.at + n
              /\ Len(Consume(v, n).data) = Len(v.data) - n
              /\ \A k \in 1..Len(v.data) - n : Consume(v, n).data[k] = v.data[k + n]
<1>1. CASE n >= Len(v.data)
  BY <1>1 DEF Consume, NoView
<1>2. CASE n < Len(v.data)
  <2> DEFINE w == SubSeq(v.data, n + 1, Len(v.data))
  <2>1. Consume(v, n) = [at |-> v.at + n, data |-> w]
    BY <1>2 DEF Consume
  <2>2. /\ w \in Seq(Item)
        /\ Len(w) = Len(v.data) - n
        /\ \A k \in 1..Len(v.data) - n : w[k] = v.data[k + n]
    BY <1>2
  <2> HIDE DEF w
  <2>3. Consume(v, n).at = v.at + n /\ Consume(v, n).data = w
    BY <2>1
  <2>4. Consume(v, n) \in [at : Nat, data : Seq(Item)]
    BY <2>1, <2>2
  <2>5. \A k \in 1..Len(v.data) - n : Consume(v, n).data[k] = v.data[k + n]
    BY <2>2, <2>3
  <2>6. Len(Consume(v, n).data) = Len(v.data) - n
    BY <2>2, <2>3
  <2> QED  BY <1>2, <2>3, <2>4, <2>5, <2>6, Zenon
<1>3. n >= Len(v.data) \/ n < Len(v.data)
  <2>1. Len(v.data) \in Nat
    OBVIOUS
  <2> QED  BY <2>1
<1> QED  BY <1>1, <1>2, <1>3, Zenon

(* Without overflow, the piece a peek delivers is stored and inside buff.  *)
LEMMA ContiguousPiece ==
  ASSUME TypeOK, 2 * Size <= Modulus
  PROVE  /\ Contiguous \in 0..num_items
         /\ head + Contiguous <= Size
<1>1. U16(head + num_items) = head + num_items
  BY U16Fits, SizeAssumption DEF TypeOK, Index
<1> QED  BY <1>1, SizeAssumption DEF Contiguous, TypeOK, Index

(* Without overflow, the first free cell follows the stored items.         *)
LEMMA FreeCellPlace ==
  ASSUME TypeOK, 2 * Size <= Modulus
  PROVE  FreeCell = IF head + num_items < Size THEN head + num_items
                                               ELSE head + num_items - Size
<1>1. U16(head + num_items) = head + num_items
  BY U16Fits, SizeAssumption DEF TypeOK, Index
<1> QED  BY <1>1, SizeAssumption DEF FreeCell, Wrap, TypeOK, Index

(* A store of n bytes, in two pieces from the first free cell on, goes to  *)
(* cells of the buffer and to none that hold a stored item in one piece    *)
(* with the head.                                                          *)
LEMMA StorePlace ==
  ASSUME TypeOK, 2 * Size <= Modulus,
         NEW n \in Nat, n <= Size - num_items,
         NEW first, first = Shorter(n, Size - FreeCell)
  PROVE  /\ Cells(FreeCell, first) \union Cells(0, n - first) \subseteq Index
         /\ \A i \in Nat : (i >= head /\ i < head + num_items /\ i < Size) =>
              i \notin Cells(FreeCell, first) \union Cells(0, n - first)
<1>0. /\ FreeCell \in Index
      /\ first \in Nat /\ first <= n /\ first <= Size - FreeCell
      /\ first < n => first = Size - FreeCell
  BY FreeCellPlace, SizeAssumption DEF TypeOK, Index, Shorter
<1>1. Cells(FreeCell, first) \union Cells(0, n - first) \subseteq Index
  BY <1>0, SizeAssumption DEF TypeOK, Index, Cells
<1>2. ASSUME NEW i \in Nat, i >= head, i < head + num_items, i < Size
      PROVE  i \notin Cells(FreeCell, first) /\ i \notin Cells(0, n - first)
  <2>1. CASE head + num_items < Size
    BY <1>0, <1>2, <2>1, FreeCellPlace, SizeAssumption DEF TypeOK, Index, Cells
  <2>2. CASE head + num_items >= Size
    BY <1>0, <1>2, <2>2, FreeCellPlace, SizeAssumption DEF TypeOK, Index, Cells
  <2> QED  BY <2>1, <2>2, SizeAssumption DEF TypeOK, Index
<1> QED  BY <1>1, <1>2

(* A consumer that gives back k items keeps a view of the stored front.    *)
LEMMA ViewConsumed ==
  ASSUME TypeOK, ViewHeld, PeekedDataStable,
         NEW k \in 0..num_items,
         head + k < Size => head' = head + k,
         num_items' = num_items - k, view' = Consume(view, k), buff' = buff
  PROVE  ViewHeld' /\ PeekedDataStable'
<1> USE SizeAssumption
<1>1. k \in Nat
  BY DEF TypeOK
<1>2. /\ view' \in [at : Nat, data : Seq(Item)]
      /\ Len(view'.data) > 0 =>
           /\ k < Len(view.data)
           /\ view'.at = view.at + k
           /\ Len(view'.data) = Len(view.data) - k
           /\ \A j \in 1..Len(view.data) - k : view'.data[j] = view.data[j + k]
  BY <1>1, ConsumeView DEF ViewHeld
<1>3. ViewHeld'
  <2> SUFFICES ASSUME Len(view'.data) > 0
               PROVE  /\ view'.at = head'
                      /\ Len(view'.data) <= num_items'
                      /\ head' + Len(view'.data) <= Size
    BY <1>2 DEF ViewHeld
  <2>1. /\ k < Len(view.data)
        /\ view'.at = view.at + k
        /\ Len(view'.data) = Len(view.data) - k
    BY <1>2
  <2>2. /\ Len(view.data) \in Nat
        /\ view.at = head
        /\ Len(view.data) <= num_items
        /\ head + Len(view.data) <= Size
    BY <1>1, <2>1 DEF ViewHeld
  <2> QED  BY <1>1, <2>1, <2>2 DEF TypeOK, Index
<1>4. ASSUME NEW j \in 1..Len(view'.data)
      PROVE  view'.at + j - 1 \in Index /\ buff'[view'.at + j - 1] = view'.data[j]
  <2>0. Len(view'.data) \in Nat /\ Len(view.data) \in Nat /\ view.at \in Nat
    BY <1>2 DEF ViewHeld
  <2>a. Len(view'.data) > 0
    BY <2>0
  <2>1. /\ k < Len(view.data)
        /\ view'.at = view.at + k
        /\ Len(view'.data) = Len(view.data) - k
        /\ \A i \in 1..Len(view.data) - k : view'.data[i] = view.data[i + k]
    BY <1>2, <2>a
  <2>b. view'.data[j] = view.data[j + k]
    BY <2>1
  <2>2. j + k \in 1..Len(view.data)
    BY <1>1, <2>0, <2>1
  <2>3. view.at + (j + k) - 1 \in Index /\ buff[view.at + (j + k) - 1] = view.data[j + k]
    BY <2>2 DEF PeekedDataStable
  <2>4. view'.at + j - 1 = view.at + (j + k) - 1
    BY <1>1, <2>0, <2>1
  <2> QED  BY <2>b, <2>3, <2>4
<1> QED  BY <1>3, <1>4 DEF PeekedDataStable

(* Calls that leave ring and view alone.                                   *)
LEMMA RingFrame ==
  ASSUME ViewHeld, PeekedDataStable, TypeOK', InBounds', RoomStillThere',
         UNCHANGED <<buff, head, num_items, view>>
  PROVE  RingInv'
<1>1. ViewHeld'
  BY DEF ViewHeld
<1>2. PeekedDataStable'
  BY DEF PeekedDataStable
<1> QED  BY <1>1, <1>2 DEF RingInv

(* Each call preserves the ring's invariant.                               *)
LEMMA RingStep ==
  ASSUME 2 * Size <= Modulus, RingInv, TypeOK', [Next]_vars
  PROVE  RingInv'
<1> USE SizeAssumption
<1>0. TypeOK /\ ViewHeld /\ InBounds /\ PeekedDataStable /\ RoomStillThere
  BY DEF RingInv
<1>1. CASE queue_clear
  BY <1>0, <1>1
  DEF queue_clear, RingInv, ViewHeld, InBounds, PeekedDataStable, RoomStillThere,
      NoView, TypeOK
<1>2. ASSUME NEW x \in Item, queue_append(x) PROVE RingInv'
  <2>1. CASE num_items >= Size
    <3>1. touched' = {} /\ room' = -1 /\ UNCHANGED <<buff, head, num_items, view>>
      BY <1>0, <1>2, <2>1 DEF queue_append, TypeOK
    <3>2. InBounds' /\ RoomStillThere'
      BY <1>0, <3>1 DEF InBounds, RoomStillThere, TypeOK
    <3> QED  BY <1>0, <3>1, <3>2, RingFrame
  <2>2. CASE num_items < Size
    <3>1. FreeCell \in Index
      BY <1>0, FreeCellPlace, <2>2 DEF TypeOK, Index
    <3>2. \A i \in Nat : (i >= head /\ i < head + num_items /\ i < Size) => i # FreeCell
      BY <1>0, FreeCellPlace, <2>2 DEF TypeOK, Index
    <3>3. /\ touched' = {FreeCell}
          /\ buff' = [buff EXCEPT ![FreeCell] = x]
          /\ num_items' = num_items + 1
          /\ room' = -1
          /\ UNCHANGED <<head, view>>
      BY <1>0, <1>2, <2>2 DEF queue_append, TypeOK
    <3>4. PeekedDataStable'
      BY <1>0, <3>2, <3>3 DEF PeekedDataStable, ViewHeld, TypeOK, Index
    <3>5. ViewHeld'
      BY <1>0, <3>3 DEF ViewHeld, TypeOK, Index
    <3>6. InBounds' /\ RoomStillThere'
      BY <1>0, <2>2, <3>1, <3>3 DEF InBounds, RoomStillThere, TypeOK
    <3> QED  BY <3>4, <3>5, <3>6 DEF RingInv
  <2> QED  BY <1>0, <2>1, <2>2 DEF TypeOK
<1>3. CASE queue_get
  <2>1. CASE num_items = 0
    BY <1>0, <1>3, <2>1
    DEF queue_get, RingInv, ViewHeld, InBounds, PeekedDataStable, RoomStillThere
  <2>2. CASE num_items # 0
    <3>1. ViewHeld' /\ PeekedDataStable'
      BY <1>0, <1>3, <2>2, ViewConsumed DEF queue_get, TypeOK, Index
    <3>2. touched' = {head} /\ room' = room /\ num_items' = num_items - 1
      BY <1>3, <2>2 DEF queue_get
    <3> QED
      BY <1>0, <3>1, <3>2 DEF RingInv, InBounds, RoomStillThere, TypeOK
  <2> QED  BY <2>1, <2>2
<1>4. CASE queue_num_items
  BY <1>0, <1>4
  DEF queue_num_items, RingInv, ViewHeld, InBounds, PeekedDataStable, RoomStillThere
<1>5. CASE queue_num_available
  BY <1>0, <1>5
  DEF queue_num_available, RingInv, ViewHeld, InBounds, PeekedDataStable,
      RoomStillThere, TypeOK
<1>6. ASSUME NEW data \in Bursts, queue_enqueue(data) PROVE RingInv'
  <2>0. Len(data) \in Nat
    BY BurstIsSeq, BurstAssumption
  <2>1. CASE Len(data) > Size - num_items
    <3>1. touched' = {} /\ room' = -1 /\ UNCHANGED <<buff, head, num_items, view>>
      BY <1>0, <1>6, <2>0, <2>1 DEF queue_enqueue, TypeOK
    <3>2. InBounds' /\ RoomStillThere'
      BY <1>0, <3>1 DEF InBounds, RoomStillThere, TypeOK
    <3> QED  BY <1>0, <3>1, <3>2, RingFrame
  <2>2. CASE Len(data) <= Size - num_items
    <3> DEFINE first == Shorter(Len(data), Size - FreeCell)
               new == Cells(FreeCell, first) \union Cells(0, Len(data) - first)
    <3>1. /\ new \subseteq Index
          /\ \A i \in Nat : (i >= head /\ i < head + num_items /\ i < Size) => i \notin new
      BY <1>0, <2>0, <2>2, StorePlace
    <3>2. /\ touched' = new
          /\ \A i \in Index : i \notin new => buff'[i] = buff[i]
          /\ num_items' = num_items + Len(data)
          /\ room' = -1
          /\ UNCHANGED <<head, view>>
      BY <1>0, <1>6, <2>0, <2>2 DEF queue_enqueue, TypeOK
    <3> HIDE DEF new
    <3>3. PeekedDataStable'
      <4> SUFFICES ASSUME NEW k \in 1..Len(view.data)
                   PROVE  /\ view.at + k - 1 \in Index
                          /\ buff'[view.at + k - 1] = view.data[k]
        BY <3>2 DEF PeekedDataStable
      <4>1. /\ view.at + k - 1 \in Index
            /\ buff[view.at + k - 1] = view.data[k]
        BY <1>0 DEF PeekedDataStable
      <4>0. /\ Len(view.data) \in Nat
            /\ view.at = head
            /\ Len(view.data) <= num_items
            /\ head + Len(view.data) <= Size
        BY <1>0 DEF ViewHeld
      <4>2. /\ view.at + k - 1 >= head
            /\ view.at + k - 1 < head + num_items
            /\ view.at + k - 1 < Size
        BY <1>0, <4>0 DEF TypeOK, Index
      <4>3. view.at + k - 1 \notin new
        BY <3>1, <4>1, <4>2 DEF Index
      <4> QED  BY <3>2, <4>1, <4>3
    <3>4. ViewHeld'
      BY <1>0, <2>0, <3>2 DEF ViewHeld, TypeOK, Index
    <3>5. InBounds' /\ RoomStillThere'
      BY <1>0, <2>0, <2>2, <3>1, <3>2 DEF InBounds, RoomStillThere, TypeOK
    <3> QED  BY <3>3, <3>4, <3>5 DEF RingInv
  <2> QED  BY <1>0, <2>0, <2>1, <2>2 DEF TypeOK
<1>7. ASSUME NEW n \in 0..MaxBurst, queue_peek_consequent(n) PROVE RingInv'
  <2>1. /\ Shorter(n, Contiguous) \in Nat
        /\ head + Shorter(n, Contiguous) <= Size
    BY <1>0, ContiguousPiece, BurstAssumption DEF Shorter, TypeOK, Index
  <2>2. InBounds'
    BY <1>0, <1>7, <2>1 DEF queue_peek_consequent, InBounds, Cells, TypeOK, Index
  <2>3. UNCHANGED <<buff, head, num_items, view, room>>
    BY <1>7 DEF queue_peek_consequent
  <2>4. RoomStillThere'
    BY <1>0, <2>3 DEF RoomStillThere
  <2> QED  BY <1>0, <2>2, <2>3, <2>4, RingFrame
<1>8. CASE queue_peek_noncopy
  <2> DEFINE k == Contiguous
  <2>1. k \in 0..num_items /\ head + k <= Size
    BY <1>0, ContiguousPiece
  <2>2. /\ Load(head, k) \in Seq(Item)
        /\ Len(Load(head, k)) = k
        /\ \A j \in 1..k : Load(head, k)[j] = buff[head + j - 1]
    BY <1>0, <2>1 DEF Load, TypeOK, Index
  <2>3. ViewHeld' /\ PeekedDataStable'
    <3>1. CASE k = 0
      BY <1>0, <1>8, <3>1 DEF queue_peek_noncopy, ViewHeld, PeekedDataStable, NoView
    <3>2. CASE k # 0
      <4>1. view' = [at |-> head, data |-> Load(head, k)] /\ UNCHANGED <<buff, head, num_items>>
        BY <1>8, <3>2 DEF queue_peek_noncopy
      <4> QED
        BY <1>0, <2>1, <2>2, <4>1 DEF ViewHeld, PeekedDataStable, TypeOK, Index
    <3> QED  BY <3>1, <3>2
  <2> QED
    BY <1>0, <1>8, <2>1, <2>3
    DEF queue_peek_noncopy, RingInv, InBounds, RoomStillThere, Cells, TypeOK, Index
<1>9. ASSUME NEW n \in 0..MaxBurst, queue_release(n) PROVE RingInv'
  <2> DEFINE k == Shorter(n, num_items)
  <2>1. k \in 0..num_items
    BY <1>0, BurstAssumption DEF Shorter, TypeOK
  <2>2. U16(head + k) = head + k
    BY <1>0, <2>1, U16Fits DEF TypeOK, Index
  <2>3. /\ head + k < Size => head' = head + k
        /\ num_items' = num_items - k
        /\ touched' = {}
        /\ view' = Consume(view, k)
        /\ UNCHANGED <<buff, room>>
    BY <1>0, <1>9, <2>1, <2>2 DEF queue_release, Wrap, TypeOK, Index
  <2> HIDE DEF k
  <2>4. ViewHeld' /\ PeekedDataStable'
    BY <1>0, <2>1, <2>3, ViewConsumed
  <2> QED
    BY <1>0, <2>1, <2>3, <2>4 DEF RingInv, InBounds, RoomStillThere, TypeOK
<1>10. CASE UNCHANGED vars
  BY <1>0, <1>10
  DEF vars, RingInv, ViewHeld, InBounds, PeekedDataStable, RoomStillThere
<1> QED
  BY <1>1, <1>2, <1>3, <1>4, <1>5, <1>6, <1>7, <1>8, <1>9, <1>10 DEF Next

(* A ring no larger than half the range of its indices never touches a     *)
(* cell outside its buffer, never overwrites the bytes behind a pointer    *)
(* the consumer holds, and keeps the room it promised to the producer.     *)
LEMMA RingSafe ==
  ASSUME 2 * Size <= Modulus
  PROVE  Spec => [](InBounds /\ PeekedDataStable /\ RoomStillThere)
<1>1. Init => RingInv
  BY SizeAssumption
  DEF Init, RingInv, TypeOK, Index, ViewHeld, NoView, InBounds, PeekedDataStable,
      RoomStillThere
<1>2. RingInv /\ TypeOK' /\ [Next]_vars => RingInv'
  BY RingStep
<1>3. RingInv => InBounds /\ PeekedDataStable /\ RoomStillThere
  BY DEF RingInv
<1> QED  BY <1>1, <1>2, <1>3, TypeCorrect, PTL DEF Spec

(* No call of queue.c touches a cell outside the buffer, when the size is  *)
(* at most half the range of the indices.                                  *)
THEOREM RingInBounds ==
  ASSUME 2 * Size <= Modulus
  PROVE  Spec => []InBounds
<1>1. Spec => [](InBounds /\ PeekedDataStable /\ RoomStillThere)
  BY RingSafe
<1> QED  BY <1>1, PTL

(* The bytes behind the pointer that queue_peek_noncopy returned stay as   *)
(* they were until the consumer releases them, whatever the producer       *)
(* stores meanwhile.                                                       *)
THEOREM RingViewStable ==
  ASSUME 2 * Size <= Modulus
  PROVE  Spec => []PeekedDataStable
<1>1. Spec => [](InBounds /\ PeekedDataStable /\ RoomStillThere)
  BY RingSafe
<1> QED  BY <1>1, PTL

(* The room that the producer has seen is there when it stores, whatever   *)
(* the consumer does meanwhile.                                            *)
THEOREM RingRoom ==
  ASSUME 2 * Size <= Modulus
  PROVE  Spec => []RoomStillThere
<1>1. Spec => [](InBounds /\ PeekedDataStable /\ RoomStillThere)
  BY RingSafe
<1> QED  BY <1>1, PTL

-----------------------------------------------------------------------------
(* The n items from index h of the buffer b on, round its end.             *)
Ring(b, h, n) == [i \in 1..n |-> b[(h + i - 1) % Size]]

(* Where the i-th item of a ring lies.                                     *)
Place(h, i) == IF h + i - 1 < Size THEN h + i - 1 ELSE h + i - 1 - Size

LEMMA PlaceInRing ==
  ASSUME NEW h \in Index, NEW i \in 1..Size
  PROVE  Place(h, i) \in Index /\ (h + i - 1) % Size = Place(h, i)
<1>1. h \in Int /\ i \in Int /\ Size \in Int /\ Size > 0
      /\ 0 <= h + i - 1 /\ h + i - 1 < 2 * Size
  BY SizeAssumption DEF Index
<1> QED  BY <1>1 DEF Index, Place

(* A ring is a sequence of items, each in its place.                       *)
LEMMA RingIsSeq ==
  ASSUME NEW b \in [Index -> Item], NEW h \in Index, NEW n \in 0..Size
  PROVE  /\ Ring(b, h, n) \in Seq(Item)
         /\ Len(Ring(b, h, n)) = n
         /\ \A i \in 1..n : Place(h, i) \in Index /\ Ring(b, h, n)[i] = b[Place(h, i)]
<1> USE SizeAssumption
<1>1. ASSUME NEW i \in 1..n
      PROVE  Place(h, i) \in Index /\ (h + i - 1) % Size = Place(h, i)
  BY PlaceInRing
<1>2. \A i \in 1..n : b[(h + i - 1) % Size] \in Item
  BY <1>1
<1>3. n \in Nat
  OBVIOUS
<1>4. Ring(b, h, n) \in [1..n -> Item]
  BY <1>2 DEF Ring
<1>5. Ring(b, h, n) \in Seq(Item) /\ Len(Ring(b, h, n)) = n
  BY <1>3, <1>4
<1>6. \A i \in 1..n : Ring(b, h, n)[i] = b[Place(h, i)]
  BY <1>1 DEF Ring
<1> QED  BY <1>1, <1>5, <1>6

(* queue_append lengthens the ring by one item.                            *)
LEMMA AppendGrows ==
  ASSUME TypeOK, 2 * Size <= Modulus, num_items < Size, NEW x \in Item
  PROVE  Ring([buff EXCEPT ![FreeCell] = x], head, num_items + 1)
           = Append(Ring(buff, head, num_items), x)
<1> USE SizeAssumption
<1> DEFINE b == [buff EXCEPT ![FreeCell] = x]
           s == Ring(b, head, num_items + 1)
           t == Append(Ring(buff, head, num_items), x)
<1>0. buff \in [Index -> Item] /\ head \in Index /\ num_items \in Nat
  BY DEF TypeOK
<1>1. /\ FreeCell \in Index /\ FreeCell = Place(head, num_items + 1)
      /\ \A i \in 1..num_items : FreeCell # Place(head, i)
  BY <1>0, FreeCellPlace DEF Place, Index
<1>2. b \in [Index -> Item]
  BY <1>0
<1>3. /\ s \in Seq(Item) /\ Len(s) = num_items + 1
      /\ \A i \in 1..num_items + 1 : Place(head, i) \in Index /\ s[i] = b[Place(head, i)]
  <2>1. num_items + 1 \in 0..Size
    BY <1>0
  <2> HIDE DEF b
  <2> QED  BY <1>0, <1>2, <2>1, RingIsSeq
<1>4. /\ Ring(buff, head, num_items) \in Seq(Item)
      /\ Len(Ring(buff, head, num_items)) = num_items
      /\ \A i \in 1..num_items : Ring(buff, head, num_items)[i] = buff[Place(head, i)]
  BY <1>0, RingIsSeq
<1>5. /\ t \in Seq(Item) /\ Len(t) = num_items + 1
      /\ \A i \in 1..num_items : t[i] = buff[Place(head, i)]
      /\ t[num_items + 1] = x
  BY <1>4, AppendProperties
<1>6. \A i \in 1..num_items : b[Place(head, i)] = buff[Place(head, i)]
  BY <1>0, <1>1
<1>7. b[Place(head, num_items + 1)] = x
  BY <1>0, <1>1
<1> HIDE DEF b, s, t
<1>8. ASSUME NEW i \in 1..num_items + 1 PROVE s[i] = t[i]
  <2>1. CASE i = num_items + 1
    BY <1>0, <1>3, <1>5, <1>7, <2>1
  <2>2. CASE i \in 1..num_items
    BY <1>0, <1>3, <1>5, <1>6, <2>2
  <2> QED  BY <1>0, <2>1, <2>2
<1>9. s = t
  BY <1>3, <1>5, <1>8, SeqEqual
<1> QED  BY <1>9 DEF b, s, t

(* queue_release and queue_get shorten it at its front.                    *)
LEMMA ReleaseShrinks ==
  ASSUME TypeOK, NEW k \in 0..num_items
  PROVE  /\ Wrap(head + k) \in Index
         /\ Ring(buff, Wrap(head + k), num_items - k)
             = SubSeq(Ring(buff, head, num_items), k + 1, num_items)
<1> USE SizeAssumption
<1> DEFINE h == Wrap(head + k)
           r == Ring(buff, head, num_items)
           s == Ring(buff, h, num_items - k)
           t == SubSeq(r, k + 1, num_items)
<1>0. buff \in [Index -> Item] /\ head \in Index /\ num_items \in 0..Size /\ k \in Nat
  BY DEF TypeOK
<1>1. h \in Index /\ \A i \in 1..num_items - k : Place(h, i) = Place(head, k + i)
  BY <1>0 DEF Wrap, Place, Index
<1>2. num_items - k \in 0..Size
  BY <1>0
<1>3. /\ r \in Seq(Item) /\ Len(r) = num_items
      /\ \A i \in 1..num_items : r[i] = buff[Place(head, i)]
  BY <1>0, RingIsSeq
<1>4. /\ s \in Seq(Item) /\ Len(s) = num_items - k
      /\ \A i \in 1..num_items - k : s[i] = buff[Place(h, i)]
  BY <1>0, <1>1, <1>2, RingIsSeq
<1> HIDE DEF h, r, s
<1>5. \A i \in k + 1 .. num_items : r[i] \in Item
  BY <1>0, <1>3
<1>6. /\ t \in Seq(Item) /\ Len(t) = num_items - k
      /\ \A i \in 1..num_items - k : t[i] = r[k + i]
  BY <1>0, <1>3
<1> HIDE DEF t
<1>7. ASSUME NEW i \in 1..num_items - k PROVE s[i] = t[i]
  <2>1. k + i \in 1..num_items
    BY <1>0
  <2> QED  BY <1>1, <1>3, <1>4, <1>6, <2>1
<1>8. s = t
  BY <1>4, <1>6, <1>7, SeqEqual
<1> QED  BY <1>1, <1>8 DEF h, r, s, t

(* What a peek loads is the front of the ring.                             *)
LEMMA LoadIsFront ==
  ASSUME TypeOK, NEW k \in 0..num_items, head + k <= Size
  PROVE  Load(head, k) = SubSeq(Ring(buff, head, num_items), 1, k)
<1> USE SizeAssumption
<1> DEFINE r == Ring(buff, head, num_items)
           s == Load(head, k)
           t == SubSeq(r, 1, k)
<1>0. buff \in [Index -> Item] /\ head \in Index /\ num_items \in 0..Size /\ k \in Nat
  BY DEF TypeOK
<1>1. /\ s \in Seq(Item) /\ Len(s) = k
      /\ \A i \in 1..k : s[i] = buff[head + i - 1]
  BY <1>0 DEF Load, Index
<1>2. /\ r \in Seq(Item) /\ Len(r) = num_items
      /\ \A i \in 1..num_items : r[i] = buff[Place(head, i)]
  BY <1>0, RingIsSeq
<1>3. \A i \in 1..k : Place(head, i) = head + i - 1
  BY <1>0 DEF Place, Index
<1> HIDE DEF r, s
<1>4. /\ t \in Seq(Item) /\ Len(t) = k
      /\ \A i \in 1..k : t[i] = r[i]
  BY <1>0, <1>2
<1> HIDE DEF t
<1>5. \A i \in 1..k : s[i] = t[i]
  BY <1>0, <1>1, <1>2, <1>3, <1>4
<1>6. s = t
  BY <1>1, <1>4, <1>5, SeqEqual
<1> QED  BY <1>6 DEF r, s, t

(* Where queue_enqueue puts the bytes of a block.                          *)
Copied(data, first) ==
  [i \in Index |->
     IF i \in Cells(FreeCell, first) THEN data[i - FreeCell + 1]
     ELSE IF i \in Cells(0, Len(data) - first) THEN data[(Size - FreeCell) + i + 1]
     ELSE buff[i]]

(* queue_enqueue lengthens the ring by the whole block, through both of    *)
(* its memcpy calls.                                                       *)
LEMMA EnqueueGrows ==
  ASSUME TypeOK, 2 * Size <= Modulus, NEW data \in Seq(Item),
         Len(data) <= Size - num_items,
         NEW first, first = Shorter(Len(data), Size - FreeCell)
  PROVE  Ring(Copied(data, first), head, num_items + Len(data))
           = Ring(buff, head, num_items) \o data
<1> USE SizeAssumption
<1> DEFINE n == Len(data)
           b == Copied(data, first)
           r == Ring(buff, head, num_items)
           s == Ring(b, head, num_items + n)
           t == r \o data
<1>0. /\ buff \in [Index -> Item] /\ head \in Index /\ num_items \in Nat /\ n \in Nat
      /\ num_items + n \in 0..Size /\ num_items \in 0..Size
      /\ \A i \in 1..n : data[i] \in Item
  BY DEF TypeOK
<1> HIDE DEF n
<1>1. /\ FreeCell \in Index
      /\ FreeCell = IF head + num_items < Size THEN head + num_items ELSE head + num_items - Size
      /\ first \in Nat /\ first <= n /\ first <= Size - FreeCell
      /\ first < n => first = Size - FreeCell
  BY <1>0, FreeCellPlace DEF Index, Shorter, n
<1>2. ASSUME NEW i \in Index
      PROVE  /\ i >= FreeCell /\ i < FreeCell + first =>
                  b[i] = data[i - FreeCell + 1] /\ i - FreeCell + 1 \in 1..n
             /\ i < FreeCell /\ i < n - first =>
                  b[i] = data[(Size - FreeCell) + i + 1] /\ (Size - FreeCell) + i + 1 \in 1..n
             /\ ~(i >= FreeCell /\ i < FreeCell + first) /\ ~(i < n - first) => b[i] = buff[i]
  <2>0. b[i] = IF i \in FreeCell .. FreeCell + first - 1 THEN data[i - FreeCell + 1]
               ELSE IF i \in 0 .. 0 + (n - first) - 1 THEN data[(Size - FreeCell) + i + 1]
               ELSE buff[i]
    BY DEF Copied, Cells, n
  <2> HIDE DEF b
  <2>1. CASE i >= FreeCell /\ i < FreeCell + first
    <3>1. i \in FreeCell .. FreeCell + first - 1 /\ i - FreeCell + 1 \in 1..n
      BY <1>0, <1>1, <2>1 DEF Index
    <3> QED  BY <2>0, <2>1, <3>1, <1>1 DEF Index
  <2>2. CASE i < FreeCell /\ i < n - first
    <3>1. /\ i \notin FreeCell .. FreeCell + first - 1 /\ i \in 0 .. 0 + (n - first) - 1
          /\ (Size - FreeCell) + i + 1 \in 1..n
      BY <1>0, <1>1, <2>2 DEF Index
    <3> QED  BY <2>0, <2>2, <3>1, <1>1 DEF Index
  <2>3. CASE ~(i >= FreeCell /\ i < FreeCell + first) /\ ~(i < n - first)
    <3>1. i \notin FreeCell .. FreeCell + first - 1 /\ i \notin 0 .. 0 + (n - first) - 1
      BY <1>0, <1>1, <2>3 DEF Index
    <3> QED  BY <2>0, <2>3, <3>1, <1>0, <1>1 DEF Index
  <2> QED  BY <2>1, <2>2, <2>3
<1>3. n - first <= FreeCell
  BY <1>0, <1>1 DEF Index
<1>4. b \in [Index -> Item]
  <2>1. ASSUME NEW i \in Index PROVE b[i] \in Item
    <3> HIDE DEF b
    <3>1. CASE i >= FreeCell /\ i < FreeCell + first
      BY <1>0, <1>2, <3>1
    <3>2. CASE i < FreeCell /\ i < n - first
      BY <1>0, <1>2, <3>2
    <3>3. CASE ~(i >= FreeCell /\ i < FreeCell + first) /\ ~(i < n - first)
      BY <1>0, <1>2, <3>3
    <3> QED  BY <1>0, <1>1, <1>3, <3>1, <3>2, <3>3 DEF Index
  <2> QED  BY <2>1 DEF Copied
<1> HIDE DEF b
<1>5. ASSUME NEW i \in 1..num_items PROVE b[Place(head, i)] = buff[Place(head, i)]
  <2>1. /\ Place(head, i) \in Index
        /\ ~(Place(head, i) >= FreeCell /\ Place(head, i) < FreeCell + first)
        /\ ~(Place(head, i) < n - first)
    BY <1>0, <1>1, <1>3 DEF Place, Index
  <2> QED  BY <1>2, <2>1
<1>6. ASSUME NEW i \in 1..n PROVE b[Place(head, num_items + i)] = data[i]
  <2> DEFINE p == Place(head, num_items + i)
  <2>1. p \in Index
    BY <1>0 DEF Place, Index
  <2>2. CASE i <= first
    <3>1. p >= FreeCell /\ p < FreeCell + first /\ p - FreeCell + 1 = i
      BY <1>0, <1>1, <2>2 DEF Place, Index
    <3> QED  BY <1>2, <2>1, <3>1
  <2>3. CASE i > first
    <3>1. p < FreeCell /\ p < n - first /\ (Size - FreeCell) + p + 1 = i
      BY <1>0, <1>1, <2>3 DEF Place, Index
    <3> QED  BY <1>2, <2>1, <3>1
  <2> QED  BY <1>0, <1>1, <2>2, <2>3
<1>7. /\ s \in Seq(Item) /\ Len(s) = num_items + n
      /\ \A i \in 1..num_items + n : s[i] = b[Place(head, i)]
  BY <1>0, <1>4, RingIsSeq
<1>8. /\ r \in Seq(Item) /\ Len(r) = num_items
      /\ \A i \in 1..num_items : r[i] = buff[Place(head, i)]
  BY <1>0, RingIsSeq
<1> HIDE DEF r, s
<1>9. /\ t \in Seq(Item) /\ Len(t) = num_items + n
      /\ \A i \in 1..num_items + n : t[i] = IF i <= num_items THEN r[i] ELSE data[i - num_items]
  BY <1>0, <1>8, ConcatProperties DEF n
<1> HIDE DEF t
<1>10. ASSUME NEW i \in 1..num_items + n PROVE s[i] = t[i]
  <2>1. CASE i <= num_items
    <3>1. i \in 1..num_items
      BY <1>0, <2>1
    <3>2. b[Place(head, i)] = buff[Place(head, i)]
      BY <1>5, <3>1
    <3> QED  BY <1>7, <1>8, <1>9, <2>1, <3>1, <3>2
  <2>2. CASE i > num_items
    <3>1. PICK j \in 1..n : i = num_items + j
      <4>1. i - num_items \in 1..n /\ i = num_items + (i - num_items)
        BY <1>0, <2>2
      <4> QED  BY <4>1
    <3>2. b[Place(head, i)] = data[j]
      BY <1>6, <3>1
    <3>3. j = i - num_items
      BY <1>0, <3>1
    <3> QED  BY <1>0, <1>7, <1>9, <2>2, <3>2, <3>3
  <2> QED  BY <1>0, <2>1, <2>2
<1>11. s = t
  BY <1>7, <1>9, <1>10, SeqEqual
<1> QED  BY <1>11 DEF n, b, r, s, t

LEMMA ContentsRing == contents = Ring(buff, head, num_items)
BY DEF contents, Ring

(* The stored items before and after a step, as rings.                     *)
LEMMA ContentsType ==
  ASSUME TypeOK
  PROVE  contents \in Seq(Item) /\ Len(contents) = num_items
BY RingIsSeq, ContentsRing DEF TypeOK

LEMMA ContentsRingNext == contents' = Ring(buff', head', num_items')
BY DEF contents, Ring

LEMMA EmptyRing ==
  ASSUME NEW b, NEW h
  PROVE  Ring(b, h, 0) = <<>>
BY DEF Ring

LEMMA ContentsSame ==
  ASSUME UNCHANGED <<buff, head, num_items>>
  PROVE  contents' = contents
BY ContentsRing, ContentsRingNext

(* Every call is a call of the bounded buffer with the same result.        *)
LEMMA StepImplements ==
  ASSUME 2 * Size <= Modulus, TypeOK, [Next]_vars
  PROVE  [F!Next]_(F!vars)
<1> USE SizeAssumption
<1>0. /\ contents \in Seq(Item) /\ Len(contents) = num_items
      /\ num_items \in 0..Size /\ head \in Index
      /\ contents = Ring(buff, head, num_items)
      /\ contents' = Ring(buff', head', num_items')
  BY ContentsType, ContentsRing, ContentsRingNext DEF TypeOK
<1>1. CASE queue_clear
  <2>1. contents' = <<>> /\ out' = Result("clear", 1, <<>>)
    BY <1>0, <1>1, EmptyRing DEF queue_clear
  <2> QED  BY <2>1 DEF F!Next, F!Clear, F!Result, Result
<1>2. ASSUME NEW x \in Item, queue_append(x) PROVE F!Next
  <2>1. CASE num_items < Size
    <3>1. /\ num_items' = num_items + 1 /\ head' = head
          /\ buff' = [buff EXCEPT ![FreeCell] = x]
          /\ out' = Result("append", 1, <<>>)
      BY <1>0, <1>2, <2>1 DEF queue_append
    <3>2. contents' = Append(contents, x)
      BY <1>0, <2>1, <3>1, AppendGrows
    <3>3. F!Add(x)
      BY <1>0, <2>1, <3>1, <3>2 DEF F!Add, F!Result, Result
    <3> QED  BY <3>3 DEF F!Next
  <2>2. CASE num_items >= Size
    <3>1. out' = Result("append", 0, <<>>) /\ UNCHANGED <<buff, head, num_items>>
      BY <1>0, <1>2, <2>2 DEF queue_append
    <3>2. F!Add(x)
      BY <1>0, <2>2, <3>1, ContentsSame DEF F!Add, F!Result, Result
    <3> QED  BY <3>2 DEF F!Next
  <2> QED  BY <1>0, <2>1, <2>2
<1>3. CASE queue_get
  <2>1. CASE num_items = 0
    <3>1. out' = Result("get", 0, <<>>) /\ UNCHANGED <<buff, head, num_items>>
      BY <1>3, <2>1 DEF queue_get
    <3>2. contents = <<>>
      BY <1>0, <2>1
    <3>3. F!Get
      BY <3>1, <3>2, ContentsSame DEF F!Get, F!Result, Result
    <3> QED  BY <3>3 DEF F!Next
  <2>2. CASE num_items # 0
    <3>1. /\ out' = Result("get", 1, Load(head, 1)) /\ buff' = buff
          /\ head' = Wrap(head + 1) /\ num_items' = num_items - 1
      BY <1>0, <1>3, <2>2 DEF queue_get, Wrap, Index
    <3>2. contents' = SubSeq(contents, 2, num_items)
      <4>1. 1 \in 0..num_items
        BY <1>0, <2>2
      <4>2. Ring(buff, Wrap(head + 1), num_items - 1) = SubSeq(contents, 1 + 1, num_items)
        BY <1>0, <4>1, ReleaseShrinks
      <4> QED  BY <1>0, <3>1, <4>2
    <3>3. contents # <<>>
      BY <1>0, <2>2
    <3>4. contents' = Tail(contents)
      BY <1>0, <3>2, <3>3, TailIsSubSeq
    <3>5. Load(head, 1) = SubSeq(contents, 1, 1)
      <4>1. 1 \in 0..num_items /\ head + 1 <= Size
        BY <1>0, <2>2 DEF Index
      <4> QED  BY <1>0, <4>1, LoadIsFront
    <3>6. Load(head, 1) = <<Head(contents)>>
      BY <1>0, <2>2, <3>5
    <3>7. F!Get
      BY <3>1, <3>3, <3>4, <3>6 DEF F!Get, F!Result, Result
    <3> QED  BY <3>7 DEF F!Next
  <2> QED  BY <2>1, <2>2
<1>4. CASE queue_num_items
  <2>1. out' = Result("items", num_items, <<>>) /\ UNCHANGED <<buff, head, num_items>>
    BY <1>4 DEF queue_num_items
  <2>2. F!Stored
    BY <1>0, <2>1, ContentsSame DEF F!Stored, F!Result, Result
  <2> QED  BY <2>2 DEF F!Next
<1>5. CASE queue_num_available
  <2>1. out' = Result("available", Size - num_items, <<>>) /\ UNCHANGED <<buff, head, num_items>>
    BY <1>5 DEF queue_num_available
  <2>2. F!Available
    BY <1>0, <2>1, ContentsSame DEF F!Available, F!Result, Result
  <2> QED  BY <2>2 DEF F!Next
<1>6. ASSUME NEW data \in Bursts, queue_enqueue(data) PROVE F!Next
  <2>0. data \in Seq(Item) /\ Len(data) \in Nat /\ data \in F!Bursts
    BY BurstIsSeq, BurstAssumption DEF Bursts, F!Bursts
  <2>1. CASE Len(data) <= Size - num_items
    <3> DEFINE first == Shorter(Len(data), Size - FreeCell)
    <3>1. /\ num_items' = num_items + Len(data) /\ head' = head
          /\ buff' = Copied(data, first)
          /\ out' = Result("enqueue", Len(data), <<>>)
      BY <1>0, <1>6, <2>0, <2>1 DEF queue_enqueue, Copied
    <3>2. contents' = contents \o data
      BY <1>0, <2>0, <2>1, <3>1, EnqueueGrows
    <3>3. Len(contents) + Len(data) <= Size
      BY <1>0, <2>0, <2>1
    <3>4. out' = F!Result("enqueue", Len(data), <<>>)
      BY <3>1 DEF F!Result, Result
    <3>5. F!Enqueue(data)
      BY <3>2, <3>3, <3>4, Zenon DEF F!Enqueue
    <3> QED  BY <2>0, <3>5 DEF F!Next
  <2>2. CASE Len(data) > Size - num_items
    <3>1. out' = Result("enqueue", 0, <<>>) /\ UNCHANGED <<buff, head, num_items>>
      BY <1>0, <1>6, <2>0, <2>2 DEF queue_enqueue
    <3>2. F!Enqueue(data)
      BY <1>0, <2>0, <2>2, <3>1, ContentsSame DEF F!Enqueue, F!Result, Result
    <3> QED  BY <2>0, <3>2 DEF F!Next
  <2> QED  BY <1>0, <2>0, <2>1, <2>2
<1>7. Contiguous \in 0..num_items /\ head + Contiguous <= Size
      /\ (num_items > 0 => Contiguous > 0)
  <2>1. U16(head + num_items) = head + num_items
    BY <1>0, U16Fits DEF Index
  <2> QED  BY <1>0, <2>1 DEF Contiguous, Index
<1>8. ASSUME NEW n \in 0..MaxBurst, queue_peek_consequent(n) PROVE F!Next
  <2> DEFINE k == Shorter(n, Contiguous)
  <2>1. /\ k \in 0..num_items /\ head + k <= Size /\ k <= n
        /\ n > 0 /\ num_items > 0 => k > 0
    BY <1>0, <1>7, BurstAssumption DEF Shorter, Index
  <2>2. out' = Result("peek", k, Load(head, k)) /\ UNCHANGED <<buff, head, num_items>>
    BY <1>8 DEF queue_peek_consequent
  <2> HIDE DEF k
  <2>3. Load(head, k) = SubSeq(contents, 1, k)
    BY <1>0, <2>1, LoadIsFront
  <2>4. F!Peek("peek", n)
    <3>1. k \in 0..F!Shortest(n, Len(contents))
      BY <1>0, <2>1, BurstAssumption DEF F!Shortest
    <3>2. n > 0 /\ contents # <<>> => k > 0
      BY <1>0, <2>1
    <3> QED  BY <2>2, <2>3, <3>1, <3>2, ContentsSame DEF F!Peek, F!Result, Result
  <2> QED  BY <2>4 DEF F!Next
<1>9. CASE queue_peek_noncopy
  <2> DEFINE k == Contiguous
  <2>1. out' = Result("view", k, Load(head, k)) /\ UNCHANGED <<buff, head, num_items>>
    BY <1>9 DEF queue_peek_noncopy
  <2> HIDE DEF k
  <2>2. Load(head, k) = SubSeq(contents, 1, k)
    BY <1>0, <1>7, LoadIsFront DEF k
  <2>3. F!Peek("view", Size)
    <3>1. k \in 0..F!Shortest(Size, Len(contents))
      BY <1>0, <1>7 DEF F!Shortest, k
    <3>2. Size > 0 /\ contents # <<>> => k > 0
      BY <1>0, <1>7 DEF k
    <3> QED  BY <2>1, <2>2, <3>1, <3>2, ContentsSame DEF F!Peek, F!Result, Result
  <2> QED  BY <2>3 DEF F!Next
<1>10. ASSUME NEW n \in 0..MaxBurst, queue_release(n) PROVE F!Next
  <2> DEFINE k == Shorter(n, num_items)
  <2>1. k \in 0..num_items
    BY <1>0, BurstAssumption DEF Shorter
  <2>2. U16(head + k) = head + k
    BY <1>0, <2>1, U16Fits DEF Index
  <2>3. /\ head' = Wrap(head + k) /\ num_items' = num_items - k /\ buff' = buff
        /\ out' = Result("release", k, <<>>)
    BY <1>10, <2>2 DEF queue_release
  <2>4. F!Shortest(n, Len(contents)) = k
    BY <1>0 DEF F!Shortest, Shorter
  <2> HIDE DEF k
  <2>5. contents' = SubSeq(contents, k + 1, Len(contents))
    BY <1>0, <2>1, <2>3, ReleaseShrinks
  <2>6. F!Release(n)
    BY <2>3, <2>4, <2>5 DEF F!Release, F!Result, Result
  <2> QED  BY <2>6 DEF F!Next
<1>11. CASE UNCHANGED vars
  BY <1>11, ContentsSame DEF vars, F!vars
<1> QED
  BY <1>1, <1>2, <1>3, <1>4, <1>5, <1>6, <1>8, <1>9, <1>10, <1>11 DEF Next

(* A ring no larger than half the range of its indices is a bounded        *)
(* first-in first-out buffer: every call of queue.c, wrapped or not,       *)
(* returns what Fifo returns and leaves the items that Fifo leaves.        *)
THEOREM RingIsFifo ==
  ASSUME 2 * Size <= Modulus
  PROVE  Spec => ImplementsFifo
<1>1. Init => F!Init
  BY ContentsRing, EmptyRing DEF Init, F!Init, F!Result, Result
<1>2. TypeOK /\ [Next]_vars => [F!Next]_(F!vars)
  BY StepImplements
<1> QED  BY <1>1, <1>2, TypeCorrect, PTL DEF Spec, ImplementsFifo, F!Spec
=============================================================================
