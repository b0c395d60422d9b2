--------------------------- MODULE LibraryProofs ---------------------------
(***************************************************************************)
(* Five parts of the library: logbuffer.c keeps the last bytes put, for    *)
(* every size of the memory and every sequence of puts; pool.c hands every *)
(* element to one owner, for every size and number of blocks; md5.c hashes *)
(* the padded message, however it is cut into pieces; protothreads keep    *)
(* their places and their buffer, for every number of items; and efence.c  *)
(* keeps its slots and its fences right, for every page size and every     *)
(* sequence of calls.                                                      *)
(***************************************************************************)
EXTENDS LogBuffer, Pool, Md5, Protothread, Efence, SequenceTheorems, FiniteSetTheorems,
        WellFoundedInduction, TLAPS

(* Which byte of the stream each cell holds.  Until the memory has been    *)
(* filled, cell i holds byte i + 1; from then on the cells from tail on    *)
(* hold the older and the cells before tail the newer of the last Size     *)
(* bytes.                                                                  *)
Cells ==
  /\ ~round_flag => /\ total = tail
                    /\ \A i \in Index : i < tail => mem[i] = i + 1
  /\ round_flag => /\ total >= Size
                   /\ \A i \in Index :
                        mem[i] = IF i >= tail THEN total - Size + 1 + (i - tail)
                                 ELSE total - tail + 1 + i

Inv == TypeOK /\ Cells

(* What a put does to each variable, with d bytes dropped from its front   *)
(* and length stored.                                                      *)
Stored(d, length) ==
  /\ d > 0 => length = Size
  /\ total' = total + d + length
  /\ tail + length < Size => tail' = tail + length /\ round_flag' = round_flag
  /\ tail + length >= Size => tail' = tail + length - Size /\ round_flag' = TRUE
  /\ mem' = [i \in Index |->
               IF i >= tail /\ i - tail < length THEN total + d + (i - tail) + 1
               ELSE IF (Size - tail) + i < length THEN total + d + ((Size - tail) + i) + 1
               ELSE mem[i]]

(* A put drops all but the last Size bytes and stores the others.          *)
LEMMA PutStores ==
  ASSUME TypeOK, NEW n \in 0..MaxPut, logbuffer_puts(n)
  PROVE  \E d \in Nat, length \in 0..Size : Stored(d, length)
<1> USE SizeAssumption, PutAssumption
<1> DEFINE d == Discarded(n)
           length == n - d
<1>1. /\ d \in Nat /\ length \in 0..Size /\ n = d + length
      /\ d > 0 => length = Size
  BY DEF Discarded
<1>2. /\ total' = total + n
      /\ tail' = IF tail + length >= Size THEN tail + length - Size ELSE tail + length
      /\ round_flag' = (round_flag \/ tail + length >= Size)
      /\ mem' = [i \in Index |->
                   IF i >= tail /\ i - tail < length THEN total + d + (i - tail) + 1
                   ELSE IF (Size - tail) + i < length
                        THEN total + d + ((Size - tail) + i) + 1
                   ELSE mem[i]]
  BY Zenon DEF logbuffer_puts, AtEnd
<1>3. total \in Nat /\ tail \in Index /\ round_flag \in BOOLEAN
  BY DEF TypeOK
<1> HIDE DEF d
<1>4. total' = total + d + length
  BY <1>1, <1>2, <1>3
<1>5. tail + length < Size => tail' = tail + length /\ round_flag' = round_flag
  BY <1>1, <1>2, <1>3 DEF Index
<1>6. tail + length >= Size => tail' = tail + length - Size /\ round_flag' = TRUE
  BY <1>1, <1>2, <1>3 DEF Index
<1> HIDE DEF length
<1> QED  BY <1>1, <1>2, <1>4, <1>5, <1>6 DEF Stored

(* A put, long or short, moves tail within the memory.                     *)
LEMMA PutKeepsType ==
  ASSUME TypeOK, NEW n \in 0..MaxPut, logbuffer_puts(n)
  PROVE  TypeOK'
<1> USE SizeAssumption, PutAssumption
<1>1. PICK d \in Nat, length \in 0..Size : Stored(d, length)
  BY PutStores
<1>2. total \in Nat /\ tail \in Index /\ round_flag \in BOOLEAN /\ mem \in [Index -> Nat]
  BY DEF TypeOK
<1>3. mem' \in [Index -> Nat]
  <2>1. \A i \in Index :
          /\ i >= tail => total + d + (i - tail) + 1 \in Nat
          /\ total + d + ((Size - tail) + i) + 1 \in Nat
          /\ mem[i] \in Nat
    BY <1>2 DEF Index
  <2> QED  BY <1>1, <2>1 DEF Stored
<1>4. CASE tail + length < Size
  <2>1. tail' = tail + length /\ round_flag' = round_flag /\ total' = total + d + length
    BY <1>1, <1>4 DEF Stored
  <2>2. tail' \in Index /\ total' \in Nat
    BY <1>2, <1>4, <2>1 DEF Index
  <2> QED  BY <1>2, <1>3, <2>1, <2>2 DEF TypeOK
<1>5. CASE tail + length >= Size
  <2>1. tail' = tail + length - Size /\ round_flag' = TRUE /\ total' = total + d + length
    BY <1>1, <1>5 DEF Stored
  <2>2. tail' \in Index /\ total' \in Nat
    BY <1>2, <1>5, <2>1 DEF Index
  <2> QED  BY <1>3, <2>1, <2>2 DEF TypeOK
<1> QED  BY <1>2, <1>4, <1>5 DEF Index

(* A put leaves in every cell the byte of the stream that belongs there.   *)
LEMMA PutKeepsCells ==
  ASSUME Inv, NEW n \in 0..MaxPut, logbuffer_puts(n)
  PROVE  Cells'
<1> USE SizeAssumption, PutAssumption
<1>1. PICK d \in Nat, length \in 0..Size : Stored(d, length)
  BY PutStores DEF Inv
<1>2. total \in Nat /\ tail \in Index /\ round_flag \in BOOLEAN /\ mem \in [Index -> Nat]
  BY DEF Inv, TypeOK
<1>3. \A i \in Index : mem'[i] =
        IF i >= tail /\ i - tail < length THEN total + d + (i - tail) + 1
        ELSE IF (Size - tail) + i < length THEN total + d + ((Size - tail) + i) + 1
        ELSE mem[i]
  BY <1>1 DEF Stored
<1>4. CASE tail + length < Size /\ ~round_flag
  <2>1. /\ d = 0 /\ ~round_flag' /\ total' = total + length
        /\ tail' = tail + length /\ total = tail
    BY <1>1, <1>2, <1>4 DEF Stored, Inv, Cells, Index
  <2>2. ASSUME NEW i \in Index, i < tail' PROVE mem'[i] = i + 1
    <3>1. i < tail => mem[i] = i + 1
      BY <1>4 DEF Inv, Cells
    <3> QED  BY <1>2, <1>3, <1>4, <2>1, <2>2, <3>1 DEF Index
  <2> QED  BY <2>1, <2>2 DEF Cells
<1>5. CASE tail + length < Size /\ round_flag
  <2>1. /\ d = 0 /\ round_flag' /\ total' = total + length
        /\ tail' = tail + length /\ total >= Size
    BY <1>1, <1>2, <1>5 DEF Stored, Inv, Cells, Index
  <2>2. ASSUME NEW i \in Index
        PROVE  mem'[i] = IF i >= tail' THEN total' - Size + 1 + (i - tail')
                         ELSE total' - tail' + 1 + i
    <3>1. mem[i] = IF i >= tail THEN total - Size + 1 + (i - tail)
                   ELSE total - tail + 1 + i
      BY <1>5 DEF Inv, Cells
    <3> QED  BY <1>2, <1>3, <1>5, <2>1, <3>1 DEF Index
  <2> QED  BY <1>2, <2>1, <2>2 DEF Cells, Index
<1>6. CASE tail + length >= Size
  <2>1. /\ round_flag' /\ total' = total + d + length
        /\ tail' = tail + length - Size
        /\ d > 0 => length = Size
    BY <1>1, <1>6 DEF Stored
  <2>2. ASSUME NEW i \in Index
        PROVE  mem'[i] = IF i >= tail' THEN total' - Size + 1 + (i - tail')
                         ELSE total' - tail' + 1 + i
    <3>1. i < tail => mem[i] = IF round_flag THEN total - tail + 1 + i ELSE i + 1
      BY <1>2 DEF Inv, Cells, Index
    <3>2. ~round_flag => total = tail
      BY DEF Inv, Cells
    <3>3. CASE i >= tail
      BY <1>2, <1>3, <1>6, <2>1, <3>3 DEF Index
    <3>4. CASE i < tail /\ (Size - tail) + i < length
      BY <1>2, <1>3, <1>6, <2>1, <3>4 DEF Index
    <3>5. CASE i < tail /\ (Size - tail) + i >= length
      <4>1. d = 0 /\ mem'[i] = mem[i]
        BY <1>2, <1>3, <2>1, <3>5 DEF Index
      <4> QED  BY <1>2, <1>6, <2>1, <3>1, <3>2, <3>5, <4>1 DEF Index
    <3> QED  BY <1>2, <3>3, <3>4, <3>5 DEF Index
  <2>3. total' >= Size
    BY <1>2, <1>6, <2>1 DEF Inv, Cells, Index
  <2> QED  BY <2>1, <2>2, <2>3 DEF Cells
<1> QED  BY <1>2, <1>4, <1>5, <1>6 DEF Index

(* The cells read from tail on, and then from the start, are the last      *)
(* bytes in order.                                                         *)
LEMMA CellsInOrder ==
  ASSUME Inv
  PROVE  LastBytes
<1> USE SizeAssumption
<1>1. CASE round_flag
  BY <1>1 DEF Inv, TypeOK, Cells, LastBytes, logbuffer_gets, Index
<1>2. CASE ~round_flag
  BY <1>2 DEF Inv, TypeOK, Cells, LastBytes, logbuffer_gets, Index
<1> QED  BY <1>1, <1>2 DEF Inv, TypeOK

(* A reading is the last bytes put, in order, for every size of the memory *)
(* and puts of every length.                                               *)
THEOREM KeepsLastBytes == Spec => [](TypeOK /\ LastBytes)
<1>1. Init => Inv
  <2> SUFFICES ASSUME Init PROVE Inv
    OBVIOUS
  <2>1. TypeOK
    <3>1. 0 \in Index /\ 0 \in Nat
      BY SizeAssumption DEF Index
    <3> QED  BY <3>1, Zenon DEF Init, TypeOK
  <2>2. Cells
    BY SizeAssumption DEF Init, Cells, Index
  <2> QED  BY <2>1, <2>2 DEF Inv
<1>2. Inv /\ [Next]_vars => Inv'
  <2> SUFFICES ASSUME Inv, [Next]_vars PROVE Inv'
    OBVIOUS
  <2>1. CASE Next
    <3>1. PICK n \in 0..MaxPut : logbuffer_puts(n)
      BY <2>1 DEF Next
    <3> QED  BY <3>1, PutKeepsType, PutKeepsCells DEF Inv
  <2>2. CASE UNCHANGED vars
    BY <2>2 DEF vars, Inv, TypeOK, Cells, Index
  <2> QED  BY <2>1, <2>2
<1>3. Inv => TypeOK /\ LastBytes
  BY CellsInOrder DEF Inv
<1> QED  BY <1>1, <1>2, <1>3, PTL DEF Spec
-----------------------------------------------------------------------------
Shape ==
  /\ status \in {"down", "up", "crashed"}
  /\ used \in 0..BlockSize-1
  /\ block \in -1..MaxBlocks-1
  /\ blocks_used \in Nat
  /\ blocks \subseteq BlockIndex
  /\ freed \in Seq(Element)
  /\ live \subseteq Element
  /\ heap \subseteq BlockIndex
  /\ oom \in BOOLEAN

(* While the pool is up its blocks are the ones on the heap, before the    *)
(* first block nothing is left to carve, and p->block is in the array.     *)
UpShape ==
  status = "up" =>
    /\ blocks_used > 0
    /\ heap = blocks
    /\ block = -1 => used = BlockSize - 1

(* Without a failed malloc the blocks have no gap, and reach to p->block.  *)
NoGap ==
  status = "up" /\ ~oom =>
    /\ \A b \in blocks : \A c \in 0..b : c \in blocks
    /\ \A c \in 0..block : c \in blocks

DownIsEmpty == status = "down" => live = {}

PoolInv ==
  /\ Shape
  /\ UpShape
  /\ NoGap
  /\ DownIsEmpty
  /\ EveryElementOnce
  /\ HandedOutExists
  /\ DeinitFreesAll
-----------------------------------------------------------------------------
(* The freed list.                                                         *)
LEMMA PushFreed ==
  ASSUME NEW f \in Seq(Element), IsInjective(f), NEW e \in Element, e \notin Range(f)
  PROVE  /\ <<e>> \o f \in Seq(Element)
         /\ IsInjective(<<e>> \o f)
         /\ Range(<<e>> \o f) = Range(f) \union {e}
<1> DEFINE g == <<e>> \o f
<1>1. <<e>> \in Seq(Element) /\ Len(<<e>>) = 1 /\ <<e>>[1] = e
  OBVIOUS
<1>2. /\ g \in Seq(Element) /\ Len(g) = Len(f) + 1 /\ Len(f) \in Nat /\ g[1] = e
      /\ \A i \in 2..Len(f) + 1 : g[i] = f[i - 1]
      /\ \A i \in 1..Len(f) : g[i + 1] = f[i]
  BY <1>1, ConcatProperties, LenProperties
<1>3. DOMAIN g = 1..Len(f) + 1 /\ DOMAIN f = 1..Len(f)
  BY <1>2, LenProperties
<1> HIDE DEF g
<1>4. \A i \in 1..Len(f) + 1 : i = 1 \/ (i \in 2..Len(f) + 1 /\ i - 1 \in 1..Len(f))
  BY <1>2
<1>5. \A i \in 1..Len(f) : f[i] # e
  BY <1>3 DEF Range
<1>6. ASSUME NEW i \in 1..Len(f) + 1, NEW j \in 1..Len(f) + 1, g[i] = g[j] PROVE i = j
  <2>1. CASE i = 1
    BY <1>2, <1>4, <1>5, <1>6, <2>1
  <2>2. CASE j = 1
    BY <1>2, <1>4, <1>5, <1>6, <2>2
  <2>3. CASE i # 1 /\ j # 1
    <3>1. i - 1 \in 1..Len(f) /\ j - 1 \in 1..Len(f) /\ f[i - 1] = f[j - 1]
      BY <1>2, <1>4, <1>6, <2>3
    <3>2. i - 1 = j - 1
      BY <1>3, <3>1 DEF IsInjective
    <3> QED  BY <3>2
  <2> QED  BY <2>1, <2>2, <2>3
<1>7. IsInjective(g)
  BY <1>3, <1>6 DEF IsInjective
<1>8. ASSUME NEW x PROVE x \in Range(g) <=> x \in Range(f) \/ x = e
  <2>1. ASSUME x \in Range(g) PROVE x \in Range(f) \/ x = e
    <3>1. PICK i \in 1..Len(f) + 1 : x = g[i]
      BY <1>3, <2>1 DEF Range
    <3> QED  BY <1>2, <1>3, <1>4, <3>1 DEF Range
  <2>2. ASSUME x \in Range(f) PROVE x \in Range(g)
    <3>1. PICK i \in 1..Len(f) : x = f[i]
      BY <1>3, <2>2 DEF Range
    <3>2. i + 1 \in 1..Len(f) + 1 /\ g[i + 1] = x
      BY <1>2, <3>1
    <3> QED  BY <1>3, <3>2 DEF Range
  <2>3. e \in Range(g)
    <3>1. 1 \in 1..Len(f) + 1
      BY <1>2
    <3> QED  BY <1>2, <1>3, <3>1 DEF Range
  <2> QED  BY <2>1, <2>2, <2>3
<1> QED  BY <1>2, <1>7, <1>8 DEF g

LEMMA PopFreed ==
  ASSUME NEW f \in Seq(Element), IsInjective(f), f # <<>>
  PROVE  /\ Tail(f) \in Seq(Element) /\ Head(f) \in Element
         /\ IsInjective(Tail(f))
         /\ Head(f) \notin Range(Tail(f))
         /\ Range(f) = Range(Tail(f)) \union {Head(f)}
<1> DEFINE g == Tail(f)
<1>1. /\ Head(f) \in Element /\ Head(f) = f[1] /\ Len(f) \in Nat \ {0}
      /\ g \in Seq(Element) /\ Len(g) = Len(f) - 1
      /\ \A i \in 1..Len(g) : g[i] = f[i + 1]
  BY HeadTailProperties, EmptySeq
<1>2. DOMAIN g = 1..Len(g) /\ DOMAIN f = 1..Len(f)
  BY <1>1, LenProperties
<1> HIDE DEF g
<1>3. /\ \A i \in 1..Len(g) : i + 1 \in 1..Len(f) /\ i + 1 # 1
      /\ \A i \in 1..Len(f) : i = 1 \/ (i - 1 \in 1..Len(g) /\ (i - 1) + 1 = i)
      /\ 1 \in 1..Len(f)
  BY <1>1
<1>4. IsInjective(g)
  <2> SUFFICES ASSUME NEW i \in 1..Len(g), NEW j \in 1..Len(g), g[i] = g[j] PROVE i = j
    BY <1>2 DEF IsInjective
  <2>0. f[i + 1] = f[j + 1] /\ i + 1 \in DOMAIN f /\ j + 1 \in DOMAIN f
    BY <1>1, <1>2, <1>3
  <2>1. i + 1 = j + 1
    BY <2>0 DEF IsInjective
  <2> QED  BY <2>1
<1>5. Head(f) \notin Range(g)
  <2> SUFFICES ASSUME NEW i \in 1..Len(g), g[i] = f[1] PROVE FALSE
    BY <1>1, <1>2 DEF Range
  <2>1. f[i + 1] = f[1] /\ i + 1 \in DOMAIN f /\ 1 \in DOMAIN f
    BY <1>1, <1>2, <1>3
  <2>2. i + 1 = 1
    BY <2>1 DEF IsInjective
  <2> QED  BY <1>3, <2>2
<1>6. ASSUME NEW x PROVE x \in Range(f) <=> x \in Range(g) \/ x = Head(f)
  <2>1. ASSUME x \in Range(f) PROVE x \in Range(g) \/ x = Head(f)
    <3>1. PICK i \in 1..Len(f) : x = f[i]
      BY <1>2, <2>1 DEF Range
    <3>2. CASE i = 1
      BY <1>1, <3>1, <3>2
    <3>3. CASE i # 1
      <4>1. i - 1 \in 1..Len(g) /\ g[i - 1] = x
        BY <1>1, <1>3, <3>1, <3>3
      <4> QED  BY <1>2, <4>1 DEF Range
    <3> QED  BY <3>2, <3>3
  <2>2. ASSUME x \in Range(g) PROVE x \in Range(f)
    BY <1>1, <1>2, <1>3, <2>2 DEF Range
  <2>3. Head(f) \in Range(f)
    BY <1>1, <1>2, <1>3 DEF Range
  <2> QED  BY <2>1, <2>2, <2>3
<1> QED  BY <1>1, <1>4, <1>5, <1>6 DEF g
-----------------------------------------------------------------------------
(* The rewinding of pool_init and pool_free_all.                           *)
LEMMA RewindEmpties ==
  ASSUME Rewind
  PROVE  /\ used' \in 0..BlockSize-1 /\ used' = BlockSize - 1
         /\ block' \in -1..MaxBlocks-1 /\ block' = -1
         /\ freed' = <<>> /\ freed' \in Seq(Element) /\ live' = {}
         /\ IsInjective(freed') /\ Range(freed') = {} /\ Carved' = {}
<1>1. /\ used' = BlockSize - 1 /\ block' = -1 /\ freed' = <<>> /\ live' = {}
      /\ used' \in 0..BlockSize-1 /\ block' \in -1..MaxBlocks-1
  BY PoolAssumption DEF Rewind
<1>2. <<>> \in Seq(Element) /\ IsInjective(<<>>) /\ Range(<<>>) = {}
  BY EmptySeq DEF IsInjective, Range
<1>3. Carved' = {}
  <2> SUFFICES ASSUME NEW e \in Element PROVE e \notin Carved'
    BY DEF Carved
  <2>1. e[1] \in 0..MaxBlocks-1
    BY DEF Element, BlockIndex
  <2>2. ~(e[1] < block') /\ e[1] # block'
    BY <1>1, <2>1, PoolAssumption
  <2> QED  BY <2>2 DEF Carved
<1> QED  BY <1>1, <1>2, <1>3

LEMMA InitKeeps ==
  ASSUME PoolInv, pool_init
  PROVE  PoolInv'
<1>1. /\ Rewind /\ blocks_used' = 1 /\ blocks' = {} /\ heap' = {} /\ oom' = FALSE
      /\ status' \in {"up", "down"}
  BY DEF pool_init
<1>2. Shape'
  BY <1>1, RewindEmpties DEF Shape
<1>3. UpShape' /\ DownIsEmpty'
  BY <1>1, RewindEmpties DEF UpShape, DownIsEmpty
<1>4. NoGap'
  BY <1>1, RewindEmpties DEF NoGap
<1>5. EveryElementOnce'
  BY <1>1, RewindEmpties DEF EveryElementOnce
<1>6. HandedOutExists' /\ DeinitFreesAll'
  BY <1>1, RewindEmpties DEF HandedOutExists, DeinitFreesAll
<1> QED  BY <1>2, <1>3, <1>4, <1>5, <1>6 DEF PoolInv

LEMMA FreeAllKeeps ==
  ASSUME PoolInv, pool_free_all
  PROVE  PoolInv'
<1>1. /\ Rewind /\ status = "up" /\ UNCHANGED <<status, blocks_used, blocks, heap, oom>>
      /\ Shape /\ UpShape /\ NoGap
  BY DEF pool_free_all, PoolInv
<1>2. Shape'
  BY <1>1, RewindEmpties DEF Shape
<1>3. UpShape' /\ DownIsEmpty' /\ HandedOutExists' /\ DeinitFreesAll'
  BY <1>1, RewindEmpties DEF UpShape, DownIsEmpty, HandedOutExists, DeinitFreesAll
<1>4. NoGap'
  BY <1>1, RewindEmpties DEF NoGap
<1>5. EveryElementOnce'
  BY <1>1, RewindEmpties DEF EveryElementOnce, UpShape, Shape
<1> QED  BY <1>2, <1>3, <1>4, <1>5 DEF PoolInv

LEMMA DeinitKeeps ==
  ASSUME PoolInv, pool_deinit
  PROVE  PoolInv'
<1>1. /\ status = "up" /\ status' = "down" /\ heap' = heap \ FreedByDeinit /\ live' = {}
      /\ UNCHANGED <<used, block, blocks_used, blocks, freed, oom>>
      /\ Shape /\ UpShape /\ NoGap
  BY DEF pool_deinit, PoolInv
<1>2. Shape'
  BY <1>1 DEF Shape
<1>3. UpShape' /\ DownIsEmpty' /\ NoGap' /\ EveryElementOnce' /\ HandedOutExists'
  BY <1>1 DEF UpShape, DownIsEmpty, NoGap, EveryElementOnce, HandedOutExists
<1>4. DeinitFreesAll'
  <2>1. ~oom => FreedByDeinit = heap
    BY <1>1 DEF FreedByDeinit, NoGap, UpShape
  <2> QED  BY <1>1, <2>1 DEF DeinitFreesAll
<1> QED  BY <1>2, <1>3, <1>4 DEF PoolInv

LEMMA RecycleKeeps ==
  ASSUME PoolInv, pool_malloc_recycle
  PROVE  PoolInv'
<1>1. /\ status = "up" /\ freed # <<>> /\ freed' = Tail(freed)
      /\ live' = live \union {Head(freed)}
      /\ UNCHANGED <<status, used, block, blocks_used, blocks, heap, oom>>
      /\ Shape /\ UpShape /\ NoGap /\ EveryElementOnce
  BY DEF pool_malloc_recycle, PoolInv
<1>2. /\ Tail(freed) \in Seq(Element) /\ Head(freed) \in Element
      /\ IsInjective(Tail(freed)) /\ Head(freed) \notin Range(Tail(freed))
      /\ Range(freed) = Range(Tail(freed)) \union {Head(freed)}
  BY <1>1, PopFreed DEF Shape, EveryElementOnce
<1>3. Shape'
  BY <1>1, <1>2 DEF Shape
<1>4. UpShape' /\ DownIsEmpty' /\ NoGap' /\ DeinitFreesAll'
  BY <1>1 DEF UpShape, DownIsEmpty, NoGap, DeinitFreesAll
<1>5. Carved' = Carved
  BY <1>1 DEF Carved
<1>6. EveryElementOnce'
  BY <1>1, <1>2, <1>5 DEF EveryElementOnce
<1>7. HandedOutExists'
  <2>1. Head(freed) \in Carved
    BY <1>1, <1>2 DEF EveryElementOnce
  <2>2. ~oom => Head(freed) \in heap \X (0..BlockSize-1)
    <3> SUFFICES ASSUME ~oom PROVE Head(freed) \in heap \X (0..BlockSize-1)
      OBVIOUS
    <3> DEFINE e == Head(freed)
    <3>1. e[1] \in 0..MaxBlocks-1 /\ e[2] \in 0..BlockSize-1 /\ e = <<e[1], e[2]>>
      BY <1>2 DEF Element, BlockIndex
    <3>2. e[1] \in 0..block
      BY <1>1, <2>1, <3>1, PoolAssumption DEF Carved, Shape
    <3>3. e[1] \in heap
      BY <1>1, <3>2 DEF NoGap, UpShape
    <3> HIDE DEF e
    <3> QED  BY <3>1, <3>3 DEF e
  <2> QED  BY <1>1, <2>2 DEF HandedOutExists, PoolInv
<1> QED  BY <1>3, <1>4, <1>6, <1>7 DEF PoolInv

LEMMA CarveKeeps ==
  ASSUME PoolInv, pool_malloc_carve
  PROVE  PoolInv'
<1> DEFINE e == <<block, used + 1>>
<1>1. /\ status = "up" /\ freed = <<>> /\ used + 1 # BlockSize /\ used' = used + 1
      /\ live' = live \union {e}
      /\ UNCHANGED <<status, block, blocks_used, blocks, freed, heap, oom>>
      /\ Shape /\ UpShape /\ NoGap /\ EveryElementOnce
  BY DEF pool_malloc_carve, BlockIsFull, PoolInv
<1>2. /\ block \in 0..MaxBlocks-1 /\ used + 1 \in 1..BlockSize-1 /\ used \in Nat
  BY <1>1, PoolAssumption DEF Shape, UpShape
<1>3. e \in Element /\ e[1] = block /\ e[2] = used + 1
  BY <1>2, PoolAssumption DEF Element, BlockIndex
<1>4. Carved' = Carved \union {e}
  <2> SUFFICES ASSUME NEW x \in Element
               PROVE  x \in Carved' <=> x \in Carved \/ x = e
    BY <1>3 DEF Carved
  <2>1. x[1] \in 0..MaxBlocks-1 /\ x[2] \in 0..BlockSize-1 /\ x = <<x[1], x[2]>>
    BY DEF Element, BlockIndex
  <2>2. x = e <=> x[1] = block /\ x[2] = used + 1
    BY <2>1
  <2>3. x[2] <= used + 1 <=> x[2] <= used \/ x[2] = used + 1
    BY <1>2, <2>1, PoolAssumption
  <2>4. x[2] = used + 1 => x[2] > 0
    BY <1>2, PoolAssumption
  <2>5. x[1] = block => ~(x[1] < block)
    BY <1>2, PoolAssumption
  <2> HIDE DEF e
  <2> QED  BY <1>1, <2>2, <2>3, <2>4, <2>5 DEF Carved
<1> HIDE DEF e
<1>5. Shape'
  BY <1>1, <1>2, <1>3, PoolAssumption DEF Shape
<1>6. UpShape' /\ DownIsEmpty' /\ NoGap' /\ DeinitFreesAll'
  BY <1>1, <1>2, PoolAssumption DEF UpShape, DownIsEmpty, NoGap, DeinitFreesAll
<1>7. EveryElementOnce'
  <2>1. Range(<<>>) = {}
    BY DEF Range
  <2> QED  BY <1>1, <1>4, <2>1 DEF EveryElementOnce
<1>8. HandedOutExists'
  <2>1. ~oom => block \in heap
    BY <1>1, <1>2, PoolAssumption DEF NoGap, UpShape
  <2>2. ~oom => e \in heap \X (0..BlockSize-1)
    BY <1>2, <2>1, PoolAssumption DEF e
  <2> QED  BY <1>1, <2>2 DEF HandedOutExists, PoolInv
<1> QED  BY <1>5, <1>6, <1>7, <1>8 DEF PoolInv

LEMMA NextBlockKeeps ==
  ASSUME PoolInv, pool_malloc_next_block
  PROVE  PoolInv'
<1> DEFINE b == block + 1
           e == <<b, 0>>
<1>1. /\ status = "up" /\ freed = <<>> /\ used + 1 = BlockSize /\ b < MaxBlocks
      /\ UNCHANGED freed
      /\ Shape /\ UpShape /\ NoGap /\ EveryElementOnce
  BY DEF pool_malloc_next_block, BlockIsFull, PoolInv
<1>2. /\ b \in BlockIndex /\ b \in 0..MaxBlocks-1 /\ block \in Int /\ blocks_used \in Nat
      /\ b <= blocks_used /\ blocks_used > 0
  BY <1>1, PoolAssumption DEF Shape, UpShape, BlockIndex, EveryElementOnce
<1>3. Enlarged(b) \in Nat /\ Enlarged(b) > 0 /\ b \in -1 .. Enlarged(b) - 1
  BY <1>2 DEF Enlarged
<1>4. e \in Element /\ e[1] = b /\ e[2] = 0
  BY <1>2, PoolAssumption DEF Element
<1>5. ASSUME NEW x \in Element
      PROVE  /\ x[1] \in 0..MaxBlocks-1 /\ x[2] \in 0..BlockSize-1
             /\ x = e <=> x[1] = b /\ x[2] = 0
             /\ x[1] < b <=> x[1] < block \/ (x[1] = block /\ x[2] <= used)
             /\ x[1] < b => x[1] # b
             /\ x[2] <= 0 <=> x[2] = 0
             /\ x[2] = 0 => ~(x[2] > 0)
  <2>1. x[1] \in 0..MaxBlocks-1 /\ x[2] \in 0..BlockSize-1 /\ x = <<x[1], x[2]>>
    BY DEF Element, BlockIndex
  <2>2. x[2] <= used
    BY <1>1, <2>1, PoolAssumption DEF Shape
  <2>3. x[1] < b <=> x[1] < block \/ x[1] = block
    BY <1>2, <2>1, PoolAssumption
  <2>4. x[1] < b => x[1] # b
    BY <1>2, <2>1, PoolAssumption
  <2>5. (x[2] <= 0 <=> x[2] = 0) /\ (x[2] = 0 => ~(x[2] > 0))
    BY <2>1, PoolAssumption
  <2>6. x = e <=> x[1] = b /\ x[2] = 0
    BY <2>1
  <2> QED  BY <2>1, <2>2, <2>3, <2>4, <2>5, <2>6
<1>6. Range(<<>>) = {}
  BY DEF Range
<1> HIDE DEF e, b
<1>7. CASE /\ used' = 0 /\ block' = b /\ blocks_used' = Enlarged(b)
           /\ blocks' = blocks \union {b} /\ heap' = heap \union {b}
           /\ live' = live \union {e} /\ UNCHANGED <<status, oom>>
  <2>1. Carved' = Carved \union {e}
    <3> SUFFICES ASSUME NEW x \in Element
                 PROVE  x \in Carved' <=> x \in Carved \/ x = e
      BY <1>4 DEF Carved
    <3> QED  BY <1>5, <1>7 DEF Carved
  <2>2. Shape'
    BY <1>1, <1>2, <1>3, <1>4, <1>7, PoolAssumption DEF Shape
  <2>3. UpShape' /\ DownIsEmpty' /\ DeinitFreesAll'
    BY <1>1, <1>2, <1>3, <1>7 DEF UpShape, DownIsEmpty, DeinitFreesAll
  <2>4. NoGap'
    <3>1. \A c \in 0..b : c = b \/ c \in 0..block
      BY <1>2 DEF b
    <3> QED  BY <1>1, <1>7, <3>1 DEF NoGap
  <2>5. EveryElementOnce'
    BY <1>1, <1>3, <1>6, <1>7, <2>1 DEF EveryElementOnce
  <2>6. HandedOutExists'
    <3>1. e \in (heap \union {b}) \X (0..BlockSize-1)
      BY PoolAssumption DEF e
    <3> QED  BY <1>1, <1>7, <3>1 DEF HandedOutExists, PoolInv
  <2> QED  BY <2>2, <2>3, <2>4, <2>5, <2>6 DEF PoolInv
<1>8. CASE /\ b \notin blocks
           /\ used' = 0 /\ block' = b /\ blocks_used' = Enlarged(b) /\ oom' = TRUE
           /\ UNCHANGED <<status, blocks, heap, live>>
  <2>1. Carved' = Carved
    <3> SUFFICES ASSUME NEW x \in Element PROVE x \in Carved' <=> x \in Carved
      BY DEF Carved
    <3> QED  BY <1>5, <1>8 DEF Carved
  <2>2. Shape'
    BY <1>1, <1>2, <1>3, <1>8, PoolAssumption DEF Shape
  <2>3. UpShape' /\ DownIsEmpty' /\ DeinitFreesAll' /\ NoGap' /\ HandedOutExists'
    BY <1>1, <1>2, <1>3, <1>8 DEF UpShape, DownIsEmpty, DeinitFreesAll, NoGap, HandedOutExists
  <2>4. EveryElementOnce'
    BY <1>1, <1>3, <1>8, <2>1 DEF EveryElementOnce
  <2> QED  BY <2>2, <2>3, <2>4 DEF PoolInv
<1>9. CASE /\ status' = "crashed"
           /\ UNCHANGED <<used, block, blocks_used, blocks, heap, live, oom>>
  BY <1>1, <1>9
  DEF PoolInv, Shape, UpShape, DownIsEmpty, DeinitFreesAll, NoGap, HandedOutExists, EveryElementOnce
<1> QED  BY <1>7, <1>8, <1>9 DEF pool_malloc_next_block, b, e

LEMMA FreeKeeps ==
  ASSUME PoolInv, NEW e \in Element, pool_free(e)
  PROVE  PoolInv'
<1>1. /\ status = "up" /\ e \in live /\ freed' = <<e>> \o freed /\ live' = live \ {e}
      /\ status' = IF e[1] \in blocks THEN "up" ELSE "crashed"
      /\ UNCHANGED <<used, block, blocks_used, blocks, heap, oom>>
      /\ Shape /\ UpShape /\ NoGap /\ EveryElementOnce
  BY DEF pool_free, PoolInv
<1>2. /\ <<e>> \o freed \in Seq(Element) /\ IsInjective(<<e>> \o freed)
      /\ Range(<<e>> \o freed) = Range(freed) \union {e}
  BY <1>1, PushFreed DEF Shape, EveryElementOnce
<1>3. Shape'
  BY <1>1, <1>2 DEF Shape
<1>4. UpShape' /\ DownIsEmpty' /\ NoGap' /\ DeinitFreesAll'
  BY <1>1 DEF UpShape, DownIsEmpty, NoGap, DeinitFreesAll
<1>5. Carved' = Carved
  BY <1>1 DEF Carved
<1>6. EveryElementOnce'
  BY <1>1, <1>2, <1>5 DEF EveryElementOnce
<1>7. HandedOutExists'
  BY <1>1 DEF HandedOutExists, PoolInv
<1> QED  BY <1>3, <1>4, <1>6, <1>7 DEF PoolInv

(* PoolConserved: every element carved is with one owner or on the freed   *)
(* list once, what pool_malloc hands out exists, and pool_deinit frees     *)
(* every block, unless a failed malloc has left a gap (pool.c).            *)
THEOREM PoolSafe == PoolSpec => []PoolConserved
<1>1. PoolInit => PoolInv
  <2> SUFFICES ASSUME PoolInit PROVE PoolInv
    OBVIOUS
  <2>1. freed \in Seq(Element) /\ oom \in BOOLEAN
    <3>1. <<>> \in Seq(Element)
      BY EmptySeq
    <3> QED  BY <3>1 DEF PoolInit
  <2>2. used \in 0..BlockSize-1 /\ block \in -1..MaxBlocks-1 /\ blocks_used \in Nat
    BY PoolAssumption DEF PoolInit
  <2>3. Shape
    BY <2>1, <2>2 DEF PoolInit, Shape
  <2> QED
    BY <2>3
    DEF PoolInit, PoolInv, UpShape, DownIsEmpty, DeinitFreesAll, NoGap, HandedOutExists,
        EveryElementOnce
<1>2. PoolInv /\ [PoolNext]_poolVars => PoolInv'
  <2> SUFFICES ASSUME PoolInv, [PoolNext]_poolVars PROVE PoolInv'
    OBVIOUS
  <2>1. CASE UNCHANGED poolVars
    BY <2>1
    DEF poolVars, PoolInv, Shape, UpShape, DownIsEmpty, DeinitFreesAll, NoGap, HandedOutExists,
        EveryElementOnce, Carved
  <2> QED
    BY <2>1, InitKeeps, DeinitKeeps, FreeAllKeeps, RecycleKeeps, CarveKeeps, NextBlockKeeps,
       FreeKeeps
    DEF PoolNext
<1>3. PoolInv => PoolConserved
  BY DEF PoolInv, PoolConserved
<1> QED  BY <1>1, <1>2, <1>3, PTL DEF PoolSpec

-----------------------------------------------------------------------------
(* MD5.  Arithmetic of the two-word byte count and of whole blocks.        *)

(* A quotient and a remainder are the only ones that make up the number.   *)
LEMMA DivModUnique ==
  ASSUME NEW w \in Nat, w > 0, NEW q \in Nat, NEW r \in 0 .. w - 1
  PROVE  (q * w + r) \div w = q /\ (q * w + r) % w = r
OBVIOUS

LEMMA DivMod ==
  ASSUME NEW a \in Nat, NEW w \in Nat, w > 0, NEW q, q = a \div w, NEW r, r = a % w
  PROVE  q \in Nat /\ r \in 0 .. w - 1 /\ a = q * w + r
OBVIOUS

(* The words that count n bytes.                                           *)
Words2(n) == <<n % WordSize, n \div WordSize>>

(* The double word increment is right for a piece that a word can count,   *)
(* the carry included: the low word is below len exactly when it wrapped.  *)
LEMMA CountAdds ==
  ASSUME NEW n \in Nat, NEW len \in Nat, len <= WordSize
  PROVE  Count(Words2(n), len) = Words2(n + len)
<1>a. WordSize \in Nat /\ WordSize > 0
  BY Md5Assumption DEF LenBytes
<1>0. PICK q, r : q = n \div WordSize /\ r = n % WordSize
  OBVIOUS
<1>c. q \in Nat /\ r \in 0 .. WordSize - 1 /\ n = q * WordSize + r
  BY ONLY n \in Nat, <1>0, <1>a
<1>1. q \in Nat /\ r \in 0 .. WordSize - 1 /\ n = q * WordSize + r /\ WordSize \in Nat /\ WordSize > 0
  BY <1>a, <1>c
<1>2. Count(Words2(n), len) = <<(r + len) % WordSize,
                               IF (r + len) % WordSize < len THEN q + 1 ELSE q>>
  BY <1>0 DEF Count, Words2
<1>3. CASE r + len < WordSize
  <2>1. r + len \in 0 .. WordSize - 1 /\ n + len = q * WordSize + (r + len)
    BY <1>1, <1>3
  <2>2. (n + len) \div WordSize = q /\ (n + len) % WordSize = r + len
    BY <1>1, <2>1, DivModUnique
  <2>3. (r + len) % WordSize = r + len
    BY <1>1, <2>1, DivModUnique
  <2>4. ~(r + len < len)
    BY <1>1
  <2> QED BY <1>2, <2>2, <2>3, <2>4 DEF Words2
<1>4. CASE r + len >= WordSize
  <2> DEFINE s == r + len - WordSize
  <2>1. s \in 0 .. WordSize - 1 /\ s < len /\ r + len = 1 * WordSize + s
    BY <1>1, <1>4
  <2>2. n + len = (q + 1) * WordSize + s /\ q + 1 \in Nat
    BY <1>1, <2>1
  <2> HIDE DEF s
  <2>3. (n + len) \div WordSize = q + 1 /\ (n + len) % WordSize = s
    BY <1>1, <2>1, <2>2, DivModUnique
  <2>4. (r + len) % WordSize = s
    BY <1>1, <2>1, DivModUnique
  <2> QED BY <1>2, <2>1, <2>3, <2>4 DEF Words2
<1> QED BY <1>1, <1>3, <1>4

(* The whole blocks of n bytes leave less than a block.                    *)
LEMMA WholeBlocksFit ==
  ASSUME NEW n \in Nat
  PROVE  /\ WholeBlocks(n) \in 0 .. n
         /\ n - WholeBlocks(n) < Block
         /\ \E k \in Nat : WholeBlocks(n) = k * Block
         /\ n >= Block => WholeBlocks(n) > 0
<1> DEFINE q == n \div Block
           r == n % Block
<1>1. q \in Nat /\ r \in 0 .. Block - 1 /\ n = q * Block + r /\ Block \in Nat /\ Block > 0
  BY DivMod, Md5Assumption DEF LenBytes
<1>2. WholeBlocks(n) = q * Block
  BY DEF WholeBlocks
<1> HIDE DEF q, r
<1>3. q * Block \in Nat
  BY <1>1
<1>4. n >= Block => q * Block > 0
  <2>1. SUFFICES ASSUME n >= Block PROVE q # 0
    <3>1. q # 0 => q * Block > 0
      BY <1>1
    <3> QED BY <2>1, <3>1
  <2> QED BY <1>1, <2>1
<1> QED BY <1>1, <1>2, <1>3, <1>4

(* Eight times a number of two words: the shift by 3 of md5_finish_ctx.    *)
LEMMA ShiftRight ==
  ASSUME NEW n \in Nat, NEW t, t = Words2(n)
  PROVE  /\ (t[1] * 8) % WordSize = (8 * n) % WordSize
         /\ t[2] * 8 + (t[1] * 8) \div WordSize = (8 * n) \div WordSize
<1>a. WordSize \in Nat /\ WordSize > 0
  BY Md5Assumption DEF LenBytes
<1>0. PICK q, r : q = n \div WordSize /\ r = n % WordSize
  OBVIOUS
<1>c. q \in Nat /\ r \in 0 .. WordSize - 1 /\ n = q * WordSize + r
  BY ONLY n \in Nat, <1>0, <1>a
<1>1. q \in Nat /\ r \in 0 .. WordSize - 1 /\ n = q * WordSize + r /\ WordSize \in Nat /\ WordSize > 0
  BY <1>a, <1>c
<1>2. t[1] = r /\ t[2] = q
  BY <1>0 DEF Words2
<1>3. r * 8 \in Nat
  BY <1>1
<1>b. PICK e, a, b : e = r * 8 /\ a = e \div WordSize /\ b = e % WordSize
  OBVIOUS
<1>e. e \in Nat /\ a = e \div WordSize /\ b = e % WordSize
  BY <1>3, <1>b
<1>f. a \in Nat /\ b \in 0 .. WordSize - 1 /\ e = a * WordSize + b
  BY ONLY <1>a, <1>e
<1>4. a \in Nat /\ b \in 0 .. WordSize - 1 /\ r * 8 = a * WordSize + b
  BY <1>b, <1>f
<1>5. t[1] * 8 = r * 8 /\ t[2] * 8 = q * 8
  BY <1>2
<1>6. 8 * n = (q * 8 + a) * WordSize + b
  <2>1. 8 * n = 8 * (q * WordSize) + r * 8
    BY <1>1
  <2>2. (q * 8 + a) * WordSize = 8 * (q * WordSize) + a * WordSize
    BY <1>1, <1>4
  <2> QED BY <2>1, <2>2, <1>1, <1>4
<1>7. (8 * n) \div WordSize = q * 8 + a /\ (8 * n) % WordSize = b
  <2>1. q * 8 + a \in Nat
    BY <1>1, <1>4
  <2> QED BY <1>1, <1>4, <1>6, <2>1, DivModUnique
<1>8. (t[1] * 8) % WordSize = b /\ (t[1] * 8) \div WordSize = a
  BY <1>5, <1>b
<1> QED BY <1>5, <1>7, <1>8

-----------------------------------------------------------------------------
(* Cutting and joining the bytes of a message.                             *)

LEMMA CutJoin ==
  ASSUME NEW S, NEW s \in Seq(S), NEW n \in 0 .. Len(s)
  PROVE  /\ SubSeq(s, 1, n) \in Seq(S) /\ Len(SubSeq(s, 1, n)) = n
         /\ Drop(s, n) \in Seq(S) /\ Len(Drop(s, n)) = Len(s) - n
         /\ SubSeq(s, 1, n) \o Drop(s, n) = s
<1>0. Len(s) \in Nat /\ \A i \in 1 .. Len(s) : s[i] \in S
  BY LenProperties
<1>1. SubSeq(s, 1, n) \in Seq(S) /\ Len(SubSeq(s, 1, n)) = n
  BY <1>0, SubSeqProperties
<1>2. Drop(s, n) \in Seq(S) /\ Len(Drop(s, n)) = Len(s) - n
  BY <1>0, SubSeqProperties DEF Drop
<1>3. SubSeq(s, 1, n) \o Drop(s, n) = SubSeq(s, 1, Len(s))
  <2>1. 1 \in 1 .. Len(s) + 1 /\ n \in 1 - 1 .. Len(s) /\ Len(s) \in n .. Len(s)
    BY <1>0
  <2>2. SubSeq(s, 1, n) \o SubSeq(s, n + 1, Len(s)) = SubSeq(s, 1, Len(s))
    BY <2>1, ConcatAdjacentSubSeq
  <2> QED BY <2>2 DEF Drop
<1>4. SubSeq(s, 1, Len(s)) = s
  BY SubSeqFull
<1> QED BY <1>1, <1>2, <1>3, <1>4

LEMMA BytesJoin ==
  ASSUME NEW a \in Nat, NEW n \in Nat
  PROVE  /\ Bytes(1, a) \in Seq({"byte"} \X Nat) /\ Len(Bytes(1, a)) = a
         /\ Bytes(a + 1, a + n) \in Seq({"byte"} \X Nat) /\ Len(Bytes(a + 1, a + n)) = n
         /\ Bytes(1, a) \o Bytes(a + 1, a + n) = Bytes(1, a + n)
<1> DEFINE B == {"byte"} \X Nat
           s == Bytes(1, a)
           t == Bytes(a + 1, a + n)
           u == Bytes(1, a + n)
<1>1. s \in Seq(B) /\ Len(s) = a /\ \A i \in 1 .. a : s[i] = <<"byte", i>>
  BY DEF Bytes
<1>2. t \in Seq(B) /\ Len(t) = n /\ \A i \in 1 .. n : t[i] = <<"byte", a + i>>
  BY DEF Bytes
<1>3. u \in Seq(B) /\ Len(u) = a + n /\ \A i \in 1 .. a + n : u[i] = <<"byte", i>>
  BY DEF Bytes
<1> HIDE DEF s, t, u, B
<1>4. s \o t \in Seq(B) /\ Len(s \o t) = a + n
  BY <1>1, <1>2, ConcatProperties
<1>5. \A i \in 1 .. a + n : (s \o t)[i] = u[i]
  <2> TAKE i \in 1 .. a + n
  <2>1. (s \o t)[i] = IF i <= a THEN s[i] ELSE t[i - a]
    BY <1>1, <1>2, ConcatProperties
  <2>a. u[i] = <<"byte", i>>
    BY ONLY <1>3, i \in 1 .. a + n
  <2>2. CASE i <= a
    <3>1. i \in 1 .. a
      BY <2>2
    <3>2. s[i] = <<"byte", i>>
      BY ONLY <1>1, <3>1
    <3> QED BY ONLY <2>1, <2>2, <2>a, <3>2
  <2>3. CASE i > a
    <3>1. i - a \in 1 .. n /\ a + (i - a) = i /\ ~(i <= a)
      BY <2>3
    <3>2. t[i - a] = <<"byte", a + (i - a)>>
      BY ONLY <1>2, <3>1
    <3>3. t[i - a] = <<"byte", i>>
      BY ONLY <3>1, <3>2
    <3>4. (s \o t)[i] = t[i - a]
      BY <2>1, <3>1
    <3> QED BY <2>a, <3>3, <3>4, Zenon
  <2>4. i <= a \/ i > a
    OBVIOUS
  <2> QED BY <2>2, <2>3, <2>4, Zenon
<1>6. s \o t = u
  BY <1>3, <1>4, <1>5, SeqEqual
<1> QED BY <1>1, <1>2, <1>6 DEF s, t, u, B

-----------------------------------------------------------------------------
(* The context after the message m, cut in whatever way.                   *)

CtxType(S) == [hashed : Seq(S), count : Nat \X Nat, buf : Seq(S)]

(* Whole blocks were hashed and their bytes counted.                       *)
Counted(c) ==
  /\ \E k \in Nat : Len(c.hashed) = k * Block
  /\ c.count = Words2(Len(c.hashed))

CtxOk(c, S, m) ==
  /\ c \in CtxType(S)
  /\ Counted(c)
  /\ c.hashed \o c.buf = m
  /\ Len(c.buf) <= Block

LEMMA BlockHashed ==
  ASSUME NEW S, NEW c \in CtxType(S), Counted(c),
         NEW s \in Seq(S), NEW j \in Nat, Len(s) = j * Block, Len(s) <= WordSize
  PROVE  /\ md5_process_block(c, s) \in CtxType(S)
         /\ Counted(md5_process_block(c, s))
         /\ md5_process_block(c, s).hashed = c.hashed \o s
         /\ md5_process_block(c, s).buf = c.buf
<1> DEFINE r == md5_process_block(c, s)
<1>0. c.hashed \in Seq(S) /\ c.buf \in Seq(S) /\ c.count \in Nat \X Nat
  BY DEF CtxType
<1>a. Len(c.hashed) \in Nat /\ Len(s) \in Nat
  BY <1>0
<1>1. r.hashed = c.hashed \o s /\ r.buf = c.buf /\ r.count = Count(c.count, Len(s))
  BY DEF CtxType, md5_process_block
<1>2. c.hashed \o s \in Seq(S) /\ Len(c.hashed \o s) = Len(c.hashed) + Len(s)
  BY <1>0, ConcatProperties
<1>3. Count(c.count, Len(s)) = Words2(Len(c.hashed) + Len(s))
  BY <1>a, CountAdds DEF Counted
<1>4. Words2(Len(c.hashed) + Len(s)) \in Nat \X Nat
  <2>1. WordSize \in Nat /\ WordSize > 0 /\ Len(c.hashed) + Len(s) \in Nat
    <3>1. WordSize \in Nat /\ WordSize > 0
      BY ONLY Md5Assumption DEF LenBytes
    <3> QED BY <1>a, <3>1
  <2> DEFINE x == Len(c.hashed) + Len(s)
  <2> HIDE DEF x
  <2>2. x \in Nat
    BY <2>1 DEF x
  <2>3. x % WordSize \in Nat /\ x \div WordSize \in Nat
    BY ONLY <2>1, <2>2
  <2>4. Words2(x) \in Nat \X Nat
    BY <2>3 DEF Words2
  <2> QED BY <2>4 DEF x
<1>5. r \in CtxType(S)
  <2>1. [c EXCEPT !.hashed = c.hashed \o s, !.count = Words2(Len(c.hashed) + Len(s))] \in CtxType(S)
    BY <1>2, <1>4 DEF CtxType
  <2> QED BY <2>1, <1>3 DEF md5_process_block
<1>6. \E k \in Nat : Len(c.hashed \o s) = k * Block
  <2>1. PICK k \in Nat : Len(c.hashed) = k * Block
    BY DEF Counted
  <2>2. (k + j) * Block = k * Block + j * Block
    BY Md5Assumption
  <2> QED BY <1>2, <2>1, <2>2
<1>7. Counted(r)
  BY <1>1, <1>2, <1>3, <1>6 DEF Counted
<1> HIDE DEF r
<1>8. r \in CtxType(S) /\ Counted(r) /\ r.hashed = c.hashed \o s /\ r.buf = c.buf
  BY <1>1, <1>5, <1>7
<1> QED BY <1>8 DEF r

(* The first part of md5_process_bytes.                                    *)
LEMMA BufferFilled ==
  ASSUME NEW S, NEW m, NEW c, CtxOk(c, S, m), NEW s \in Seq(S)
  PROVE  \E n \in 0 .. Len(s) :
           /\ AddToBuffer(c, s)[2] = Drop(s, n)
           /\ CtxOk(AddToBuffer(c, s)[1], S, m \o SubSeq(s, 1, n))
           /\ n < Len(s) => Len(AddToBuffer(c, s)[1].buf) = 0
<1> DEFINE left_over == Len(c.buf)
           add == IF 2*Block - left_over > Len(s) THEN Len(s) ELSE 2*Block - left_over
           b == c.buf \o SubSeq(s, 1, add)
           w == WholeBlocks(Len(b))
           p == md5_process_block(c, SubSeq(b, 1, w))
<1>0. /\ c \in CtxType(S) /\ c.hashed \in Seq(S) /\ c.buf \in Seq(S)
      /\ c.hashed \o c.buf = m /\ left_over \in 0 .. Block /\ Counted(c)
  BY Md5Assumption DEF CtxOk, CtxType
<1>1. Block \in Nat /\ Block > 2 /\ WordSize \in Nat /\ 2 * Block <= WordSize
  BY Md5Assumption DEF LenBytes
<1>2. Len(s) \in Nat /\ add \in 0 .. Len(s)
  <2>1. Len(s) \in Nat
    OBVIOUS
  <2> HIDE DEF left_over
  <2>2. left_over \in 0 .. Block /\ Block \in Nat
    BY <1>0, <1>1
  <2>3. CASE 2*Block - left_over > Len(s)
    BY <2>1, <2>3
  <2>4. CASE ~(2*Block - left_over > Len(s))
    BY <2>1, <2>2, <2>4
  <2> QED BY <2>1, <2>3, <2>4
<1>3. AddToBuffer(c, s) =
        <<IF left_over + add > Block THEN [p EXCEPT !.buf = Drop(b, w)] ELSE [c EXCEPT !.buf = b], Drop(s, add)>>
  BY DEF AddToBuffer
<1>4. left_over + add <= 2 * Block /\ (add < Len(s) => left_over + add = 2 * Block)
  <2> HIDE DEF left_over
  <2>1. Len(s) \in Nat /\ left_over \in 0 .. Block /\ Block \in Nat
    BY <1>0, <1>1
  <2>2. CASE 2*Block - left_over > Len(s)
    BY <2>1, <2>2
  <2>3. CASE ~(2*Block - left_over > Len(s))
    BY <2>1, <2>3
  <2> QED BY <2>2, <2>3
<1> DEFINE u == SubSeq(s, 1, add)
<1>5. u \in Seq(S) /\ Len(u) = add
  BY <1>2, CutJoin
<1>6. b \in Seq(S) /\ Len(b) = left_over + add
  BY <1>0, <1>5, ConcatProperties
<1>7. c.hashed \o b = m \o u
  <2> HIDE DEF u
  <2>1. (c.hashed \o c.buf) \o u = c.hashed \o (c.buf \o u)
    <3> DEFINE x == c.hashed
               y == c.buf
    <3>1. x \in Seq(S) /\ y \in Seq(S) /\ u \in Seq(S)
      BY <1>0, <1>5
    <3> HIDE DEF x, y
    <3>2. (x \o y) \o u = x \o (y \o u)
      BY ONLY <3>1, ConcatAssociative
    <3> QED BY <3>2 DEF x, y
  <2> QED BY <1>0, <2>1 DEF u
<1> HIDE DEF left_over, add, b, u
<1>8. CASE left_over + add > Block
  <2>1. w \in 0 .. Len(b) /\ Len(b) - w < Block /\ Len(b) \in Nat /\ \E k \in Nat : w = k * Block
    BY <1>0, <1>2, <1>6, WholeBlocksFit
  <2> HIDE DEF w
  <2>2. PICK k \in Nat : w = k * Block
    BY <2>1
  <2> DEFINE d == SubSeq(b, 1, w)
             e == Drop(b, w)
  <2>3. d \in Seq(S) /\ Len(d) = k * Block /\ e \in Seq(S) /\ Len(e) = Len(b) - w /\ d \o e = b
    BY <1>6, <2>1, <2>2, CutJoin
  <2>4. Len(d) <= WordSize
    BY <1>1, <1>4, <1>6, <2>1, <2>2, <2>3
  <2> HIDE DEF d, e
  <2> DEFINE q == md5_process_block(c, d)
             r == [q EXCEPT !.buf = e]
  <2>5. q \in CtxType(S) /\ Counted(q) /\ q.hashed = c.hashed \o d /\ q.buf = c.buf
    BY <1>0, <2>3, <2>4, BlockHashed
  <2> HIDE DEF q
  <2>6. r \in CtxType(S) /\ r.hashed = q.hashed /\ r.count = q.count /\ r.buf = e
    BY <2>3, <2>5 DEF CtxType
  <2>7. AddToBuffer(c, s)[1] = r /\ AddToBuffer(c, s)[2] = Drop(s, add)
    BY <1>3, <1>8 DEF q, d, e
  <2> HIDE DEF r
  <2>8. Counted(r)
    BY <2>5, <2>6 DEF Counted
  <2>9. r.hashed \o r.buf = m \o u
    <3>1. r.hashed \o r.buf = (c.hashed \o d) \o e
      BY <2>5, <2>6
    <3>2. (c.hashed \o d) \o e = c.hashed \o (d \o e)
      <4> DEFINE x == c.hashed
      <4>1. x \in Seq(S) /\ d \in Seq(S) /\ e \in Seq(S)
        BY <1>0, <2>3
      <4> HIDE DEF x
      <4>2. (x \o d) \o e = x \o (d \o e)
        BY ONLY <4>1, ConcatAssociative
      <4> QED BY <4>2 DEF x
    <3> QED BY <3>1, <3>2, <2>3, <1>7
  <2>10. Len(r.buf) <= Block
    BY <1>1, <2>1, <2>3, <2>6
  <2>11. add < Len(s) => Len(r.buf) = 0
    <3>1. SUFFICES ASSUME add < Len(s) PROVE Len(e) = 0
      BY <2>6
    <3>2. Len(b) = 2 * Block
      BY <3>1, <1>4, <1>6
    <3>3. k * Block <= 2 * Block /\ 2 * Block - k * Block < Block
      BY <2>1, <2>2, <3>2
    <3>4. k = 2
      <4>1. k > 2 => k * Block > 2 * Block
        BY <1>1
      <4>2. k <= 1 => k * Block <= Block
        BY <1>1
      <4>3. k * Block \in Nat
        BY <1>1
      <4> QED BY <3>3, <4>1, <4>2, <4>3, <1>1
    <3> QED BY <3>2, <3>4, <2>2, <2>3, <1>1
  <2>12. CtxOk(r, S, m \o u)
    BY <2>6, <2>8, <2>9, <2>10 DEF CtxOk
  <2> QED BY <1>2, <2>7, <2>11, <2>12 DEF u
<1>9. CASE ~(left_over + add > Block)
  <2> DEFINE r == [c EXCEPT !.buf = b]
  <2>1. r \in CtxType(S) /\ r.hashed = c.hashed /\ r.count = c.count /\ r.buf = b
    BY <1>0, <1>6 DEF CtxType
  <2>2. AddToBuffer(c, s)[1] = r /\ AddToBuffer(c, s)[2] = Drop(s, add)
    BY <1>3, <1>9
  <2> HIDE DEF r
  <2>3. Counted(r)
    BY <1>0, <2>1 DEF Counted
  <2>4. Len(r.buf) <= Block /\ ~(add < Len(s))
    BY <1>0, <1>1, <1>2, <1>4, <1>6, <1>9, <2>1
  <2>5. CtxOk(r, S, m \o u)
    BY <1>7, <2>1, <2>3, <2>4 DEF CtxOk
  <2> QED BY <1>2, <2>2, <2>4, <2>5 DEF u
<1> QED BY <1>8, <1>9

(* A piece of a message reaches the context whole, behind the bytes that   *)
(* came before it, whatever its length and whatever waits in the buffer.   *)
LEMMA PieceKept ==
  ASSUME NEW S, NEW m, NEW c, CtxOk(c, S, m), NEW s \in Seq(S), Len(s) <= WordSize
  PROVE  CtxOk(md5_process_bytes(c, s), S, m \o s)
<1> DEFINE step == IF c.buf # <<>> THEN AddToBuffer(c, s) ELSE <<c, s>>
           c1 == step[1]
           s1 == step[2]
           n == IF Len(s1) > Block THEN WholeBlocks(Len(s1)) ELSE 0
           c2 == IF n > 0 THEN md5_process_block(c1, SubSeq(s1, 1, n)) ELSE c1
           s2 == Drop(s1, n)
           r == IF s2 # <<>> THEN [c2 EXCEPT !.buf = s2] ELSE c2
<1>0. md5_process_bytes(c, s) = r
  BY DEF md5_process_bytes
<1>1. Len(s) \in Nat /\ Block \in Nat /\ Block > 2 /\ WordSize \in Nat
  BY Md5Assumption DEF LenBytes
<1>2. \E k \in 0 .. Len(s) :
        /\ s1 = Drop(s, k)
        /\ CtxOk(c1, S, m \o SubSeq(s, 1, k))
        /\ k < Len(s) => Len(c1.buf) = 0
  <2>1. CASE c.buf # <<>>
    BY <2>1, BufferFilled
  <2>2. CASE c.buf = <<>>
    <3>1. c1 = c /\ s1 = s /\ Len(c1.buf) = 0
      BY <2>2
    <3>2. Drop(s, 0) = s
      BY <1>1, SubSeqFull DEF Drop
    <3>3. SubSeq(s, 1, 0) = <<>>
      BY SubSeqEmpty
    <3>4. m \in Seq(S)
      BY ConcatProperties DEF CtxOk, CtxType
    <3>5. m \o <<>> = m
      BY <3>4, ConcatEmptySeq
    <3>6. 0 \in 0 .. Len(s)
      BY <1>1
    <3> HIDE DEF c1, s1
    <3> QED BY <3>1, <3>2, <3>3, <3>5, <3>6
  <2> QED BY <2>1, <2>2
<1> HIDE DEF step, c1, s1
<1>3. PICK k \in 0 .. Len(s) :
        /\ s1 = Drop(s, k)
        /\ CtxOk(c1, S, m \o SubSeq(s, 1, k))
        /\ k < Len(s) => Len(c1.buf) = 0
  BY <1>2
<1> DEFINE t == SubSeq(s, 1, k)
<1>4. t \in Seq(S) /\ s1 \in Seq(S) /\ Len(s1) = Len(s) - k /\ t \o s1 = s
  BY <1>3, CutJoin
<1>5. c1 \in CtxType(S) /\ Counted(c1) /\ c1.hashed \in Seq(S) /\ c1.buf \in Seq(S) /\ c1.hashed \o c1.buf = m \o t
      /\ Len(c1.buf) <= Block
  BY <1>3 DEF CtxOk, CtxType
<1>a. m \in Seq(S)
  BY ConcatProperties DEF CtxOk, CtxType
<1> HIDE DEF t
<1>6. (m \o t) \o s1 = m \o s
  <2>1. (m \o t) \o s1 = m \o (t \o s1)
    <3>1. m \in Seq(S) /\ t \in Seq(S) /\ s1 \in Seq(S)
      BY <1>4, <1>a
    <3> QED BY ONLY <3>1, ConcatAssociative
  <2> QED BY <1>4, <2>1
<1>7. CASE Len(s1) = 0
  <2>1. s1 = <<>> /\ n = 0
    BY <1>1, <1>4, <1>7
  <2>2. s2 = <<>>
    BY <2>1 DEF Drop
  <2>3. r = c1
    BY <2>1, <2>2
  <2>4. m \o s = m \o t
    <3>1. m \o t \in Seq(S)
      BY <1>4, <1>a, ConcatProperties
    <3>2. (m \o t) \o <<>> = m \o t
      BY <3>1, ConcatEmptySeq
    <3> QED BY <1>6, <2>1, <3>2
  <2> HIDE DEF r
  <2> QED BY <1>0, <1>3, <2>3, <2>4 DEF t
<1>8. CASE Len(s1) # 0
  <2>1. c1.buf = <<>> /\ c1.hashed = m \o t
    <3>1. Len(c1.buf) = 0
      BY <1>3, <1>4, <1>8, <1>1
    <3>2. c1.buf = <<>>
      BY <3>1, <1>5
    <3>3. c1.hashed \o <<>> = c1.hashed
      BY <1>5, ConcatEmptySeq
    <3> QED BY <3>2, <3>3, <1>5
  <2>2. n \in 0 .. Len(s1) /\ Len(s1) - n <= Block /\ Len(s1) \in Nat /\ Len(s1) <= WordSize
        /\ \E j \in Nat : n = j * Block
    <3>1. Len(s1) \in Nat /\ Len(s1) <= WordSize
      BY <1>1, <1>3, <1>4
    <3>2. CASE Len(s1) > Block
      <4>1. n = WholeBlocks(Len(s1))
        BY <3>2
      <4> HIDE DEF n
      <4>2. n \in 0 .. Len(s1) /\ Len(s1) - n < Block /\ \E j \in Nat : n = j * Block
        BY <3>1, <4>1, WholeBlocksFit
      <4>3. Len(s1) - n <= Block
        BY <3>1, <4>2, <1>1
      <4> QED BY <3>1, <4>2, <4>3
    <3>3. CASE ~(Len(s1) > Block)
      <4>1. n = 0 /\ 0 * Block = 0
        BY <3>3, <1>1
      <4> HIDE DEF n
      <4> QED BY <3>1, <3>3, <4>1, <1>1
    <3> QED BY <3>2, <3>3
  <2> HIDE DEF n
  <2> DEFINE d == SubSeq(s1, 1, n)
  <2>3. d \in Seq(S) /\ Len(d) = n /\ s2 \in Seq(S) /\ Len(s2) = Len(s1) - n /\ d \o s2 = s1
    BY <1>4, <2>2, CutJoin
  <2> HIDE DEF d, s2
  <2>4. c2 \in CtxType(S) /\ Counted(c2) /\ c2.hashed = c1.hashed \o d /\ c2.buf = <<>>
    <3>1. CASE n > 0
      <4>1. c2 = md5_process_block(c1, d)
        BY <3>1 DEF d
      <4>2. Len(d) <= WordSize
        BY <2>2, <2>3, <1>1
      <4> HIDE DEF c2
      <4> QED BY <4>1, <4>2, <1>5, <2>1, <2>2, <2>3, BlockHashed
    <3>2. CASE n = 0
      <4>1. c2 = c1 /\ d = <<>>
        BY <3>2, <2>3
      <4>2. c1.hashed \o <<>> = c1.hashed
        BY <1>5, ConcatEmptySeq
      <4> HIDE DEF c2
      <4> QED BY <4>1, <4>2, <1>5, <2>1
    <3> QED BY <3>1, <3>2, <2>2
  <2> HIDE DEF c2
  <2>5. r \in CtxType(S) /\ r.hashed = c2.hashed /\ r.count = c2.count /\ r.buf = s2
    <3>1. CASE s2 # <<>>
      BY <3>1, <2>3, <2>4 DEF CtxType
    <3>2. CASE s2 = <<>>
      BY <3>2, <2>3, <2>4
    <3> QED BY <3>1, <3>2
  <2> HIDE DEF r
  <2>6. Counted(r)
    BY <2>4, <2>5 DEF Counted
  <2>7. r.hashed \o r.buf = m \o s
    <3>1. r.hashed \o r.buf = ((m \o t) \o d) \o s2
      BY <2>1, <2>4, <2>5
    <3>2. m \o t \in Seq(S)
      BY <1>4, <1>a, ConcatProperties
    <3>3. ((m \o t) \o d) \o s2 = (m \o t) \o (d \o s2)
      <4> DEFINE mt == m \o t
      <4>2. mt \in Seq(S) /\ d \in Seq(S) /\ s2 \in Seq(S)
        BY <2>3, <3>2
      <4> HIDE DEF mt
      <4>3. (mt \o d) \o s2 = mt \o (d \o s2)
        BY ONLY <4>2, ConcatAssociative
      <4> QED BY <4>3 DEF mt
    <3> QED BY <3>1, <3>3, <2>3, <1>6
  <2>8. Len(r.buf) <= Block
    BY <2>2, <2>3, <2>5, <1>1
  <2> QED BY <1>0, <2>5, <2>6, <2>7, <2>8 DEF CtxOk
<1> QED BY <1>7, <1>8

(* The padding: what md5_finish_ctx hashes for a message of f bytes.       *)
MsgByte == {"byte"} \X Nat
Padded(f, z) ==
  Bytes(1, f) \o <<<<"0x80">>>> \o [i \in 1 .. z |-> <<"0">>]
    \o <<<<"lo", (8*f) % WordSize>>, <<"hi", ((8*f) \div WordSize) % WordSize>>>>
PadByte == {<<"0x80">>, <<"0">>} \union ({"lo", "hi"} \X Nat)

LEMMA PadFits ==
  ASSUME NEW n \in 0 .. Block
  PROVE  /\ PadLength(n) \in 1 .. Block
         /\ \E j \in Nat : n + PadLength(n) + LenBytes = j * Block
<1>1. Block \in Nat /\ Block > LenBytes /\ LenBytes = 2
  BY Md5Assumption DEF LenBytes
<1>2. CASE n >= Block - LenBytes
  <2>1. PadLength(n) = Block + Block - LenBytes - n
    BY <1>2 DEF PadLength
  <2>2. n + PadLength(n) + LenBytes = 2 * Block
    BY <1>1, <2>1
  <2> QED BY <1>1, <1>2, <2>1, <2>2
<1>3. CASE ~(n >= Block - LenBytes)
  <2>1. PadLength(n) = Block - LenBytes - n
    BY <1>3 DEF PadLength
  <2>2. n + PadLength(n) + LenBytes = 1 * Block
    BY <1>1, <2>1
  <2>3. PadLength(n) \in 1 .. Block
    BY <1>1, <1>3, <2>1
  <2>4. \E j \in Nat : n + PadLength(n) + LenBytes = j * Block
    <3> DEFINE x == n + PadLength(n) + LenBytes
    <3> HIDE DEF x
    <3>1. x = 1 * Block
      BY <2>2 DEF x
    <3>2. \E j \in Nat : x = j * Block
      BY <3>1
    <3> QED BY <3>2 DEF x
  <2> QED BY <2>3, <2>4
<1> QED BY <1>2, <1>3

(* md5_finish_ctx hashes what is left and the padding.                     *)
LEMMA Finished ==
  ASSUME NEW f \in Nat, NEW c, CtxOk(c, MsgByte, Bytes(1, f))
  PROVE  \E z \in 0 .. Block - 1, k \in Nat :
           /\ md5_finish_ctx(c).hashed = Padded(f, z)
           /\ Len(Padded(f, z)) = f + 1 + z + LenBytes
           /\ f + 1 + z + LenBytes = k * Block
<1> DEFINE n == Len(c.buf)
           t == Count(c.count, n)
           pad == [i \in 1 .. PadLength(n) |-> IF i = 1 THEN <<"0x80">> ELSE <<"0">>]
           lo == (t[1] * 8) % WordSize
           hi == (t[2] * 8 + (t[1] * 8) \div WordSize) % WordSize
           tl == <<<<"lo", lo>>, <<"hi", hi>>>>
           z == PadLength(n) - 1
           zs == [i \in 1 .. z |-> <<"0">>]
           h == c.hashed
           b == c.buf
           m == Bytes(1, f)
           S == MsgByte \union PadByte
<1>0. h \in Seq(MsgByte) /\ b \in Seq(MsgByte) /\ n \in Nat /\ n <= Block /\ h \o b = m /\ Len(h) \in Nat
  BY DEF CtxOk, CtxType
<1>1. Block \in Nat /\ Block > 2 /\ WordSize \in Nat /\ 2 * Block <= WordSize /\ WordSize > 0 /\ LenBytes = 2
  BY Md5Assumption DEF LenBytes
<1>2. Len(m) = f /\ m \in Seq(MsgByte)
  BY BytesJoin DEF MsgByte
<1>3. f = Len(h) + n
  <2>1. Len(h \o b) = Len(h) + Len(b)
    BY <1>0, ConcatProperties
  <2> QED BY <1>0, <1>2, <2>1
<1>4. PICK k \in Nat : Len(h) = k * Block
  BY DEF CtxOk, Counted
<1>5. c.count = Words2(Len(h))
  BY DEF CtxOk, Counted
<1>6. t = Words2(f)
  <2> DEFINE lh == Len(h)
  <2>1. lh \in Nat /\ n \in Nat /\ n <= WordSize
    BY <1>0, <1>1
  <2>2. c.count = Words2(lh) /\ f = lh + n
    BY <1>3, <1>5
  <2> HIDE DEF lh, n
  <2>3. Count(Words2(lh), n) = Words2(lh + n)
    BY <2>1, CountAdds
  <2> QED BY <2>2, <2>3
<1>7. lo = (8 * f) % WordSize /\ hi = ((8 * f) \div WordSize) % WordSize
  <2> HIDE DEF t
  <2>1. (t[1] * 8) % WordSize = (8 * f) % WordSize
    BY <1>6, ShiftRight
  <2>2. t[2] * 8 + (t[1] * 8) \div WordSize = (8 * f) \div WordSize
    BY <1>6, ShiftRight
  <2> QED BY <2>1, <2>2
<1>8. n \in 0 .. Block
  BY <1>0, <1>1
<1>9. PICK j \in Nat : n + PadLength(n) + LenBytes = j * Block
  BY <1>8, PadFits
<1>10. PadLength(n) \in 1 .. Block
  BY <1>8, PadFits
<1> HIDE DEF n
<1>11. z \in 0 .. Block - 1 /\ PadLength(n) = z + 1
  BY <1>1, <1>10
<1>12. f + 1 + z + LenBytes = (k + j) * Block /\ k + j \in Nat
  <2>1. (k + j) * Block = k * Block + j * Block
    BY <1>1
  <2> DEFINE p == PadLength(n)
             kb == k * Block
             jb == j * Block
  <2>2. p \in Nat /\ p = z + 1 /\ n + p + 2 = jb /\ f = kb + n /\ kb \in Nat /\ jb \in Nat /\ n \in Nat
        /\ (k + j) * Block = kb + jb
    BY <2>1, <1>0, <1>1, <1>3, <1>4, <1>9, <1>10, <1>11
  <2> HIDE DEF p, kb, jb, z
  <2>3. f + 1 + z + 2 = kb + jb
    BY <2>2, <1>11
  <2> QED BY <2>2, <2>3, <1>1
<1>13. md5_finish_ctx(c).hashed = h \o (b \o pad \o tl)
  <2>1. c \in CtxType(MsgByte)
    BY DEF CtxOk
  <2>2. md5_finish_ctx(c) = md5_process_block([c EXCEPT !.count = t], b \o pad \o tl)
    BY DEF md5_finish_ctx, n
  <2> DEFINE d == [c EXCEPT !.count = t]
             x == b \o pad \o tl
  <2> HIDE DEF t, x
  <2>3. d.hashed = c.hashed /\ d = [hashed |-> d.hashed, count |-> d.count, buf |-> d.buf]
    BY <2>1 DEF CtxType
  <2> HIDE DEF d
  <2>4. md5_process_block(d, x).hashed = d.hashed \o x
    BY <2>3 DEF md5_process_block
  <2> QED BY <2>2, <2>3, <2>4 DEF d, x
<1> DEFINE o == <<<<"0x80">>>>
<1> HIDE DEF h, b, m, z
<1>14. /\ h \in Seq(S) /\ b \in Seq(S) /\ m \in Seq(S) /\ h \o b = m
  <2>1. \A s \in Seq(MsgByte) : s \in Seq(S)
    OBVIOUS
  <2> QED BY <1>0, <1>2, <2>1
<1>15. o \in Seq(S) /\ zs \in Seq(S) /\ Len(o) = 1 /\ Len(zs) = z /\ pad = o \o zs
  <2>1. o \in Seq(PadByte) /\ Len(o) = 1
    BY DEF PadByte
  <2>2. zs \in Seq(PadByte) /\ Len(zs) = z
    BY <1>11 DEF PadByte
  <2>3. pad \in Seq(PadByte) /\ Len(pad) = z + 1
    BY <1>10, <1>11 DEF PadByte
  <2>4. o \o zs \in Seq(PadByte) /\ Len(o \o zs) = z + 1
    BY <1>11, <2>1, <2>2, ConcatProperties
  <2>5. \A i \in 1 .. z + 1 : (o \o zs)[i] = pad[i]
    <3> TAKE i \in 1 .. z + 1
    <3>1. (o \o zs)[i] = IF i <= 1 THEN o[i] ELSE zs[i - 1]
      BY <1>11, <2>1, <2>2, ConcatProperties
    <3>2. pad[i] = IF i = 1 THEN <<"0x80">> ELSE <<"0">>
      BY <1>11
    <3>3. o[1] = <<"0x80">>
      OBVIOUS
    <3>4. i # 1 => zs[i - 1] = <<"0">>
      BY <1>11
    <3>5. i <= 1 <=> i = 1
      BY <1>11
    <3> HIDE DEF o, zs, pad
    <3> QED BY <3>1, <3>2, <3>3, <3>4, <3>5
  <2> HIDE DEF o, zs, pad
  <2>6. pad = o \o zs
    BY <2>3, <2>4, <2>5, SeqEqual
  <2>7. \A s \in Seq(PadByte) : s \in Seq(S)
    OBVIOUS
  <2> QED BY <2>1, <2>2, <2>6, <2>7
<1>16. tl \in Seq(S) /\ Len(tl) = 2 /\ tl = <<<<"lo", (8*f) % WordSize>>, <<"hi", ((8*f) \div WordSize) % WordSize>>>>
  <2>1. lo \in Nat /\ hi \in Nat
    <3> DEFINE x == 8 * f
               y == x \div WordSize
    <3>1. x \in Nat
      OBVIOUS
    <3> HIDE DEF x
    <3>2. x % WordSize \in Nat /\ y \in Nat
      BY ONLY <3>1, <1>1
    <3> HIDE DEF y
    <3>3. y % WordSize \in Nat
      BY ONLY <3>2, <1>1
    <3> QED BY <1>7, <3>2, <3>3 DEF x, y
  <2> HIDE DEF lo, hi
  <2>2. tl \in Seq(PadByte) /\ Len(tl) = 2
    BY <2>1 DEF PadByte
  <2>3. \A s \in Seq(PadByte) : s \in Seq(S)
    OBVIOUS
  <2> HIDE DEF tl
  <2>4. tl \in Seq(S) /\ Len(tl) = 2
    BY <2>2, <2>3
  <2> QED BY <2>4, <1>7 DEF tl
<1> HIDE DEF o, zs, pad, tl, S
<1>th. h \in Seq(S)
  BY <1>14, <1>15, <1>16
<1>tb. b \in Seq(S)
  BY <1>14, <1>15, <1>16
<1>tm. m \in Seq(S)
  BY <1>14, <1>15, <1>16
<1>to. o \in Seq(S)
  BY <1>14, <1>15, <1>16
<1>tzs. zs \in Seq(S)
  BY <1>14, <1>15, <1>16
<1>ttl. tl \in Seq(S)
  BY <1>14, <1>15, <1>16
<1>l. Len(o) = 1 /\ Len(zs) = z /\ Len(tl) = 2
  BY <1>15, <1>16
<1>17. h \o (b \o pad \o tl) = ((m \o o) \o zs) \o tl
  <2> DEFINE p == o \o zs
  <2>1. p \in Seq(S)
    BY <1>15, ConcatProperties
  <2>2. pad = p
    BY <1>15
  <2>3. m \o p = (m \o o) \o zs
    BY ONLY <1>tm, <1>to, <1>tzs, ConcatAssociative DEF p
  <2> HIDE DEF p
  <2>4. (h \o b) \o p = h \o (b \o p)
    BY ONLY <1>th, <1>tb, <2>1, ConcatAssociative
  <2> DEFINE bp == b \o p
  <2>5. bp \in Seq(S)
    BY <1>14, <2>1, ConcatProperties
  <2> HIDE DEF bp
  <2>6. (h \o bp) \o tl = h \o (bp \o tl)
    BY ONLY <1>th, <1>ttl, <2>5, ConcatAssociative
  <2>7. h \o bp = m \o p
    BY <1>14, <2>4 DEF bp
  <2>8. h \o (b \o pad \o tl) = (m \o p) \o tl
    BY <2>2, <2>6, <2>7 DEF bp
  <2> QED BY <2>3, <2>8
<1>18. ((m \o o) \o zs) \o tl = Padded(f, z)
  BY <1>16 DEF Padded, m, o, zs
<1>19. Len(Padded(f, z)) = f + 1 + z + LenBytes
  <2> DEFINE x == m \o o
             y == x \o zs
  <2>1. x \in Seq(S) /\ Len(x) = Len(m) + 1
    <3>1. Len(o) = 1
      BY <1>l
    <3>2. x \in Seq(S) /\ Len(x) = Len(m) + Len(o)
      BY ONLY <1>tm, <1>to, ConcatProperties DEF x
    <3> QED BY <3>1, <3>2
  <2> HIDE DEF x
  <2>2. y \in Seq(S) /\ Len(y) = Len(x) + z
    BY <1>15, <2>1, ConcatProperties
  <2> HIDE DEF y
  <2>3. Len(y \o tl) = Len(y) + 2
    BY <1>16, <2>2, ConcatProperties
  <2>4. Padded(f, z) = y \o tl
    BY <1>18 DEF x, y
  <2> QED BY <1>1, <1>2, <1>11, <2>1, <2>2, <2>3, <2>4 DEF m
<1> DEFINE w == md5_finish_ctx(c)
<1>20. w.hashed = Padded(f, z)
  BY <1>13, <1>17, <1>18
<1> HIDE DEF w
<1> QED BY <1>11, <1>12, <1>19, <1>20 DEF w

-----------------------------------------------------------------------------
(* While a message is fed, the context has it all (md5_process_bytes), or  *)
(* all but what md5_stream's own buffer holds.                             *)
Md5Inv ==
  /\ fed \in Nat
  /\ mode \in {"bytes", "stream", "done", "failed"}
  /\ mode = "bytes" => sbuf = <<>> /\ CtxOk(ctx, MsgByte, Bytes(1, fed))
  /\ mode = "stream" => /\ buf = <<>> /\ sbuf \in Seq(MsgByte) /\ Len(sbuf) < BLOCKSIZE
                        /\ CtxOk(ctx, MsgByte, hashed)
                        /\ hashed \o sbuf = Bytes(1, fed)
  /\ PaddedMessageHashed

LEMMA FreshOk == CtxOk([hashed |-> <<>>, count |-> <<0, 0>>, buf |-> <<>>], MsgByte, <<>>)
<1>1. WordSize \in Nat /\ WordSize > 0 /\ Block \in Nat
  BY Md5Assumption DEF LenBytes
<1>2. 0 = 0 * WordSize + 0 /\ 0 \in 0 .. WordSize - 1 /\ 0 * Block = 0
  BY <1>1
<1>3. 0 % WordSize = 0 /\ 0 \div WordSize = 0
  BY <1>1, <1>2, DivModUnique
<1>4. Words2(0) = <<0, 0>>
  BY <1>3 DEF Words2
<1> DEFINE c == [hashed |-> <<>>, count |-> <<0, 0>>, buf |-> <<>>]
<1>5. c \in CtxType(MsgByte) /\ Len(c.hashed) = 0 /\ c.hashed \o c.buf = <<>> /\ Len(c.buf) <= Block /\ c.count = <<0, 0>>
  BY <1>1 DEF CtxType
<1> HIDE DEF c
<1>6. Counted(c)
  <2>1. Len(c.hashed) = 0 * Block
    BY <1>2, <1>5
  <2>2. \E k \in Nat : Len(c.hashed) = k * Block
    BY <2>1
  <2> QED BY <1>4, <1>5, <2>2 DEF Counted
<1>7. CtxOk(c, MsgByte, <<>>)
  BY <1>5, <1>6 DEF CtxOk
<1> QED BY <1>7 DEF c

LEMMA NoBytes == Bytes(1, 0) = <<>>
<1>1. Bytes(1, 0) \in Seq(MsgByte) /\ Len(Bytes(1, 0)) = 0
  BY BytesJoin DEF MsgByte
<1> QED BY <1>1

(* A context that starts a message.                                        *)
Fresh ==
  /\ hashed = <<>> /\ count = <<0, 0>> /\ buf = <<>> /\ fed = 0 /\ sbuf = <<>>
  /\ mode \in {"bytes", "stream"}

LEMMA FreshInv == Fresh => Md5Inv
<1> SUFFICES ASSUME Fresh PROVE Md5Inv
  OBVIOUS
<1> USE DEF Fresh
<1>1. ctx = [hashed |-> <<>>, count |-> <<0, 0>>, buf |-> <<>>]
  BY DEF ctx
<1>2. CtxOk(ctx, MsgByte, <<>>)
  BY <1>1, FreshOk
<1>3. Bytes(1, fed) = <<>>
  BY NoBytes
<1>4. CtxOk(ctx, MsgByte, Bytes(1, fed)) /\ CtxOk(ctx, MsgByte, hashed)
  BY <1>2, <1>3
<1>5. hashed \o sbuf = Bytes(1, fed)
  BY <1>3
<1>6. sbuf \in Seq(MsgByte) /\ Len(sbuf) < BLOCKSIZE
  BY Md5Assumption DEF BLOCKSIZE, LenBytes
<1>7. PaddedMessageHashed
  BY DEF PaddedMessageHashed
<1>8. fed \in Nat
  OBVIOUS
<1> QED BY <1>4, <1>5, <1>6, <1>7, <1>8 DEF Md5Inv

(* The digest of a message that the context has whole.                     *)
LEMMA FinishHashes ==
  ASSUME fed \in Nat, NEW c, CtxOk(c, MsgByte, Bytes(1, fed)),
         SetCtx(md5_finish_ctx(c)), fed' = fed
  PROVE  PaddedMessageHashed'
<1>1. PICK z \in 0 .. Block - 1, k \in Nat :
           /\ md5_finish_ctx(c).hashed = Padded(fed, z)
           /\ Len(Padded(fed, z)) = fed + 1 + z + LenBytes
           /\ fed + 1 + z + LenBytes = k * Block
  BY Finished
<1>2. hashed' = Padded(fed, z)
  BY <1>1 DEF SetCtx
<1>3. Len(hashed') = fed + 1 + z + 2 /\ Len(hashed') = k * Block
  BY <1>1, <1>2 DEF LenBytes
<1>4. Block \in Nat /\ Block > 2
  BY Md5Assumption DEF LenBytes
<1>5. Len(hashed') % Block = 0
  <2>1. k * Block = k * Block + 0 /\ 0 \in 0 .. Block - 1
    BY <1>4
  <2>2. (k * Block + 0) % Block = 0
    BY <2>1, <1>4, DivModUnique
  <2>3. k * Block + 0 = k * Block
    BY <1>4
  <2> QED BY <1>3, <2>2, <2>3
<1>6. Len(hashed') - fed - 1 - LenBytes = z
  BY <1>3 DEF LenBytes
<1>7. hashed' = Bytes(1, fed) \o <<<<"0x80">>>> \o [i \in 1..z |-> <<"0">>]
          \o <<<<"lo", (8*fed) % WordSize>>, <<"hi", ((8*fed) \div WordSize) % WordSize>>>>
  BY <1>2 DEF Padded
<1> DEFINE h == hashed'
           zz == Len(h) - fed - 1 - LenBytes
<1>8. zz = z
  BY <1>6
<1> HIDE DEF h, zz
<1>9. /\ Len(h) % Block = 0
      /\ zz \in 0 .. Block - 1
      /\ h = Bytes(1, fed') \o <<<<"0x80">>>> \o [i \in 1..zz |-> <<"0">>]
          \o <<<<"lo", (8*fed') % WordSize>>, <<"hi", ((8*fed') \div WordSize) % WordSize>>>>
  <2>1. fed' = fed
    OBVIOUS
  <2> HIDE DEF h, zz
  <2>2. Len(h) % Block = 0
    BY <1>5 DEF h
  <2>3. h = Bytes(1, fed) \o <<<<"0x80">>>> \o [i \in 1..z |-> <<"0">>]
          \o <<<<"lo", (8*fed) % WordSize>>, <<"hi", ((8*fed) \div WordSize) % WordSize>>>>
    BY ONLY <1>7 DEF h
  <2>4. zz \in 0 .. Block - 1
    BY <1>8
  <2>5. h = Bytes(1, fed') \o <<<<"0x80">>>> \o [i \in 1..zz |-> <<"0">>]
          \o <<<<"lo", (8*fed') % WordSize>>, <<"hi", ((8*fed') \div WordSize) % WordSize>>>>
    BY ONLY <2>3, <1>8, <2>1, Zenon
  <2> QED BY <2>2, <2>4, <2>5, Zenon
<1> QED BY <1>9, Zenon DEF PaddedMessageHashed, h, zz

(* One call of md5_process_bytes.                                          *)
LEMMA FeedKeeps ==
  ASSUME MaxPiece <= WordSize, Md5Inv, NEW n \in Nat, Feed(n)
  PROVE  Md5Inv'
<1>0. /\ mode = "bytes" /\ n <= MaxPiece /\ fed' = fed + n /\ mode' = "bytes" /\ sbuf' = sbuf
      /\ SetCtx(md5_process_bytes(ctx, Bytes(fed + 1, fed + n)))
  BY DEF Feed
<1>1. fed \in Nat /\ sbuf = <<>> /\ CtxOk(ctx, MsgByte, Bytes(1, fed))
  BY <1>0 DEF Md5Inv
<1> DEFINE s == Bytes(fed + 1, fed + n)
           r == md5_process_bytes(ctx, s)
<1>2. s \in Seq(MsgByte) /\ Len(s) = n /\ Bytes(1, fed) \o s = Bytes(1, fed + n)
  BY <1>1, BytesJoin DEF MsgByte
<1>3. Len(s) <= WordSize
  BY <1>0, <1>2, Md5Assumption
<1>4. SetCtx(r)
  BY <1>0
<1> HIDE DEF s
<1>5. CtxOk(r, MsgByte, Bytes(1, fed) \o s)
  BY <1>1, <1>2, <1>3, PieceKept
<1>6. CtxOk(r, MsgByte, Bytes(1, fed'))
  BY <1>0, <1>2, <1>5
<1> HIDE DEF r
<1>7. ctx' = r
  <2>1. r \in CtxType(MsgByte)
    BY <1>6 DEF CtxOk
  <2> QED BY <1>4, <2>1 DEF ctx, CtxType, SetCtx
<1>8. CtxOk(ctx', MsgByte, Bytes(1, fed'))
  BY <1>6, <1>7
<1>9. fed' \in Nat
  BY <1>0, <1>1
<1>10. PaddedMessageHashed'
  BY <1>0 DEF PaddedMessageHashed
<1>11. CtxOk(ctx, MsgByte, Bytes(1, fed))'
  BY <1>8 DEF CtxOk, CtxType, Counted, Bytes, Words2
<1> QED BY <1>0, <1>1, <1>9, <1>10, <1>11 DEF Md5Inv

(* One fread of md5_stream.                                                *)
LEMMA StreamReadKeeps ==
  ASSUME Md5Inv, NEW n \in Nat, StreamRead(n)
  PROVE  Md5Inv'
<1> DEFINE s == Bytes(fed + 1, fed + n)
           b == sbuf \o s
<1>0. /\ mode = "stream" /\ fed' = fed + n /\ mode' = "stream" /\ n \in 1 .. BLOCKSIZE - Len(sbuf)
      /\ IF Len(b) = BLOCKSIZE THEN SetCtx(md5_process_block(ctx, b)) /\ sbuf' = <<>>
         ELSE UNCHANGED <<hashed, count, buf>> /\ sbuf' = b
  BY DEF StreamRead
<1>1. /\ fed \in Nat /\ buf = <<>> /\ sbuf \in Seq(MsgByte) /\ Len(sbuf) < BLOCKSIZE
      /\ CtxOk(ctx, MsgByte, hashed) /\ hashed \o sbuf = Bytes(1, fed)
  BY <1>0 DEF Md5Inv
<1>2. s \in Seq(MsgByte) /\ Len(s) = n /\ Bytes(1, fed) \o s = Bytes(1, fed + n)
  BY <1>1, BytesJoin DEF MsgByte
<1>3. Block \in Nat /\ WordSize \in Nat /\ BLOCKSIZE = 2 * Block /\ BLOCKSIZE <= WordSize /\ Block > 2
  BY Md5Assumption DEF BLOCKSIZE, LenBytes
<1>4. ctx \in CtxType(MsgByte) /\ Counted(ctx) /\ ctx.hashed = hashed /\ ctx.count = count /\ ctx.buf = buf
  <2>1. ctx \in CtxType(MsgByte) /\ Counted(ctx)
    BY <1>1 DEF CtxOk
  <2> QED BY <2>1 DEF ctx
<1>5. hashed \in Seq(MsgByte)
  BY <1>4 DEF CtxType
<1> HIDE DEF s
<1>6. b \in Seq(MsgByte) /\ Len(b) = Len(sbuf) + n
  BY <1>1, <1>2, ConcatProperties
<1>7. hashed \o b = Bytes(1, fed')
  <2>1. (hashed \o sbuf) \o s = hashed \o (sbuf \o s)
    <3>1. sbuf \in Seq(MsgByte)
      BY <1>1
    <3>2. s \in Seq(MsgByte)
      BY <1>2
    <3> QED BY ONLY <1>5, <3>1, <3>2, ConcatAssociative
  <2> QED BY <1>0, <1>1, <1>2, <2>1
<1> HIDE DEF b
<1>8. fed' \in Nat
  BY <1>0, <1>1
<1>9. PaddedMessageHashed'
  BY <1>0 DEF PaddedMessageHashed
<1>10. CASE Len(b) = BLOCKSIZE
  <2> DEFINE r == md5_process_block(ctx, b)
  <2>1. Len(b) = 2 * Block /\ Len(b) <= WordSize /\ 2 \in Nat
    BY <1>3, <1>10
  <2>2. r \in CtxType(MsgByte) /\ Counted(r) /\ r.hashed = ctx.hashed \o b /\ r.buf = ctx.buf
    BY <1>4, <1>6, <2>1, BlockHashed
  <2>3. hashed' = r.hashed /\ count' = r.count /\ buf' = r.buf /\ sbuf' = <<>>
    BY <1>0, <1>10 DEF SetCtx
  <2> HIDE DEF r
  <2>4. ctx' = r
    BY <2>2, <2>3 DEF ctx, CtxType
  <2>5. hashed' = hashed \o b /\ buf' = <<>>
    BY <1>1, <1>4, <2>2, <2>3
  <2>6. CtxOk(r, MsgByte, hashed')
    <3>1. r.hashed \in Seq(MsgByte)
      BY <2>2 DEF CtxType
    <3>2. r.hashed \o <<>> = r.hashed
      BY <3>1, ConcatEmptySeq
    <3>3. r.buf = <<>> /\ r.hashed = hashed'
      BY <2>3, <2>5
    <3>4. Len(r.buf) <= Block
      BY <3>3, <1>3
    <3>5. r.hashed \o r.buf = hashed'
      BY <3>2, <3>3
    <3> QED BY <2>2, <3>4, <3>5 DEF CtxOk
  <2>7. hashed' \o sbuf' = Bytes(1, fed')
    <3>1. hashed' \in Seq(MsgByte)
      BY <2>2, <2>3 DEF CtxType
    <3>2. hashed' \o <<>> = hashed'
      BY <3>1, ConcatEmptySeq
    <3> QED BY <1>7, <2>3, <2>5, <3>2
  <2>8. CtxOk(ctx, MsgByte, hashed)'
    BY <2>4, <2>6 DEF CtxOk, CtxType, Counted, Words2
  <2>9. (hashed \o sbuf = Bytes(1, fed))'
    BY <2>7 DEF Bytes
  <2>10. sbuf' \in Seq(MsgByte) /\ Len(sbuf') < BLOCKSIZE
    BY <1>3, <2>3
  <2> QED BY <1>0, <1>8, <1>9, <2>5, <2>8, <2>9, <2>10 DEF Md5Inv, BLOCKSIZE, MsgByte
<1>11. CASE Len(b) # BLOCKSIZE
  <2>1. hashed' = hashed /\ count' = count /\ buf' = buf /\ sbuf' = b
    BY <1>0, <1>11
  <2>2. CtxOk(ctx, MsgByte, hashed)'
    BY <1>1, <2>1 DEF ctx, CtxOk, CtxType, Counted, Words2
  <2>3. (hashed \o sbuf = Bytes(1, fed))'
    BY <1>7, <2>1 DEF Bytes
  <2>4. sbuf' \in Seq(MsgByte) /\ Len(sbuf') < BLOCKSIZE
    <3> DEFINE l == Len(sbuf)
               lb == Len(b)
    <3>1. l \in Nat /\ lb = l + n /\ n \in 1 .. BLOCKSIZE - l /\ BLOCKSIZE \in Nat /\ lb # BLOCKSIZE
      BY <1>0, <1>1, <1>3, <1>6, <1>11
    <3> HIDE DEF l, lb
    <3>2. lb < BLOCKSIZE
      BY ONLY <3>1
    <3> QED BY <1>6, <2>1, <3>2 DEF lb
  <2> QED BY <1>0, <1>1, <1>8, <1>9, <2>1, <2>2, <2>3, <2>4 DEF Md5Inv, BLOCKSIZE, MsgByte
<1> QED BY <1>10, <1>11

(* md5_finish_ctx, after the calls of the caller.                          *)
LEMMA FinishMessageKeeps ==
  ASSUME Md5Inv, FinishMessage
  PROVE  Md5Inv'
<1>0. mode = "bytes" /\ SetCtx(md5_finish_ctx(ctx)) /\ mode' = "done" /\ fed' = fed /\ sbuf' = sbuf
  BY DEF FinishMessage
<1>1. fed \in Nat /\ CtxOk(ctx, MsgByte, Bytes(1, fed))
  BY <1>0 DEF Md5Inv
<1>2. PaddedMessageHashed'
  BY <1>0, <1>1, FinishHashes
<1> QED BY <1>0, <1>1, <1>2 DEF Md5Inv

(* The end of the stream: the rest of its last buffer and the padding.     *)
LEMMA StreamEndKeeps ==
  ASSUME Md5Inv, StreamEnd
  PROVE  Md5Inv'
<1> DEFINE c == IF sbuf # <<>> THEN md5_process_bytes(ctx, sbuf) ELSE ctx
<1>0. /\ mode = "stream" /\ fed' = fed
      /\ \/ SetCtx(md5_finish_ctx(c)) /\ mode' = "done"
         \/ mode' = "failed"
  BY DEF StreamEnd
<1>1. /\ fed \in Nat /\ sbuf \in Seq(MsgByte) /\ Len(sbuf) < BLOCKSIZE
      /\ CtxOk(ctx, MsgByte, hashed) /\ hashed \o sbuf = Bytes(1, fed)
  BY <1>0 DEF Md5Inv
<1>2. CtxOk(c, MsgByte, Bytes(1, fed))
  <2>1. CASE sbuf # <<>>
    <3>1. Len(sbuf) <= WordSize
      BY <1>1, Md5Assumption DEF BLOCKSIZE, LenBytes
    <3>2. CtxOk(md5_process_bytes(ctx, sbuf), MsgByte, hashed \o sbuf)
      BY <1>1, <3>1, PieceKept
    <3> QED BY <1>1, <2>1, <3>2
  <2>2. CASE sbuf = <<>>
    <3>1. hashed \in Seq(MsgByte)
      BY <1>1 DEF CtxOk, CtxType, ctx
    <3>2. hashed \o <<>> = hashed
      BY <3>1, ConcatEmptySeq
    <3> QED BY <1>1, <2>2, <3>2
  <2> QED BY <2>1, <2>2
<1> HIDE DEF c
<1>3. CASE SetCtx(md5_finish_ctx(c)) /\ mode' = "done"
  <2>1. PaddedMessageHashed'
    BY <1>0, <1>1, <1>2, <1>3, FinishHashes
  <2> QED BY <1>0, <1>1, <1>3, <2>1 DEF Md5Inv
<1>4. CASE mode' = "failed"
  <2>1. PaddedMessageHashed'
    BY <1>4 DEF PaddedMessageHashed
  <2> QED BY <1>0, <1>1, <1>4, <2>1 DEF Md5Inv
<1> QED BY <1>0, <1>3, <1>4

LEMMA NextMessageKeeps ==
  ASSUME NextMessage
  PROVE  Md5Inv'
<1>1. Fresh'
  BY DEF NextMessage, Fresh
<1> QED BY <1>1, FreshInv, PTL

(* Nothing is lost in the states of the invariant.                         *)
LEMMA InvHashes == Md5Inv => MessageHashed
<1> SUFFICES ASSUME Md5Inv PROVE MessageHashed
  OBVIOUS
<1>1. PaddedMessageHashed
  BY DEF Md5Inv
<1>2. Block \in Nat
  BY Md5Assumption
<1>3. CASE mode = "bytes"
  <2>1. sbuf = <<>> /\ CtxOk(ctx, MsgByte, Bytes(1, fed))
    BY <1>3 DEF Md5Inv
  <2>2. hashed \in Seq(MsgByte) /\ buf \in Seq(MsgByte) /\ hashed \o buf = Bytes(1, fed) /\ Len(buf) <= Block
    BY <2>1 DEF CtxOk, CtxType, ctx
  <2> DEFINE x == hashed \o buf
  <2>3. x \in Seq(MsgByte)
    BY <2>2, ConcatProperties
  <2> HIDE DEF x
  <2>4. x \o <<>> = x
    BY <2>3, ConcatEmptySeq
  <2> QED BY <1>1, <2>1, <2>2, <2>4 DEF MessageHashed, NothingLost, x
<1>4. CASE mode = "stream"
  <2>1. buf = <<>> /\ CtxOk(ctx, MsgByte, hashed) /\ hashed \o sbuf = Bytes(1, fed)
    BY <1>4 DEF Md5Inv
  <2>2. hashed \in Seq(MsgByte)
    BY <2>1 DEF CtxOk, CtxType, ctx
  <2>3. hashed \o <<>> = hashed
    BY <2>2, ConcatEmptySeq
  <2>4. Len(buf) <= Block
    BY <1>2, <2>1
  <2> QED BY <1>1, <2>1, <2>3, <2>4 DEF MessageHashed, NothingLost
<1>5. CASE mode \notin {"bytes", "stream"}
  BY <1>1, <1>5 DEF MessageHashed, NothingLost
<1> QED BY <1>3, <1>4, <1>5

(* However a message is cut into calls of md5_process_bytes or reads of    *)
(* md5_stream, and whatever its length, what goes through the rounds is    *)
(* the message, padded as RFC 1321 says, with its length in bits, also     *)
(* when the byte count has carried into its high word; provided that no    *)
(* call is given more bytes than a word of the count can hold.             *)
THEOREM DigestOfMessage == MaxPiece <= WordSize /\ Md5Spec => []MessageHashed
<1> SUFFICES ASSUME MaxPiece <= WordSize PROVE Md5Spec => []MessageHashed
  OBVIOUS
<1>1. Md5Init => Md5Inv
  BY FreshInv DEF Md5Init, Fresh
<1>2. Md5Inv /\ [Md5Next]_md5Vars => Md5Inv'
  <2> SUFFICES ASSUME Md5Inv, [Md5Next]_md5Vars PROVE Md5Inv'
    OBVIOUS
  <2>1. ASSUME NEW n \in 0 .. MaxFed, Feed(n) PROVE Md5Inv'
    <3>1. n \in Nat
      BY Md5Assumption
    <3> QED BY <2>1, <3>1, FeedKeeps
  <2>2. ASSUME NEW n \in 0 .. MaxFed, StreamRead(n) PROVE Md5Inv'
    <3>1. n \in Nat
      BY Md5Assumption
    <3> QED BY <2>2, <3>1, StreamReadKeeps
  <2>3. CASE FinishMessage
    BY <2>3, FinishMessageKeeps
  <2>4. CASE StreamEnd
    BY <2>4, StreamEndKeeps
  <2>5. CASE NextMessage
    BY <2>5, NextMessageKeeps
  <2>6. CASE UNCHANGED md5Vars
    BY <2>6 DEF Md5Inv, md5Vars, ctx, PaddedMessageHashed, CtxOk, CtxType, Counted, Bytes, Words2
  <2> QED BY <2>1, <2>2, <2>3, <2>4, <2>5, <2>6 DEF Md5Next
<1> QED BY <1>1, <1>2, InvHashes, PTL DEF Md5Spec

-----------------------------------------------------------------------------
(* Protothreads.                                                           *)

(* The number a loop counter stands for, and the number that follows.      *)
Norm(d) == IF d = NUM_ITEMS THEN 0 ELSE d
Nxt(x) == IF x + 1 = NUM_ITEMS THEN 0 ELSE x + 1

(* The items of the buffer follow each other, from the one the consumer is *)
(* at to the one before the one the producer is at.                        *)
Items(b, p, c) ==
  /\ b \in Seq(0 .. NUM_ITEMS - 1)
  /\ \A i \in 1 .. Len(b) - 1 : b[i + 1] = Nxt(b[i])
  /\ Len(b) = 0 => Norm(p) = Norm(c)
  /\ Len(b) > 0 => b[1] = Norm(c) /\ Norm(p) = Nxt(b[Len(b)])

Lines == {"begin", "loop", "wait_buffer", "wait_mutex", "work"}

PtType ==
  /\ lc \in [Workers \union {"driver"} -> Lines \union {"wait_thread"}]
  /\ sem \in [empty : Nat, full : Nat, mutex : Nat]
  /\ done \in [Workers -> 0 .. NUM_ITEMS]
  /\ result \in [Workers -> {-1, PT_WAITING, PT_ENDED}]
  /\ left \in Workers
  /\ passes \in Nat
  /\ taken \in [item : Int, number : Int] /\ taken.item = taken.number

(* Before the driver has initialised anything.                             *)
NotStarted ==
  /\ running \in {"main", "driver"} /\ line = "begin" /\ lc["driver"] = "begin"
  /\ buffer = <<>> /\ passes = 0 /\ \A t \in Workers : done[t] = 0 /\ result[t] = -1

(* Which function executes, at which line; what has been returned.         *)
Control ==
  /\ running \in Workers \union {"main", "driver"}
  /\ running = "main" => line = "over" \/ (line = "begin" /\ lc["driver"] = "wait_thread")
  /\ running = "driver" => line \in {"wait_thread", "end"}
  /\ running \notin Workers => \A t \in Workers : result[t] = -1
  /\ running \in Workers => /\ line \in Lines /\ lc["driver"] = "wait_thread"
                            /\ result[running] = -1
                            /\ result[Other(running)] = -1 <=> running = left
Pos(t) == IF running = t THEN line ELSE lc[t]

(* Where a worker is in its loop.                                          *)
Places ==
  \A t \in Workers :
    /\ running # t => lc[t] \in {"begin", "wait_buffer"}
    /\ Pos(t) = "begin" => done[t] \in {0, NUM_ITEMS}
    /\ Pos(t) \in {"wait_buffer", "wait_mutex", "work"} => done[t] < NUM_ITEMS

(* The semaphores count the room and the items, but for the one a worker   *)
(* has taken and not used yet.                                             *)
Hold(t) == IF running = t /\ line \in {"wait_mutex", "work"} THEN 1 ELSE 0
Semaphores ==
  /\ sem.mutex = IF running \in Workers /\ line = "work" THEN 0 ELSE 1
  /\ sem.full + Hold("producer") + Len(buffer) = BUFSIZE
  /\ sem.empty + Hold("consumer") = Len(buffer)

(* A build that calls the producer first.                                  *)
MaxPasses == (NUM_ITEMS + BUFSIZE - 1) \div BUFSIZE
Before == passes * BUFSIZE     \* items of the passes that are over
ProducerFirst ==
  /\ running \in Workers \/ line \in {"begin", "wait_thread"} =>
       /\ Before < NUM_ITEMS
       /\ \A t \in Workers : Pos(t) = "begin" => done[t] = 0 \/ result[t] = PT_ENDED
  /\ running \notin Workers /\ line \in {"begin", "wait_thread"} =>
       buffer = <<>> /\ done["producer"] = Before /\ done["consumer"] = Before
  /\ running = "producer" => done["consumer"] = Before /\ done["producer"] = Before + Len(buffer)
  /\ running = "consumer" =>
       /\ done["producer"] = done["consumer"] + Len(buffer)
       /\ result["producer"] = PT_WAITING => done["producer"] = Before + BUFSIZE /\ done["producer"] < NUM_ITEMS
       /\ result["producer"] = PT_ENDED => done["producer"] = NUM_ITEMS
  /\ line \in {"end", "over"} =>
       /\ passes <= MaxPasses
       /\ buffer = <<>> /\ \A t \in Workers : done[t] = NUM_ITEMS

Started ==
  /\ Control /\ Places /\ Semaphores
  /\ Items(buffer, done["producer"], done["consumer"])
  /\ left = "producer" => ProducerFirst

PtInv == PtType /\ (NotStarted \/ Started)

LEMMA OtherWorker == Other("producer") = "consumer" /\ Other("consumer") = "producer"
<1>1. Workers = {"producer", "consumer"}
  BY DEF Workers
<1>2. \A u \in Workers : u # "producer" <=> u = "consumer"
  BY <1>1
<1>3. \A u \in Workers : u # "consumer" <=> u = "producer"
  BY <1>1
<1> QED BY <1>1, <1>2, <1>3 DEF Other

(* What the driver's condition decides.                                    *)
LEMMA Scheduling ==
  /\ PT_SCHEDULE(And(PT_WAITING, PT_WAITING)) /\ PT_SCHEDULE(And(PT_WAITING, PT_ENDED))
  /\ PT_SCHEDULE(And(PT_ENDED, PT_WAITING)) /\ ~PT_SCHEDULE(And(PT_ENDED, PT_ENDED))
BY DEF PT_SCHEDULE, And, PT_WAITING, PT_ENDED, PT_EXITED

(* The passes over are those whose items are all consumed.                 *)
LEMMA PassesBounded ==
  ASSUME NEW k \in Nat, k * BUFSIZE < NUM_ITEMS
  PROVE  k + 1 <= MaxPasses /\ k < NUM_ITEMS
<1>1. NUM_ITEMS \in Nat /\ BUFSIZE \in Nat /\ BUFSIZE > 0
  BY PtAssumption
<1>2. (k + 1) * BUFSIZE = k * BUFSIZE + BUFSIZE /\ k * BUFSIZE \in Nat
  BY <1>1
<1>3. k <= k * BUFSIZE
  BY <1>1
<1>4. PICK a, q : a = NUM_ITEMS + BUFSIZE - 1 /\ q = a \div BUFSIZE
  OBVIOUS
<1>5. a \in Nat /\ a >= (k + 1) * BUFSIZE
  BY <1>1, <1>2, <1>4
<1>6. q \in Nat /\ a < q * BUFSIZE + BUFSIZE
  BY ONLY <1>1, <1>4, <1>5
<1>7. q >= k + 1
  <2> SUFFICES ASSUME q <= k PROVE FALSE
    BY <1>6
  <2>1. q * BUFSIZE <= k * BUFSIZE
    BY <1>1, <1>6
  <2> QED BY <2>1, <1>1, <1>2, <1>5, <1>6
<1>8. MaxPasses = q
  BY <1>4 DEF MaxPasses
<1> QED BY <1>1, <1>2, <1>3, <1>7, <1>8

LEMMA InitPt == ProtothreadInit => PtInv
<1> SUFFICES ASSUME ProtothreadInit PROVE PtInv
  OBVIOUS
<1>1. PtType
  BY PtAssumption DEF ProtothreadInit, PtType, Workers, Lines
<1>2. NotStarted
  BY DEF ProtothreadInit, NotStarted, Workers
<1> QED BY <1>1, <1>2 DEF PtInv

LEMMA MainKeeps == ASSUME PtInv, main PROVE PtInv'
<1>0. /\ running = "main" /\ line = "begin" /\ running' = "driver" /\ line' = lc["driver"]
      /\ UNCHANGED <<lc, sem, done, buffer, result, left, passes, taken>>
  BY DEF main, PT_BEGIN
<1>1. PtType'
  BY <1>0 DEF PtInv, PtType
<1>2. CASE NotStarted
  <2>1. NotStarted'
    BY <1>0, <1>2 DEF NotStarted
  <2> QED BY <1>1, <2>1 DEF PtInv
<1>3. CASE Started
  <2>1. line' = "wait_thread" /\ "main" \notin Workers /\ "driver" \notin Workers
    BY <1>0, <1>3 DEF Started, Control, Workers
  <2>2. Control'
    BY <1>0, <1>3, <2>1 DEF Started, Control
  <2>3. Places'
    BY <1>0, <1>3, <2>1 DEF Started, Places, Pos
  <2>4. Semaphores'
    BY <1>0, <1>3, <2>1 DEF Started, Semaphores, Hold
  <2>5. Items(buffer, done["producer"], done["consumer"])'
    BY <1>0, <1>3 DEF Started
  <2>6. (left = "producer" => ProducerFirst)'
    BY <1>0, <1>3, <2>1 DEF Started, ProducerFirst, Before, MaxPasses, Pos
  <2> QED BY <1>1, <2>2, <2>3, <2>4, <2>5, <2>6 DEF PtInv, Started
<1> QED BY <1>2, <1>3 DEF PtInv

LEMMA DriverBeginKeeps == ASSUME PtInv, driver_thread PROVE PtInv'
<1>0. /\ running = "driver" /\ line = "begin" /\ line' = "wait_thread"
      /\ sem' = [empty |-> 0, full |-> BUFSIZE, mutex |-> 1]
      /\ lc' = [lc EXCEPT !["producer"] = "begin", !["consumer"] = "begin"]
      /\ UNCHANGED <<running, done, buffer, result, left, passes, taken>>
  BY DEF driver_thread
<1>1. NotStarted
  BY <1>0 DEF PtInv, Started, Control
<1>2. PtType'
  BY <1>0, PtAssumption DEF PtInv, PtType, Workers, Lines
<1>3. "main" \notin Workers /\ "driver" \notin Workers
  BY DEF Workers
<1>4. \A t \in Workers : lc'[t] = "begin"
  BY <1>0 DEF PtInv, PtType, Workers
<1>5. Control'
  BY <1>0, <1>1, <1>3 DEF Control, NotStarted
<1>6. Places'
  BY <1>0, <1>1, <1>3, <1>4 DEF Places, NotStarted, Pos
<1>7. Semaphores'
  <2>1. Len(buffer') = 0
    BY <1>0, <1>1 DEF NotStarted
  <2> QED BY <1>0, <1>3, <2>1, PtAssumption DEF Semaphores, Hold
<1>8. Items(buffer, done["producer"], done["consumer"])'
  <2>1. buffer' = <<>> /\ done'["producer"] = done'["consumer"]
    BY <1>0, <1>1 DEF NotStarted, Workers
  <2> QED BY <2>1 DEF Items
<1>9. ProducerFirst'
  <2>1. Before' = 0
    BY <1>0, <1>1, PtAssumption DEF Before, NotStarted
  <2>2. done'["producer"] = 0 /\ done'["consumer"] = 0 /\ buffer' = <<>>
    BY <1>0, <1>1 DEF NotStarted, Workers
  <2> QED BY <1>0, <1>3, <2>1, <2>2, PtAssumption DEF ProducerFirst, Workers
<1> QED BY <1>2, <1>5, <1>6, <1>7, <1>8, <1>9 DEF PtInv, Started

LEMMA WaitThreadKeeps == ASSUME PtInv, PT_WAIT_THREAD PROVE PtInv'
<1>0. /\ running = "driver" /\ line = "wait_thread" /\ running' = left /\ line' = lc[left]
      /\ lc' = [lc EXCEPT !["driver"] = "wait_thread"]
      /\ UNCHANGED <<sem, done, buffer, result, left, passes, taken>>
  BY DEF PT_WAIT_THREAD, PT_BEGIN
<1>1. Started
  BY <1>0 DEF PtInv, NotStarted
<1>2. PtType'
  BY <1>0 DEF PtInv, PtType
<1>3. "main" \notin Workers /\ "driver" \notin Workers /\ left \in Workers /\ Workers = {"producer", "consumer"}
  BY DEF Workers, PtInv, PtType
<1>4. lc'["driver"] = "wait_thread" /\ \A t \in Workers : lc'[t] = lc[t]
  BY <1>0, <1>3 DEF PtInv, PtType
<1>5. line' \in {"begin", "wait_buffer"}
  BY <1>0, <1>1, <1>3 DEF Started, Places
<1>6. Control'
  <2>1. Other(left) \in Workers /\ \A t \in Workers : result[t] = -1
    BY <1>0, <1>1, <1>3, OtherWorker DEF Started, Control
  <2> QED BY <1>0, <1>3, <1>4, <1>5, <2>1 DEF Control, Lines
<1>7. \A t \in Workers : Pos(t)' = lc[t] /\ Pos(t) = lc[t]
  BY <1>0, <1>3, <1>4 DEF Pos
<1>8. Places'
  BY <1>0, <1>1, <1>3, <1>4, <1>7 DEF Places, Started
<1>9. Semaphores'
  <2>1. Hold("producer") = 0 /\ Hold("consumer") = 0 /\ Hold("producer")' = 0 /\ Hold("consumer")' = 0
    BY <1>0, <1>5 DEF Hold
  <2> QED BY <1>0, <1>1, <1>3, <1>5, <2>1 DEF Semaphores, Started
<1>10. Items(buffer, done["producer"], done["consumer"])'
  BY <1>0, <1>1 DEF Started
<1>11. (left = "producer" => ProducerFirst)'
  <2> SUFFICES ASSUME left = "producer" PROVE ProducerFirst'
    BY <1>0
  <2>1. ProducerFirst
    BY <1>1 DEF Started
  <2>2. Before' = Before /\ MaxPasses' = MaxPasses
    BY <1>0 DEF Before, MaxPasses
  <2>3. /\ Before < NUM_ITEMS /\ \A t \in Workers : Pos(t) = "begin" => done[t] = 0 \/ result[t] = PT_ENDED
        /\ buffer = <<>> /\ done["producer"] = Before /\ done["consumer"] = Before
    BY <1>0, <1>3, <2>1 DEF ProducerFirst
  <2>4. Len(buffer) = 0 /\ Before \in Nat
    BY <2>3, PtAssumption DEF Before, PtInv, PtType
  <2>5. Before + Len(buffer) = Before
    BY <2>4
  <2>6. \A t \in Workers : Pos(t)' = "begin" => done'[t] = 0 \/ result'[t] = PT_ENDED
    BY <1>0, <1>7, <2>3
  <2> QED BY <1>0, <1>3, <1>5, <2>2, <2>3, <2>5, <2>6 DEF ProducerFirst
<1> QED BY <1>2, <1>6, <1>8, <1>9, <1>10, <1>11 DEF PtInv, Started

LEMMA DriverEndKeeps == ASSUME PtInv, driver_thread_end PROVE PtInv'
<1>0. /\ running = "driver" /\ line = "end" /\ running' = "main" /\ line' = "over"
      /\ lc' = [lc EXCEPT !["driver"] = "begin"]
      /\ UNCHANGED <<sem, done, buffer, result, left, passes, taken>>
  BY DEF driver_thread_end
<1>1. Started
  BY <1>0 DEF PtInv, NotStarted
<1>2. PtType'
  BY <1>0 DEF PtInv, PtType, Lines
<1>3. "main" \notin Workers /\ "driver" \notin Workers /\ Workers = {"producer", "consumer"}
  BY DEF Workers
<1>4. \A t \in Workers : lc'[t] = lc[t]
  BY <1>0, <1>3 DEF PtInv, PtType
<1>5. Control'
  BY <1>0, <1>1, <1>3 DEF Control, Started
<1>7. \A t \in Workers : Pos(t)' = lc[t] /\ Pos(t) = lc[t]
  BY <1>0, <1>3, <1>4 DEF Pos
<1>8. Places'
  BY <1>0, <1>1, <1>3, <1>4, <1>7 DEF Places, Started
<1>9. Semaphores'
  <2>1. Hold("producer") = 0 /\ Hold("consumer") = 0 /\ Hold("producer")' = 0 /\ Hold("consumer")' = 0
    BY <1>0 DEF Hold
  <2> QED BY <1>0, <1>1, <1>3, <2>1 DEF Semaphores, Started
<1>10. Items(buffer, done["producer"], done["consumer"])'
  BY <1>0, <1>1 DEF Started
<1>11. (left = "producer" => ProducerFirst)'
  BY <1>0, <1>1, <1>3 DEF Started, ProducerFirst, MaxPasses
<1> QED BY <1>2, <1>5, <1>8, <1>9, <1>10, <1>11 DEF PtInv, Started

(* A step of a worker's loop that changes no semaphore and no item: where  *)
(* the worker is, and its counter at the start of the loop.                *)
LEMMA LoopBeginsKeeps == ASSUME PtInv, NEW t \in Workers, LoopBegins(t) PROVE PtInv'
<1>0. /\ running = t /\ line = "begin" /\ line' = "loop" /\ done' = [done EXCEPT ![t] = 0]
      /\ UNCHANGED <<lc, running, sem, buffer, result, left, passes, taken>>
  BY DEF LoopBegins
<1>w. Workers = {"producer", "consumer"} /\ "main" \notin Workers /\ "driver" \notin Workers
  BY DEF Workers
<1>1. Started
  BY <1>0, <1>w DEF PtInv, NotStarted
<1>t. PtType /\ NUM_ITEMS \in Nat /\ NUM_ITEMS > 0
  BY PtAssumption DEF PtInv
<1>2. PtType'
  BY <1>0, <1>t DEF PtType
<1>3. Control'
  BY <1>0, <1>1, <1>w DEF Control, Started, Lines
<1>4. done'[t] = 0 /\ \A u \in Workers : u # t => done'[u] = done[u]
  BY <1>0, <1>t DEF PtType
<1>5. Places'
  <2>1. \A u \in Workers : u # t => Pos(u)' = Pos(u) /\ done'[u] = done[u] /\ lc'[u] = lc[u] /\ running # u
    BY <1>0, <1>4 DEF Pos
  <2>2. Pos(t)' = "loop"
    BY <1>0 DEF Pos
  <2> QED BY <1>0, <1>1, <2>1, <2>2 DEF Places, Started
<1>6. Semaphores'
  BY <1>0, <1>1 DEF Started, Semaphores, Hold
<1>7. Norm(done'["producer"]) = Norm(done["producer"]) /\ Norm(done'["consumer"]) = Norm(done["consumer"])
  <2>1. done[t] \in {0, NUM_ITEMS}
    BY <1>0, <1>1 DEF Places, Started, Pos
  <2>2. Norm(done'[t]) = Norm(done[t])
    BY <2>1, <1>4, <1>t DEF Norm
  <2> QED BY <1>w, <1>4, <2>2
<1>8. Items(buffer, done["producer"], done["consumer"])'
  <2>1. Items(buffer, done["producer"], done["consumer"])
    BY <1>1 DEF Started
  <2> QED BY <1>0, <1>7, <2>1 DEF Items
<1>9. (left = "producer" => ProducerFirst)'
  <2> SUFFICES ASSUME left = "producer" PROVE ProducerFirst'
    BY <1>0
  <2>1. ProducerFirst
    BY <1>1 DEF Started
  <2>2. Before' = Before /\ MaxPasses' = MaxPasses
    BY <1>0 DEF Before, MaxPasses
  <2>3. done[t] = 0
    <3>1. result[t] = -1
      BY <1>0, <1>1 DEF Started, Control
    <3> QED BY <1>0, <2>1, <3>1 DEF ProducerFirst, Pos, PT_ENDED
  <2>4. done' = done
    BY <1>0, <2>3, <1>t DEF PtType
  <2>5. \A u \in Workers : Pos(u)' = "begin" => Pos(u) = "begin"
    BY <1>0 DEF Pos
  <2> QED BY <1>0, <1>w, <2>1, <2>2, <2>4, <2>5 DEF ProducerFirst
<1> QED BY <1>2, <1>3, <1>5, <1>6, <1>8, <1>9 DEF PtInv, Started

LEMMA LoopTurnsKeeps == ASSUME PtInv, NEW t \in Workers, LoopTurns(t) PROVE PtInv'
<1>0. /\ running = t /\ line = "loop" /\ line' = "wait_buffer" /\ done[t] < NUM_ITEMS
      /\ UNCHANGED <<lc, running, sem, done, buffer, result, left, passes, taken>>
  BY DEF LoopTurns
<1>w. Workers = {"producer", "consumer"} /\ "main" \notin Workers /\ "driver" \notin Workers
  BY DEF Workers
<1>1. Started
  BY <1>0, <1>w DEF PtInv, NotStarted
<1>t. PtType
  BY DEF PtInv
<1>2. PtType'
  BY <1>0, <1>t DEF PtType
<1>3. Control'
  BY <1>0, <1>1, <1>w DEF Control, Started, Lines
<1>5. Places'
  <2>1. \A u \in Workers : u # t => Pos(u)' = Pos(u) /\ running # u
    BY <1>0 DEF Pos
  <2>2. Pos(t)' = "wait_buffer"
    BY <1>0 DEF Pos
  <2> QED BY <1>0, <1>1, <2>1, <2>2 DEF Places, Started
<1>6. Semaphores'
  BY <1>0, <1>1 DEF Started, Semaphores, Hold
<1>8. Items(buffer, done["producer"], done["consumer"])'
  BY <1>0, <1>1 DEF Started
<1>9. (left = "producer" => ProducerFirst)'
  <2> SUFFICES ASSUME left = "producer" PROVE ProducerFirst'
    BY <1>0
  <2>1. ProducerFirst
    BY <1>1 DEF Started
  <2>2. Before' = Before /\ MaxPasses' = MaxPasses
    BY <1>0 DEF Before, MaxPasses
  <2>5. \A u \in Workers : Pos(u)' = "begin" => Pos(u) = "begin"
    BY <1>0 DEF Pos
  <2> QED BY <1>0, <1>w, <2>1, <2>2, <2>5 DEF ProducerFirst
<1> QED BY <1>2, <1>3, <1>5, <1>6, <1>8, <1>9 DEF PtInv, Started

(* A semaphore is taken: the worker holds one until it signals.            *)
LEMMA TakeKeeps ==
  ASSUME PtInv, NEW t \in Workers, running = t, NEW s, NEW next,
         \/ line = "wait_buffer" /\ s = (IF t = "producer" THEN "full" ELSE "empty") /\ next = "wait_mutex"
         \/ line = "wait_mutex" /\ s = "mutex" /\ next = "work",
         sem[s] > 0, sem' = [sem EXCEPT ![s] = @ - 1], line' = next,
         lc' = [lc EXCEPT ![t] = line],
         UNCHANGED <<running, done, buffer, result, left, passes, taken>>
  PROVE  PtInv'
<1>w. Workers = {"producer", "consumer"} /\ "main" \notin Workers /\ "driver" \notin Workers
  BY DEF Workers
<1>1. Started
  BY <1>w DEF PtInv, NotStarted
<1>t. PtType
  BY DEF PtInv
<1>s. s \in {"full", "empty", "mutex"} /\ sem[s] \in Nat
  BY <1>w, <1>t DEF PtType
<1>e. sem' \in [empty : Nat, full : Nat, mutex : Nat] /\ sem'[s] = sem[s] - 1
      /\ \A x \in {"full", "empty", "mutex"} : x # s => sem'[x] = sem[x]
  BY <1>s, <1>t DEF PtType
<1>l. lc' \in [Workers \union {"driver"} -> Lines \union {"wait_thread"}] /\ lc'["driver"] = lc["driver"]
      /\ \A u \in Workers : u # t => lc'[u] = lc[u]
  <2>1. line \in Lines
    BY <1>1 DEF Started, Control
  <2> QED BY <2>1, <1>t, <1>w DEF PtType
<1>2. PtType'
  BY <1>t, <1>e, <1>l DEF PtType
<1>3. Control'
  BY <1>1, <1>w, <1>l DEF Control, Started, Lines
<1>5. Places'
  <2>1. \A u \in Workers : u # t => Pos(u)' = Pos(u) /\ running # u /\ lc'[u] = lc[u]
    BY <1>l DEF Pos
  <2>2. Pos(t)' \in {"wait_mutex", "work"} /\ Pos(t) \in {"wait_buffer", "wait_mutex"}
    BY DEF Pos
  <2> QED BY <1>1, <2>1, <2>2 DEF Places, Started
<1>6. Semaphores'
  <2>0. Semaphores /\ Len(buffer') = Len(buffer)
    BY <1>1 DEF Started
  <2>1. CASE line = "wait_mutex"
    <3>1. s = "mutex" /\ line' = "work" /\ sem'.full = sem.full /\ sem'.empty = sem.empty /\ sem'.mutex = sem.mutex - 1
      BY <2>1, <1>e
    <3>2. Hold("producer")' = Hold("producer") /\ Hold("consumer")' = Hold("consumer")
      BY <2>1, <3>1 DEF Hold
    <3>3. sem.mutex = 1 /\ sem'.mutex = 0
      BY <2>0, <2>1, <3>1 DEF Semaphores
    <3> QED BY <2>0, <3>1, <3>2, <3>3 DEF Semaphores
  <2>2. CASE line = "wait_buffer"
    <3>1. sem.mutex = 1 /\ sem'.mutex = 1 /\ line' = "wait_mutex"
      BY <2>0, <2>2, <1>e, <1>w DEF Semaphores
    <3>2. CASE t = "producer"
      <4>1. sem'.full = sem.full - 1 /\ sem'.empty = sem.empty /\ sem.full \in Nat /\ Len(buffer) \in Nat
        BY <2>2, <3>2, <1>e, <1>t, <1>1 DEF PtType, Started, Items
      <4>2. Hold("producer") = 0 /\ Hold("producer")' = 1 /\ Hold("consumer") = 0 /\ Hold("consumer")' = 0
        BY <2>2, <3>1, <3>2 DEF Hold
      <4>3. sem.full + 0 + Len(buffer) = BUFSIZE /\ sem.empty + 0 = Len(buffer)
        BY <2>0, <4>2 DEF Semaphores
      <4>4. sem'.full + 1 + Len(buffer) = BUFSIZE
        BY <4>1, <4>3
      <4> QED BY <2>0, <3>1, <4>1, <4>2, <4>3, <4>4 DEF Semaphores
    <3>3. CASE t = "consumer"
      <4>1. sem'.empty = sem.empty - 1 /\ sem'.full = sem.full /\ sem.empty \in Nat /\ Len(buffer) \in Nat
        BY <2>2, <3>3, <1>e, <1>t, <1>1 DEF PtType, Started, Items
      <4>2. Hold("producer") = 0 /\ Hold("producer")' = 0 /\ Hold("consumer") = 0 /\ Hold("consumer")' = 1
        BY <2>2, <3>1, <3>3 DEF Hold
      <4>3. sem.full + 0 + Len(buffer) = BUFSIZE /\ sem.empty + 0 = Len(buffer)
        BY <2>0, <4>2 DEF Semaphores
      <4>4. sem'.empty + 1 = Len(buffer)
        BY <4>1, <4>3
      <4> QED BY <2>0, <3>1, <4>1, <4>2, <4>3, <4>4 DEF Semaphores
    <3> QED BY <3>2, <3>3, <1>w
  <2> QED BY <2>1, <2>2
<1>8. Items(buffer, done["producer"], done["consumer"])'
  BY <1>1 DEF Started
<1>9. (left = "producer" => ProducerFirst)'
  <2> SUFFICES ASSUME left = "producer" PROVE ProducerFirst'
    OBVIOUS
  <2>1. ProducerFirst
    BY <1>1 DEF Started
  <2>2. Before' = Before /\ MaxPasses' = MaxPasses
    BY DEF Before, MaxPasses
  <2>5. \A u \in Workers : Pos(u)' = "begin" => Pos(u) = "begin"
    BY <1>l DEF Pos
  <2> QED BY <1>w, <2>1, <2>2, <2>5 DEF ProducerFirst
<1> QED BY <1>2, <1>3, <1>5, <1>6, <1>8, <1>9 DEF PtInv, Started

LEMMA ItemAdded ==
  ASSUME NEW b, NEW p \in 0 .. NUM_ITEMS - 1, NEW c, Items(b, p, c)
  PROVE  Items(Append(b, p), p + 1, c) /\ Len(Append(b, p)) = Len(b) + 1
<1>0. NUM_ITEMS \in Nat /\ NUM_ITEMS > 0
  BY PtAssumption
<1> DEFINE S == 0 .. NUM_ITEMS - 1
           d == Append(b, p)
<1>1. b \in Seq(S) /\ Len(b) \in Nat /\ d \in Seq(S) /\ Len(d) = Len(b) + 1
  BY DEF Items
<1>2. (\A i \in 1 .. Len(b) : d[i] = b[i]) /\ d[Len(b) + 1] = p
  BY <1>1
<1>3. Norm(p) = p /\ Norm(p + 1) = Nxt(p)
  BY <1>0 DEF Norm, Nxt
<1> HIDE DEF d
<1>4. \A i \in 1 .. Len(d) - 1 : d[i + 1] = Nxt(d[i])
  <2> TAKE i \in 1 .. Len(d) - 1
  <2>1. i \in 1 .. Len(b) /\ d[i] = b[i]
    BY <1>1, <1>2
  <2>2. CASE i < Len(b)
    <3>1. i \in 1 .. Len(b) - 1 /\ i + 1 \in 1 .. Len(b)
      BY <1>1, <2>1, <2>2
    <3>2. b[i + 1] = Nxt(b[i])
      BY <3>1 DEF Items
    <3> QED BY <1>2, <2>1, <3>1, <3>2
  <2>3. CASE i = Len(b)
    <3>1. Norm(p) = Nxt(b[Len(b)])
      BY <1>1, <2>1, <2>3 DEF Items
    <3> QED BY <1>2, <1>3, <2>1, <2>3, <3>1
  <2> QED BY <1>1, <2>1, <2>2, <2>3
<1>5. d[1] = Norm(c)
  <2>1. CASE Len(b) = 0
    <3>1. Norm(p) = Norm(c)
      BY <2>1 DEF Items
    <3>2. d[1] = p
      BY <1>2, <2>1
    <3> QED BY <3>1, <3>2, <1>3
  <2>2. CASE Len(b) > 0
    <3>1. b[1] = Norm(c)
      BY <2>2 DEF Items
    <3>2. 1 \in 1 .. Len(b)
      BY <2>2, <1>1
    <3> QED BY <3>1, <3>2, <1>2
  <2> QED BY <2>1, <2>2, <1>1
<1>6. Norm(p + 1) = Nxt(d[Len(d)]) /\ Len(d) > 0
  BY <1>1, <1>2, <1>3
<1>7. Items(d, p + 1, c)
  BY <1>1, <1>4, <1>5, <1>6 DEF Items
<1> QED BY <1>1, <1>7 DEF d

LEMMA ItemTaken ==
  ASSUME NEW b, NEW p, NEW c \in 0 .. NUM_ITEMS - 1, Items(b, p, c), Len(b) > 0
  PROVE  Items(Tail(b), p, c + 1) /\ Len(Tail(b)) = Len(b) - 1 /\ Head(b) = c
<1>0. NUM_ITEMS \in Nat /\ NUM_ITEMS > 0
  BY PtAssumption
<1> DEFINE S == 0 .. NUM_ITEMS - 1
           d == Tail(b)
<1>1. b \in Seq(S) /\ Len(b) \in Nat /\ b # <<>>
  BY DEF Items
<1>2. d \in Seq(S) /\ Len(d) = Len(b) - 1 /\ Head(b) = b[1]
  BY <1>1
<1>3. \A i \in 1 .. Len(d) : d[i] = b[i + 1]
  BY <1>1, <1>2
<1>4. Norm(c) = c /\ Norm(c + 1) = Nxt(c) /\ b[1] = c
  BY <1>0 DEF Norm, Nxt, Items
<1> HIDE DEF d
<1>5. \A i \in 1 .. Len(b) - 1 : b[i + 1] = Nxt(b[i])
  BY DEF Items
<1>6. \A i \in 1 .. Len(d) - 1 : d[i + 1] = Nxt(d[i])
  <2> TAKE i \in 1 .. Len(d) - 1
  <2>1. i \in 1 .. Len(d) /\ i + 1 \in 1 .. Len(d) /\ i + 1 \in 1 .. Len(b) - 1
    BY <1>1, <1>2
  <2>2. b[(i + 1) + 1] = Nxt(b[i + 1])
    BY <1>5, <2>1
  <2> QED BY <1>3, <2>1, <2>2
<1>7. Norm(p) = Nxt(b[Len(b)])
  BY DEF Items
<1>8. Len(d) = 0 => Norm(p) = Norm(c + 1)
  <2> SUFFICES ASSUME Len(d) = 0 PROVE Norm(p) = Norm(c + 1)
    OBVIOUS
  <2>1. Len(b) = 1
    BY <1>1, <1>2
  <2> QED BY <2>1, <1>4, <1>7
<1>9. Len(d) > 0 => d[1] = Norm(c + 1) /\ Norm(p) = Nxt(d[Len(d)])
  <2> SUFFICES ASSUME Len(d) > 0 PROVE d[1] = Norm(c + 1) /\ Norm(p) = Nxt(d[Len(d)])
    OBVIOUS
  <2>1. 1 \in 1 .. Len(d) /\ 1 \in 1 .. Len(b) - 1 /\ Len(d) \in 1 .. Len(d) /\ Len(d) + 1 = Len(b)
    BY <1>1, <1>2
  <2>2. d[1] = b[1 + 1] /\ b[1 + 1] = Nxt(b[1])
    BY <1>3, <1>5, <2>1
  <2>3. d[Len(d)] = b[Len(b)]
    BY <1>3, <2>1
  <2> QED BY <1>4, <1>7, <2>2, <2>3
<1>10. Items(d, p, c + 1)
  BY <1>2, <1>6, <1>8, <1>9 DEF Items
<1> QED BY <1>2, <1>4, <1>10 DEF d

LEMMA ProduceKeeps == ASSUME PtInv, Produce PROVE PtInv'
<1> DEFINE p == done["producer"]
<1>0. /\ running = "producer" /\ line = "work" /\ line' = "loop"
      /\ buffer' = Append(buffer, p)
      /\ sem' = [sem EXCEPT !.mutex = @ + 1, !.empty = @ + 1]
      /\ done' = [done EXCEPT !["producer"] = @ + 1]
      /\ UNCHANGED <<lc, running, result, left, passes, taken>>
  BY DEF Produce
<1>w. Workers = {"producer", "consumer"} /\ "main" \notin Workers /\ "driver" \notin Workers
  BY DEF Workers
<1>1. Started
  BY <1>0, <1>w DEF PtInv, NotStarted
<1>t. PtType /\ NUM_ITEMS \in Nat /\ NUM_ITEMS > 0
  BY PtAssumption DEF PtInv
<1>p. p \in 0 .. NUM_ITEMS - 1
  <2>1. p < NUM_ITEMS
    BY <1>0, <1>1, <1>w DEF Started, Places, Pos
  <2>2. p \in 0 .. NUM_ITEMS
    BY <1>t, <1>w DEF PtType
  <2> QED BY <2>1, <2>2, <1>t
<1>d. done' \in [Workers -> 0 .. NUM_ITEMS] /\ done'["producer"] = p + 1 /\ done'["consumer"] = done["consumer"]
  BY <1>0, <1>p, <1>t, <1>w DEF PtType
<1>s. sem' \in [empty : Nat, full : Nat, mutex : Nat] /\ sem'.mutex = sem.mutex + 1
      /\ sem'.empty = sem.empty + 1 /\ sem'.full = sem.full
  <2>1. sem' = [sem EXCEPT !.mutex = @ + 1, !.empty = @ + 1]
    BY <1>0
  <2>2. sem \in [empty : Nat, full : Nat, mutex : Nat]
    BY <1>t DEF PtType
  <2>3. sem.mutex + 1 \in Nat /\ sem.empty + 1 \in Nat
    BY <2>2
  <2> DEFINE a == sem.mutex + 1
             b == sem.empty + 1
  <2>4. sem' = [sem EXCEPT !.mutex = a, !.empty = b]
    BY <2>1, <2>2
  <2>5. a \in Nat /\ b \in Nat
    BY <2>3
  <2> HIDE DEF a, b
  <2>6. sem' \in [empty : Nat, full : Nat, mutex : Nat]
    BY ONLY <2>2, <2>4, <2>5
  <2>7. sem'.mutex = a /\ sem'.empty = b /\ sem'.full = sem.full
    BY ONLY <2>2, <2>4, <2>5
  <2> QED BY <2>6, <2>7 DEF a, b
<1>2. PtType'
  BY <1>0, <1>t, <1>d, <1>s DEF PtType
<1>3. Control'
  BY <1>0, <1>1, <1>w DEF Control, Started, Lines
<1>5. Places'
  <2>1. Pos("consumer")' = Pos("consumer") /\ Pos("producer")' = "loop"
    BY <1>0 DEF Pos
  <2> QED BY <1>0, <1>1, <1>d, <1>w, <2>1 DEF Places, Started
<1>i. Items(buffer, p, done["consumer"]) /\ Len(buffer) \in Nat
  BY <1>1 DEF Started, Items
<1> HIDE DEF p
<1>8. Items(buffer', p + 1, done["consumer"]) /\ Len(buffer') = Len(buffer) + 1
  BY <1>0, <1>i, <1>p, ItemAdded
<1>9. Items(buffer, done["producer"], done["consumer"])'
  BY <1>8, <1>d
<1>6. Semaphores'
  <2>1. Hold("producer") = 1 /\ Hold("consumer") = 0 /\ Hold("producer")' = 0 /\ Hold("consumer")' = 0
    BY <1>0 DEF Hold
  <2>2. sem.mutex = 0 /\ sem.full + 1 + Len(buffer) = BUFSIZE /\ sem.empty + 0 = Len(buffer)
    BY <1>0, <1>1, <1>w, <2>1 DEF Started, Semaphores
  <2>3. sem.full \in Nat /\ sem.empty \in Nat
    BY <1>t DEF PtType
  <2>4. sem'.mutex = 1 /\ sem'.full + 0 + Len(buffer') = BUFSIZE /\ sem'.empty + 0 = Len(buffer')
    BY <1>s, <1>8, <1>i, <2>2, <2>3
  <2> QED BY <1>0, <2>1, <2>4 DEF Semaphores
<1>10. (left = "producer" => ProducerFirst)'
  <2> SUFFICES ASSUME left = "producer" PROVE ProducerFirst'
    BY <1>0
  <2>1. ProducerFirst
    BY <1>1 DEF Started
  <2>2. Before' = Before /\ MaxPasses' = MaxPasses /\ Before \in Nat
    BY <1>0, <1>t, PtAssumption DEF Before, MaxPasses, PtType
  <2>3. Pos("consumer")' = Pos("consumer") /\ Pos("producer")' = "loop"
    BY <1>0 DEF Pos
  <2>4. done["consumer"] = Before /\ p = Before + Len(buffer)
    BY <1>0, <2>1 DEF ProducerFirst, p
  <2>5. p + 1 = Before + Len(buffer')
    BY <1>8, <1>i, <2>2, <2>4
  <2> QED BY <1>0, <1>w, <1>d, <2>1, <2>2, <2>3, <2>4, <2>5 DEF ProducerFirst
<1> QED BY <1>2, <1>3, <1>5, <1>6, <1>9, <1>10 DEF PtInv, Started

LEMMA ConsumeKeeps == ASSUME PtInv, Consume PROVE PtInv'
<1> DEFINE c == done["consumer"]
<1>0. /\ running = "consumer" /\ line = "work" /\ line' = "loop"
      /\ taken' = [item |-> IF buffer = <<>> THEN -1 ELSE Head(buffer), number |-> c]
      /\ buffer' = IF buffer = <<>> THEN buffer ELSE Tail(buffer)
      /\ sem' = [sem EXCEPT !.mutex = @ + 1, !.full = @ + 1]
      /\ done' = [done EXCEPT !["consumer"] = @ + 1]
      /\ UNCHANGED <<lc, running, result, left, passes>>
  BY DEF Consume
<1>w. Workers = {"producer", "consumer"} /\ "main" \notin Workers /\ "driver" \notin Workers
  BY DEF Workers
<1>1. Started
  BY <1>0, <1>w DEF PtInv, NotStarted
<1>t. PtType /\ NUM_ITEMS \in Nat /\ NUM_ITEMS > 0
  BY PtAssumption DEF PtInv
<1>p. c \in 0 .. NUM_ITEMS - 1
  <2>1. c < NUM_ITEMS
    BY <1>0, <1>1, <1>w DEF Started, Places, Pos
  <2>2. c \in 0 .. NUM_ITEMS
    BY <1>t, <1>w DEF PtType
  <2> QED BY <2>1, <2>2, <1>t
<1>d. done' \in [Workers -> 0 .. NUM_ITEMS] /\ done'["consumer"] = c + 1 /\ done'["producer"] = done["producer"]
  BY <1>0, <1>p, <1>t, <1>w DEF PtType
<1>s. sem' \in [empty : Nat, full : Nat, mutex : Nat] /\ sem'.mutex = sem.mutex + 1
      /\ sem'.full = sem.full + 1 /\ sem'.empty = sem.empty
  <2>1. sem' = [sem EXCEPT !.mutex = @ + 1, !.full = @ + 1]
    BY <1>0
  <2>2. sem \in [empty : Nat, full : Nat, mutex : Nat]
    BY <1>t DEF PtType
  <2>3. sem.mutex + 1 \in Nat /\ sem.full + 1 \in Nat
    BY <2>2
  <2> DEFINE a == sem.mutex + 1
             b == sem.full + 1
  <2>4. sem' = [sem EXCEPT !.mutex = a, !.full = b]
    BY <2>1, <2>2
  <2>5. a \in Nat /\ b \in Nat
    BY <2>3
  <2> HIDE DEF a, b
  <2>6. sem' \in [empty : Nat, full : Nat, mutex : Nat]
    BY ONLY <2>2, <2>4, <2>5
  <2>7. sem'.mutex = a /\ sem'.full = b /\ sem'.empty = sem.empty
    BY ONLY <2>2, <2>4, <2>5
  <2> QED BY <2>6, <2>7 DEF a, b
<1>i. Items(buffer, done["producer"], c) /\ Len(buffer) \in Nat
  BY <1>1 DEF Started, Items
<1> HIDE DEF c
<1>h. Hold("producer") = 0 /\ Hold("consumer") = 1 /\ Hold("producer")' = 0 /\ Hold("consumer")' = 0
  BY <1>0 DEF Hold
<1>f. sem.mutex = 0 /\ sem.full + 0 + Len(buffer) = BUFSIZE /\ sem.empty + 1 = Len(buffer)
  BY <1>0, <1>1, <1>w, <1>h DEF Started, Semaphores
<1>g. sem.full \in Nat /\ sem.empty \in Nat
  BY <1>t DEF PtType
<1>n. Len(buffer) > 0 /\ buffer # <<>>
  <2>1. Len(buffer) > 0
    BY <1>f, <1>g
  <2> QED BY <2>1
<1>8. Items(Tail(buffer), done["producer"], c + 1) /\ Len(Tail(buffer)) = Len(buffer) - 1 /\ Head(buffer) = c
  BY <1>i, <1>n, <1>p, ItemTaken
<1>b. buffer' = Tail(buffer) /\ taken' = [item |-> c, number |-> c]
  BY <1>0, <1>n, <1>8
<1>m. Len(buffer') = Len(buffer) - 1
  BY <1>8, <1>b
<1>9. Items(buffer, done["producer"], done["consumer"])'
  BY <1>8, <1>b, <1>d
<1>2. PtType'
  <2>1. taken' \in [item : Int, number : Int] /\ taken'.item = taken'.number
    BY <1>b, <1>p
  <2> QED BY <1>0, <1>t, <1>d, <1>s, <2>1 DEF PtType
<1>3. Control'
  BY <1>0, <1>1, <1>w DEF Control, Started, Lines
<1>5. Places'
  <2>1. Pos("producer")' = Pos("producer") /\ Pos("consumer")' = "loop"
    BY <1>0 DEF Pos
  <2> QED BY <1>0, <1>1, <1>d, <1>w, <2>1 DEF Places, Started
<1>6. Semaphores'
  <2>4. sem'.mutex = 1 /\ sem'.full + 0 + Len(buffer') = BUFSIZE /\ sem'.empty + 0 = Len(buffer')
    <3>1. Len(buffer) \in Nat
      BY <1>i
    <3> QED BY ONLY <1>s, <1>m, <1>f, <1>g, <3>1
  <2> QED BY <1>0, <1>h, <2>4 DEF Semaphores
<1>10. (left = "producer" => ProducerFirst)'
  <2> SUFFICES ASSUME left = "producer" PROVE ProducerFirst'
    BY <1>0
  <2>1. ProducerFirst
    BY <1>1 DEF Started
  <2>2. Before' = Before /\ MaxPasses' = MaxPasses /\ Before \in Nat
    BY <1>0, <1>t, PtAssumption DEF Before, MaxPasses, PtType
  <2>3. Pos("producer")' = Pos("producer") /\ Pos("consumer")' = "loop"
    BY <1>0 DEF Pos
  <2>4. done["producer"] = c + Len(buffer)
    BY <1>0, <2>1 DEF ProducerFirst, c
  <2>5. done["producer"] = (c + 1) + Len(buffer')
    <3>1. Len(buffer) \in Nat /\ c \in Int
      BY <1>i, <1>p
    <3> QED BY ONLY <1>m, <2>4, <3>1
  <2> QED BY <1>0, <1>w, <1>d, <2>1, <2>2, <2>3, <2>5 DEF ProducerFirst
<1> QED BY <1>2, <1>3, <1>5, <1>6, <1>9, <1>10 DEF PtInv, Started

(* A worker that returns: the other one is called, or both have returned   *)
(* and the driver waits for the next pass or ends.                         *)
LEMMA ReturnKeeps ==
  ASSUME PtInv, NEW t \in Workers, running = t, line \in {"wait_buffer", "loop"},
         NEW value \in {PT_WAITING, PT_ENDED}, ReturnToDriver(t, value),
         NEW l \in {"begin", "wait_buffer"}, lc' = [lc EXCEPT ![t] = l],
         value = PT_WAITING => /\ l = "wait_buffer" /\ line = "wait_buffer" /\ done[t] < NUM_ITEMS
                               /\ sem[IF t = "producer" THEN "full" ELSE "empty"] = 0,
         value = PT_ENDED => l = "begin" /\ done[t] = NUM_ITEMS,
         UNCHANGED <<sem, done, buffer, left, taken>>
  PROVE  PtInv'
<1>w. Workers = {"producer", "consumer"} /\ "main" \notin Workers /\ "driver" \notin Workers
  BY DEF Workers
<1>1. Started
  BY <1>w DEF PtInv, NotStarted
<1>t. PtType /\ NUM_ITEMS \in Nat /\ NUM_ITEMS > 0 /\ BUFSIZE \in Nat /\ BUFSIZE > 0
  BY PtAssumption DEF PtInv
<1> DEFINE o == Other(t)
           r == [result EXCEPT ![t] = value]
<1>o. o \in Workers /\ o # t /\ Other(o) = t /\ \A u \in Workers : u = t \/ u = o
  BY <1>w, OtherWorker
<1>r. r \in [Workers -> {-1, PT_WAITING, PT_ENDED}] /\ r[t] = value /\ r[o] = result[o] /\ value # -1
  BY <1>t, <1>o DEF PtType, PT_WAITING, PT_ENDED
<1>c. /\ lc["driver"] = "wait_thread" /\ result[t] = -1 /\ (result[o] = -1 <=> t = left)
      /\ lc[o] \in {"begin", "wait_buffer"}
  BY <1>1, <1>o DEF Started, Control, Places
<1>l. /\ lc' \in [Workers \union {"driver"} -> Lines \union {"wait_thread"}]
      /\ lc'["driver"] = "wait_thread" /\ lc'[t] = l /\ lc'[o] = lc[o]
  BY <1>t, <1>o, <1>c, <1>w DEF PtType, Lines
<1>b. Len(buffer) \in Nat /\ sem.full \in Nat /\ sem.empty \in Nat
  BY <1>1, <1>t DEF Started, Items, PtType
<1>h. /\ Hold("producer") = 0 /\ Hold("consumer") = 0 /\ sem.mutex = 1
      /\ sem.full + 0 + Len(buffer) = BUFSIZE /\ sem.empty + 0 = Len(buffer)
  <2>1. Hold("producer") = 0 /\ Hold("consumer") = 0
    BY DEF Hold
  <2> QED BY <1>1, <2>1 DEF Started, Semaphores
<1>i. Items(buffer, done["producer"], done["consumer"])'
  BY <1>1 DEF Started
<1>x. value = PT_WAITING => IF t = "producer" THEN Len(buffer) = BUFSIZE ELSE Len(buffer) = 0
  <2>1. CASE t = "producer"
    <3>1. value = PT_WAITING => sem.full = 0
      BY <2>1
    <3> QED BY <2>1, <3>1, <1>h, <1>b, <1>t
  <2>2. CASE t # "producer"
    <3>1. value = PT_WAITING => sem.empty = 0
      BY <2>2
    <3> QED BY <2>2, <3>1, <1>h, <1>b
  <2> QED BY <2>1, <2>2
<1>p. ASSUME left = "producer" PROVE ProducerFirst /\ Before < NUM_ITEMS /\ Before \in Nat /\ passes \in Nat
  <2>1. ProducerFirst
    BY <1>1, <1>p DEF Started
  <2> QED BY <2>1, <1>t DEF ProducerFirst, PtType, Before
<1>2. CASE r[o] = -1
  <2>0. running' = o /\ line' = lc[o] /\ result' = r /\ passes' = passes /\ t = left
    <3>1. running' = o /\ line' = lc[o] /\ result' = r /\ passes' = passes
      BY <1>2 DEF ReturnToDriver, PT_BEGIN
    <3> QED BY <3>1, <1>2, <1>r, <1>c
  <2> HIDE DEF o, r
  <2>1. PtType'
    BY <1>t, <1>l, <1>r, <2>0 DEF PtType
  <2>2. Control'
    BY <1>o, <1>r, <1>c, <1>l, <1>2, <1>w, <2>0 DEF Control, Lines
  <2>p. Pos(o)' = lc[o] /\ Pos(o) = lc[o] /\ Pos(t)' = l /\ running' # t
    BY <1>o, <1>l, <2>0 DEF Pos
  <2>3. Places'
    <3>1. /\ lc'[t] \in {"begin", "wait_buffer"}
          /\ Pos(t)' = "begin" => done'[t] \in {0, NUM_ITEMS}
          /\ Pos(t)' \in {"wait_buffer", "wait_mutex", "work"} => done'[t] < NUM_ITEMS
      BY <1>l, <2>p
    <3>2. /\ Pos(o)' = "begin" => done'[o] \in {0, NUM_ITEMS}
          /\ Pos(o)' \in {"wait_buffer", "wait_mutex", "work"} => done'[o] < NUM_ITEMS
      BY <1>1, <1>o, <2>p DEF Started, Places
    <3> QED BY <1>o, <2>0, <3>1, <3>2 DEF Places
  <2>4. Semaphores'
    <3>1. Hold("producer")' = 0 /\ Hold("consumer")' = 0 /\ line' # "work"
      BY <1>c, <2>0 DEF Hold
    <3> QED BY <1>h, <3>1 DEF Semaphores
  <2>5. (left = "producer" => ProducerFirst)'
    <3> SUFFICES ASSUME left = "producer" PROVE ProducerFirst'
      OBVIOUS
    <3>1. ProducerFirst /\ Before < NUM_ITEMS /\ Before \in Nat
      BY <1>p
    <3>2. t = "producer" /\ o = "consumer"
      BY <2>0, <1>o, <1>w
    <3>3. Before' = Before /\ MaxPasses' = MaxPasses
      BY <2>0 DEF Before, MaxPasses
    <3>4. done["consumer"] = Before /\ done["producer"] = Before + Len(buffer)
      BY <3>1, <3>2 DEF ProducerFirst
    <3>5. result'["producer"] = value
      BY <1>r, <2>0, <3>2
    <3>6. done["producer"] = done["consumer"] + Len(buffer)
      BY <3>4
    <3>7. value = PT_WAITING => done["producer"] = Before + BUFSIZE /\ done["producer"] < NUM_ITEMS
      BY <1>x, <3>2, <3>4
    <3>8. value = PT_ENDED => done["producer"] = NUM_ITEMS
      BY <3>2
    <3>9. \A u \in Workers : Pos(u)' = "begin" => done'[u] = 0 \/ result'[u] = PT_ENDED
      <4>1. Pos("consumer") = "begin" => done["consumer"] = 0
        <5>1. result["consumer"] = -1
          BY <1>2, <1>r, <3>2
        <5> QED BY <3>1, <3>2, <5>1, <1>w DEF ProducerFirst, PT_ENDED
      <4>2. Pos("producer")' = "begin" => value = PT_ENDED
        BY <2>p, <3>2
      <4> QED BY <1>w, <2>p, <3>2, <3>5, <4>1, <4>2
    <3>10. line' \notin {"end", "over"} /\ running' = "consumer"
      BY <1>c, <2>0, <3>2
    <3> QED BY <1>w, <3>1, <3>3, <3>5, <3>6, <3>7, <3>8, <3>9, <3>10 DEF ProducerFirst
  <2> QED BY <1>i, <2>1, <2>2, <2>3, <2>4, <2>5 DEF PtInv, Started
<1>3. CASE r[o] # -1
  <2> DEFINE go == PT_SCHEDULE(And(r["producer"], r["consumer"]))
  <2>0. /\ IF go THEN running' = "main" /\ line' = "begin" ELSE running' = "driver" /\ line' = "end"
        /\ result' = [u \in Workers |-> -1]
        /\ passes' = IF passes < PassBound THEN passes + 1 ELSE passes
    BY <1>3 DEF ReturnToDriver
  <2>a. t # left /\ running' \notin Workers /\ line' \in {"begin", "end"} /\ passes' \in Nat
    BY <1>3, <1>r, <1>c, <1>w, <1>t, <2>0 DEF PtType
  <2>g. ~go <=> r["producer"] = PT_ENDED /\ r["consumer"] = PT_ENDED
    <3>1. r["producer"] \in {PT_WAITING, PT_ENDED} /\ r["consumer"] \in {PT_WAITING, PT_ENDED}
      BY <1>3, <1>r, <1>o, <1>w
    <3>2. PT_WAITING # PT_ENDED
      BY DEF PT_WAITING, PT_ENDED
    <3> HIDE DEF r
    <3> QED BY <3>1, <3>2, Scheduling
  <2> HIDE DEF o, r, go
  <2>1. PtType'
    BY <1>t, <1>l, <2>0, <2>a DEF PtType
  <2>2. Control'
    BY <1>l, <1>w, <2>0 DEF Control
  <2>p. \A u \in Workers : Pos(u)' = lc'[u] /\ running' # u
    BY <2>a DEF Pos
  <2>3. Places'
    <3>1. /\ lc'[t] \in {"begin", "wait_buffer"}
          /\ Pos(t)' = "begin" => done'[t] \in {0, NUM_ITEMS}
          /\ Pos(t)' \in {"wait_buffer", "wait_mutex", "work"} => done'[t] < NUM_ITEMS
      BY <1>l, <2>p
    <3>2. /\ lc'[o] \in {"begin", "wait_buffer"}
          /\ Pos(o)' = "begin" => done'[o] \in {0, NUM_ITEMS}
          /\ Pos(o)' \in {"wait_buffer", "wait_mutex", "work"} => done'[o] < NUM_ITEMS
      <4>1. Pos(o) = lc[o] /\ Pos(o)' = lc[o]
        BY <1>o, <1>l, <2>p DEF Pos
      <4> QED BY <1>1, <1>o, <1>c, <1>l, <4>1 DEF Started, Places
    <3> QED BY <1>o, <3>1, <3>2 DEF Places
  <2>4. Semaphores'
    <3>1. Hold("producer")' = 0 /\ Hold("consumer")' = 0
      BY <2>a DEF Hold
    <3> QED BY <1>h, <2>a, <3>1 DEF Semaphores
  <2>5. (left = "producer" => ProducerFirst)'
    <3> SUFFICES ASSUME left = "producer" PROVE ProducerFirst'
      OBVIOUS
    <3>1. ProducerFirst /\ Before < NUM_ITEMS /\ Before \in Nat /\ passes \in Nat
      BY <1>p
    <3>2. t = "consumer" /\ o = "producer" /\ r["consumer"] = value /\ r["producer"] = result["producer"]
      BY <2>a, <1>o, <1>r, <1>w
    <3>3. passes + 1 <= MaxPasses /\ passes < NUM_ITEMS
      BY <3>1, PassesBounded DEF Before
    <3>4. passes' = passes + 1
      <4>1. passes < PassBound
        BY <3>1, <3>3, <1>t DEF PassBound
      <4> QED BY <2>0, <4>1
    <3>5. Before' = Before + BUFSIZE
      BY <3>1, <3>4, <1>t DEF Before
    <3>6. /\ done["producer"] = done["consumer"] + Len(buffer)
          /\ result["producer"] = PT_WAITING => done["producer"] = Before + BUFSIZE /\ done["producer"] < NUM_ITEMS
          /\ result["producer"] = PT_ENDED => done["producer"] = NUM_ITEMS
      BY <3>1, <3>2 DEF ProducerFirst
    <3>7. done["producer"] \in 0 .. NUM_ITEMS /\ done["consumer"] \in 0 .. NUM_ITEMS
      BY <1>t, <1>w DEF PtType
    <3>8. result["producer"] \in {PT_WAITING, PT_ENDED}
      BY <1>3, <1>r, <1>o, <3>2
    <3>9. Len(buffer) = 0 /\ done["producer"] = done["consumer"]
      <4>1. CASE value = PT_WAITING
        <5>1. Len(buffer) = 0
          BY <1>x, <3>2, <4>1
        <5> QED BY <3>6, <3>7, <5>1
      <4>2. CASE value = PT_ENDED
        <5>1. done["consumer"] = NUM_ITEMS
          BY <4>2, <3>2
        <5> QED BY <5>1, <3>6, <3>7, <1>b, <1>t
      <4> QED BY <4>1, <4>2
    <3>10. buffer' = <<>>
      <4>1. buffer \in Seq(0 .. NUM_ITEMS - 1)
        BY <1>1 DEF Started, Items
      <4>2. buffer = <<>>
        BY <3>9, <4>1
      <4> QED BY <4>2
    <3>11. CASE value = PT_WAITING
      <4>1. done["consumer"] < NUM_ITEMS
        BY <3>2, <3>11
      <4>2. result["producer"] = PT_WAITING
        BY <3>6, <3>8, <3>9, <4>1, <3>7, <1>t
      <4>3. PT_WAITING # PT_ENDED
        BY DEF PT_WAITING, PT_ENDED
      <4>4. go
        BY <2>g, <3>2, <3>11, <4>3
      <4>5. running' = "main" /\ line' = "begin"
        BY <2>0, <4>4
      <4>6. done["producer"] = Before + BUFSIZE /\ done["producer"] < NUM_ITEMS
        BY <3>6, <4>2
      <4>7. Before' < NUM_ITEMS /\ done'["producer"] = Before' /\ done'["consumer"] = Before'
        BY <3>5, <3>9, <4>6
      <4>8. \A u \in Workers : Pos(u)' = "begin" => done'[u] = 0 \/ result'[u] = PT_ENDED
        <5>1. Pos("consumer")' # "begin"
          BY <1>l, <2>p, <3>2, <3>11, <1>w
        <5>2. Pos("producer")' = Pos("producer")
          BY <1>l, <2>p, <3>2, <1>w DEF Pos
        <5>3. Pos("producer") = "begin" => done["producer"] = 0 \/ result["producer"] = PT_ENDED
          BY <3>1, <1>w DEF ProducerFirst
        <5> QED BY <1>w, <4>2, <4>3, <5>1, <5>2, <5>3
      <4> QED BY <1>w, <3>10, <4>5, <4>7, <4>8 DEF ProducerFirst
    <3>12. CASE value = PT_ENDED
      <4>1. done["consumer"] = NUM_ITEMS
        BY <3>2, <3>12
      <4>2. result["producer"] = PT_ENDED
        BY <3>6, <3>8, <3>9, <4>1, <1>t
      <4>3. ~go
        BY <2>g, <3>2, <3>12, <4>2
      <4>4. running' = "driver" /\ line' = "end"
        BY <2>0, <4>3
      <4>5. passes' <= MaxPasses'
        BY <3>3, <3>4 DEF MaxPasses
      <4>6. \A u \in Workers : done'[u] = NUM_ITEMS
        BY <1>w, <3>9, <4>1
      <4> QED BY <1>w, <3>10, <4>4, <4>5, <4>6 DEF ProducerFirst
    <3> QED BY <3>11, <3>12
  <2> QED BY <1>i, <2>1, <2>2, <2>3, <2>4, <2>5 DEF PtInv, Started
<1> QED BY <1>2, <1>3

LEMMA WaitKeeps == ASSUME PtInv, NEW t \in Workers, Wait(t) PROVE PtInv'
<1> DEFINE s == IF t = "producer" THEN "full" ELSE "empty"
<1>w. Workers = {"producer", "consumer"} /\ "main" \notin Workers /\ "driver" \notin Workers
  BY DEF Workers
<1>0. running = t
  BY DEF Wait
<1>1. Started /\ PtType
  BY <1>0, <1>w DEF PtInv, NotStarted
<1>2. CASE line = "wait_buffer"
  <2>0. /\ lc' = [lc EXCEPT ![t] = line]
        /\ \/ /\ sem[s] > 0
              /\ sem' = [sem EXCEPT ![s] = @ - 1]
              /\ line' = "wait_mutex"
              /\ UNCHANGED <<running, result, passes>>
           \/ sem[s] = 0 /\ ReturnToDriver(t, PT_WAITING) /\ UNCHANGED sem
        /\ UNCHANGED <<done, buffer, left, taken>>
    BY <1>2 DEF Wait, PT_SEM_WAIT, Continuation
  <2>1. CASE sem[s] > 0 /\ sem' = [sem EXCEPT ![s] = @ - 1] /\ line' = "wait_mutex" /\ UNCHANGED <<running, result, passes>>
    <3> DEFINE next == "wait_mutex"
    <3> HIDE DEF next
    <3>1. line = "wait_buffer" /\ s = (IF t = "producer" THEN "full" ELSE "empty") /\ next = "wait_mutex"
      BY <1>2 DEF next
    <3>2. line' = next /\ sem[s] > 0 /\ sem' = [sem EXCEPT ![s] = @ - 1]
      BY <2>1 DEF next
    <3>3. UNCHANGED <<running, done, buffer, result, left, passes, taken>>
      BY <2>0, <2>1
    <3> HIDE DEF s
    <3> QED BY <1>0, <2>0, <3>1, <3>2, <3>3, TakeKeeps
  <2>2. CASE sem[s] = 0 /\ ReturnToDriver(t, PT_WAITING) /\ UNCHANGED sem
    <3>1. done[t] < NUM_ITEMS
      BY <1>0, <1>1, <1>2 DEF Started, Places, Pos
    <3>2. PT_WAITING # PT_ENDED
      BY DEF PT_WAITING, PT_ENDED
    <3>3. lc' = [lc EXCEPT ![t] = "wait_buffer"]
      BY <1>2, <2>0
    <3> QED BY <1>0, <1>2, <2>0, <2>2, <3>1, <3>2, <3>3, ReturnKeeps
  <2> QED BY <2>0, <2>1, <2>2
<1>3. CASE line = "wait_mutex"
  <2>0. /\ lc' = [lc EXCEPT ![t] = line]
        /\ \/ /\ sem["mutex"] > 0
              /\ sem' = [sem EXCEPT !["mutex"] = @ - 1]
              /\ line' = "work"
              /\ UNCHANGED <<running, result, passes>>
           \/ sem["mutex"] = 0
        /\ UNCHANGED <<done, buffer, left, taken>>
    BY <1>3 DEF Wait, PT_SEM_WAIT, Continuation
  <2>1. sem["mutex"] = 1
    BY <1>1, <1>3 DEF Started, Semaphores
  <2>2. sem["mutex"] > 0 /\ sem' = [sem EXCEPT !["mutex"] = @ - 1] /\ line' = "work" /\ UNCHANGED <<running, result, passes>>
    BY <2>0, <2>1
  <2> QED BY <1>0, <1>3, <2>0, <2>2, TakeKeeps
<1> QED BY <1>2, <1>3 DEF Wait

LEMMA EndKeeps == ASSUME PtInv, NEW t \in Workers, PT_END(t) PROVE PtInv'
<1>0. /\ running = t /\ line = "loop" /\ done[t] >= NUM_ITEMS
      /\ lc' = [lc EXCEPT ![t] = "begin"]
      /\ ReturnToDriver(t, PT_ENDED)
      /\ UNCHANGED <<sem, done, buffer, left, taken>>
  BY DEF PT_END
<1>1. done[t] = NUM_ITEMS
  <2>1. done[t] \in 0 .. NUM_ITEMS
    BY DEF PtInv, PtType
  <2> QED BY <1>0, <2>1, PtAssumption
<1>2. PT_WAITING # PT_ENDED
  BY DEF PT_WAITING, PT_ENDED
<1> QED BY <1>0, <1>1, <1>2, ReturnKeeps

(* What the invariant says of the states of the program.                   *)
LEMMA InvThreads == PtInv => ThreadsRight
<1> SUFFICES ASSUME PtInv PROVE ThreadsRight
  OBVIOUS
<1>w. Workers = {"producer", "consumer"} /\ "main" \notin Workers /\ "driver" \notin Workers
  BY DEF Workers
<1>t. /\ PtType /\ NUM_ITEMS \in Nat /\ NUM_ITEMS > 0 /\ BUFSIZE \in Nat /\ BUFSIZE > 0
      /\ taken.item = taken.number
  BY PtAssumption DEF PtInv, PtType
<1>m. MaxPasses = (NUM_ITEMS + BUFSIZE - 1) \div BUFSIZE
  BY DEF MaxPasses
<1>1. CASE NotStarted
  <2>1. Len(buffer) = 0 /\ passes = 0 /\ line = "begin"
    BY <1>1 DEF NotStarted
  <2>2. 0 * BUFSIZE < NUM_ITEMS
    BY <1>t
  <2>3. 0 <= MaxPasses
    <3>1. 0 + 1 <= MaxPasses
      BY <2>2, PassesBounded
    <3>2. MaxPasses \in Int
      BY <1>t, <1>m
    <3> QED BY <3>1, <3>2
  <2> QED BY <1>t, <1>m, <2>1, <2>3 DEF ThreadsRight, BufferGuarded, DriverEnds
<1>2. CASE Started
  <2>1. Len(buffer) \in Nat /\ sem.full \in Nat /\ sem.empty \in Nat
    BY <1>2, <1>t DEF Started, Items, PtType
  <2>2. sem.full + Hold("producer") + Len(buffer) = BUFSIZE /\ sem.empty + Hold("consumer") = Len(buffer)
    BY <1>2 DEF Started, Semaphores
  <2>3. Hold("producer") \in {0, 1} /\ Hold("consumer") \in {0, 1}
    BY DEF Hold
  <2>4. Len(buffer) <= BUFSIZE
    BY <1>t, <2>1, <2>2, <2>3
  <2>5. running = "main" => sem = [empty |-> Len(buffer), full |-> BUFSIZE - Len(buffer), mutex |-> 1]
    <3> SUFFICES ASSUME running = "main" PROVE sem = [empty |-> Len(buffer), full |-> BUFSIZE - Len(buffer), mutex |-> 1]
      OBVIOUS
    <3>1. Hold("producer") = 0 /\ Hold("consumer") = 0
      BY DEF Hold
    <3>2. sem.mutex = 1
      BY <1>2, <1>w DEF Started, Semaphores
    <3>3. sem.full = BUFSIZE - Len(buffer) /\ sem.empty = Len(buffer)
      BY <1>t, <2>1, <2>2, <3>1
    <3>4. sem \in [empty : Nat, full : Nat, mutex : Nat]
      BY <1>t DEF PtType
    <3> QED BY <3>2, <3>3, <3>4
  <2>6. BufferGuarded
    BY <1>t, <2>4, <2>5 DEF BufferGuarded
  <2>7. DriverEnds
    <3> SUFFICES ASSUME left = "producer"
                 PROVE /\ passes <= MaxPasses
                       /\ running = "main" /\ line = "over" => buffer = <<>> /\ \A t \in Workers : done[t] = NUM_ITEMS
      BY <1>m DEF DriverEnds
    <3>1. ProducerFirst
      BY <1>2 DEF Started
    <3>2. passes \in Nat /\ MaxPasses \in Int
      BY <1>t, <1>m DEF PtType
    <3>3. CASE line \in {"end", "over"}
      BY <3>1, <3>3 DEF ProducerFirst
    <3>4. CASE line \notin {"end", "over"}
      <4>1. running \in Workers \/ line \in {"begin", "wait_thread"}
        BY <1>2, <3>4 DEF Started, Control
      <4>2. passes * BUFSIZE < NUM_ITEMS
        BY <3>1, <4>1 DEF ProducerFirst, Before
      <4>3. passes + 1 <= MaxPasses
        BY <3>2, <4>2, PassesBounded
      <4>4. passes <= MaxPasses
        BY <3>2, <4>3
      <4> QED BY <3>4, <4>4
    <3> QED BY <3>3, <3>4
  <2> QED BY <2>6, <2>7 DEF ThreadsRight
<1> QED BY <1>1, <1>2 DEF PtInv

(* Producer and consumer protothreads over the semaphores of pt-sem.h, for *)
(* every number of items and every size of the buffer and whichever is     *)
(* called first: the buffer is never overfilled or read when it is empty,  *)
(* every item is consumed as the one of its number, the semaphores count   *)
(* what the buffer holds whenever both threads have returned; and when the *)
(* producer is called first the driver needs no more passes than buffers   *)
(* are to be filled, and everything produced is consumed when it ends.     *)
THEOREM ThreadsKeepBuffer == ProtothreadSpec => []ThreadsRight
<1>1. PtInv /\ [ProtothreadNext]_ptVars => PtInv'
  <2> SUFFICES ASSUME PtInv, [ProtothreadNext]_ptVars PROVE PtInv'
    OBVIOUS
  <2>1. CASE main
    BY <2>1, MainKeeps
  <2>2. CASE driver_thread
    BY <2>2, DriverBeginKeeps
  <2>3. CASE driver_thread_end
    BY <2>3, DriverEndKeeps
  <2>4. CASE PT_WAIT_THREAD
    BY <2>4, WaitThreadKeeps
  <2>5. CASE Produce
    BY <2>5, ProduceKeeps
  <2>6. CASE Consume
    BY <2>6, ConsumeKeeps
  <2>7. ASSUME NEW t \in Workers, LoopBegins(t) PROVE PtInv'
    BY <2>7, LoopBeginsKeeps
  <2>8. ASSUME NEW t \in Workers, LoopTurns(t) PROVE PtInv'
    BY <2>8, LoopTurnsKeeps
  <2>9. ASSUME NEW t \in Workers, Wait(t) PROVE PtInv'
    BY <2>9, WaitKeeps
  <2>10. ASSUME NEW t \in Workers, PT_END(t) PROVE PtInv'
    BY <2>10, EndKeeps
  <2>11. CASE UNCHANGED ptVars
    BY <2>11 DEF ptVars, PtInv, PtType, NotStarted, Started, Control, Places, Pos, Semaphores, Hold,
         Items, ProducerFirst, Before, MaxPasses
  <2> QED BY <2>1, <2>2, <2>3, <2>4, <2>5, <2>6, <2>7, <2>8, <2>9, <2>10, <2>11 DEF ProtothreadNext
<1> QED BY <1>1, InitPt, InvThreads, PTL DEF ProtothreadSpec

-----------------------------------------------------------------------------
(***************************************************************************)
(* efence.c.  The invariant: the slots in use lie apart, on whole pages    *)
(* that are mapped, and are counted (Tiled); the pages of a buffer in use  *)
(* can be touched just where it is live (Fenced); one slot holds the list  *)
(* (Listed); the buffers granted are the slots in use (GrantedOk); and the *)
(* pages given back are closed (DeadOk).  Two slots are always to spare.   *)
(***************************************************************************)
Modes == {"NOT_IN_USE", "FREE", "ALLOCATED", "PROTECTED", "INTERNAL_USE"}
SlotType == [mode : Modes, ua : Nat, ia : Nat, us : Nat, is : Nat]
ArenaType == [slots : Seq(SlotType), list : Nat, listPages : Nat, unUsed : Int,
              access : SUBSET (1..MaxPage), mapped : SUBSET Nat, top : Nat,
              seams : SUBSET Nat, error : BOOLEAN]

(* The first byte of page p, and the addresses at which pages start.       *)
Start(p) == p * PageBytes
Aligned(x) == \E k \in Nat : x = Start(k)

(* A slot by itself.  The user address of a free buffer that was split off *)
(* is 0; any other lies in the buffer, so that it belongs to one slot.     *)
Used(s) == s.mode # "NOT_IN_USE"
Inside(s, p) == s.ia <= Start(p) /\ Start(p) < s.ia + s.is
SlotOk(s, mp) ==
  /\ ~Used(s) => s = NoSlotUsed
  /\ Used(s) => /\ Aligned(s.ia) /\ Aligned(s.is) /\ s.ia > 0 /\ s.is > 0
                /\ \A p \in Nat : Inside(s, p) => p \in mp
                /\ s.ua = 0 \/ (s.ia <= s.ua /\ s.ua < s.ia + s.is)

(* The slots together: apart, no two that free should have joined, and the *)
(* empty ones counted.  Two free buffers may meet only where a chunk was   *)
(* placed directly below earlier memory.                                   *)
SlotsOk(t, mp) == \A i \in DOMAIN t : SlotOk(t[i], mp)
Apart(s, r) == s.ia + s.is <= r.ia \/ r.ia + r.is <= s.ia
AllApart(t) == \A i, j \in DOMAIN t : i # j /\ Used(t[i]) /\ Used(t[j]) => Apart(t[i], t[j])
Merges(s, r, sm) == /\ s.mode \in {"FREE", "PROTECTED"} /\ r.mode = s.mode
                /\ s.ia + s.is = r.ia
                /\ ~(s.mode = "FREE" /\ r.ia \in sm)
NoneMerge(t, sm) == \A i, j \in DOMAIN t : ~Merges(t[i], t[j], sm)
Empties(t) == {i \in DOMAIN t : t[i].mode = "NOT_IN_USE"}
Tiled(a) ==
  /\ SlotsOk(a.slots, a.mapped)
  /\ AllApart(a.slots)
  /\ NoneMerge(a.slots, a.seams)
  /\ a.unUsed = Cardinality(Empties(a.slots))

(* A buffer in use: all its pages but the dead one are live, the user's    *)
(* bytes end (start) at the dead page, and just the live pages can be      *)
(* touched.                                                                *)
Live(s, p) == IF env.below THEN s.ia + PageBytes <= Start(p) ELSE Start(p) < s.ia + s.is - PageBytes
Shaped(s) ==
  /\ s.us <= s.is - PageBytes
  /\ IF env.below THEN s.ua = s.ia + PageBytes ELSE s.ua + s.us = s.ia + s.is - PageBytes
Guarded(s, access) == \A p \in 1..MaxPage : Inside(s, p) => (p \in access <=> Live(s, p))
Fenced(a) == \A i \in DOMAIN a.slots :
   a.slots[i].mode = "ALLOCATED" => Shaped(a.slots[i]) /\ Guarded(a.slots[i], a.access)

(* The slot that describes the list of slots itself.                       *)
HoldsList(a, i) ==
  /\ a.slots[i].mode = "INTERNAL_USE"
  /\ a.slots[i].ua = a.list
  /\ a.slots[i].ia <= a.list /\ a.list + Start(a.listPages) <= a.slots[i].ia + a.slots[i].is
Listed(a) == \E i \in DOMAIN a.slots : HoldsList(a, i)
ListClosed(a) == \A p \in PagesOf(a.list, a.listPages * PageBytes) : p \notin a.access

(* All that is mapped lies below the top.                                  *)
Below(a) == a.top > 0 /\ \A p \in a.mapped : p < a.top

ArenaOk(a) ==
  /\ a \in ArenaType
  /\ ~a.error /\ Below(a)
  /\ Tiled(a) /\ Fenced(a) /\ Listed(a)

(* The history variables: what callers hold, and what they have given back.*)
GrantedOk(a, g) ==
  /\ \A x \in DOMAIN g : \E i \in DOMAIN a.slots : a.slots[i].mode = "ALLOCATED" /\ a.slots[i].ua = x
  /\ \A i \in DOMAIN a.slots : a.slots[i].mode = "ALLOCATED" =>
       a.slots[i].ua \in DOMAIN g /\ a.slots[i].us >= g[a.slots[i].ua]
DeadOk(a, d) ==
  /\ d \subseteq 1..MaxPage
  /\ \A p \in d : p \in a.mapped /\ p \notin a.access
  /\ env.protect => \A p \in d : \E i \in DOMAIN a.slots : a.slots[i].mode = "PROTECTED" /\ Inside(a.slots[i], p)

EfState(a, g, d) ==
  /\ ArenaOk(a) /\ a.unUsed >= 2 /\ a.top <= MaxPage + 1
  /\ GrantedOk(a, g)
  /\ DeadOk(a, d)

EfInv ==
  /\ env \in [below : BOOLEAN, protect : BOOLEAN, zero : BOOLEAN]
  /\ EfState(arena, granted, dead)
  /\ (granted = << >> /\ dead = {}) \/ ListClosed(arena)
-----------------------------------------------------------------------------
(* The first byte of page p.                                               *)
LEMMA StartMono ==
  ASSUME NEW p \in Nat, NEW q \in Nat
  PROVE  /\ Start(p) \in Nat
         /\ Start(p + q) = Start(p) + Start(q)
         /\ q > 0 => Start(q) >= PageBytes
         /\ p <= q => Start(p) <= Start(q)
         /\ p < q => Start(p) + PageBytes <= Start(q)
<1>0. PageBytes \in Nat /\ PageBytes > 0
  BY EfenceAssumption
<1>1. \A m, n \in Nat : Start(m) \in Nat /\ Start(m + n) = Start(m) + Start(n)
  BY <1>0 DEF Start
<1>2. Start(1) = PageBytes
  BY <1>0 DEF Start
<1>3. \A n \in Nat : n > 0 => Start(n) >= PageBytes
  <2> SUFFICES ASSUME NEW n \in Nat, n > 0 PROVE Start(n) >= PageBytes
    OBVIOUS
  <2>1. n - 1 \in Nat /\ n = (n - 1) + 1
    OBVIOUS
  <2>2. Start(n) = Start(n - 1) + Start(1)
    BY <2>1, <1>1
  <2> QED BY <2>1, <2>2, <1>1, <1>2, <1>0
<1>4. p <= q => Start(p) <= Start(q)
  <2> SUFFICES ASSUME p <= q PROVE Start(p) <= Start(q)
    OBVIOUS
  <2>1. q - p \in Nat /\ q = p + (q - p)
    OBVIOUS
  <2>2. Start(q) = Start(p) + Start(q - p)
    BY <2>1, <1>1
  <2> QED BY <2>1, <2>2, <1>1
<1>5. p < q => Start(p) + PageBytes <= Start(q)
  <2> SUFFICES ASSUME p < q PROVE Start(p) + PageBytes <= Start(q)
    OBVIOUS
  <2>1. q - p \in Nat /\ q = p + (q - p) /\ q - p > 0
    OBVIOUS
  <2>2. Start(q) = Start(p) + Start(q - p)
    BY <2>1, <1>1
  <2> QED BY <2>1, <2>2, <1>1, <1>3, <1>0
<1> QED BY <1>1, <1>3, <1>4, <1>5

LEMMA PagesIn ==
  ASSUME NEW x, NEW n, NEW p
  PROVE  p \in PagesOf(x, n) <=> p \in 1..MaxPage /\ Start(p) >= x /\ Start(p) < x + n
  BY DEF PagesOf, Start

LEMMA AlignedNat ==
  ASSUME NEW x, Aligned(x)
  PROVE  x \in Nat
  BY StartMono DEF Aligned

LEMMA AlignedPage ==
  /\ PageBytes \in Nat /\ PageBytes > 0
  /\ \A k \in Nat : Aligned(Start(k)) /\ Start(k) \in Nat
  /\ Aligned(PageBytes)
<1>1. PageBytes \in Nat /\ PageBytes > 0
  BY EfenceAssumption
<1>2. Start(1) = PageBytes
  BY <1>1 DEF Start
<1> QED BY <1>1, <1>2, StartMono DEF Aligned

LEMMA AlignedSteps ==
  ASSUME NEW x, NEW y, Aligned(x), Aligned(y)
  PROVE  /\ Aligned(x + y)
         /\ x <= y => Aligned(y - x)
         /\ x < y => x + PageBytes <= y
<1>1. PICK m \in Nat : x = Start(m)
  BY DEF Aligned
<1>2. PICK n \in Nat : y = Start(n)
  BY DEF Aligned
<1>3. Start(m) \in Nat /\ Start(n) \in Nat /\ Start(m + n) = Start(m) + Start(n)
  BY StartMono
<1>4. Aligned(x + y)
  BY <1>1, <1>2, <1>3 DEF Aligned
<1>5. n <= m => Start(n) <= Start(m)
  BY StartMono
<1>6. n < m => Start(n) + PageBytes <= Start(m)
  BY StartMono
<1>7. m < n => Start(m) + PageBytes <= Start(n)
  BY StartMono
<1>8. PageBytes \in Nat /\ PageBytes > 0
  BY EfenceAssumption
<1>9. x < y => x + PageBytes <= y
  BY <1>1, <1>2, <1>3, <1>5, <1>7, <1>8
<1>10. ASSUME x <= y PROVE Aligned(y - x)
  <2>1. m <= n
    BY <1>10, <1>1, <1>2, <1>3, <1>6, <1>8
  <2>2. n - m \in Nat /\ n = m + (n - m)
    BY <2>1
  <2>3. Start(n) = Start(m) + Start(n - m) /\ Start(n - m) \in Nat
    BY <2>2, StartMono
  <2>4. y - x = Start(n - m)
    BY <2>3, <1>1, <1>2, <1>3
  <2> QED BY <2>4, <2>2 DEF Aligned
<1> QED BY <1>4, <1>9, <1>10

LEMMA RoundUpBounds ==
  ASSUME NEW n \in Nat, NEW u \in Nat, u > 0
  PROVE  /\ RoundUp(n, u) \in Nat
         /\ RoundUp(n, u) >= n
         /\ RoundUp(n, u) < n + u
<1> DEFINE d == n + u - 1
<1>1. d \in Nat
  OBVIOUS
<1> HIDE DEF d
<1>2. PICK q \in Nat, r \in 0 .. u - 1 : d \div u = q /\ d = q * u + r
  BY <1>1, SMTT(30)
<1>3. q * u \in Nat
  OBVIOUS
<1>4. RoundUp(n, u) = q * u
  BY <1>2 DEF RoundUp, d
<1>5. q * u = d - r
  BY <1>1, <1>2, <1>3
<1> QED BY <1>1, <1>2, <1>3, <1>4, <1>5 DEF d

LEMMA RoundUpAligned ==
  ASSUME NEW n \in Nat
  PROVE  Aligned(RoundUp(n, PageBytes))
<1>1. PageBytes \in Nat /\ PageBytes > 0
  BY EfenceAssumption
<1>2. (n + PageBytes - 1) \div PageBytes \in Nat
  BY <1>1
<1> QED BY <1>2 DEF RoundUp, Aligned, Start

(* The least of a set of numbers is one of them.                           *)
LEMMA MinMember ==
  ASSUME NEW S, S \subseteq Nat, S # {}
  PROVE  Min(S) \in S /\ \A x \in S : Min(S) <= x
<1> DEFINE R == {ss \in Nat \X Nat : ss[1] < ss[2]}
<1>1. IsWellFoundedOn(R, Nat)
  BY NatLessThanWellFounded DEF OpToRel
<1>2. PICK x \in S : \A y \in S : ~(<<y, x>> \in R)
  <2> HIDE DEF R
  <2> QED  BY <1>1, WFMin
<1>3. ASSUME NEW y \in S PROVE x <= y
  <2>1. x \in Nat /\ y \in Nat /\ ~(<<y, x>> \in R)
    BY <1>2
  <2> QED  BY <2>1
<1> QED BY <1>3 DEF Min

-----------------------------------------------------------------------------
(* Slots that change hands: i of t gets `size' bytes from its start on and *)
(* is no longer free, and the rest, if any, becomes a free buffer in e.    *)
SlotCarved(t, u, i, e, size) ==
  /\ DOMAIN u = DOMAIN t
  /\ \A k \in DOMAIN t : k # i /\ k # e => u[k] = t[k]
  /\ u[i].mode \in {"ALLOCATED", "INTERNAL_USE"}
  /\ u[i].ia = t[i].ia /\ u[i].is = size
  /\ t[i].is = size => u[e] = t[e]
  /\ t[i].is # size => /\ u[e].mode = "FREE" /\ u[e].ua = 0
                       /\ u[e].ia = t[i].ia + size /\ u[e].is = t[i].is - size

(* Two free buffers meet only at slot i, and nothing free begins where it  *)
(* ends.                                                                   *)
MergesAt(t, i, sm) == \A j, k \in DOMAIN t : Merges(t[j], t[k], sm) => j = i \/ k = i
NoneBehind(t, i, sm) == \A k \in DOMAIN t : ~Merges(t[i], t[k], sm)
NoneBefore(t, i, sm) == \A k \in DOMAIN t : ~Merges(t[k], t[i], sm)

SlotSeq(t) == t \in Seq(SlotType)

LEMMA SlotFields ==
  ASSUME NEW t, SlotSeq(t), NEW i \in DOMAIN t
  PROVE  /\ t[i] \in SlotType
         /\ t[i].ua \in Nat /\ t[i].ia \in Nat /\ t[i].us \in Nat /\ t[i].is \in Nat
         /\ t[i].mode \in Modes
<1>1. t[i] \in SlotType
  BY DEF SlotSeq
<1> QED BY <1>1 DEF SlotType

LEMMA CarveSlots ==
  ASSUME NEW t, NEW u, SlotSeq(t), SlotSeq(u), NEW mp,
         NEW i \in DOMAIN t, NEW e \in DOMAIN t, i # e,
         NEW size, Aligned(size), size > 0, size <= t[i].is,
         t[i].mode = "FREE", t[e] = NoSlotUsed,
         SlotsOk(t, mp), SlotCarved(t, u, i, e, size),
         u[i].ia <= u[i].ua, u[i].ua < u[i].ia + u[i].is
  PROVE  SlotsOk(u, mp)
<1> SUFFICES ASSUME NEW k \in DOMAIN u PROVE SlotOk(u[k], mp)
  BY DEF SlotsOk
<1>0. k \in DOMAIN t /\ SlotOk(t[k], mp) /\ SlotOk(t[i], mp) /\ SlotOk(t[e], mp)
  BY DEF SlotsOk, SlotCarved
<1>1. CASE k # i /\ k # e
  BY <1>0, <1>1 DEF SlotCarved
<1>2. /\ Used(t[i]) /\ Aligned(t[i].ia) /\ Aligned(t[i].is) /\ t[i].ia > 0
      /\ \A p \in Nat : Inside(t[i], p) => p \in mp
  BY <1>0 DEF SlotOk, Used
<1>3. t[i].ia \in Nat /\ t[i].is \in Nat /\ size \in Nat /\ \A p \in Nat : Start(p) \in Nat
  BY <1>2, StartMono, AlignedNat
<1>4. CASE k = i
  <2>1. u[i].ia = t[i].ia /\ u[i].is = size /\ Used(u[i])
    BY DEF SlotCarved, Used
  <2>2. \A p \in Nat : Inside(u[i], p) => Inside(t[i], p)
    BY <2>1, <1>3 DEF Inside
  <2> QED BY <1>2, <1>3, <1>4, <2>1, <2>2 DEF SlotOk
<1>5. CASE k = e /\ t[i].is = size
  BY <1>5, <1>0 DEF SlotCarved
<1>6. CASE k = e /\ t[i].is # size
  <2>1. Aligned(t[i].ia + size) /\ Aligned(t[i].is - size)
    BY <1>2, AlignedSteps
  <2>2. u[e].ia = t[i].ia + size /\ u[e].is = t[i].is - size /\ Used(u[e]) /\ u[e].ua = 0
    BY <1>6 DEF SlotCarved, Used
  <2>3. \A p \in Nat : Inside(u[e], p) => Inside(t[i], p)
    BY <2>2, <1>3 DEF Inside
  <2> QED BY <1>6, <1>2, <1>3, <2>1, <2>2, <2>3 DEF SlotOk
<1> QED BY <1>1, <1>4, <1>5, <1>6

LEMMA CarveApart ==
  ASSUME NEW t, NEW u, SlotSeq(t), SlotSeq(u), NEW mp,
         NEW i \in DOMAIN t, NEW e \in DOMAIN t, i # e,
         NEW size \in Nat, size > 0, size <= t[i].is,
         t[i].mode = "FREE", t[e] = NoSlotUsed,
         AllApart(t), SlotCarved(t, u, i, e, size)
  PROVE  AllApart(u)
<1> SUFFICES ASSUME NEW j \in DOMAIN t, NEW k \in DOMAIN t, j # k, Used(u[j]), Used(u[k])
             PROVE  Apart(u[j], u[k])
  BY DEF AllApart, SlotCarved
<1>0. Used(t[i]) /\ ~Used(t[e])
  BY DEF Used, NoSlotUsed
<1>1. \A n \in DOMAIN t : t[n].ia \in Nat /\ t[n].is \in Nat
  BY SlotFields
<1>2. \A n \in DOMAIN t : n # i /\ n # e /\ Used(u[n]) => u[n] = t[n] /\ Apart(t[n], t[i])
  BY <1>0 DEF SlotCarved, AllApart
<1>3. u[i].ia = t[i].ia /\ u[i].is = size
  BY DEF SlotCarved
<1>4. Used(u[e]) => u[e].ia = t[i].ia + size /\ u[e].is = t[i].is - size
  BY <1>0 DEF SlotCarved
<1>5. CASE j # i /\ j # e /\ k # i /\ k # e
  BY <1>5, <1>2 DEF AllApart
<1>6. CASE j = i /\ k = e
  BY <1>6, <1>1, <1>3, <1>4 DEF Apart
<1>7. CASE j = e /\ k = i
  BY <1>7, <1>1, <1>3, <1>4 DEF Apart
<1>8. CASE j \in {i, e} /\ k # i /\ k # e
  BY <1>8, <1>1, <1>2, <1>3, <1>4 DEF Apart
<1>9. CASE k \in {i, e} /\ j # i /\ j # e
  BY <1>9, <1>1, <1>2, <1>3, <1>4 DEF Apart
<1> QED BY <1>5, <1>6, <1>7, <1>8, <1>9

LEMMA CarveNoneMerge ==
  ASSUME NEW t, NEW u, SlotSeq(t), SlotSeq(u), NEW mp, SlotsOk(t, mp),
         NEW i \in DOMAIN t, NEW e \in DOMAIN t, i # e,
         NEW size \in Nat, size > 0, size <= t[i].is,
         t[i].mode = "FREE", t[e] = NoSlotUsed,
         AllApart(t), NEW sm, MergesAt(t, i, sm), NoneBehind(t, i, sm), SlotCarved(t, u, i, e, size)
  PROVE  NoneMerge(u, sm)
<1> SUFFICES ASSUME NEW j \in DOMAIN t, NEW k \in DOMAIN t, Merges(u[j], u[k], sm)
             PROVE  FALSE
  BY DEF NoneMerge, SlotCarved
<1>0. Used(t[i]) /\ ~Used(t[e])
  BY DEF Used, NoSlotUsed
<1>1. \A n \in DOMAIN t : t[n].ia \in Nat /\ t[n].is \in Nat
  BY SlotFields
<1>2. j # i /\ k # i
  BY DEF SlotCarved, Merges
<1>3. CASE j # e /\ k # e
  BY <1>2, <1>3 DEF SlotCarved, MergesAt
<1>4. CASE j = e /\ k = e
  <2>1. t[i].is # size
    BY <1>4, <1>0 DEF SlotCarved, Merges, Used
  <2> QED BY <2>1, <1>1, <1>4 DEF SlotCarved, Merges
<1>5. CASE j = e /\ k # e
  <2>1. t[i].is # size
    BY <1>5, <1>0 DEF SlotCarved, Merges, Used
  <2>2. u[k] = t[k] /\ u[e].mode = "FREE" /\ u[e].ia + u[e].is = t[i].ia + t[i].is
    BY <2>1, <1>1, <1>2, <1>5 DEF SlotCarved
  <2> QED BY <2>2, <1>5 DEF Merges, NoneBehind
<1>6. CASE j # e /\ k = e
  <2>1. t[i].is # size
    BY <1>6, <1>0 DEF SlotCarved, Merges, Used
  <2>2. u[j] = t[j] /\ u[e].ia = t[i].ia + size /\ Used(t[j])
    BY <2>1, <1>2, <1>6 DEF SlotCarved, Merges, Used
  <2>3. Apart(t[j], t[i]) /\ t[j].is > 0
    BY <2>2, <1>0, <1>2 DEF AllApart, SlotsOk, SlotOk
  <2>4. t[j].ia + t[j].is = t[i].ia + size
    BY <2>2, <1>6 DEF Merges
  <2>5. t[i].is > size
    BY <2>1, <1>1
  <2> QED BY <2>3, <2>4, <2>5, <1>1 DEF Apart
<1> QED BY <1>3, <1>4, <1>5, <1>6

-----------------------------------------------------------------------------
(* Slot i of t takes over slot j, which lies right behind it.              *)
Absorbed(t, u, i, j) ==
  /\ DOMAIN u = DOMAIN t
  /\ \A k \in DOMAIN t : k # i /\ k # j => u[k] = t[k]
  /\ u[i].mode = t[i].mode /\ u[i].ia = t[i].ia /\ u[i].ua = t[i].ua
  /\ u[i].is = t[i].is + t[j].is
  /\ u[j] = NoSlotUsed

LEMMA AbsorbSlots ==
  ASSUME NEW t, NEW u, SlotSeq(t), SlotSeq(u), NEW mp,
         NEW i \in DOMAIN t, NEW j \in DOMAIN t, i # j,
         Used(t[i]), Used(t[j]), t[i].ia + t[i].is = t[j].ia,
         SlotsOk(t, mp), Absorbed(t, u, i, j)
  PROVE  SlotsOk(u, mp)
<1> SUFFICES ASSUME NEW k \in DOMAIN u PROVE SlotOk(u[k], mp)
  BY DEF SlotsOk
<1>0. k \in DOMAIN t /\ SlotOk(t[k], mp) /\ SlotOk(t[i], mp) /\ SlotOk(t[j], mp)
  BY DEF SlotsOk, Absorbed
<1>1. CASE k # i /\ k # j
  BY <1>0, <1>1 DEF Absorbed
<1>2. CASE k = j
  BY <1>2 DEF Absorbed, SlotOk, Used, NoSlotUsed
<1>3. CASE k = i
  <2>1. /\ t[i].ia \in Nat /\ t[i].is \in Nat /\ t[j].ia \in Nat /\ t[j].is \in Nat
        /\ t[i].ua \in Nat /\ \A p \in Nat : Start(p) \in Nat
    BY SlotFields, StartMono
  <2>2. Aligned(t[i].is + t[j].is)
    BY <1>0, AlignedSteps DEF SlotOk
  <2>3. /\ Used(u[i]) /\ Aligned(u[i].ia) /\ Aligned(u[i].is) /\ u[i].ia > 0 /\ u[i].is > 0
    BY <1>0, <2>1, <2>2 DEF Absorbed, SlotOk, Used
  <2>4. u[i].ua = 0 \/ (u[i].ia <= u[i].ua /\ u[i].ua < u[i].ia + u[i].is)
    BY <1>0, <2>1 DEF Absorbed, SlotOk, Used
  <2>5. \A p \in Nat : Inside(u[i], p) => Inside(t[i], p) \/ Inside(t[j], p)
    BY <2>1 DEF Absorbed, Inside
  <2>6. \A p \in Nat : Inside(u[i], p) => p \in mp
    BY <1>0, <2>5 DEF SlotOk
  <2> QED BY <1>3, <2>3, <2>4, <2>6 DEF SlotOk
<1> QED BY <1>1, <1>2, <1>3

LEMMA AbsorbApart ==
  ASSUME NEW t, NEW u, SlotSeq(t), SlotSeq(u),
         NEW i \in DOMAIN t, NEW j \in DOMAIN t, i # j,
         Used(t[i]), Used(t[j]), t[i].ia + t[i].is = t[j].ia,
         t[i].is > 0, t[j].is > 0, NEW mp, SlotsOk(t, mp),
         AllApart(t), Absorbed(t, u, i, j)
  PROVE  AllApart(u)
<1> SUFFICES ASSUME NEW m \in DOMAIN t, NEW n \in DOMAIN t, m # n, Used(u[m]), Used(u[n])
             PROVE  Apart(u[m], u[n])
  BY DEF AllApart, Absorbed
<1>0. m # j /\ n # j
  BY DEF Absorbed, Used, NoSlotUsed
<1>1. \A k \in DOMAIN t : t[k].ia \in Nat /\ t[k].is \in Nat
  BY SlotFields
<1>2. \A k \in DOMAIN t : k # i /\ k # j /\ Used(u[k])
         => u[k] = t[k] /\ Apart(t[k], t[i]) /\ Apart(t[k], t[j]) /\ t[k].is > 0
  BY DEF Absorbed, AllApart, SlotsOk, SlotOk
<1>3. u[i].ia = t[i].ia /\ u[i].is = t[i].is + t[j].is
  BY DEF Absorbed
<1>4. CASE m # i /\ n # i
  BY <1>0, <1>4, <1>2 DEF AllApart
<1>5. CASE m = i
  BY <1>0, <1>1, <1>2, <1>3, <1>5 DEF Apart
<1>6. CASE n = i
  BY <1>0, <1>1, <1>2, <1>3, <1>6 DEF Apart
<1> QED BY <1>4, <1>5, <1>6

(* A free buffer that has taken over the one before it.                    *)
LEMMA AbsorbIntoPrevious ==
  ASSUME NEW t, NEW u, SlotSeq(t), SlotSeq(u), NEW mp, SlotsOk(t, mp),
         NEW s \in DOMAIN t, NEW i \in DOMAIN t, s # i, Used(t[i]),
         t[s].mode = t[i].mode, t[s].ia + t[s].is = t[i].ia,
         NEW sm, MergesAt(t, i, sm), Absorbed(t, u, s, i)
  PROVE  MergesAt(u, s, sm) /\ NoneBefore(u, s, sm)
<1>1. \A k \in DOMAIN t : t[k].ia \in Nat /\ t[k].is \in Nat
  BY SlotFields
<1>2. ~Used(u[i])
  BY DEF Absorbed, Used, NoSlotUsed
<1>3. MergesAt(u, s, sm)
  <2> SUFFICES ASSUME NEW j \in DOMAIN t, NEW k \in DOMAIN t, Merges(u[j], u[k], sm), j # s, k # s
               PROVE  FALSE
    BY DEF MergesAt, Absorbed
  <2>1. j # i /\ k # i
    BY <1>2 DEF Merges, Used
  <2> QED BY <2>1 DEF Absorbed, MergesAt
<1>4. NoneBefore(u, s, sm)
  <2> SUFFICES ASSUME NEW k \in DOMAIN t, Merges(u[k], u[s], sm)
               PROVE  FALSE
    BY DEF NoneBefore, Absorbed
  <2>1. k # i
    BY <1>2 DEF Merges, Used
  <2>2. t[i].is > 0
    BY DEF SlotsOk, SlotOk
  <2>3. k # s
    BY <2>2, <1>1 DEF Merges, Absorbed
  <2>4. Merges(t[k], t[s], sm)
    BY <2>1, <2>3 DEF Absorbed, Merges
  <2> QED BY <2>1, <2>3, <2>4 DEF MergesAt
<1> QED BY <1>3, <1>4

(* A free buffer that has taken over the one behind it.                    *)
LEMMA AbsorbNext ==
  ASSUME NEW t, NEW u, SlotSeq(t), SlotSeq(u), NEW mp, SlotsOk(t, mp),
         NEW s \in DOMAIN t, NEW n \in DOMAIN t, s # n, Used(t[n]),
         t[s].mode = t[n].mode, t[s].ia + t[s].is = t[n].ia,
         NEW sm, MergesAt(t, s, sm), NoneBefore(t, s, sm), Absorbed(t, u, s, n)
  PROVE  NoneMerge(u, sm)
<1>1. \A k \in DOMAIN t : t[k].ia \in Nat /\ t[k].is \in Nat
  BY SlotFields
<1>2. ~Used(u[n])
  BY DEF Absorbed, Used, NoSlotUsed
<1> SUFFICES ASSUME NEW j \in DOMAIN t, NEW k \in DOMAIN t, Merges(u[j], u[k], sm)
             PROVE  FALSE
  BY DEF NoneMerge, Absorbed
<1>3. j # n /\ k # n
  BY <1>2 DEF Merges, Used
<1>4. t[n].is > 0 /\ u[s].is = t[s].is + t[n].is /\ u[s].ia = t[s].ia /\ u[s].mode = t[s].mode
  BY DEF SlotsOk, SlotOk, Absorbed
<1>5. CASE j # s /\ k # s
  BY <1>3, <1>5 DEF Absorbed, MergesAt
<1>6. CASE j # s /\ k = s
  <2>1. Merges(t[j], t[s], sm)
    BY <1>3, <1>4, <1>6 DEF Absorbed, Merges
  <2> QED BY <2>1 DEF NoneBefore
<1>7. CASE j = s /\ k = s
  BY <1>1, <1>4, <1>7 DEF Merges
<1>8. CASE j = s /\ k # s
  <2>1. t[n].ia + t[n].is = u[s].ia + u[s].is
    BY <1>1, <1>4
  <2>2. u[k] = t[k]
    BY <1>3, <1>8 DEF Absorbed
  <2>3. Merges(t[n], t[k], sm)
    BY <2>1, <2>2, <1>4, <1>8 DEF Merges
  <2> QED BY <2>3, <1>3, <1>8 DEF MergesAt
<1> QED BY <1>5, <1>6, <1>7, <1>8

-----------------------------------------------------------------------------
(* The number of empty slots.                                              *)
LEMMA EmptiesFinite ==
  ASSUME NEW t, SlotSeq(t)
  PROVE  IsFiniteSet(Empties(t)) /\ Cardinality(Empties(t)) \in Nat
<1>1. DOMAIN t = 1 .. Len(t) /\ Len(t) \in Nat
  BY DEF SlotSeq
<1>2. IsFiniteSet(1 .. Len(t))
  BY <1>1, FS_Interval
<1>3. Empties(t) \in SUBSET (1 .. Len(t))
  BY <1>1 DEF Empties
<1>4. IsFiniteSet(Empties(t))
  BY <1>2, <1>3, FS_Subset
<1> QED BY <1>4, FS_CardinalityType

LEMMA EmptyTaken ==
  ASSUME NEW t, NEW u, SlotSeq(t), SlotSeq(u), NEW e \in Empties(t), Empties(u) = Empties(t) \ {e}
  PROVE  Cardinality(Empties(u)) = Cardinality(Empties(t)) - 1
  BY EmptiesFinite, FS_RemoveElement

LEMMA EmptyGained ==
  ASSUME NEW t, NEW u, SlotSeq(t), SlotSeq(u), NEW e, e \notin Empties(t), Empties(u) = Empties(t) \union {e}
  PROVE  Cardinality(Empties(u)) = Cardinality(Empties(t)) + 1
  BY EmptiesFinite, FS_AddElement

(* All but the slots, their number and the protection.                     *)
SameRest(a, b) ==
  /\ b.list = a.list /\ b.listPages = a.listPages
  /\ b.mapped = a.mapped /\ b.top = a.top /\ b.seams = a.seams /\ b.error = a.error

LEMMA ArenaFields ==
  ASSUME NEW a, a \in ArenaType
  PROVE  /\ SlotSeq(a.slots) /\ a.list \in Nat /\ a.listPages \in Nat /\ a.unUsed \in Int
         /\ a.access \in SUBSET (1..MaxPage) /\ a.mapped \in SUBSET Nat /\ a.top \in Nat
         /\ a.seams \in SUBSET Nat /\ a.error \in BOOLEAN
  BY DEF ArenaType, SlotSeq

LEMMA SlotChanged ==
  ASSUME NEW t, SlotSeq(t), NEW i \in DOMAIN t, NEW s \in SlotType
  PROVE  LET u == [t EXCEPT ![i] = s]
         IN  SlotSeq(u) /\ DOMAIN u = DOMAIN t /\ u[i] = s /\ \A k \in DOMAIN t : k # i => u[k] = t[k]
<1>1. t \in [1 .. Len(t) -> SlotType] /\ Len(t) \in Nat
  BY DEF SlotSeq
<1>2. [t EXCEPT ![i] = s] \in [1 .. Len(t) -> SlotType]
  BY <1>1
<1>3. \A n \in Nat : \A f \in [1..n -> SlotType] : f \in Seq(SlotType)
  OBVIOUS
<1> QED BY <1>1, <1>2, <1>3 DEF SlotSeq

LEMMA NoSlotIsSlot == NoSlotUsed \in SlotType /\ ~Used(NoSlotUsed)
  BY DEF NoSlotUsed, SlotType, Modes, Used

LEMMA AbsorbFields ==
  ASSUME NEW a, a \in ArenaType, NEW i \in DOMAIN a.slots, NEW j \in DOMAIN a.slots, i # j
  PROVE  LET b == Absorb(a, i, j)
         IN  /\ b \in ArenaType /\ Absorbed(a.slots, b.slots, i, j)
             /\ SameRest(a, b) /\ b.access = a.access /\ b.unUsed = a.unUsed + 1
<1> DEFINE t == a.slots
           s1 == [t[i] EXCEPT !.is = t[i].is + t[j].is]
           u1 == [t EXCEPT ![i] = s1]
           u == [u1 EXCEPT ![j] = NoSlotUsed]
<1>1. SlotSeq(t) /\ t[i] \in SlotType /\ t[j] \in SlotType
  BY ArenaFields, SlotFields
<1>2. s1 \in SlotType /\ s1.mode = t[i].mode /\ s1.ia = t[i].ia /\ s1.ua = t[i].ua /\ s1.is = t[i].is + t[j].is
  BY <1>1 DEF SlotType
<1>3. SlotSeq(u1) /\ DOMAIN u1 = DOMAIN t /\ u1[i] = s1 /\ \A k \in DOMAIN t : k # i => u1[k] = t[k]
  <2> HIDE DEF s1, t
  <2> QED BY <1>1, <1>2, SlotChanged DEF t
<1>4. SlotSeq(u) /\ DOMAIN u = DOMAIN t /\ u[j] = NoSlotUsed /\ \A k \in DOMAIN t : k # j => u[k] = u1[k]
  <2> HIDE DEF u1
  <2> QED BY <1>3, NoSlotIsSlot, SlotChanged
<1>5. Absorb(a, i, j) = [a EXCEPT !.slots = u, !.unUsed = a.unUsed + 1]
  BY <1>1 DEF Absorb, ArenaType
<1>6. Absorbed(t, u, i, j)
  <2> HIDE DEF s1, u1, u
  <2> QED BY <1>2, <1>3, <1>4 DEF Absorbed
<1>7. [a EXCEPT !.slots = u, !.unUsed = a.unUsed + 1] \in ArenaType
  <2> HIDE DEF u
  <2>1. a.unUsed + 1 \in Int
    BY ArenaFields
  <2> QED BY <1>4, <2>1 DEF ArenaType, SlotSeq
<1> HIDE DEF u
<1> QED BY <1>5, <1>6, <1>7 DEF SameRest, ArenaType

-----------------------------------------------------------------------------
(* At most one buffer ends, and at most one begins, at an address.         *)
LEMMA EndIsUnique ==
  ASSUME NEW t, SlotSeq(t), NEW mp, SlotsOk(t, mp), AllApart(t),
         NEW m \in DOMAIN t, NEW n \in DOMAIN t,
         t[m].ia + t[m].is = t[n].ia + t[n].is, t[m].ia + t[m].is > 0
  PROVE  m = n
<1>1. t[m].ia \in Nat /\ t[m].is \in Nat /\ t[n].ia \in Nat /\ t[n].is \in Nat
  BY SlotFields
<1>2. Used(t[m]) /\ Used(t[n])
  BY DEF SlotsOk, SlotOk, NoSlotUsed
<1>3. t[m].is > 0 /\ t[n].is > 0
  BY <1>2 DEF SlotsOk, SlotOk
<1>4. m # n => Apart(t[m], t[n])
  BY <1>2 DEF AllApart
<1> QED BY <1>1, <1>3, <1>4 DEF Apart

LEMMA BeginIsUnique ==
  ASSUME NEW t, SlotSeq(t), NEW mp, SlotsOk(t, mp), AllApart(t),
         NEW m \in DOMAIN t, NEW n \in DOMAIN t, t[m].ia = t[n].ia, t[m].ia > 0
  PROVE  m = n
<1>1. t[m].ia \in Nat /\ t[m].is \in Nat /\ t[n].ia \in Nat /\ t[n].is \in Nat
  BY SlotFields
<1>2. Used(t[m]) /\ Used(t[n])
  BY DEF SlotsOk, SlotOk, NoSlotUsed
<1>3. t[m].is > 0 /\ t[n].is > 0
  BY <1>2 DEF SlotsOk, SlotOk
<1>4. m # n => Apart(t[m], t[n])
  BY <1>2 DEF AllApart
<1> QED BY <1>1, <1>3, <1>4 DEF Apart

(* The search for a neighbour finds the one that can be joined, if any.    *)
LEMMA NeighbourFound ==
  ASSUME NEW a, NEW found, NEW md, found \subseteq DOMAIN a.slots, found \subseteq Nat,
         \A m, n \in found : m = n
  PROVE  /\ \A k \in found : a.slots[k].mode = md => InMode(a, found, md) = {k} /\ Min(InMode(a, found, md)) = k
         /\ \A k \in InMode(a, found, md) : k \in found /\ a.slots[k].mode = md
<1>1. ASSUME NEW k \in found, a.slots[k].mode = md
      PROVE  InMode(a, found, md) = {k} /\ Min(InMode(a, found, md)) = k
  <2>1. Min(found) = k
    BY <1>1, MinMember
  <2>2. InMode(a, found, md) = {k}
    BY <2>1, <1>1 DEF InMode
  <2>3. {k} \subseteq Nat /\ {k} # {}
    OBVIOUS
  <2> QED BY <2>2, <2>3, MinMember
<1>2. ASSUME NEW k \in InMode(a, found, md) PROVE k \in found /\ a.slots[k].mode = md
  BY <1>2 DEF InMode
<1> QED BY <1>1, <1>2

Found(a, md, mp) ==
  /\ a \in ArenaType
  /\ md \in {"FREE", "PROTECTED"}
  /\ SlotsOk(a.slots, mp) /\ AllApart(a.slots)

(* What the two searches return: S is the neighbour, or there is none.     *)
PreviousIs(a, md, i, S, sm) ==
  /\ \A k \in S : /\ k \in DOMAIN a.slots /\ k # i /\ Min(S) = k /\ a.slots[k].mode = md
                  /\ a.slots[k].ia + a.slots[k].is = a.slots[i].ia
  /\ S = {} => NoneBefore(a.slots, i, sm)
NextIs(a, md, i, S, sm) ==
  /\ \A k \in S : /\ k \in DOMAIN a.slots /\ k # i /\ Min(S) = k /\ a.slots[k].mode = md
                  /\ a.slots[i].ia + a.slots[i].is = a.slots[k].ia
  /\ S = {} => NoneBehind(a.slots, i, sm)

LEMMA PreviousFound ==
  ASSUME NEW a, NEW md, NEW mp, Found(a, md, mp), NEW i \in DOMAIN a.slots, a.slots[i].mode = md,
         NEW sm, NEW S, S = InMode(a, slotForInternalAddressPreviousTo(a, a.slots[i].ia), md)
  PROVE  PreviousIs(a, md, i, S, sm)
<1> DEFINE t == a.slots
           F == slotForInternalAddressPreviousTo(a, t[i].ia)
<1>0. SlotSeq(t) /\ DOMAIN t \subseteq Nat
  BY ArenaFields DEF Found, SlotSeq
<1>1. Used(t[i]) /\ t[i].ia > 0 /\ t[i].is > 0 /\ t[i].ia \in Nat /\ t[i].is \in Nat
  BY <1>0, SlotFields DEF Found, SlotsOk, SlotOk, Used
<1>2. F \subseteq DOMAIN t /\ \A k \in F : t[k].ia + t[k].is = t[i].ia
  BY DEF slotForInternalAddressPreviousTo
<1>3. \A m, n \in F : m = n
  BY <1>0, <1>1, <1>2, EndIsUnique DEF Found
<1>4. /\ \A k \in F : t[k].mode = md => S = {k} /\ Min(S) = k
      /\ \A k \in S : k \in F /\ t[k].mode = md
  BY <1>0, <1>2, <1>3, NeighbourFound
<1>5. ASSUME NEW k \in S
      PROVE  k \in DOMAIN t /\ k # i /\ Min(S) = k /\ t[k].mode = md /\ t[k].ia + t[k].is = t[i].ia
  <2>1. k \in DOMAIN t /\ t[k].mode = md /\ t[k].ia + t[k].is = t[i].ia /\ Min(S) = k
    BY <1>2, <1>4, <1>5
  <2> QED BY <2>1, <1>1
<1>6. ASSUME S = {} PROVE NoneBefore(t, i, sm)
  <2> SUFFICES ASSUME NEW k \in DOMAIN t, Merges(t[k], t[i], sm) PROVE FALSE
    BY DEF NoneBefore
  <2>1. k \in F /\ t[k].mode = md
    BY DEF Merges, slotForInternalAddressPreviousTo
  <2> QED BY <2>1, <1>4, <1>6
<1> QED BY <1>5, <1>6 DEF PreviousIs

LEMMA NextFound ==
  ASSUME NEW a, NEW md, NEW mp, Found(a, md, mp), NEW i \in DOMAIN a.slots, a.slots[i].mode = md,
         NEW sm, NEW S, S = InMode(a, slotForInternalAddress(a, a.slots[i].ia + a.slots[i].is), md)
  PROVE  NextIs(a, md, i, S, sm)
<1> DEFINE t == a.slots
           F == slotForInternalAddress(a, t[i].ia + t[i].is)
<1>0. SlotSeq(t) /\ DOMAIN t \subseteq Nat
  BY ArenaFields DEF Found, SlotSeq
<1>1. Used(t[i]) /\ t[i].ia > 0 /\ t[i].is > 0 /\ t[i].ia \in Nat /\ t[i].is \in Nat
  BY <1>0, SlotFields DEF Found, SlotsOk, SlotOk, Used
<1>2. F \subseteq DOMAIN t /\ \A k \in F : t[k].ia = t[i].ia + t[i].is
  BY DEF slotForInternalAddress
<1>3. \A m, n \in F : m = n
  BY <1>0, <1>1, <1>2, BeginIsUnique DEF Found
<1>4. /\ \A k \in F : t[k].mode = md => S = {k} /\ Min(S) = k
      /\ \A k \in S : k \in F /\ t[k].mode = md
  BY <1>0, <1>2, <1>3, NeighbourFound
<1>5. ASSUME NEW k \in S
      PROVE  k \in DOMAIN t /\ k # i /\ Min(S) = k /\ t[k].mode = md /\ t[i].ia + t[i].is = t[k].ia
  <2>1. k \in DOMAIN t /\ t[k].mode = md /\ t[k].ia = t[i].ia + t[i].is /\ Min(S) = k
    BY <1>2, <1>4, <1>5
  <2> QED BY <2>1, <1>1
<1>6. ASSUME S = {} PROVE NoneBehind(t, i, sm)
  <2> SUFFICES ASSUME NEW k \in DOMAIN t, Merges(t[i], t[k], sm) PROVE FALSE
    BY DEF NoneBehind
  <2>1. k \in F /\ t[k].mode = md
    BY DEF Merges, slotForInternalAddress
  <2> QED BY <2>1, <1>4, <1>6
<1> QED BY <1>5, <1>6 DEF NextIs

(* Only buffers in the given mode are grouped anew, and they still cover   *)
(* what they covered.                                                      *)
Regrouped(a, b, md) ==
  /\ DOMAIN b.slots = DOMAIN a.slots
  /\ \A k \in DOMAIN a.slots : Used(a.slots[k]) /\ a.slots[k].mode # md => b.slots[k] = a.slots[k]
  /\ \A k \in DOMAIN a.slots : Used(b.slots[k]) /\ b.slots[k].mode # md => b.slots[k] = a.slots[k]
  /\ \A k \in DOMAIN a.slots, p \in Nat : a.slots[k].mode = md /\ Inside(a.slots[k], p)
        => \E n \in DOMAIN a.slots : b.slots[n].mode = md /\ Inside(b.slots[n], p)
  /\ SameRest(a, b) /\ b.access = a.access /\ b.unUsed >= a.unUsed

SlotsCounted(a) == a.unUsed = Cardinality(Empties(a.slots))

LEMMA RegroupedTwice ==
  ASSUME NEW a, NEW b, NEW c, NEW md, Regrouped(a, b, md), Regrouped(b, c, md),
         a.unUsed \in Int, b.unUsed \in Int, c.unUsed \in Int
  PROVE  Regrouped(a, c, md)
<1>1. DOMAIN c.slots = DOMAIN a.slots /\ SameRest(a, c) /\ c.access = a.access /\ c.unUsed >= a.unUsed
  BY DEF Regrouped, SameRest
<1>2. ASSUME NEW k \in DOMAIN a.slots, Used(a.slots[k]) /\ a.slots[k].mode # md
      PROVE  c.slots[k] = a.slots[k]
  BY <1>2 DEF Regrouped
<1>3. ASSUME NEW k \in DOMAIN a.slots, Used(c.slots[k]) /\ c.slots[k].mode # md
      PROVE  c.slots[k] = a.slots[k]
  BY <1>3 DEF Regrouped
<1>4. ASSUME NEW k \in DOMAIN a.slots, NEW p \in Nat, a.slots[k].mode = md /\ Inside(a.slots[k], p)
      PROVE  \E n \in DOMAIN a.slots : c.slots[n].mode = md /\ Inside(c.slots[n], p)
  <2>1. PICK m \in DOMAIN a.slots : b.slots[m].mode = md /\ Inside(b.slots[m], p)
    BY <1>4 DEF Regrouped
  <2>2. DOMAIN b.slots = DOMAIN a.slots
    BY DEF Regrouped
  <2> QED BY <2>1, <2>2 DEF Regrouped
<1> QED BY <1>1, <1>2, <1>3, <1>4 DEF Regrouped

LEMMA RegroupedSame ==
  ASSUME NEW a, NEW md, a.unUsed \in Int
  PROVE  Regrouped(a, a, md)
  BY DEF Regrouped, SameRest

LEMMA AbsorbKeeps ==
  ASSUME NEW a, NEW md, NEW mp, Found(a, md, mp), SlotsCounted(a),
         NEW i \in DOMAIN a.slots, NEW j \in DOMAIN a.slots, i # j,
         a.slots[i].mode = md, a.slots[j].mode = md,
         a.slots[i].ia + a.slots[i].is = a.slots[j].ia,
         NEW b, b = Absorb(a, i, j)
  PROVE  /\ Found(b, md, mp) /\ SlotsCounted(b)
         /\ Absorbed(a.slots, b.slots, i, j)
         /\ Regrouped(a, b, md)
<1> DEFINE t == a.slots  u == b.slots
<1>0. a \in ArenaType /\ md # "NOT_IN_USE" /\ SlotsOk(t, mp) /\ AllApart(t)
  BY DEF Found
<1>1. b \in ArenaType /\ Absorbed(t, u, i, j) /\ SameRest(a, b) /\ b.access = a.access /\ b.unUsed = a.unUsed + 1
  BY <1>0, AbsorbFields
<1>2. SlotSeq(t) /\ SlotSeq(u) /\ a.unUsed \in Int
  BY <1>0, <1>1, ArenaFields
<1>3. Used(t[i]) /\ Used(t[j])
  BY <1>0 DEF Used
<1>4. SlotsOk(u, mp)
  BY <1>0, <1>1, <1>2, <1>3, AbsorbSlots
<1>5. t[i].is > 0 /\ t[j].is > 0
  BY <1>0, <1>3 DEF SlotsOk, SlotOk
<1>6. AllApart(u)
  BY <1>0, <1>1, <1>2, <1>3, <1>5, AbsorbApart
<1>7. SlotsCounted(b)
  <2>1. Empties(u) = Empties(t) \union {j}
    BY <1>0, <1>1 DEF Empties, Absorbed, NoSlotUsed
  <2>2. j \notin Empties(t)
    BY <1>0 DEF Empties
  <2> QED BY <2>1, <2>2, <1>1, <1>2, EmptyGained DEF SlotsCounted
<1>8. Regrouped(a, b, md)
  <2>1. DOMAIN u = DOMAIN t /\ b.unUsed >= a.unUsed
    BY <1>1, <1>2 DEF Absorbed
  <2>2. ASSUME NEW k \in DOMAIN t, Used(t[k]) /\ t[k].mode # md PROVE u[k] = t[k]
    BY <2>2, <1>1 DEF Absorbed
  <2>3. ASSUME NEW k \in DOMAIN t, Used(u[k]) /\ u[k].mode # md PROVE u[k] = t[k]
    BY <2>3, <1>1, NoSlotIsSlot DEF Absorbed
  <2>4. ASSUME NEW k \in DOMAIN t, NEW p \in Nat, t[k].mode = md /\ Inside(t[k], p)
        PROVE  \E n \in DOMAIN t : u[n].mode = md /\ Inside(u[n], p)
    <3>1. CASE k # i /\ k # j
      BY <3>1, <2>4, <1>1 DEF Absorbed
    <3>2. CASE k = i \/ k = j
      <4>1. /\ t[i].ia \in Nat /\ t[i].is \in Nat /\ t[j].ia \in Nat /\ t[j].is \in Nat /\ Start(p) \in Nat
        BY <1>2, SlotFields, StartMono
      <4>2. u[i].mode = md /\ u[i].ia = t[i].ia /\ u[i].is = t[i].is + t[j].is
        BY <1>1 DEF Absorbed
      <4>3. Inside(u[i], p)
        BY <3>2, <2>4, <4>1, <4>2 DEF Inside
      <4> QED BY <4>2, <4>3
    <3> QED BY <3>1, <3>2
  <2> QED BY <2>1, <2>2, <2>3, <2>4, <1>1 DEF Regrouped
<1> QED BY <1>0, <1>1, <1>4, <1>6, <1>7, <1>8 DEF Found

JoinedBefore(a, b, i, s, md, mp, sm) ==
  /\ Found(b, md, mp) /\ SlotsCounted(b) /\ Regrouped(a, b, md)
  /\ s \in DOMAIN a.slots /\ b.slots[s].mode = md
  /\ MergesAt(b.slots, s, sm) /\ NoneBefore(b.slots, s, sm)
  /\ b.slots[s].ia + b.slots[s].is = a.slots[i].ia + a.slots[i].is
  /\ NoneBehind(a.slots, i, sm) => NoneBehind(b.slots, s, sm)
  /\ \A k \in DOMAIN a.slots : k # i /\ a.slots[i].ia + a.slots[i].is = a.slots[k].ia
        => k # s /\ b.slots[k] = a.slots[k]

(* Joining with the buffer before: what is found behind is still there.    *)
LEMMA JoinPrevious ==
  ASSUME NEW a, NEW md, NEW mp, Found(a, md, mp), SlotsCounted(a),
         NEW i \in DOMAIN a.slots, a.slots[i].mode = md, NEW sm, MergesAt(a.slots, i, sm),
         NEW P, P = InMode(a, slotForInternalAddressPreviousTo(a, a.slots[i].ia), md),
         NEW s, s = (IF P # {} THEN Min(P) ELSE i),
         NEW b, b = (IF P # {} THEN Absorb(a, s, i) ELSE a)
  PROVE  JoinedBefore(a, b, i, s, md, mp, sm)
<1> SUFFICES /\ Found(b, md, mp) /\ SlotsCounted(b) /\ Regrouped(a, b, md)
             /\ s \in DOMAIN a.slots /\ b.slots[s].mode = md
             /\ MergesAt(b.slots, s, sm) /\ NoneBefore(b.slots, s, sm)
             /\ b.slots[s].ia + b.slots[s].is = a.slots[i].ia + a.slots[i].is
             /\ NoneBehind(a.slots, i, sm) => NoneBehind(b.slots, s, sm)
             /\ \A k \in DOMAIN a.slots : k # i /\ a.slots[i].ia + a.slots[i].is = a.slots[k].ia
                   => k # s /\ b.slots[k] = a.slots[k]
  BY DEF JoinedBefore
<1> DEFINE t == a.slots  u == b.slots
<1>0. a \in ArenaType /\ md # "NOT_IN_USE" /\ SlotsOk(t, mp) /\ AllApart(t) /\ a.unUsed \in Int
  BY ArenaFields DEF Found
<1>1. /\ \A k \in P : /\ k \in DOMAIN t /\ k # i /\ Min(P) = k /\ t[k].mode = md
                      /\ t[k].ia + t[k].is = t[i].ia
      /\ P = {} => NoneBefore(t, i, sm)
  <2>1. PreviousIs(a, md, i, P, sm)
    BY PreviousFound
  <2> QED BY <2>1 DEF PreviousIs
<1>2. CASE P = {}
  <2>1. s = i /\ b = a
    BY <1>2
  <2>2. Regrouped(a, a, md)
    BY <1>0, RegroupedSame
  <2> QED BY <2>1, <2>2, <1>1, <1>2
<1>3. CASE P # {}
  <2>1. s \in DOMAIN t /\ s # i /\ t[s].mode = md /\ t[s].ia + t[s].is = t[i].ia /\ b = Absorb(a, s, i)
    BY <1>1, <1>3
  <2>2. Found(b, md, mp) /\ SlotsCounted(b) /\ Absorbed(t, u, s, i) /\ Regrouped(a, b, md)
    BY <2>1, AbsorbKeeps
  <2>3. SlotSeq(t) /\ SlotSeq(u)
    BY <1>0, <2>2, ArenaFields DEF Found
  <2>4. Used(t[i])
    BY <1>0 DEF Used
  <2>5. MergesAt(u, s, sm) /\ NoneBefore(u, s, sm)
    BY <2>1, <2>2, <2>3, <2>4, <1>0, AbsorbIntoPrevious
  <2>6. t[i].ia \in Nat /\ t[i].is \in Nat /\ t[s].ia \in Nat /\ t[s].is \in Nat /\ t[i].is > 0
    BY <2>1, <2>3, <2>4, <1>0, SlotFields DEF SlotsOk, SlotOk
  <2> HIDE DEF t, u
  <2>a. u[s].mode = md /\ u[s].ia = t[s].ia /\ u[s].is = t[s].is + t[i].is
    BY ONLY <2>1, <2>2 DEF Absorbed
  <2>b. u[s].ia + u[s].is = t[i].ia + t[i].is /\ u[s].ia # u[s].ia + u[s].is
    BY ONLY <2>a, <2>1, <2>6
  <2>c. u[i] = NoSlotUsed
    BY ONLY <2>2 DEF Absorbed
  <2> USE DEF t, u
  <2>7. u[s].mode = md /\ u[s].ia + u[s].is = t[i].ia + t[i].is /\ u[s].ia # u[s].ia + u[s].is
    BY <2>a, <2>b
  <2>8. ASSUME NoneBehind(t, i, sm) PROVE NoneBehind(u, s, sm)
    <3> SUFFICES ASSUME NEW k \in DOMAIN t, Merges(u[s], u[k], sm) PROVE FALSE
      BY <2>2 DEF NoneBehind, Absorbed
    <3>1. k # i
      BY ONLY <2>c, <2>7, <1>0, Merges(u[s], u[k], sm) DEF Merges, NoSlotUsed
    <3>2. k # s
      BY ONLY <2>7, Merges(u[s], u[k], sm) DEF Merges
    <3>3. u[k] = t[k]
      BY <3>1, <3>2, <2>2 DEF Absorbed
    <3>4. Merges(t[i], t[k], sm)
      BY <3>3, <2>7 DEF Merges
    <3> QED BY <3>4, <2>8 DEF NoneBehind
  <2>9. ASSUME NEW k \in DOMAIN t, k # i, t[i].ia + t[i].is = t[k].ia
        PROVE  k # s /\ u[k] = t[k]
    <3>1. k # s
      BY <2>9, <2>1, <2>6
    <3> QED BY <3>1, <2>9, <2>2 DEF Absorbed
  <2> QED BY <2>1, <2>2, <2>5, <2>7, <2>8, <2>9
<1> QED BY <1>2, <1>3

(* Slot i joined with the free buffers around it: no two free buffers are  *)
(* left next to each other.                                                *)
LEMMA JoinedKeeps ==
  ASSUME NEW a, NEW md, NEW mp, Found(a, md, mp), SlotsCounted(a),
         NEW i \in DOMAIN a.slots, a.slots[i].mode = md, NEW sm, MergesAt(a.slots, i, sm),
         NEW s, NEW b, Joined(a, i, md) = <<s, b>>
  PROVE  /\ Found(b, md, mp) /\ SlotsCounted(b) /\ Regrouped(a, b, md)
         /\ s \in DOMAIN a.slots /\ b.slots[s].mode = md /\ NoneMerge(b.slots, sm)
<1> DEFINE P == InMode(a, slotForInternalAddressPreviousTo(a, a.slots[i].ia), md)
           N == InMode(a, slotForInternalAddress(a, a.slots[i].ia + a.slots[i].is), md)
           s1 == IF P # {} THEN Min(P) ELSE i
           a1 == IF P # {} THEN Absorb(a, s1, i) ELSE a
           b1 == IF N # {} THEN Absorb(a1, s1, Min(N)) ELSE a1
<1>1. Joined(a, i, md) = <<s1, b1>>
  BY DEF Joined
<1>2. s = s1 /\ b = b1
  BY <1>1
<1>3. /\ Found(a1, md, mp) /\ SlotsCounted(a1) /\ Regrouped(a, a1, md)
      /\ s1 \in DOMAIN a.slots /\ a1.slots[s1].mode = md
      /\ MergesAt(a1.slots, s1, sm) /\ NoneBefore(a1.slots, s1, sm)
      /\ a1.slots[s1].ia + a1.slots[s1].is = a.slots[i].ia + a.slots[i].is
      /\ NoneBehind(a.slots, i, sm) => NoneBehind(a1.slots, s1, sm)
      /\ \A k \in DOMAIN a.slots : k # i /\ a.slots[i].ia + a.slots[i].is = a.slots[k].ia
               => k # s1 /\ a1.slots[k] = a.slots[k]
  <2> HIDE DEF P
  <2>1. P = InMode(a, slotForInternalAddressPreviousTo(a, a.slots[i].ia), md)
    BY DEF P
  <2>2. s1 = (IF P # {} THEN Min(P) ELSE i) /\ a1 = (IF P # {} THEN Absorb(a, s1, i) ELSE a)
    OBVIOUS
  <2> HIDE DEF s1, a1
  <2>3. JoinedBefore(a, a1, i, s1, md, mp, sm)
    BY ONLY <2>1, <2>2, JoinPrevious, Found(a, md, mp), SlotsCounted(a), i \in DOMAIN a.slots,
            a.slots[i].mode = md, MergesAt(a.slots, i, sm)
  <2> QED BY <2>3 DEF JoinedBefore
<1>4. /\ \A k \in N : /\ k \in DOMAIN a.slots /\ k # i /\ Min(N) = k /\ a.slots[k].mode = md
                      /\ a.slots[i].ia + a.slots[i].is = a.slots[k].ia
      /\ N = {} => NoneBehind(a.slots, i, sm)
  <2> HIDE DEF N
  <2>1. N = InMode(a, slotForInternalAddress(a, a.slots[i].ia + a.slots[i].is), md)
    BY DEF N
  <2>2. NextIs(a, md, i, N, sm)
    BY ONLY <2>1, NextFound, Found(a, md, mp), i \in DOMAIN a.slots, a.slots[i].mode = md
  <2> QED BY <2>2 DEF NextIs
<1>5. DOMAIN a1.slots = DOMAIN a.slots
  BY <1>3 DEF Regrouped
<1> HIDE DEF P, N, s1, a1
<1>6. CASE N = {}
  <2>1. b = a1
    BY <1>2, <1>6
  <2>2. NoneMerge(a1.slots, sm)
    BY <1>3, <1>4, <1>5, <1>6 DEF NoneMerge, MergesAt, NoneBefore, NoneBehind
  <2> QED BY <2>1, <2>2, <1>2, <1>3
<1>7. CASE N # {}
  <2> DEFINE n == Min(N)
  <2>1. /\ n \in DOMAIN a1.slots /\ n # s1 /\ b = Absorb(a1, s1, n)
        /\ a1.slots[n].mode = md
        /\ a1.slots[s1].ia + a1.slots[s1].is = a1.slots[n].ia
    BY <1>2, <1>3, <1>4, <1>5, <1>7
  <2> HIDE DEF n
  <2>2. /\ Found(b, md, mp) /\ SlotsCounted(b) /\ Absorbed(a1.slots, b.slots, s1, n)
        /\ Regrouped(a1, b, md)
    BY <2>1, <1>3, <1>5, AbsorbKeeps
  <2>3. SlotSeq(a1.slots) /\ SlotSeq(b.slots) /\ a.unUsed \in Int /\ a1.unUsed \in Int /\ b.unUsed \in Int
    BY <1>3, <2>2, ArenaFields DEF Found
  <2>4. Used(a1.slots[n])
    BY <2>1 DEF Used, Found
  <2>5. NoneMerge(b.slots, sm)
    BY <2>1, <2>2, <2>3, <2>4, <1>3, <1>5, AbsorbNext DEF Found
  <2>6. Regrouped(a, b, md)
    BY <1>3, <2>2, <2>3, RegroupedTwice
  <2>7. b.slots[s1].mode = md
    BY <2>2, <1>3 DEF Absorbed
  <2> QED BY <1>2, <1>3, <2>2, <2>5, <2>6, <2>7
<1> QED BY <1>6, <1>7

LEMMA ReleasedFields ==
  ASSUME NEW a, a \in ArenaType, NEW i \in DOMAIN a.slots, NEW md \in Modes,
         NEW b, b = Released(a, i, md)
  PROVE  /\ b \in ArenaType /\ SameRest(a, b) /\ b.unUsed = a.unUsed
         /\ b.access = a.access \ PagesOf(a.slots[i].ia, a.slots[i].is)
         /\ DOMAIN b.slots = DOMAIN a.slots
         /\ \A k \in DOMAIN a.slots : k # i => b.slots[k] = a.slots[k]
         /\ b.slots[i].mode = md /\ b.slots[i].ia = a.slots[i].ia /\ b.slots[i].is = a.slots[i].is
         /\ b.slots[i].ua = a.slots[i].ua
<1> DEFINE t == a.slots
           s1 == [t[i] EXCEPT !.mode = md]
           u == [t EXCEPT ![i] = s1]
           x == a.access \ PagesOf(t[i].ia, t[i].is)
<1>1. SlotSeq(t) /\ t[i] \in SlotType
  BY ArenaFields, SlotFields
<1>2. s1 \in SlotType /\ s1.mode = md /\ s1.ia = t[i].ia /\ s1.ua = t[i].ua /\ s1.is = t[i].is
  BY <1>1 DEF SlotType
<1>3. SlotSeq(u) /\ DOMAIN u = DOMAIN t /\ u[i] = s1 /\ \A k \in DOMAIN t : k # i => u[k] = t[k]
  <2> HIDE DEF s1, t
  <2> QED BY <1>1, <1>2, SlotChanged DEF t
<1>4. b = [a EXCEPT !.slots = u, !.access = x]
  BY <1>1 DEF Released, Page_Delete, Page_DenyAccess, ArenaType
<1>5. x \in SUBSET (1..MaxPage)
  BY ArenaFields
<1> HIDE DEF u, x
<1>6. [a EXCEPT !.slots = u, !.access = x] \in ArenaType
  BY <1>3, <1>5 DEF ArenaType, SlotSeq
<1>7. /\ b.slots = u /\ b.access = x /\ b.unUsed = a.unUsed /\ SameRest(a, b)
  BY <1>4, <1>6 DEF SameRest, ArenaType
<1>8. b.access = a.access \ PagesOf(a.slots[i].ia, a.slots[i].is)
  BY <1>7 DEF x
<1> HIDE DEF s1
<1> QED BY <1>2, <1>3, <1>4, <1>6, <1>7, <1>8

(* What freeing slot i does to the arena.                                  *)
Freed(a, b, i, md) ==
  /\ b \in ArenaType /\ SameRest(a, b) /\ b.unUsed >= a.unUsed
  /\ b.access = a.access \ PagesOf(a.slots[i].ia, a.slots[i].is)
  /\ DOMAIN b.slots = DOMAIN a.slots
  /\ \A k \in DOMAIN a.slots : k # i /\ Used(a.slots[k]) /\ a.slots[k].mode # md => b.slots[k] = a.slots[k]
  /\ \A k \in DOMAIN a.slots : Used(b.slots[k]) /\ b.slots[k].mode # md => k # i /\ b.slots[k] = a.slots[k]
  /\ \A k \in DOMAIN a.slots, p \in Nat : (k = i \/ a.slots[k].mode = md) /\ Inside(a.slots[k], p)
        => \E n \in DOMAIN a.slots : b.slots[n].mode = md /\ Inside(b.slots[n], p)

WholeForUser(a, s) ==
  [a EXCEPT !.slots[s] = [@ EXCEPT !.ua = a.slots[s].ia, !.us = a.slots[s].is]]

LEMMA LastFields ==
  ASSUME NEW a, a \in ArenaType, NEW s \in DOMAIN a.slots, NEW b, b = WholeForUser(a, s)
  PROVE  /\ b \in ArenaType /\ SameRest(a, b) /\ b.unUsed = a.unUsed /\ b.access = a.access
         /\ DOMAIN b.slots = DOMAIN a.slots
         /\ \A k \in DOMAIN a.slots : k # s => b.slots[k] = a.slots[k]
         /\ b.slots[s].mode = a.slots[s].mode /\ b.slots[s].ia = a.slots[s].ia /\ b.slots[s].is = a.slots[s].is
         /\ b.slots[s].ua = a.slots[s].ia
<1> DEFINE t == a.slots
           s1 == [t[s] EXCEPT !.ua = t[s].ia, !.us = t[s].is]
           u == [t EXCEPT ![s] = s1]
<1>1. SlotSeq(t) /\ t[s] \in SlotType
  BY ArenaFields, SlotFields
<1>2. s1 \in SlotType /\ s1.mode = t[s].mode /\ s1.ia = t[s].ia /\ s1.ua = t[s].ia /\ s1.is = t[s].is
  BY <1>1 DEF SlotType
<1>3. SlotSeq(u) /\ DOMAIN u = DOMAIN t /\ u[s] = s1 /\ \A k \in DOMAIN t : k # s => u[k] = t[k]
  <2> HIDE DEF s1, t
  <2> QED BY <1>1, <1>2, SlotChanged DEF t
<1>4. b = [a EXCEPT !.slots = u]
  BY <1>1 DEF ArenaType, WholeForUser
<1> HIDE DEF u
<1>6. [a EXCEPT !.slots = u] \in ArenaType
  BY <1>3 DEF ArenaType, SlotSeq
<1>7. /\ b.slots = u /\ b.access = a.access /\ b.unUsed = a.unUsed /\ SameRest(a, b)
  BY <1>4, <1>6 DEF SameRest, ArenaType
<1> HIDE DEF s1
<1> QED BY <1>2, <1>3, <1>4, <1>6, <1>7

(* Freeing a slot: what free_locked does once it has found it.             *)
LEMMA FreeSlotKeeps ==
  ASSUME NEW a, a \in ArenaType, Tiled(a), NEW i \in DOMAIN a.slots, NEW md \in {"FREE", "PROTECTED"},
         a.slots[i].mode \in {"ALLOCATED", "INTERNAL_USE"},
         NEW b, b = FreeSlot(a, i, md)
  PROVE  Freed(a, b, i, md) /\ Tiled(b)
<1> DEFINE r == Released(a, i, md)
           s == Joined(r, i, md)[1]
           j == Joined(r, i, md)[2]
<1>0. /\ SlotSeq(a.slots) /\ a.unUsed \in Int
      /\ SlotsOk(a.slots, a.mapped) /\ AllApart(a.slots) /\ NoneMerge(a.slots, a.seams) /\ SlotsCounted(a)
  BY ArenaFields DEF Tiled, SlotsCounted
<1>1. /\ r \in ArenaType /\ SameRest(a, r) /\ r.unUsed = a.unUsed
      /\ r.access = a.access \ PagesOf(a.slots[i].ia, a.slots[i].is)
      /\ DOMAIN r.slots = DOMAIN a.slots
      /\ \A k \in DOMAIN a.slots : k # i => r.slots[k] = a.slots[k]
      /\ r.slots[i].mode = md /\ r.slots[i].ia = a.slots[i].ia /\ r.slots[i].is = a.slots[i].is
      /\ r.slots[i].ua = a.slots[i].ua
  BY ReleasedFields DEF Modes
<1>2. Joined(r, i, md) = <<s, j>>
  BY DEF Joined
<1>3. b = WholeForUser(j, s)
  BY DEF FreeSlot, WholeForUser
<1> HIDE DEF r, s, j
<1>4. Used(a.slots[i]) /\ Used(r.slots[i])
  BY <1>1 DEF Used
<1>5. SlotsOk(r.slots, a.mapped)
  <2> SUFFICES ASSUME NEW k \in DOMAIN a.slots PROVE SlotOk(r.slots[k], a.mapped)
    BY <1>1 DEF SlotsOk
  <2>1. SlotOk(a.slots[k], a.mapped)
    BY <1>0 DEF SlotsOk
  <2>2. CASE k = i
    BY <2>1, <2>2, <1>1, <1>4 DEF SlotOk, Inside
  <2> QED BY <2>1, <2>2, <1>1
<1>6. AllApart(r.slots)
  <2> SUFFICES ASSUME NEW m \in DOMAIN a.slots, NEW n \in DOMAIN a.slots, m # n,
                      Used(r.slots[m]), Used(r.slots[n])
               PROVE  Apart(r.slots[m], r.slots[n])
    BY <1>1 DEF AllApart
  <2>1. Used(a.slots[m]) /\ Used(a.slots[n])
    BY <1>1, <1>4
  <2>2. Apart(a.slots[m], a.slots[n])
    BY <1>0, <2>1 DEF AllApart
  <2>3. /\ r.slots[m].ia = a.slots[m].ia /\ r.slots[m].is = a.slots[m].is
        /\ r.slots[n].ia = a.slots[n].ia /\ r.slots[n].is = a.slots[n].is
    BY <1>1
  <2> QED BY <2>2, <2>3 DEF Apart
<1>7. Found(r, md, a.mapped)
  BY <1>0, <1>1, <1>5, <1>6 DEF Found
<1>8. SlotsCounted(r)
  <2>1. Empties(r.slots) = Empties(a.slots)
    BY <1>1, <1>4 DEF Empties, Used
  <2> QED BY <2>1, <1>0, <1>1 DEF SlotsCounted
<1>9. MergesAt(r.slots, i, a.seams)
  BY <1>0, <1>1 DEF MergesAt, NoneMerge
<1>10. /\ Found(j, md, a.mapped) /\ SlotsCounted(j) /\ Regrouped(r, j, md)
       /\ s \in DOMAIN r.slots /\ j.slots[s].mode = md /\ NoneMerge(j.slots, a.seams)
  BY <1>1, <1>2, <1>7, <1>8, <1>9, JoinedKeeps
<1>11. j \in ArenaType /\ SlotSeq(j.slots) /\ DOMAIN j.slots = DOMAIN a.slots /\ s \in DOMAIN a.slots
  BY <1>1, <1>10, ArenaFields DEF Found, Regrouped
<1>12. /\ b \in ArenaType /\ SameRest(j, b) /\ b.unUsed = j.unUsed /\ b.access = j.access
       /\ DOMAIN b.slots = DOMAIN j.slots
       /\ \A k \in DOMAIN j.slots : k # s => b.slots[k] = j.slots[k]
       /\ b.slots[s].mode = j.slots[s].mode /\ b.slots[s].ia = j.slots[s].ia /\ b.slots[s].is = j.slots[s].is
       /\ b.slots[s].ua = j.slots[s].ia
  <2>1. j \in ArenaType /\ s \in DOMAIN j.slots
    BY <1>11
  <2> QED BY ONLY <1>3, <2>1, LastFields
<1>13. b.mapped = a.mapped /\ b.seams = a.seams /\ SameRest(a, b) /\ b.unUsed >= a.unUsed
  BY <1>0, <1>1, <1>10, <1>12 DEF SameRest, Regrouped
<1>14. \A k \in DOMAIN a.slots : b.slots[k].mode = j.slots[k].mode /\ b.slots[k].ia = j.slots[k].ia
                                 /\ b.slots[k].is = j.slots[k].is
  BY <1>11, <1>12
<1>15. SlotsOk(b.slots, a.mapped)
  <2> SUFFICES ASSUME NEW k \in DOMAIN a.slots PROVE SlotOk(b.slots[k], a.mapped)
    BY <1>11, <1>12 DEF SlotsOk
  <2>1. SlotOk(j.slots[k], a.mapped) /\ j.slots[k].ia \in Nat /\ j.slots[k].is \in Nat
    BY <1>10, <1>11, SlotFields DEF Found, SlotsOk
  <2>2. CASE k = s
    <3>1. Used(j.slots[s]) /\ Used(b.slots[s])
      BY <1>10, <1>12 DEF Used
    <3> QED BY <2>1, <2>2, <3>1, <1>12 DEF SlotOk, Inside
  <2> QED BY <2>1, <2>2, <1>11, <1>12
<1>16. AllApart(b.slots)
  BY <1>10, <1>11, <1>12, <1>14 DEF AllApart, Apart, Used, Found
<1>17. NoneMerge(b.slots, a.seams)
  BY <1>10, <1>11, <1>12, <1>14 DEF NoneMerge, Merges
<1>18. b.unUsed = Cardinality(Empties(b.slots))
  <2>1. Empties(b.slots) = Empties(j.slots)
    BY <1>11, <1>12, <1>14 DEF Empties
  <2> QED BY <2>1, <1>10, <1>12 DEF SlotsCounted
<1>19. Tiled(b)
  BY <1>13, <1>15, <1>16, <1>17, <1>18 DEF Tiled
<1>20. b.access = a.access \ PagesOf(a.slots[i].ia, a.slots[i].is) /\ DOMAIN b.slots = DOMAIN a.slots
  BY <1>1, <1>10, <1>11, <1>12 DEF Regrouped
<1>21. ASSUME NEW k \in DOMAIN a.slots, k # i, Used(a.slots[k]), a.slots[k].mode # md
       PROVE  b.slots[k] = a.slots[k]
  <2>1. r.slots[k] = a.slots[k] /\ j.slots[k] = r.slots[k]
    BY <1>21, <1>1, <1>10 DEF Regrouped
  <2>2. k # s
    BY <2>1, <1>10, <1>21
  <2> QED BY <2>1, <2>2, <1>11, <1>12
<1>22. ASSUME NEW k \in DOMAIN a.slots, Used(b.slots[k]), b.slots[k].mode # md
       PROVE  k # i /\ b.slots[k] = a.slots[k]
  <2>1. k # s
    BY <1>22, <1>10, <1>12
  <2>2. b.slots[k] = j.slots[k]
    BY <2>1, <1>11, <1>12
  <2>3. j.slots[k] = r.slots[k]
    BY <2>2, <1>22, <1>1, <1>10 DEF Regrouped
  <2>4. k # i
    BY <2>2, <2>3, <1>22, <1>1
  <2> QED BY <2>2, <2>3, <2>4, <1>1
<1>23. ASSUME NEW k \in DOMAIN a.slots, NEW p \in Nat, k = i \/ a.slots[k].mode = md, Inside(a.slots[k], p)
       PROVE  \E n \in DOMAIN a.slots : b.slots[n].mode = md /\ Inside(b.slots[n], p)
  <2>1. r.slots[k].mode = md /\ Inside(r.slots[k], p)
    BY <1>23, <1>1 DEF Inside
  <2>2. PICK n \in DOMAIN a.slots : j.slots[n].mode = md /\ Inside(j.slots[n], p)
    BY <2>1, <1>1, <1>10 DEF Regrouped
  <2> QED BY <2>2, <1>14 DEF Inside
<1> QED BY <1>12, <1>13, <1>19, <1>20, <1>21, <1>22, <1>23 DEF Freed

-----------------------------------------------------------------------------
FreeMode == IF env.protect THEN "PROTECTED" ELSE "FREE"

LEMMA InsidePages ==
  ASSUME NEW s, NEW p
  PROVE  p \in PagesOf(s.ia, s.is) <=> p \in 1..MaxPage /\ Inside(s, p)
  BY PagesIn DEF Inside

LEMMA NotInsideOther ==
  ASSUME NEW t, SlotSeq(t), AllApart(t), NEW i \in DOMAIN t, NEW k \in DOMAIN t, i # k,
         Used(t[i]), Used(t[k]), NEW p \in Nat, Inside(t[k], p)
  PROVE  ~Inside(t[i], p)
<1>1. /\ t[i].ia \in Nat /\ t[i].is \in Nat /\ t[k].ia \in Nat /\ t[k].is \in Nat /\ Start(p) \in Nat
  BY SlotFields, StartMono
<1>2. Apart(t[i], t[k])
  BY DEF AllApart
<1> QED BY <1>1, <1>2 DEF Apart, Inside

(* The address given to the user leads back to the slot.                   *)
LEMMA UserSlot ==
  ASSUME NEW a, a \in ArenaType, Tiled(a), NEW i \in DOMAIN a.slots, a.slots[i].ua # 0
  PROVE  slotForUserAddress(a, a.slots[i].ua) = i
<1> DEFINE t == a.slots
           F == {k \in DOMAIN t : t[k].ua = t[i].ua}
<1>0. SlotSeq(t) /\ DOMAIN t \subseteq Nat /\ SlotsOk(t, a.mapped) /\ AllApart(t)
  BY ArenaFields DEF Tiled, SlotSeq
<1>1. \A k \in DOMAIN t : t[k].ia \in Nat /\ t[k].is \in Nat /\ t[k].ua \in Nat
  BY <1>0, SlotFields
<1>2. \A k \in F : Used(t[k]) /\ t[k].ia <= t[i].ua /\ t[i].ua < t[k].ia + t[k].is
  BY <1>0 DEF SlotsOk, SlotOk, NoSlotUsed
<1>3. ASSUME NEW k \in F PROVE k = i
  <2>1. k # i => Apart(t[k], t[i])
    BY <1>0, <1>2 DEF AllApart
  <2> QED BY <2>1, <1>1, <1>2 DEF Apart
<1>4. F = {i}
  BY <1>3
<1>5. Min(F) = i
  BY <1>0, <1>4, MinMember
<1> QED BY <1>4, <1>5 DEF slotForUserAddress

LEMMA AllocatedAddress ==
  ASSUME NEW a, ArenaOk(a), env \in [below : BOOLEAN, protect : BOOLEAN, zero : BOOLEAN],
         NEW i \in DOMAIN a.slots, a.slots[i].mode = "ALLOCATED"
  PROVE  a.slots[i].ua # 0
<1>1. a.slots[i].ia \in Nat /\ a.slots[i].is \in Nat /\ a.slots[i].ua \in Nat /\ a.slots[i].us \in Nat
  BY ArenaFields, SlotFields DEF ArenaOk
<1>2. Shaped(a.slots[i])
  BY DEF ArenaOk, Fenced
<1>3. a.slots[i].ia > 0
  BY DEF ArenaOk, Tiled, SlotsOk, SlotOk, Used
<1>4. PageBytes \in Nat
  BY AlignedPage
<1> QED BY <1>1, <1>2, <1>3, <1>4 DEF Shaped

LEMMA FreeLocked ==
  ASSUME NEW a, a \in ArenaType, Tiled(a), NEW i \in DOMAIN a.slots, a.slots[i].ua # 0, NEW internalUse \in BOOLEAN,
         a.slots[i].mode = "ALLOCATED" \/ (internalUse /\ a.slots[i].mode = "INTERNAL_USE")
  PROVE  free_locked(a, a.slots[i].ua, internalUse) = FreeSlot(a, i, FreeMode)
<1>1. slotForUserAddress(a, a.slots[i].ua) = i
  BY UserSlot
<1>2. i # 0
  BY ArenaFields DEF SlotSeq
<1>3. a.slots[i].mode \in {"ALLOCATED"} \union (IF internalUse THEN {"INTERNAL_USE"} ELSE {})
  OBVIOUS
<1> QED BY <1>1, <1>2, <1>3, Zenon DEF free_locked, FreeMode

LEMMA FreedArena ==
  ASSUME NEW a, ArenaOk(a), NEW b, NEW i \in DOMAIN a.slots, NEW md \in {"FREE", "PROTECTED"},
         Used(a.slots[i]), Freed(a, b, i, md), Tiled(b),
         NEW l \in DOMAIN a.slots, l # i, HoldsList(a, l)
  PROVE  ArenaOk(b)
<1>0. /\ a \in ArenaType /\ SlotSeq(a.slots) /\ Tiled(a) /\ Fenced(a) /\ ~a.error /\ Below(a)
  BY ArenaFields DEF ArenaOk
<1>1. b \in ArenaType /\ SameRest(a, b) /\ DOMAIN b.slots = DOMAIN a.slots
  BY DEF Freed
<1>2. Fenced(b)
  <2> SUFFICES ASSUME NEW k \in DOMAIN a.slots, b.slots[k].mode = "ALLOCATED"
               PROVE  Shaped(b.slots[k]) /\ Guarded(b.slots[k], b.access)
    BY <1>1 DEF Fenced
  <2>1. k # i /\ b.slots[k] = a.slots[k]
    BY DEF Freed, Used
  <2>2. Shaped(a.slots[k]) /\ Guarded(a.slots[k], a.access)
    BY <2>1, <1>0 DEF Fenced
  <2>3. ASSUME NEW p \in 1..MaxPage, Inside(a.slots[k], p) PROVE p \in b.access <=> p \in a.access
    <3>1. p \in Nat /\ Used(a.slots[k]) /\ AllApart(a.slots)
      BY <2>1, <1>0 DEF Used, Tiled
    <3>2. ~Inside(a.slots[i], p)
      BY <3>1, <2>1, <2>3, <1>0, NotInsideOther
    <3> QED BY <3>2, InsidePages DEF Freed
  <2> QED BY <2>1, <2>2, <2>3 DEF Guarded
<1>3. Listed(b)
  <2>1. b.slots[l] = a.slots[l]
    BY DEF Freed, HoldsList, Used
  <2> QED BY <2>1, <1>1 DEF Listed, HoldsList, SameRest
<1> QED BY <1>0, <1>1, <1>2, <1>3 DEF ArenaOk, SameRest, Below

-----------------------------------------------------------------------------
FreeAt(x, n) == [mode |-> "FREE", ua |-> 0, ia |-> x, us |-> 0, is |-> n]

LEMMA FreshFree ==
  ASSUME NEW x, NEW n
  PROVE  /\ [NoSlotUsed EXCEPT !.is = n, !.ia = x, !.mode = "FREE"] = FreeAt(x, n)
         /\ [NoSlotUsed EXCEPT !.ia = x, !.is = n, !.mode = "FREE"] = FreeAt(x, n)
         /\ FreeAt(x, n).mode = "FREE" /\ FreeAt(x, n).ua = 0 /\ FreeAt(x, n).ia = x /\ FreeAt(x, n).is = n
<1>1. FreeAt(x, n).mode = "FREE" /\ FreeAt(x, n).ua = 0 /\ FreeAt(x, n).ia = x /\ FreeAt(x, n).is = n
  BY DEF FreeAt
<1>2. [NoSlotUsed EXCEPT !.is = n] = [mode |-> "NOT_IN_USE", ua |-> 0, ia |-> 0, us |-> 0, is |-> n]
  BY DEF NoSlotUsed
<1>3. [NoSlotUsed EXCEPT !.ia = x] = [mode |-> "NOT_IN_USE", ua |-> 0, ia |-> x, us |-> 0, is |-> 0]
  BY DEF NoSlotUsed
<1>4. [[mode |-> "NOT_IN_USE", ua |-> 0, ia |-> 0, us |-> 0, is |-> n] EXCEPT !.ia = x]
      = [mode |-> "NOT_IN_USE", ua |-> 0, ia |-> x, us |-> 0, is |-> n]
  OBVIOUS
<1>5. [[mode |-> "NOT_IN_USE", ua |-> 0, ia |-> x, us |-> 0, is |-> 0] EXCEPT !.is = n]
      = [mode |-> "NOT_IN_USE", ua |-> 0, ia |-> x, us |-> 0, is |-> n]
  OBVIOUS
<1>6. [[mode |-> "NOT_IN_USE", ua |-> 0, ia |-> x, us |-> 0, is |-> n] EXCEPT !.mode = "FREE"] = FreeAt(x, n)
  BY DEF FreeAt
<1>7. [NoSlotUsed EXCEPT !.is = n, !.ia = x, !.mode = "FREE"] = FreeAt(x, n)
  BY <1>2, <1>4, <1>6
<1>8. [NoSlotUsed EXCEPT !.ia = x, !.is = n, !.mode = "FREE"] = FreeAt(x, n)
  BY <1>3, <1>5, <1>6
<1> QED BY <1>1, <1>7, <1>8

(* The mode of slot i and its split, as Allocate does them.                *)
Taken(a, i, e, size, md) == Split([a EXCEPT !.slots[i].mode = md], i, e, size)

LEMMA TakenFields ==
  ASSUME NEW a, a \in ArenaType, NEW i \in DOMAIN a.slots, NEW e \in DOMAIN a.slots, i # e,
         a.slots[e] = NoSlotUsed, NEW size \in Nat, size <= a.slots[i].is,
         NEW md \in {"ALLOCATED", "INTERNAL_USE"},
         NEW b, b = Taken(a, i, e, size, md)
  PROVE  /\ b \in ArenaType /\ SameRest(a, b) /\ b.access = a.access
         /\ SlotCarved(a.slots, b.slots, i, e, size) /\ b.slots[i].mode = md
         /\ b.unUsed = IF a.slots[i].is = size THEN a.unUsed ELSE a.unUsed - 1
<1> DEFINE t == a.slots
           s1 == [t[i] EXCEPT !.mode = md]
           s2 == [s1 EXCEPT !.is = size]
           x == t[i].ia + size
           n == t[i].is - size
           e2 == FreeAt(x, n)
           u1 == [t EXCEPT ![i] = s1]
           u2 == [u1 EXCEPT ![e] = e2]
           u3 == [u2 EXCEPT ![i] = s2]
           c == [a EXCEPT !.slots = u1]
<1>1. SlotSeq(t) /\ t[i] \in SlotType /\ t[i].is \in Nat /\ t[i].ia \in Nat /\ a.unUsed \in Int
  BY ArenaFields, SlotFields
<1>2. s1 \in SlotType /\ s1.mode = md /\ s1.ia = t[i].ia /\ s1.is = t[i].is
  BY <1>1 DEF SlotType, Modes
<1>3. s2 \in SlotType /\ s2.mode = md /\ s2.ia = t[i].ia /\ s2.is = size
  BY <1>1, <1>2 DEF SlotType
<1>4. e2 \in SlotType
  BY <1>1 DEF SlotType, Modes, FreeAt
<1>5. SlotSeq(u1) /\ DOMAIN u1 = DOMAIN t /\ u1[i] = s1 /\ \A k \in DOMAIN t : k # i => u1[k] = t[k]
  <2> HIDE DEF s1, t
  <2> QED BY <1>1, <1>2, SlotChanged DEF t
<1>6. SlotSeq(u2) /\ DOMAIN u2 = DOMAIN t /\ u2[e] = e2 /\ \A k \in DOMAIN t : k # e => u2[k] = u1[k]
  <2> HIDE DEF u1, e2
  <2> QED BY <1>4, <1>5, SlotChanged
<1>7. SlotSeq(u3) /\ DOMAIN u3 = DOMAIN t /\ u3[i] = s2 /\ \A k \in DOMAIN t : k # i => u3[k] = u2[k]
  <2> HIDE DEF u2, s2
  <2> QED BY <1>3, <1>6, SlotChanged
<1>8. [a EXCEPT !.slots[i].mode = md] = c
  BY <1>1 DEF ArenaType
<1>9. c \in ArenaType /\ c.slots = u1 /\ SameRest(a, c) /\ c.access = a.access /\ c.unUsed = a.unUsed
  <2> HIDE DEF u1
  <2> QED BY <1>5 DEF ArenaType, SlotSeq, SameRest
<1>10. b = Split(c, i, e, size)
  BY <1>8 DEF Taken
<1>11. CASE t[i].is = size
  <2>1. b = c
    BY <1>10, <1>9, <1>5, <1>2, <1>11 DEF Split
  <2>2. SlotCarved(t, u1, i, e, size)
    BY <1>2, <1>5, <1>11 DEF SlotCarved
  <2> QED BY <2>1, <2>2, <1>9, <1>5, <1>2, <1>11
<1>12. CASE t[i].is # size
  <2>1. b = [c EXCEPT !.slots = u3, !.unUsed = a.unUsed - 1]
    <3>1. c.slots[i].is = t[i].is /\ c.slots[i].ia = t[i].ia
      BY <1>2, <1>5, <1>9
    <3>2. c.slots[e] = NoSlotUsed
      BY <1>5, <1>9
    <3>3. [c.slots[e] EXCEPT !.is = n, !.ia = x, !.mode = "FREE"] = e2
      <4> HIDE DEF x, n, c
      <4>1. [NoSlotUsed EXCEPT !.is = n, !.ia = x, !.mode = "FREE"] = FreeAt(x, n)
        BY ONLY FreshFree, Zenon
      <4> QED BY ONLY <3>2, <4>1 DEF e2
    <3>4. b = [c EXCEPT !.slots[e] = [@ EXCEPT !.is = n, !.ia = x, !.mode = "FREE"],
                        !.slots[i].is = size, !.unUsed = @ - 1]
      BY <1>10, <3>1, <1>12 DEF Split
    <3> HIDE DEF c, e2, s1, u1, x, n
    <3>5. b = [c EXCEPT !.slots[e] = e2, !.slots[i].is = size, !.unUsed = @ - 1]
      BY <3>3, <3>4
    <3>6. u2[i] = s1
      BY <1>5, <1>6
    <3>7. b = [c EXCEPT !.slots = [[c.slots EXCEPT ![e] = e2] EXCEPT ![i] = [[c.slots EXCEPT ![e] = e2][i] EXCEPT !.is = size]],
                        !.unUsed = a.unUsed - 1]
      BY <3>5, <1>9 DEF ArenaType
    <3> QED BY <3>6, <3>7, <1>9
  <2>2. SlotCarved(t, u3, i, e, size)
    <3> HIDE DEF u3, u2, u1, s1, s2
    <3>1. e2.mode = "FREE" /\ e2.ua = 0 /\ e2.ia = x /\ e2.is = n
      BY DEF FreeAt
    <3> HIDE DEF e2
    <3> QED BY <3>1, <1>3, <1>5, <1>6, <1>7, <1>12 DEF SlotCarved
  <2> HIDE DEF u3
  <2>3. b \in ArenaType /\ b.slots = u3 /\ SameRest(c, b) /\ b.access = c.access /\ b.unUsed = a.unUsed - 1
    <3>1. a.unUsed - 1 \in Int
      BY <1>1
    <3> HIDE DEF c
    <3> QED BY <2>1, <3>1, <1>7, <1>9 DEF ArenaType, SlotSeq, SameRest
  <2>4. b.slots[i].mode = md
    <3> HIDE DEF s2
    <3> QED BY <2>3, <1>3, <1>7
  <2>5. SameRest(a, b) /\ b.access = a.access
    BY <2>3, <1>9 DEF SameRest
  <2> QED BY <2>2, <2>3, <2>4, <2>5, <1>12
<1> QED BY <1>11, <1>12

EnvOk == env \in [below : BOOLEAN, protect : BOOLEAN, zero : BOOLEAN]

(* The pages of slot i can be touched or not as they should.               *)
LEMMA FenceFields ==
  ASSUME NEW a, a \in ArenaType, EnvOk, NEW i \in DOMAIN a.slots, NEW n \in Nat,
         n <= a.slots[i].is - PageBytes, PageBytes <= a.slots[i].is,
         NEW b, b = Fence(a, i, n)
  PROVE  /\ b \in ArenaType /\ SameRest(a, b) /\ b.unUsed = a.unUsed
         /\ DOMAIN b.slots = DOMAIN a.slots
         /\ \A k \in DOMAIN a.slots : k # i => b.slots[k] = a.slots[k]
         /\ b.slots[i].mode = a.slots[i].mode /\ b.slots[i].ia = a.slots[i].ia /\ b.slots[i].is = a.slots[i].is
         /\ b.slots[i].us = n
         /\ Shaped(b.slots[i]) /\ Guarded(b.slots[i], b.access)
         /\ \A p \in 1..MaxPage : ~Inside(a.slots[i], p) => (p \in b.access <=> p \in a.access)
<1> DEFINE t == a.slots
           x == t[i].ia
           livesize == t[i].is - PageBytes
           address == IF env.below THEN x + PageBytes ELSE x + livesize - n
           s1 == [[t[i] EXCEPT !.ua = address] EXCEPT !.us = n]
           u == [t EXCEPT ![i] = s1]
           acc == IF env.below THEN (a.access \ PagesOf(x, PageBytes)) \union PagesOf(x + PageBytes, livesize)
                  ELSE (a.access \union PagesOf(x, livesize)) \ PagesOf(x + livesize, PageBytes)
<1>1. /\ SlotSeq(t) /\ t[i] \in SlotType /\ x \in Nat /\ t[i].is \in Nat /\ PageBytes \in Nat /\ livesize \in Nat
      /\ PageBytes > 0 /\ t[i].is = livesize + PageBytes
  BY ArenaFields, SlotFields, AlignedPage
<1>2. address \in Nat
  BY <1>1
<1>3. s1 \in SlotType /\ s1.mode = t[i].mode /\ s1.ia = x /\ s1.is = t[i].is /\ s1.ua = address /\ s1.us = n
  <2> HIDE DEF address
  <2> QED BY <1>1, <1>2 DEF SlotType
<1>4. SlotSeq(u) /\ DOMAIN u = DOMAIN t /\ u[i] = s1 /\ \A k \in DOMAIN t : k # i => u[k] = t[k]
  <2> HIDE DEF s1, t
  <2> QED BY <1>1, <1>3, SlotChanged DEF t
<1>a. acc \in SUBSET (1..MaxPage)
  BY ArenaFields DEF PagesOf
<1>5. b = [a EXCEPT !.slots = u, !.access = acc]
  <2> DEFINE fenced == IF env.below
                THEN Page_AllowAccess(Page_Delete(a, x, PageBytes), address, livesize)
                ELSE Page_Delete(Page_AllowAccess(a, x, livesize), x + livesize, PageBytes)
  <2>1. b = [fenced EXCEPT !.slots[i].ua = address, !.slots[i].us = n]
    BY Zenon DEF Fence
  <2>2. fenced = [a EXCEPT !.access = acc]
    <3>1. CASE env.below
      BY <3>1 DEF Page_AllowAccess, Page_Delete, Page_DenyAccess, ArenaType
    <3>2. CASE ~env.below
      BY <3>2 DEF Page_AllowAccess, Page_Delete, Page_DenyAccess, ArenaType
    <3> QED BY <3>1, <3>2
  <2> HIDE DEF fenced, acc, address, x, livesize
  <2>3. fenced.slots = t /\ fenced \in ArenaType
    BY <2>2, <1>a DEF ArenaType
  <2>4. b = [fenced EXCEPT !.slots = [fenced.slots EXCEPT ![i] = [[fenced.slots[i] EXCEPT !.ua = address] EXCEPT !.us = n]]]
    BY <2>1, <2>3, <1>1 DEF ArenaType
  <2>5. b = [fenced EXCEPT !.slots = u]
    BY <2>3, <2>4
  <2> HIDE DEF u
  <2> QED BY <2>2, <2>5 DEF ArenaType
<1>7. /\ b \in ArenaType /\ b.slots = u /\ b.access = acc /\ b.unUsed = a.unUsed /\ SameRest(a, b)
  <2> HIDE DEF u, acc
  <2> QED BY <1>4, <1>5, <1>a DEF ArenaType, SlotSeq, SameRest
<1>8. Shaped(s1)
  <2> HIDE DEF s1, x, livesize
  <2> QED BY <1>1, <1>3 DEF Shaped, EnvOk
<1>9. ASSUME NEW p \in 1..MaxPage
      PROVE  /\ ~Inside(t[i], p) => (p \in acc <=> p \in a.access)
             /\ Inside(t[i], p) => (p \in acc <=> Live(s1, p))
  <2>1. Start(p) \in Nat
    BY StartMono
  <2>2. /\ p \in PagesOf(x, PageBytes) <=> Start(p) >= x /\ Start(p) < x + PageBytes
        /\ p \in PagesOf(x + PageBytes, livesize) <=> Start(p) >= x + PageBytes /\ Start(p) < x + PageBytes + livesize
        /\ p \in PagesOf(x, livesize) <=> Start(p) >= x /\ Start(p) < x + livesize
        /\ p \in PagesOf(x + livesize, PageBytes) <=> Start(p) >= x + livesize /\ Start(p) < x + livesize + PageBytes
    BY PagesIn
  <2>3. Inside(t[i], p) <=> x <= Start(p) /\ Start(p) < x + t[i].is
    BY DEF Inside
  <2>4. Live(s1, p) <=> IF env.below THEN x + PageBytes <= Start(p) ELSE Start(p) < x + t[i].is - PageBytes
    <3> HIDE DEF s1
    <3> QED BY <1>3 DEF Live
  <2> HIDE DEF x, livesize, s1
  <2>5. CASE env.below
    BY <1>1, <2>1, <2>2, <2>3, <2>4, <2>5
  <2>6. CASE ~env.below
    BY <1>1, <2>1, <2>2, <2>3, <2>4, <2>6
  <2> QED BY <2>5, <2>6
<1>10. Guarded(s1, acc)
  <2> SUFFICES ASSUME NEW p \in 1..MaxPage, Inside(s1, p) PROVE p \in acc <=> Live(s1, p)
    BY DEF Guarded
  <2>1. Inside(t[i], p)
    <3> HIDE DEF s1
    <3> QED BY <1>3 DEF Inside
  <2> HIDE DEF s1, acc
  <2> QED BY <2>1, <1>9
<1> HIDE DEF s1, u, acc
<1> QED BY <1>3, <1>4, <1>7, <1>8, <1>9, <1>10

LEMMA BestFitFits ==
  ASSUME NEW a, a \in ArenaType, NEW size \in Nat, NEW f, f = BestFit(a, size), f # 0
  PROVE  f \in DOMAIN a.slots /\ a.slots[f].mode = "FREE" /\ a.slots[f].is >= size
<1> DEFINE fits == {i \in SlotsIn(a, "FREE") : a.slots[i].is >= size}
           best == {i \in fits : \A j \in fits : a.slots[i].is <= a.slots[j].is}
           sizes == {a.slots[i].is : i \in fits}
<1>0. SlotSeq(a.slots) /\ DOMAIN a.slots \subseteq Nat
  BY ArenaFields DEF SlotSeq
<1>1. fits # {} /\ f = Min(best)
  BY DEF BestFit
<1>2. sizes \subseteq Nat /\ sizes # {}
  BY <1>0, <1>1, SlotFields DEF SlotsIn
<1>3. Min(sizes) \in sizes /\ \A x \in sizes : Min(sizes) <= x
  <2> HIDE DEF sizes
  <2> QED BY <1>2, MinMember
<1>4. PICK i \in fits : Min(sizes) = a.slots[i].is
  BY <1>3
<1>5. i \in best
  BY <1>3, <1>4
<1>6. best \subseteq Nat /\ best # {}
  BY <1>0, <1>5 DEF SlotsIn
<1>7. Min(best) \in best
  <2> HIDE DEF best
  <2> QED BY <1>6, MinMember
<1> QED BY <1>1, <1>7 DEF SlotsIn

(* New memory, apart from all that there is.                               *)
ChunkMade(a, b, i, size) ==
  /\ b \in ArenaType /\ b.list = a.list /\ b.listPages = a.listPages /\ b.error = a.error
  /\ b.unUsed = a.unUsed - 1 /\ Below(b)
  /\ a.mapped \subseteq b.mapped /\ a.seams \subseteq b.seams
  /\ DOMAIN b.slots = DOMAIN a.slots
  /\ \A k \in DOMAIN a.slots : k # i => b.slots[k] = a.slots[k]
  /\ b.slots[i].mode = "FREE" /\ b.slots[i].ua = 0 /\ b.slots[i].ia > 0
  /\ Aligned(b.slots[i].ia) /\ Aligned(b.slots[i].is) /\ b.slots[i].is >= size /\ b.slots[i].is > 0
  /\ \A p \in Nat : Inside(b.slots[i], p) => p \in b.mapped /\ p \notin a.mapped
  /\ \A p \in a.mapped : b.slots[i].ia + b.slots[i].is = Start(p) => Start(p) \in b.seams
  /\ \A p \in 1..MaxPage : p \in b.access <=> p \in a.access \/ Inside(b.slots[i], p)

(* The greater of two numbers.                                             *)
LEMMA MaxOfTwo ==
  ASSUME NEW m \in Nat, NEW n \in Nat
  PROVE  Max({m, n}) \in Nat /\ Max({m, n}) >= m /\ Max({m, n}) >= n
<1>1. \E y \in {m, n} : \A z \in {m, n} : y >= z
  OBVIOUS
<1>2. Max({m, n}) \in {m, n} /\ \A z \in {m, n} : Max({m, n}) >= z
  BY <1>1, Zenon DEF Max
<1> QED BY <1>2

(* Where mmap places the new pages, nothing is mapped.                     *)
LEMMA PlacedApart ==
  ASSUME NEW a, a \in ArenaType, Below(a), NEW pages \in Nat, NEW where \in Nat \ {0},
         NEW from, from = Placed(a, pages, where)
  PROVE  from \in Nat /\ from > 0 /\ \A p \in a.mapped : ~(from <= p /\ p < from + pages)
<1>1. a.top \in Nat /\ a.top > 0 /\ a.mapped \in SUBSET Nat /\ \A p \in a.mapped : p < a.top
  BY ArenaFields DEF Below
<1>2. CASE (where .. where + pages - 1) \intersect a.mapped = {}
  <2>1. from = where
    BY <1>2 DEF Placed
  <2>2. \A p \in a.mapped : p \in Nat /\ p \notin where .. where + pages - 1
    BY <1>1, <1>2
  <2> QED BY <2>1, <2>2
<1>3. CASE ~((where .. where + pages - 1) \intersect a.mapped = {})
  <2>1. from = a.top
    BY <1>3 DEF Placed
  <2> QED BY <2>1, <1>1
<1> QED BY <1>2, <1>3

LEMMA ChunkFields ==
  ASSUME NEW a, a \in ArenaType, Below(a), NEW i \in DOMAIN a.slots, a.slots[i] = NoSlotUsed,
         NEW size, Aligned(size), NEW where \in Nat \ {0}, NEW b, b = CreateChunk(a, i, size, where)
  PROVE  ChunkMade(a, b, i, size)
<1> DEFINE t == a.slots
           pages == Max({ChunkPages, size \div PageBytes})
           from == Placed(a, pages, where)
           end == from + pages
           x == from * PageBytes
           n == pages * PageBytes
           s1 == FreeAt(x, n)
           u == [t EXCEPT ![i] = s1]
           acc == a.access \union PagesOf(x, n)
           mp == a.mapped \union (from .. end - 1)
           tp == Max({a.top, end})
           sm == a.seams \union (IF end \in a.mapped THEN {end * PageBytes} ELSE {})
<1>1. /\ SlotSeq(t) /\ a.top \in Nat /\ a.unUsed \in Int /\ a.access \in SUBSET (1..MaxPage)
      /\ a.mapped \in SUBSET Nat /\ a.seams \in SUBSET Nat
  BY ArenaFields
<1>2. PICK q \in Nat : size = Start(q)
  BY DEF Aligned
<1>3. size \div PageBytes = q
  <2>1. PageBytes \in Nat /\ PageBytes > 0
    BY AlignedPage
  <2>2. (q * PageBytes) \div PageBytes = q
    BY <2>1
  <2> QED BY <2>2, <1>2 DEF Start
<1>4. pages \in Nat /\ pages >= q /\ pages > 1
  <2>1. ChunkPages \in Nat /\ ChunkPages > 1
    BY EfenceAssumption
  <2>2. Max({ChunkPages, q}) \in Nat /\ Max({ChunkPages, q}) >= ChunkPages /\ Max({ChunkPages, q}) >= q
    BY ONLY <2>1, q \in Nat, MaxOfTwo
  <2>3. pages = Max({ChunkPages, q})
    BY <1>3
  <2> HIDE DEF pages
  <2> QED BY <2>1, <2>2, <2>3
<1> HIDE DEF pages
<1>a. from \in Nat /\ from > 0 /\ \A p \in a.mapped : ~(from <= p /\ p < from + pages)
  BY <1>4, PlacedApart
<1> HIDE DEF from
<1>b. end \in Nat /\ tp \in Nat /\ tp >= a.top /\ tp >= end
  <2>1. end \in Nat
    BY <1>4, <1>a
  <2> HIDE DEF end
  <2> QED BY <2>1, <1>1, MaxOfTwo
<1>5. x = Start(from) /\ n = Start(pages) /\ end * PageBytes = Start(end)
  BY DEF Start
<1>6. x \in Nat /\ x > 0 /\ n \in Nat /\ n >= size /\ n > 0 /\ Start(end) = x + n
  <2>1. Start(from) \in Nat /\ Start(pages) \in Nat /\ Start(from + pages) = Start(from) + Start(pages)
    BY <1>a, <1>4, StartMono
  <2>2. Start(q) <= Start(pages) /\ Start(pages) >= PageBytes
    BY ONLY <1>4, q \in Nat, StartMono
  <2>3. Start(from) >= PageBytes
    BY <1>a, StartMono
  <2> HIDE DEF x, n
  <2> QED BY <1>2, <1>5, <2>1, <2>2, <2>3, AlignedPage
<1> HIDE DEF x, n, end
<1>7. s1 \in SlotType
  BY <1>6 DEF FreeAt, SlotType, Modes
<1>8. s1.mode = "FREE" /\ s1.ua = 0 /\ s1.ia = x /\ s1.is = n
  BY DEF FreeAt
<1>9. SlotSeq(u) /\ DOMAIN u = DOMAIN t /\ u[i] = s1 /\ \A k \in DOMAIN t : k # i => u[k] = t[k]
  <2> HIDE DEF s1, t
  <2> QED BY <1>1, <1>7, SlotChanged DEF t
<1>10. acc \in SUBSET (1..MaxPage) /\ mp \in SUBSET Nat /\ sm \in SUBSET Nat
  <2>1. acc \in SUBSET (1..MaxPage)
    BY <1>1 DEF PagesOf
  <2>2. mp \in SUBSET Nat
    BY <1>1, <1>a, <1>b
  <2>3. end * PageBytes \in Nat
    BY <1>5, <1>6
  <2>4. sm \in SUBSET Nat
    BY <1>1, <2>3
  <2> QED BY <2>1, <2>2, <2>4
<1>11. b = [a EXCEPT !.slots = u, !.access = acc, !.mapped = mp, !.top = tp, !.seams = sm, !.unUsed = a.unUsed - 1]
  <2> DEFINE g == Page_Create(a, pages, where)
             h == [a EXCEPT !.access = acc]
  <2>0. h \in ArenaType /\ h.slots = t /\ h.mapped = a.mapped /\ h.seams = a.seams
    <3> HIDE DEF acc
    <3> QED BY <1>10 DEF ArenaType
  <2>1. g = [a EXCEPT !.access = acc, !.mapped = mp, !.top = tp, !.seams = sm]
    <3>1. Page_AllowAccess(a, from * PageBytes, pages * PageBytes) = h
      BY DEF Page_AllowAccess, x, n
    <3>2. g = [Page_AllowAccess(a, from * PageBytes, pages * PageBytes) EXCEPT
                 !.mapped = @ \union (from .. end - 1),
                 !.top = Max({a.top, end}),
                 !.seams = @ \union (IF end \in a.mapped THEN {end * PageBytes} ELSE {})]
      BY Zenon DEF Page_Create, from, end
    <3>3. g = [h EXCEPT !.mapped = @ \union (from .. end - 1), !.top = tp,
                        !.seams = @ \union (IF end \in a.mapped THEN {end * PageBytes} ELSE {})]
      BY <3>1, <3>2
    <3> HIDE DEF h
    <3>4. g = [h EXCEPT !.mapped = h.mapped \union (from .. end - 1), !.top = tp,
                        !.seams = h.seams \union (IF end \in a.mapped THEN {end * PageBytes} ELSE {})]
      BY <3>3, <2>0 DEF ArenaType
    <3>5. g = [h EXCEPT !.mapped = mp, !.top = tp, !.seams = sm]
      BY <3>4, <2>0
    <3> HIDE DEF g, mp, tp, sm, acc
    <3> QED BY <3>5 DEF h, ArenaType
  <2>2. b = [g EXCEPT !.slots[i] = [@ EXCEPT !.ia = x, !.is = n, !.mode = "FREE"], !.unUsed = @ - 1]
    BY Zenon DEF CreateChunk, from, x, n, pages
  <2> HIDE DEF g, acc, mp, tp, sm, h
  <2>3. g.slots = t /\ g \in ArenaType /\ g.unUsed = a.unUsed
    BY <2>1, <1>b, <1>10 DEF ArenaType
  <2>4. [NoSlotUsed EXCEPT !.ia = x, !.is = n, !.mode = "FREE"] = s1
    BY ONLY FreshFree, Zenon DEF s1
  <2> HIDE DEF s1
  <2>5. [g.slots[i] EXCEPT !.ia = x, !.is = n, !.mode = "FREE"] = s1
    BY <2>3, <2>4
  <2>6. b = [g EXCEPT !.slots = [g.slots EXCEPT ![i] = [g.slots[i] EXCEPT !.ia = x, !.is = n, !.mode = "FREE"]],
                      !.unUsed = g.unUsed - 1]
    BY <2>2, <2>3 DEF ArenaType
  <2>7. b = [g EXCEPT !.slots = u, !.unUsed = a.unUsed - 1]
    BY <2>3, <2>5, <2>6
  <2> HIDE DEF u
  <2> QED BY <2>1, <2>7 DEF ArenaType
<1>12. /\ b \in ArenaType /\ b.slots = u /\ b.access = acc /\ b.unUsed = a.unUsed - 1
       /\ b.mapped = mp /\ b.top = tp /\ b.seams = sm
       /\ b.list = a.list /\ b.listPages = a.listPages /\ b.error = a.error
  <2>1. a.unUsed - 1 \in Int
    BY <1>1
  <2> HIDE DEF u, acc, mp, tp, sm
  <2> QED BY <1>b, <1>9, <1>10, <1>11, <2>1 DEF ArenaType, SlotSeq
<1>13. Below(b)
  <2>1. tp > 0
    BY <1>1, <1>b DEF Below
  <2>2. ASSUME NEW p \in mp PROVE p < tp
    <3>1. p \in Nat
      BY <1>10
    <3>2. CASE p \in a.mapped
      BY <3>1, <3>2, <1>1, <1>b DEF Below
    <3>3. CASE p \in from .. end - 1
      BY <3>1, <3>3, <1>b
    <3> QED BY <3>2, <3>3
  <2> HIDE DEF mp, tp
  <2> QED BY <2>1, <2>2, <1>12 DEF Below
<1>14. Aligned(x) /\ Aligned(n)
  BY <1>a, <1>4, <1>5 DEF Aligned
<1>15. \A p \in 1..MaxPage : p \in acc <=> p \in a.access \/ Inside(s1, p)
  <2> HIDE DEF s1
  <2> QED BY <1>8, PagesIn DEF Inside
<1>16. ASSUME NEW p \in Nat, Inside(s1, p) PROVE p \in mp /\ p \notin a.mapped
  <2>1. Start(from) <= Start(p) /\ Start(p) < Start(end)
    <3> HIDE DEF s1
    <3> QED BY <1>5, <1>6, <1>8, <1>16 DEF Inside
  <2>2. Start(p) \in Nat /\ Start(from) \in Nat /\ Start(end) \in Nat /\ PageBytes \in Nat /\ PageBytes > 0
    BY <1>a, <1>b, AlignedPage
  <2>3. (p < from => Start(p) + PageBytes <= Start(from)) /\ (end <= p => Start(end) <= Start(p))
    BY <1>a, <1>b, StartMono
  <2>4. from <= p /\ p < end
    BY <2>1, <2>2, <2>3, <1>a, <1>b
  <2> QED BY <2>4, <1>a, <1>b DEF end
<1>17. ASSUME NEW p \in a.mapped, x + n = Start(p) PROVE Start(p) \in sm
  <2>1. p \in Nat /\ Start(p) \in Nat /\ Start(end) \in Nat /\ PageBytes \in Nat /\ PageBytes > 0
    BY <1>1, <1>b, AlignedPage
  <2>2. (p < end => Start(p) + PageBytes <= Start(end)) /\ (end < p => Start(end) + PageBytes <= Start(p))
    BY <2>1, <1>b, StartMono
  <2>3. p = end
    BY <2>1, <2>2, <1>6, <1>17, <1>b
  <2> QED BY <2>3, <1>5
<1>18. a.mapped \subseteq mp /\ a.seams \subseteq sm
  OBVIOUS
<1> HIDE DEF s1, u, acc, mp, tp, sm
<1> QED BY <1>6, <1>8, <1>9, <1>12, <1>13, <1>14, <1>15, <1>16, <1>17, <1>18 DEF ChunkMade

ListPages(a) == PagesOf(a.list, a.listPages * PageBytes)

LEMMA AccessFields ==
  ASSUME NEW a, a \in ArenaType, NEW x, NEW n
  PROVE  /\ Page_AllowAccess(a, x, n) \in ArenaType
         /\ SameRest(a, Page_AllowAccess(a, x, n))
         /\ Page_AllowAccess(a, x, n).slots = a.slots /\ Page_AllowAccess(a, x, n).unUsed = a.unUsed
         /\ Page_AllowAccess(a, x, n).access = a.access \union PagesOf(x, n)
         /\ Page_DenyAccess(a, x, n) \in ArenaType
         /\ SameRest(a, Page_DenyAccess(a, x, n))
         /\ Page_DenyAccess(a, x, n).slots = a.slots /\ Page_DenyAccess(a, x, n).unUsed = a.unUsed
         /\ Page_DenyAccess(a, x, n).access = a.access \ PagesOf(x, n)
<1>1. PagesOf(x, n) \in SUBSET (1..MaxPage)
  BY DEF PagesOf
<1> DEFINE P == PagesOf(x, n)
<1>2. Page_AllowAccess(a, x, n) = [a EXCEPT !.access = a.access \union P]
  BY DEF Page_AllowAccess
<1>3. Page_DenyAccess(a, x, n) = [a EXCEPT !.access = a.access \ P]
  BY DEF Page_DenyAccess
<1>4. /\ [a EXCEPT !.access = a.access \union P] \in ArenaType
      /\ [a EXCEPT !.access = a.access \ P] \in ArenaType
  <2>1. a.access \union P \in SUBSET (1..MaxPage) /\ a.access \ P \in SUBSET (1..MaxPage)
    BY <1>1, ArenaFields
  <2> DEFINE v == a.access \union P  w == a.access \ P
  <2> HIDE DEF v, w
  <2>2. [a EXCEPT !.access = v] \in ArenaType /\ [a EXCEPT !.access = w] \in ArenaType
    BY <2>1 DEF v, w, ArenaType
  <2> QED BY <2>2 DEF v, w
<1> HIDE DEF P
<1> QED BY <1>2, <1>3, <1>4 DEF ArenaType, SameRest, P

(* The arena before the split: slot f is free and large enough, slot e is  *)
(* empty, and only f may have a free neighbour, before it.                 *)
Prepared(a, c, f, e, size) ==
  /\ c \in ArenaType /\ c.list = a.list /\ c.listPages = a.listPages /\ c.error = a.error
  /\ a.mapped \subseteq c.mapped /\ Below(c) /\ c.unUsed >= a.unUsed - 1
  /\ DOMAIN c.slots = DOMAIN a.slots
  /\ f \in DOMAIN a.slots /\ e \in DOMAIN a.slots /\ f # e
  /\ \A k \in DOMAIN a.slots : k # f => c.slots[k] = a.slots[k]
  /\ a.slots[f].mode \in {"FREE", "NOT_IN_USE"}
  /\ c.slots[f].mode = "FREE" /\ c.slots[f].is >= size /\ c.slots[e] = NoSlotUsed
  /\ SlotsOk(c.slots, c.mapped) /\ AllApart(c.slots) /\ SlotsCounted(c)
  /\ MergesAt(c.slots, f, c.seams) /\ NoneBehind(c.slots, f, c.seams)
  /\ \A p \in 1..MaxPage :
       /\ p \in a.access \/ p \in ListPages(a) => p \in c.access
       /\ p \in c.access => p \in a.access \/ p \in ListPages(a) \/ p \notin a.mapped

LEMMA PrepareFit ==
  ASSUME NEW a, ArenaOk(a), NEW size \in Nat, NEW f \in DOMAIN a.slots,
         a.slots[f].mode = "FREE", a.slots[f].is >= size,
         NEW e \in Empties(a.slots), NEW c, c = Page_AllowAccess(a, a.list, a.listPages * PageBytes)
  PROVE  Prepared(a, c, f, e, size)
<1>0. /\ a \in ArenaType /\ a.unUsed \in Int /\ Tiled(a) /\ Below(a)
  BY ArenaFields DEF ArenaOk
<1>1. /\ c \in ArenaType /\ SameRest(a, c) /\ c.slots = a.slots /\ c.unUsed = a.unUsed
      /\ c.access = a.access \union ListPages(a)
  BY <1>0, AccessFields DEF ListPages
<1>2. e \in DOMAIN a.slots /\ a.slots[e] = NoSlotUsed /\ f # e
  BY <1>0 DEF Empties, Tiled, SlotsOk, SlotOk, Used
<1>3. MergesAt(a.slots, f, a.seams) /\ NoneBehind(a.slots, f, a.seams)
  BY <1>0 DEF Tiled, NoneMerge, MergesAt, NoneBehind
<1> QED BY <1>0, <1>1, <1>2, <1>3 DEF Prepared, Tiled, SameRest, SlotsCounted, Below

(* Two buffers that share no page lie apart.                               *)
LEMMA PagesApart ==
  ASSUME NEW s \in SlotType, NEW r \in SlotType, Aligned(s.ia), Aligned(r.ia), s.is > 0, r.is > 0,
         \A p \in Nat : ~(Inside(s, p) /\ Inside(r, p))
  PROVE  Apart(s, r)
<1>1. s.ia \in Nat /\ s.is \in Nat /\ r.ia \in Nat /\ r.is \in Nat
  BY DEF SlotType
<1>2. PICK k \in Nat, m \in Nat : s.ia = Start(k) /\ r.ia = Start(m)
  BY DEF Aligned
<1>3. CASE s.ia <= r.ia
  <2>1. Inside(r, m)
    BY <1>1, <1>2 DEF Inside
  <2>2. ~Inside(s, m)
    BY <2>1
  <2> QED BY <2>2, <1>1, <1>2, <1>3 DEF Inside, Apart
<1>4. CASE r.ia <= s.ia
  <2>1. Inside(s, k)
    BY <1>1, <1>2 DEF Inside
  <2>2. ~Inside(r, k)
    BY <2>1
  <2> QED BY <2>2, <1>1, <1>2, <1>4 DEF Inside, Apart
<1> QED BY <1>1, <1>3, <1>4

LEMMA PrepareChunk ==
  ASSUME NEW a, ArenaOk(a), NEW size, Aligned(size), NEW where \in Nat \ {0},
         NEW f \in Empties(a.slots), NEW e \in Empties(a.slots), f # e,
         NEW c, c = CreateChunk(Page_AllowAccess(a, a.list, a.listPages * PageBytes), f, size, where)
  PROVE  Prepared(a, c, f, e, size)
<1> DEFINE g == Page_AllowAccess(a, a.list, a.listPages * PageBytes)
           t == a.slots  u == c.slots
<1>0. /\ a \in ArenaType /\ a.unUsed \in Int /\ Tiled(a) /\ Below(a) /\ SlotSeq(t) /\ size \in Nat
      /\ a.mapped \in SUBSET Nat
  BY ArenaFields, AlignedNat DEF ArenaOk
<1>1. /\ g \in ArenaType /\ SameRest(a, g) /\ g.slots = t /\ g.unUsed = a.unUsed
      /\ g.access = a.access \union ListPages(a)
  BY <1>0, AccessFields DEF ListPages
<1> HIDE DEF g
<1>2. /\ e \in DOMAIN t /\ f \in DOMAIN t /\ t[e] = NoSlotUsed /\ t[f] = NoSlotUsed
      /\ t[f].mode = "NOT_IN_USE"
  BY <1>0 DEF Empties, Tiled, SlotsOk, SlotOk, Used
<1>a. c = CreateChunk(g, f, size, where)
  BY DEF g
<1>b. ChunkMade(g, c, f, size)
  <2>1. g \in ArenaType /\ f \in DOMAIN g.slots /\ g.slots[f] = NoSlotUsed /\ Aligned(size) /\ where \in Nat \ {0}
    BY <1>1, <1>2
  <2>2. Below(g)
    BY <1>0, <1>1 DEF Below, SameRest
  <2> QED BY ONLY <2>1, <2>2, <1>a, ChunkFields
<1>c. g.mapped = a.mapped /\ g.seams = a.seams /\ g.list = a.list /\ g.listPages = a.listPages /\ g.error = a.error
  BY <1>1 DEF SameRest
<1>3. /\ c \in ArenaType /\ c.unUsed = a.unUsed - 1 /\ Below(c)
      /\ c.list = a.list /\ c.listPages = a.listPages /\ c.error = a.error
      /\ a.mapped \subseteq c.mapped /\ a.seams \subseteq c.seams
      /\ u[f].mode = "FREE" /\ u[f].ua = 0 /\ u[f].ia > 0
      /\ Aligned(u[f].ia) /\ Aligned(u[f].is) /\ u[f].is >= size /\ u[f].is > 0
      /\ \A p \in Nat : Inside(u[f], p) => p \in c.mapped /\ p \notin a.mapped
      /\ \A p \in a.mapped : u[f].ia + u[f].is = Start(p) => Start(p) \in c.seams
      /\ \A p \in 1..MaxPage : p \in c.access <=> p \in a.access \/ p \in ListPages(a) \/ Inside(u[f], p)
  BY <1>b, <1>c, <1>1 DEF ChunkMade
<1>5. DOMAIN u = DOMAIN t /\ \A k \in DOMAIN t : k # f => u[k] = t[k]
  BY <1>b, <1>1 DEF ChunkMade
<1>6. /\ SlotSeq(u) /\ u[f] \in SlotType /\ u[f].ia \in Nat /\ u[f].is \in Nat
  BY <1>2, <1>3, <1>5, ArenaFields, SlotFields
<1>7. \A k \in DOMAIN t : t[k] \in SlotType /\ t[k].ia \in Nat /\ t[k].is \in Nat
  BY <1>0, SlotFields
<1>8. \A k \in DOMAIN t : Used(t[k]) => /\ Aligned(t[k].ia) /\ t[k].is > 0
                                        /\ \A p \in Nat : Inside(t[k], p) => p \in a.mapped
  BY <1>0 DEF Tiled, SlotsOk, SlotOk
<1>9. SlotsOk(u, c.mapped)
  <2> SUFFICES ASSUME NEW k \in DOMAIN t PROVE SlotOk(u[k], c.mapped)
    BY <1>5 DEF SlotsOk
  <2>1. CASE k = f
    <3>1. Used(u[f])
      BY <1>3 DEF Used
    <3> QED BY <2>1, <3>1, <1>3 DEF SlotOk
  <2>2. CASE k # f
    <3>1. SlotOk(t[k], a.mapped)
      BY <1>0 DEF Tiled, SlotsOk
    <3>2. SlotOk(t[k], c.mapped)
      BY <3>1, <1>3 DEF SlotOk
    <3> QED BY <2>2, <3>2, <1>5
  <2> QED BY <2>1, <2>2
<1>10. AllApart(u)
  <2> SUFFICES ASSUME NEW j \in DOMAIN t, NEW k \in DOMAIN t, j # k, Used(u[j]), Used(u[k])
               PROVE  Apart(u[j], u[k])
    BY <1>5 DEF AllApart
  <2>1. CASE j # f /\ k # f
    BY <2>1, <1>0, <1>5 DEF Tiled, AllApart
  <2>2. ASSUME NEW m \in DOMAIN t, m # f, Used(u[m])
        PROVE  Apart(u[f], u[m]) /\ Apart(u[m], u[f])
    <3>1. u[m] = t[m]
      BY <2>2, <1>5
    <3>2. /\ u[m] \in SlotType /\ Aligned(u[m].ia) /\ u[m].is > 0
          /\ \A p \in Nat : ~(Inside(u[f], p) /\ Inside(u[m], p))
      BY <3>1, <2>2, <1>3, <1>7, <1>8
    <3>3. Apart(u[f], u[m])
      BY <3>2, <1>3, <1>6, PagesApart
    <3> QED BY <3>3 DEF Apart
  <2>3. CASE j = f
    BY <2>2, <2>3
  <2>4. CASE k = f
    BY <2>2, <2>4
  <2> QED BY <2>1, <2>3, <2>4
<1>11. MergesAt(u, f, c.seams)
  <2> SUFFICES ASSUME NEW j \in DOMAIN t, NEW k \in DOMAIN t, Merges(u[j], u[k], c.seams), j # f, k # f
               PROVE  FALSE
    BY <1>5 DEF MergesAt
  <2>1. Merges(t[j], t[k], a.seams)
    BY <1>3, <1>5 DEF Merges
  <2> QED BY <2>1, <1>0 DEF Tiled, NoneMerge
<1>12. NoneBehind(u, f, c.seams)
  <2> SUFFICES ASSUME NEW k \in DOMAIN t, Merges(u[f], u[k], c.seams) PROVE FALSE
    BY <1>5 DEF NoneBehind
  <2>1. k # f
    BY <1>3, <1>6 DEF Merges
  <2>2. u[k] = t[k] /\ Used(t[k])
    BY <2>1, <1>3, <1>5 DEF Merges, Used
  <2>3. PICK m \in Nat : t[k].ia = Start(m)
    BY <2>2, <1>8 DEF Aligned
  <2>4. Inside(t[k], m)
    BY <2>2, <2>3, <1>7, <1>8 DEF Inside
  <2>5. m \in a.mapped
    BY <2>2, <2>4, <1>8
  <2>6. u[f].ia + u[f].is = Start(m) /\ u[k].ia = Start(m) /\ Start(m) \notin c.seams
    BY <2>2, <2>3, <1>3 DEF Merges
  <2> QED BY <2>5, <2>6, <1>3
<1>13. SlotsCounted(c)
  <2>1. Empties(u) = Empties(t) \ {f}
    BY <1>3, <1>5 DEF Empties
  <2>2. Cardinality(Empties(u)) = Cardinality(Empties(t)) - 1
    BY <2>1, <1>0, <1>6, EmptyTaken
  <2> QED BY <2>2, <1>0, <1>3 DEF Tiled, SlotsCounted
<1>14. ASSUME NEW p \in 1..MaxPage
       PROVE  /\ p \in a.access \/ p \in ListPages(a) => p \in c.access
              /\ p \in c.access => p \in a.access \/ p \in ListPages(a) \/ p \notin a.mapped
  BY <1>3
<1>15. c.slots[e] = NoSlotUsed
  BY <1>2, <1>5
<1>16. c.unUsed >= a.unUsed - 1
  BY <1>0, <1>3
<1> QED BY <1>2, <1>3, <1>5, <1>9, <1>10, <1>11, <1>12, <1>13, <1>14, <1>15, <1>16 DEF Prepared

LEMMA ListInside ==
  ASSUME NEW a, a \in ArenaType, NEW l \in DOMAIN a.slots, HoldsList(a, l), NEW p \in ListPages(a)
  PROVE  p \in 1..MaxPage /\ Inside(a.slots[l], p)
<1>1. /\ a.list \in Nat /\ a.listPages \in Nat /\ a.slots[l].ia \in Nat /\ a.slots[l].is \in Nat
  BY ArenaFields, SlotFields
<1>2. Start(a.listPages) = a.listPages * PageBytes /\ Start(a.listPages) \in Nat
  BY <1>1, StartMono DEF Start
<1>3. p \in 1..MaxPage /\ Start(p) >= a.list /\ Start(p) < a.list + Start(a.listPages)
  BY <1>2, PagesIn DEF ListPages
<1>4. Start(p) \in Nat
  BY <1>3, StartMono
<1> QED BY <1>1, <1>2, <1>3, <1>4 DEF HoldsList, Inside

(* What an allocation does to the arena: slot f holds the new buffer, and  *)
(* no other slot in use has changed unless it was free.                    *)
Given(a, b, f, us, md) ==
  /\ b \in ArenaType /\ b.list = a.list /\ b.listPages = a.listPages /\ b.error = a.error
  /\ a.mapped \subseteq b.mapped /\ b.unUsed >= a.unUsed - 2
  /\ DOMAIN b.slots = DOMAIN a.slots
  /\ f \in DOMAIN a.slots /\ a.slots[f].mode \in {"FREE", "NOT_IN_USE"}
  /\ b.slots[f].mode = md /\ b.slots[f].us = us /\ b.slots[f].is = RoundUp(us + PageBytes, PageBytes)
  /\ Shaped(b.slots[f]) /\ Guarded(b.slots[f], b.access)
  /\ \A k \in DOMAIN a.slots : a.slots[k].mode \notin {"FREE", "NOT_IN_USE"} => b.slots[k] = a.slots[k]
  /\ \A k \in DOMAIN a.slots : k # f /\ b.slots[k].mode \notin {"FREE", "NOT_IN_USE"} => b.slots[k] = a.slots[k]
  /\ \A p \in 1..MaxPage : p \in b.access
        => p \in a.access \/ p \in ListPages(a) \/ Inside(b.slots[f], p) \/ p \notin a.mapped

(* Steps two and three of an allocation.                                   *)
LEMMA TakenKeeps ==
  ASSUME NEW a, ArenaOk(a), EnvOk, NEW c, NEW f, NEW e, NEW n, Prepared(a, c, f, e, n),
         Aligned(n), NEW us \in Nat, us <= n - PageBytes, PageBytes <= n, env.below => us > 0,
         n = RoundUp(us + PageBytes, PageBytes), NEW md \in {"ALLOCATED", "INTERNAL_USE"},
         NEW b, b = Fence(Taken(c, f, e, n, md), f, us)
  PROVE  Given(a, b, f, us, md) /\ ArenaOk(b)
<1> DEFINE t == c.slots  u == b.slots
           d == Taken(c, f, e, n, md)
<1>0. /\ a \in ArenaType /\ SlotSeq(a.slots) /\ a.unUsed \in Int /\ Tiled(a) /\ Fenced(a)
      /\ ~a.error /\ SlotsOk(a.slots, a.mapped)
  BY ArenaFields DEF ArenaOk, Tiled
<1>1. /\ c \in ArenaType /\ a.mapped \subseteq c.mapped /\ Below(c) /\ c.unUsed \in Int /\ c.unUsed >= a.unUsed - 1
      /\ SlotSeq(t) /\ f \in DOMAIN t /\ e \in DOMAIN t /\ f # e /\ t[f].mode = "FREE" /\ t[e] = NoSlotUsed
      /\ t[f].is >= n /\ SlotsOk(t, c.mapped) /\ AllApart(t)
      /\ MergesAt(t, f, c.seams) /\ NoneBehind(t, f, c.seams)
      /\ DOMAIN t = DOMAIN a.slots
      /\ c.list = a.list /\ c.listPages = a.listPages /\ c.error = a.error
      /\ \A k \in DOMAIN a.slots : k # f => t[k] = a.slots[k]
      /\ a.slots[f].mode \in {"FREE", "NOT_IN_USE"}
  BY ArenaFields DEF Prepared
<1>2. n \in Nat /\ n > 0 /\ PageBytes \in Nat /\ PageBytes > 0 /\ t[f].is \in Nat
  BY <1>1, AlignedNat, AlignedPage, SlotFields
<1>3. /\ d \in ArenaType /\ SameRest(c, d) /\ d.access = c.access
      /\ SlotCarved(t, d.slots, f, e, n) /\ d.slots[f].mode = md
      /\ d.unUsed = IF t[f].is = n THEN c.unUsed ELSE c.unUsed - 1
  <2>1. n <= t[f].is
    BY <1>1, <1>2
  <2> HIDE DEF d
  <2>2. d = Taken(c, f, e, n, md)
    BY DEF d
  <2> QED BY <2>1, <2>2, <1>1, <1>2, TakenFields
<1> HIDE DEF d
<1>4. f \in DOMAIN d.slots /\ DOMAIN d.slots = DOMAIN t /\ d.slots[f].is = n /\ d.slots[f].ia = t[f].ia
  BY <1>1, <1>3 DEF SlotCarved
<1>5. /\ b \in ArenaType /\ SameRest(d, b) /\ b.unUsed = d.unUsed
      /\ DOMAIN u = DOMAIN d.slots
      /\ \A k \in DOMAIN d.slots : k # f => u[k] = d.slots[k]
      /\ u[f].mode = d.slots[f].mode /\ u[f].ia = d.slots[f].ia /\ u[f].is = d.slots[f].is
      /\ u[f].us = us
      /\ Shaped(u[f]) /\ Guarded(u[f], b.access)
      /\ \A p \in 1..MaxPage : ~Inside(d.slots[f], p) => (p \in b.access <=> p \in d.access)
  <2>1. us <= d.slots[f].is - PageBytes /\ PageBytes <= d.slots[f].is
    BY <1>4
  <2>2. b = Fence(d, f, us)
    BY DEF d
  <2> QED BY <2>1, <2>2, <1>3, <1>4, FenceFields
<1>6. /\ SlotSeq(u) /\ b.top = c.top /\ b.mapped = c.mapped /\ b.seams = c.seams
      /\ b.list = a.list /\ b.listPages = a.listPages /\ b.error = a.error /\ DOMAIN u = DOMAIN a.slots
  BY <1>1, <1>3, <1>4, <1>5, ArenaFields DEF SameRest
<1>7. SlotCarved(t, u, f, e, n)
  BY <1>1, <1>3, <1>4, <1>5 DEF SlotCarved
<1>8. u[f].ia <= u[f].ua /\ u[f].ua < u[f].ia + u[f].is
  <2>1. u[f].ia \in Nat /\ u[f].ua \in Nat /\ u[f].is = n /\ u[f].us = us
    BY <1>1, <1>4, <1>5, <1>6, SlotFields
  <2>2. /\ env.below => u[f].ua = u[f].ia + PageBytes
        /\ ~env.below => u[f].ua + us = u[f].ia + n - PageBytes
    BY <2>1, <1>5 DEF Shaped
  <2> HIDE DEF u
  <2>3. CASE env.below
    BY ONLY <2>1, <2>2, <2>3, <1>2, us \in Nat, us <= n - PageBytes, env.below => us > 0
  <2>4. CASE ~env.below
    BY ONLY <2>1, <2>2, <2>4, <1>2, us \in Nat, us <= n - PageBytes
  <2> QED BY <2>3, <2>4
<1>9. SlotsOk(u, b.mapped)
  BY <1>1, <1>2, <1>6, <1>7, <1>8, CarveSlots
<1>10. AllApart(u)
  BY <1>1, <1>2, <1>6, <1>7, CarveApart
<1>11. NoneMerge(u, b.seams)
  BY <1>1, <1>2, <1>6, <1>7, CarveNoneMerge
<1>12. b.unUsed = Cardinality(Empties(u))
  <2>1. c.unUsed = Cardinality(Empties(t))
    BY DEF Prepared, SlotsCounted
  <2>2. t[f].is = n => Empties(u) = Empties(t)
    BY <1>1, <1>7 DEF SlotCarved, Empties
  <2>3. t[f].is # n => Empties(u) = Empties(t) \ {e}
    BY <1>1, <1>7 DEF SlotCarved, Empties
  <2>4. e \in Empties(t)
    BY <1>1 DEF Empties, NoSlotUsed
  <2> QED BY <2>1, <2>2, <2>3, <2>4, <1>1, <1>3, <1>5, <1>6, EmptyTaken
<1>13. Tiled(b)
  BY <1>9, <1>10, <1>11, <1>12 DEF Tiled
<1>14. b.unUsed >= a.unUsed - 2
  BY <1>0, <1>1, <1>3, <1>5
<1>15. \A k \in DOMAIN a.slots : k # f /\ k # e => u[k] = a.slots[k]
  BY <1>1, <1>7 DEF SlotCarved
<1>16. u[e].mode \in {"FREE", "NOT_IN_USE"} /\ a.slots[e].mode = "NOT_IN_USE"
  BY <1>1, <1>7 DEF SlotCarved, NoSlotUsed
<1>17. ASSUME NEW k \in DOMAIN a.slots, a.slots[k].mode \notin {"FREE", "NOT_IN_USE"} PROVE u[k] = a.slots[k]
  BY <1>1, <1>15, <1>16, <1>17
<1>18. ASSUME NEW k \in DOMAIN a.slots, k # f, u[k].mode \notin {"FREE", "NOT_IN_USE"} PROVE u[k] = a.slots[k]
  BY <1>15, <1>16, <1>18
<1>19. \A p \in 1..MaxPage : Inside(u[f], p) <=> Inside(d.slots[f], p)
  BY <1>5 DEF Inside
<1>20. ASSUME NEW p \in 1..MaxPage, p \in b.access
       PROVE  p \in a.access \/ p \in ListPages(a) \/ Inside(u[f], p) \/ p \notin a.mapped
  <2>1. Inside(u[f], p) \/ p \in c.access
    BY <1>3, <1>5, <1>19, <1>20
  <2> QED BY <2>1 DEF Prepared
<1>21. PICK l \in DOMAIN a.slots : HoldsList(a, l)
  BY DEF ArenaOk, Listed
<1>22. HoldsList(b, l)
  BY <1>6, <1>17, <1>21 DEF HoldsList
<1>23. Fenced(b)
  <2> SUFFICES ASSUME NEW k \in DOMAIN a.slots, u[k].mode = "ALLOCATED"
               PROVE  Shaped(u[k]) /\ Guarded(u[k], b.access)
    BY <1>6 DEF Fenced
  <2>1. CASE k = f
    BY <2>1, <1>5
  <2>2. CASE k # f
    <3>1. u[k] = a.slots[k]
      BY <2>2, <1>18
    <3>2. Shaped(a.slots[k]) /\ Guarded(a.slots[k], a.access)
      BY <3>1, <1>0 DEF Fenced
    <3>3. ASSUME NEW p \in 1..MaxPage, Inside(a.slots[k], p) PROVE p \in b.access <=> p \in a.access
      <4>0. p \in Nat /\ Used(u[k]) /\ Used(u[f]) /\ Used(a.slots[k]) /\ Used(a.slots[l]) /\ k # l
        BY <3>1, <1>3, <1>5, <1>21 DEF Used, HoldsList
      <4>1. ~Inside(u[f], p)
        BY <4>0, <3>1, <3>3, <2>2, <1>1, <1>6, <1>10, NotInsideOther
      <4>2. p \in b.access <=> p \in c.access
        BY <4>1, <1>3, <1>5, <1>19
      <4>3. p \notin ListPages(a)
        <5>1. ~Inside(a.slots[l], p)
          BY <4>0, <3>3, <1>0, NotInsideOther DEF Tiled
        <5> QED BY <5>1, <1>0, <1>21, ListInside
      <4>4. p \in a.mapped
        BY <4>0, <3>3, <1>0 DEF SlotsOk, SlotOk
      <4> QED BY <4>2, <4>3, <4>4 DEF Prepared
    <3> QED BY <3>1, <3>2, <3>3 DEF Guarded
  <2> QED BY <2>1, <2>2
<1>24. ArenaOk(b)
  BY <1>0, <1>1, <1>5, <1>6, <1>13, <1>21, <1>22, <1>23 DEF ArenaOk, Listed, Below
<1>25. b.slots[f].mode = md /\ b.slots[f].us = us /\ b.slots[f].is = RoundUp(us + PageBytes, PageBytes)
  BY <1>3, <1>4, <1>5
<1>26. a.mapped \subseteq b.mapped
  BY <1>1, <1>6
<1> QED BY <1>1, <1>5, <1>6, <1>14, <1>17, <1>18, <1>20, <1>24, <1>25, <1>26 DEF Given

(* Closing the list keeps all buffers as they are.                         *)
LEMMA DenyKeeps ==
  ASSUME NEW a, ArenaOk(a), NEW b, b = Page_DenyAccess(a, a.list, a.listPages * PageBytes)
  PROVE  /\ ArenaOk(b) /\ ListClosed(b)
         /\ SameRest(a, b) /\ b.slots = a.slots /\ b.unUsed = a.unUsed /\ b.access \subseteq a.access
<1>0. a \in ArenaType /\ SlotSeq(a.slots) /\ Tiled(a) /\ Fenced(a)
  BY ArenaFields DEF ArenaOk
<1>1. /\ b \in ArenaType /\ SameRest(a, b) /\ b.slots = a.slots /\ b.unUsed = a.unUsed
      /\ b.access = a.access \ ListPages(a)
  BY <1>0, AccessFields DEF ListPages
<1>2. PICK l \in DOMAIN a.slots : HoldsList(a, l)
  BY DEF ArenaOk, Listed
<1>3. Fenced(b)
  <2> SUFFICES ASSUME NEW k \in DOMAIN a.slots, a.slots[k].mode = "ALLOCATED"
               PROVE  Guarded(a.slots[k], b.access)
    BY <1>0, <1>1 DEF Fenced
  <2>1. Guarded(a.slots[k], a.access)
    BY <1>0 DEF Fenced
  <2>2. ASSUME NEW p \in 1..MaxPage, Inside(a.slots[k], p) PROVE p \notin ListPages(a)
    <3>1. p \in Nat /\ k # l /\ Used(a.slots[k]) /\ Used(a.slots[l]) /\ AllApart(a.slots)
      BY <1>0, <1>2 DEF HoldsList, Used, Tiled
    <3>2. ~Inside(a.slots[l], p)
      BY <3>1, <2>2, <1>0, NotInsideOther
    <3> QED BY <3>2, <1>0, <1>2, ListInside
  <2> QED BY <2>1, <2>2, <1>1 DEF Guarded
<1>4. Tiled(b) /\ Listed(b) /\ ListClosed(b)
  BY <1>0, <1>1, <1>2 DEF Tiled, Listed, HoldsList, SameRest, ListClosed, ListPages
<1>5. ~b.error /\ Below(b)
  BY <1>1 DEF ArenaOk, SameRest, Below
<1> QED BY <1>1, <1>3, <1>4, <1>5 DEF ArenaOk

LEMMA GivenSizes ==
  ASSUME NEW alignment \in Nat, NEW size \in Nat, EnvOk, env.below => size > 0,
         NEW us, us = (IF ~env.below /\ alignment > 1 THEN RoundUp(size, alignment) ELSE size),
         NEW n, n = RoundUp(us + PageBytes, PageBytes)
  PROVE  /\ us \in Nat /\ size <= us /\ Aligned(n) /\ us <= n - PageBytes /\ PageBytes <= n
         /\ env.below => us > 0
<1>1. us \in Nat /\ size <= us /\ (env.below => us > 0)
  BY RoundUpBounds
<1>2. PageBytes \in Nat /\ PageBytes > 0 /\ us + PageBytes \in Nat
  BY <1>1, AlignedPage
<1>3. n \in Nat /\ n >= us + PageBytes /\ Aligned(n)
  BY <1>2, RoundUpBounds, RoundUpAligned
<1> QED BY <1>1, <1>2, <1>3

UserSize(alignment, size) == IF ~env.below /\ alignment > 1 THEN RoundUp(size, alignment) ELSE size
ModeFor(internalUse) == IF internalUse THEN "INTERNAL_USE" ELSE "ALLOCATED"

(* An allocation, for the program or for the list: the buffer it hands     *)
(* out, and the arena it leaves.                                           *)
LEMMA AllocateKeeps ==
  ASSUME NEW a, ArenaOk(a), EnvOk, a.unUsed >= 2, NEW alignment \in Nat, NEW size \in Nat,
         env.below => size > 0, NEW internalUse \in BOOLEAN, NEW where \in Nat \ {0},
         NEW r, r = Allocate(a, alignment, size, internalUse, where)
  PROVE  /\ Given(a, r[1], r[2], UserSize(alignment, size), ModeFor(internalUse)) /\ ArenaOk(r[1])
         /\ ~internalUse => ListClosed(r[1])
<1> DEFINE us == IF ~env.below /\ alignment > 1 THEN RoundUp(size, alignment) ELSE size
           n == RoundUp(us + PageBytes, PageBytes)
           empty == SlotsIn(a, "NOT_IN_USE")
           fit == BestFit(a, n)
           f == IF fit = 0 THEN Min(empty) ELSE fit
           e == IF fit = 0 THEN Min(empty \ {f}) ELSE Min(empty)
           a1 == Page_AllowAccess(a, a.list, a.listPages * PageBytes)
           a2 == IF fit = 0 THEN CreateChunk(a1, f, n, where) ELSE a1
           a3 == Split([a2 EXCEPT !.slots[f].mode = IF internalUse THEN "INTERNAL_USE" ELSE "ALLOCATED"], f, e, n)
           a4 == Fence(a3, f, us)
<1>0. a \in ArenaType /\ SlotSeq(a.slots) /\ Tiled(a) /\ DOMAIN a.slots \subseteq Nat
  BY ArenaFields DEF ArenaOk, SlotSeq
<1>1. /\ us \in Nat /\ size <= us /\ Aligned(n) /\ us <= n - PageBytes /\ PageBytes <= n
      /\ env.below => us > 0
  BY GivenSizes
<1>2. empty = Empties(a.slots) /\ IsFiniteSet(empty) /\ Cardinality(empty) >= 2 /\ empty \subseteq Nat
  BY <1>0, EmptiesFinite DEF SlotsIn, Empties, Tiled
<1>3. r = <<IF internalUse THEN a4 ELSE Page_DenyAccess(a4, a.list, a.listPages * PageBytes), f>>
  <2>1. ~(Cardinality(empty) < (IF fit = 0 THEN 2 ELSE 1))
    <3> HIDE DEF empty, fit
    <3>1. Cardinality(empty) \in Nat
      BY <1>2, FS_CardinalityType
    <3> QED BY <3>1, <1>2
  <2> QED BY <2>1, Zenon DEF Allocate
<1> HIDE DEF us, n
<1>4. Min(empty) \in empty /\ Min(empty \ {Min(empty)}) \in empty \ {Min(empty)}
  <2> HIDE DEF empty
  <2>1. empty # {}
    BY <1>2, FS_EmptySet
  <2>2. Min(empty) \in empty
    BY <2>1, <1>2, MinMember
  <2>3. Cardinality(empty \ {Min(empty)}) = Cardinality(empty) - 1 /\ IsFiniteSet(empty \ {Min(empty)})
    BY <2>2, <1>2, FS_RemoveElement
  <2>4. Cardinality(empty) \in Nat
    BY <1>2, FS_CardinalityType
  <2>5. empty \ {Min(empty)} # {}
    BY <2>3, <2>4, <1>2, FS_EmptySet
  <2>6. empty \ {Min(empty)} \subseteq Nat
    BY <1>2
  <2> DEFINE rest == empty \ {Min(empty)}
  <2> HIDE DEF rest
  <2>7. Min(rest) \in rest
    BY <2>5, <2>6, MinMember DEF rest
  <2> QED BY <2>2, <2>7 DEF rest
<1>5. Prepared(a, a2, f, e, n)
  <2>1. CASE fit = 0
    <3>1. /\ f \in Empties(a.slots) /\ e \in Empties(a.slots) /\ f # e
          /\ a2 = CreateChunk(Page_AllowAccess(a, a.list, a.listPages * PageBytes), f, n, where)
      BY <2>1, <1>2, <1>4
    <3> HIDE DEF f, e, a2
    <3> QED BY <3>1, <1>1, PrepareChunk
  <2>2. CASE fit # 0
    <3>1. f = fit /\ e \in Empties(a.slots) /\ a2 = Page_AllowAccess(a, a.list, a.listPages * PageBytes)
      BY <2>2, <1>2, <1>4
    <3>2. n \in Nat
      BY <1>1, AlignedNat
    <3>3. f \in DOMAIN a.slots /\ a.slots[f].mode = "FREE" /\ a.slots[f].is >= n
      BY <3>1, <3>2, <2>2, <1>0, BestFitFits
    <3> HIDE DEF f, e, a2
    <3> QED BY <3>1, <3>2, <3>3, PrepareFit
  <2> QED BY <2>1, <2>2
<1> HIDE DEF f, e, a2
<1>6. a3 = Taken(a2, f, e, n, ModeFor(internalUse))
  BY DEF Taken, ModeFor
<1> HIDE DEF a3
<1>7. r[2] = f /\ r[1] = IF internalUse THEN a4 ELSE Page_DenyAccess(a4, a.list, a.listPages * PageBytes)
  BY <1>3
<1>8. a4 = Fence(Taken(a2, f, e, n, ModeFor(internalUse)), f, us)
  BY <1>6
<1>9. ModeFor(internalUse) \in {"ALLOCATED", "INTERNAL_USE"}
  BY DEF ModeFor
<1> HIDE DEF a4
<1>10. us = UserSize(alignment, size) /\ n = RoundUp(us + PageBytes, PageBytes)
  BY DEF us, n, UserSize
<1>11. Given(a, a4, f, us, ModeFor(internalUse)) /\ ArenaOk(a4)
  BY <1>1, <1>5, <1>8, <1>9, <1>10, TakenKeeps
<1>12. CASE internalUse
  BY <1>7, <1>10, <1>11, <1>12
<1>13. CASE ~internalUse
  <2> DEFINE b == Page_DenyAccess(a4, a4.list, a4.listPages * PageBytes)
  <2>1. a4.list = a.list /\ a4.listPages = a.listPages
    BY <1>11 DEF Given
  <2>2. r[1] = b
    BY <2>1, <1>7, <1>13
  <2>3. /\ ArenaOk(b) /\ ListClosed(b)
        /\ SameRest(a4, b) /\ b.slots = a4.slots /\ b.unUsed = a4.unUsed /\ b.access \subseteq a4.access
    BY <1>11, DenyKeeps
  <2> HIDE DEF b
  <2>4. b \in ArenaType
    BY <2>3 DEF ArenaOk
  <2>5. Guarded(b.slots[f], b.access)
    <3>1. f \in DOMAIN b.slots /\ b.slots[f].mode = "ALLOCATED"
      BY <2>3, <1>11, <1>13 DEF Given, ModeFor
    <3> QED BY <3>1, <2>3 DEF ArenaOk, Fenced
  <2>6. Given(a, b, f, us, ModeFor(internalUse))
    BY <2>3, <2>4, <2>5, <1>11 DEF Given, SameRest
  <2> QED BY <2>2, <2>3, <2>6, <1>7, <1>10
<1> QED BY <1>12, <1>13

-----------------------------------------------------------------------------
(* The list is a whole number of pages, and so is what is allocated for it.*)
LEMMA ListSize ==
  ASSUME NEW k \in Nat
  PROVE  /\ UserSize(EF_ALIGNMENT, Start(k)) = Start(k)
         /\ RoundUp(Start(k) + PageBytes, PageBytes) = Start(k) + PageBytes
<1> DEFINE w == EF_ALIGNMENT
<1>0. /\ PageBytes \in Nat \ {0} /\ w \in Nat /\ Start(k) \in Nat
  BY EfenceAssumption, StartMono
<1>1. ASSUME NEW u \in Nat \ {0}, NEW q \in Nat
      PROVE  RoundUp(q * u, u) = q * u
  <2>1. u - 1 \in 0 .. u - 1 /\ q * u \in Nat
    OBVIOUS
  <2>2. (q * u + (u - 1)) \div u = q
    BY <2>1, DivModUnique
  <2>3. q * u + u - 1 = q * u + (u - 1)
    BY <2>1
  <2> QED BY <2>2, <2>3 DEF RoundUp
<1>2. ASSUME w > 1 PROVE RoundUp(Start(k), w) = Start(k)
  <2>1. PICK m \in Nat : PageBytes = m * w
    <3>1. PageBytes % w = 0 /\ PageBytes = (PageBytes \div w) * w + (PageBytes % w) /\ PageBytes \div w \in Nat
      BY <1>0, <1>2, EfenceAssumption
    <3> QED BY <3>1, <1>0
  <2>2. Start(k) = (k * m) * w /\ k * m \in Nat
    BY <2>1, <1>0 DEF Start
  <2> QED BY <2>2, <1>0, <1>1, <1>2
<1>3. UserSize(EF_ALIGNMENT, Start(k)) = Start(k)
  BY <1>2 DEF UserSize
<1>4. PICK q \in Nat : q = k + 1
  OBVIOUS
<1>5. Start(k) + PageBytes = q * PageBytes
  BY <1>0, <1>4 DEF Start
<1>6. RoundUp(q * PageBytes, PageBytes) = q * PageBytes
  BY <1>0, <1>1
<1> QED BY <1>3, <1>5, <1>6

(* A list with a page of empty slots more: nothing else is different.      *)
Longer(a, x) ==
  [a EXCEPT !.slots = @ \o [k \in 1..SlotsPerPage |-> NoSlotUsed],
            !.list = x,
            !.listPages = @ + 1,
            !.unUsed = @ + SlotsPerPage]

Lengthened(t, u, m) ==
  /\ DOMAIN t \subseteq DOMAIN u
  /\ \A i \in DOMAIN t : u[i] = t[i]
  /\ \A i \in DOMAIN u \ DOMAIN t : u[i] = NoSlotUsed
  /\ Cardinality(Empties(u)) = Cardinality(Empties(t)) + m

LEMMA AppendedEmpties ==
  ASSUME NEW t \in Seq(SlotType), NEW u \in Seq(SlotType), NEW n \in Nat, NEW m \in Nat,
         Len(t) = n, Len(u) = n + m,
         \A i \in 1..n : u[i] = t[i],
         \A i \in n+1 .. n+m : u[i] = NoSlotUsed
  PROVE  Lengthened(t, u, m)
<1>1. DOMAIN t = 1..n /\ DOMAIN u = 1 .. n+m
  OBVIOUS
<1>2. DOMAIN u \ DOMAIN t = n+1 .. n+m /\ DOMAIN t \subseteq DOMAIN u
  BY <1>1
<1>3. Empties(u) = Empties(t) \union (n+1 .. n+m) /\ Empties(t) \cap (n+1 .. n+m) = {}
  <2>1. NoSlotUsed.mode = "NOT_IN_USE"
    BY DEF NoSlotUsed
  <2> QED BY <2>1, <1>1 DEF Empties
<1>4. IsFiniteSet(n+1 .. n+m) /\ Cardinality(n+1 .. n+m) = m
  <2>1. n + 1 \in Int /\ n + m \in Int
    OBVIOUS
  <2>2. IsFiniteSet(n+1 .. n+m) /\ Cardinality(n+1 .. n+m) = IF n+1 > n+m THEN 0 ELSE (n+m) - (n+1) + 1
    BY <2>1, FS_Interval
  <2> QED BY <2>2
<1>5. IsFiniteSet(Empties(t)) /\ Cardinality(Empties(t)) \in Nat
  BY EmptiesFinite DEF SlotSeq
<1>6. Cardinality(Empties(u)) = Cardinality(Empties(t)) + m
  <2> DEFINE E == Empties(t)
             F == n+1 .. n+m
  <2> HIDE DEF E, F
  <2>0. IsFiniteSet(E) /\ IsFiniteSet(F)
    BY <1>4, <1>5 DEF E, F
  <2>1. Cardinality(E \union F) = Cardinality(E) + Cardinality(F) - Cardinality(E \cap F)
    BY <2>0, FS_Union, Zenon
  <2>2. Cardinality(E \cap F) = 0
    BY <1>3, FS_EmptySet DEF E, F
  <2>3. Cardinality(F) = m /\ Empties(u) = E \union F /\ Cardinality(E) \in Nat
    BY <1>3, <1>4, <1>5 DEF E, F
  <2>4. Cardinality(E \union F) = Cardinality(E) + m
    BY <2>1, <2>2, <2>3
  <2> QED BY <2>3, <2>4 DEF E
<1> QED BY <1>1, <1>2, <1>6 DEF Lengthened

LEMMA LongerSlots ==
  ASSUME NEW t, SlotSeq(t), NEW m \in Nat, NEW u, u = t \o [k \in 1..m |-> NoSlotUsed]
  PROVE  SlotSeq(u) /\ Lengthened(t, u, m)
<1> DEFINE v == [k \in 1..m |-> NoSlotUsed]
<1>0. m \in Nat
  OBVIOUS
<1>1. v \in Seq(SlotType) /\ Len(v) = m /\ \A k \in 1..m : v[k] = NoSlotUsed
  BY <1>0, NoSlotIsSlot
<1>2. t \in Seq(SlotType) /\ Len(t) \in Nat
  BY DEF SlotSeq
<1>3. u = t \o v
  OBVIOUS
<1> HIDE DEF v
<1>4. /\ u \in Seq(SlotType) /\ Len(u) = Len(t) + m
      /\ \A i \in 1 .. Len(t) : u[i] = t[i]
      /\ \A i \in Len(t)+1 .. Len(t)+m : u[i] = NoSlotUsed
  <2>1. /\ u \in Seq(SlotType) /\ Len(u) = Len(t) + m
        /\ \A i \in 1 .. Len(t)+m : u[i] = IF i <= Len(t) THEN t[i] ELSE v[i - Len(t)]
    BY ONLY <1>1, <1>2, <1>3, ConcatProperties
  <2>2. \A i \in Len(t)+1 .. Len(t)+m : i - Len(t) \in 1..m /\ ~(i <= Len(t)) /\ i \in 1 .. Len(t)+m
    BY ONLY <1>0, <1>2
  <2>3. \A i \in 1 .. Len(t) : i <= Len(t) /\ i \in 1 .. Len(t)+m
    BY ONLY <1>0, <1>2
  <2> QED BY ONLY <1>1, <2>1, <2>2, <2>3
<1>5. PICK n \in Nat : n = Len(t)
  BY <1>2
<1>6. /\ t \in Seq(SlotType) /\ u \in Seq(SlotType) /\ Len(t) = n /\ Len(u) = n + m
      /\ \A i \in 1..n : u[i] = t[i]
      /\ \A i \in n+1 .. n+m : u[i] = NoSlotUsed
  BY <1>2, <1>4, <1>5
<1>7. Lengthened(t, u, m)
  BY ONLY <1>0, <1>6, n \in Nat, AppendedEmpties
<1> QED BY <1>6, <1>7 DEF SlotSeq

LongerMade(a, b, x) ==
  /\ b \in ArenaType /\ b.list = x /\ b.listPages = a.listPages + 1
  /\ b.mapped = a.mapped /\ b.top = a.top /\ b.seams = a.seams /\ b.error = a.error /\ b.access = a.access
  /\ b.unUsed = a.unUsed + SlotsPerPage
  /\ Lengthened(a.slots, b.slots, SlotsPerPage)

LEMMA LongerFields ==
  ASSUME NEW a, a \in ArenaType, NEW x \in Nat, NEW b, b = Longer(a, x)
  PROVE  LongerMade(a, b, x)
<1> DEFINE u == a.slots \o [k \in 1..SlotsPerPage |-> NoSlotUsed]
<1>1. SlotSeq(a.slots) /\ a.listPages \in Nat /\ a.unUsed \in Int /\ SlotsPerPage \in Nat
  BY ArenaFields, EfenceAssumption
<1>2. SlotSeq(u) /\ Lengthened(a.slots, u, SlotsPerPage)
  BY <1>1, LongerSlots
<1> HIDE DEF u
<1>3. b = [a EXCEPT !.slots = u, !.list = x, !.listPages = a.listPages + 1, !.unUsed = a.unUsed + SlotsPerPage]
  BY DEF Longer, u, ArenaType
<1>4. /\ b \in ArenaType /\ b.list = x /\ b.listPages = a.listPages + 1
      /\ b.mapped = a.mapped /\ b.top = a.top /\ b.seams = a.seams /\ b.error = a.error /\ b.access = a.access
      /\ b.unUsed = a.unUsed + SlotsPerPage /\ b.slots = u
  <2>1. PICK n \in Nat, m \in Int : n = a.listPages + 1 /\ m = a.unUsed + SlotsPerPage
    BY <1>1
  <2>2. b = [a EXCEPT !.slots = u, !.list = x, !.listPages = n, !.unUsed = m]
    BY <1>3, <2>1
  <2>3. u \in Seq(SlotType)
    BY <1>2 DEF SlotSeq
  <2>4. /\ b \in ArenaType /\ b.list = x /\ b.listPages = n
        /\ b.mapped = a.mapped /\ b.top = a.top /\ b.seams = a.seams /\ b.error = a.error /\ b.access = a.access
        /\ b.unUsed = m /\ b.slots = u
    BY ONLY a \in ArenaType, x \in Nat, n \in Nat, m \in Int, <2>2, <2>3 DEF ArenaType
  <2> QED BY <2>1, <2>4
<1> QED BY <1>2, <1>4 DEF LongerMade

(* The longer list, once the slot that holds it is allocated.              *)
LEMMA LongerKeeps ==
  ASSUME NEW a, ArenaOk(a), NEW f \in DOMAIN a.slots, a.slots[f].mode = "INTERNAL_USE",
         NEW x \in Nat, a.slots[f].ua = x, a.slots[f].ia <= x,
         x + Start(a.listPages + 1) <= a.slots[f].ia + a.slots[f].is,
         NEW b, b = Longer(a, x)
  PROVE  ArenaOk(b) /\ HoldsList(b, f)
<1>1. a \in ArenaType /\ Tiled(a) /\ Fenced(a) /\ ~a.error /\ Below(a)
  BY DEF ArenaOk
<1>2. /\ b \in ArenaType /\ b.list = x /\ b.listPages = a.listPages + 1
      /\ b.mapped = a.mapped /\ b.top = a.top /\ b.seams = a.seams /\ b.error = a.error /\ b.access = a.access
      /\ b.unUsed = a.unUsed + SlotsPerPage
      /\ Lengthened(a.slots, b.slots, SlotsPerPage)
  BY <1>1, LongerFields DEF LongerMade
<1>3. /\ \A i \in DOMAIN b.slots : \/ i \in DOMAIN a.slots /\ b.slots[i] = a.slots[i]
                                   \/ b.slots[i] = NoSlotUsed
      /\ f \in DOMAIN b.slots /\ b.slots[f] = a.slots[f]
  BY <1>2 DEF Lengthened
<1>4. NoSlotUsed.mode = "NOT_IN_USE" /\ ~Used(NoSlotUsed)
  BY NoSlotIsSlot DEF NoSlotUsed
<1>5. HoldsList(b, f)
  BY <1>2, <1>3 DEF HoldsList
<1>6. Fenced(b)
  BY <1>1, <1>2, <1>3, <1>4 DEF Fenced
<1>7. SlotsOk(b.slots, b.mapped)
  BY <1>1, <1>2, <1>3, <1>4 DEF SlotsOk, SlotOk, Tiled
<1>8. AllApart(b.slots)
  BY <1>1, <1>3, <1>4 DEF AllApart, Tiled
<1>9. NoneMerge(b.slots, b.seams)
  <2>1. ASSUME NEW i \in DOMAIN b.slots, NEW j \in DOMAIN b.slots, Merges(b.slots[i], b.slots[j], b.seams)
        PROVE  FALSE
    <3>1. b.slots[i].mode # "NOT_IN_USE" /\ b.slots[j].mode # "NOT_IN_USE"
      BY <2>1 DEF Merges
    <3>2. i \in DOMAIN a.slots /\ j \in DOMAIN a.slots /\ Merges(a.slots[i], a.slots[j], a.seams)
      BY <3>1, <2>1, <1>2, <1>3, <1>4
    <3> QED BY <3>2, <1>1 DEF Tiled, NoneMerge
  <2> QED BY <2>1 DEF NoneMerge
<1>10. b.unUsed = Cardinality(Empties(b.slots))
  BY <1>1, <1>2 DEF Lengthened, Tiled
<1> QED BY <1>1, <1>2, <1>3, <1>5, <1>6, <1>7, <1>8, <1>9, <1>10 DEF ArenaOk, Tiled, Listed, Below

(* In a buffer whose size is a number of pages, the live pages are those   *)
(* the user sees.                                                          *)
LEMMA WholePages ==
  ASSUME NEW s \in SlotType, EnvOk, Shaped(s), NEW k \in Nat, s.us = Start(k), s.is = Start(k) + PageBytes
  PROVE  /\ s.ia <= s.ua /\ s.ua + Start(k) <= s.ia + s.is
         /\ \A p \in 1..MaxPage : Inside(s, p) /\ Live(s, p) => p \in PagesOf(s.ua, Start(k))
<1>1. s.ia \in Nat /\ s.ua \in Nat /\ Start(k) \in Nat /\ PageBytes \in Nat
  BY StartMono, AlignedPage DEF SlotType
<1>2. env.below \in BOOLEAN
  BY DEF EnvOk
<1>3. s.ia <= s.ua /\ s.ua + Start(k) <= s.ia + s.is
  BY <1>1, <1>2 DEF Shaped
<1>4. ASSUME NEW p \in 1..MaxPage, Inside(s, p), Live(s, p)
      PROVE  p \in PagesOf(s.ua, Start(k))
  <2>1. MaxPage \in Nat /\ p \in Nat
    BY EfenceAssumption
  <2>2. Start(p) \in Nat
    BY <2>1, StartMono
  <2>3. Start(p) >= s.ua /\ Start(p) < s.ua + Start(k)
    BY <1>1, <1>2, <1>4, <2>2 DEF Shaped, Inside, Live
  <2> QED BY <2>3, PagesIn
<1> QED BY <1>3, <1>4

Covered(a, p) == \E i \in DOMAIN a.slots : a.slots[i].mode = "PROTECTED" /\ Inside(a.slots[i], p)

(* What allocateMoreSlots does to the arena, as far as callers can tell.   *)
More(a, b) ==
  /\ ArenaOk(b) /\ a.mapped \subseteq b.mapped /\ b.unUsed >= a.unUsed - 2 + SlotsPerPage
  /\ DOMAIN a.slots \subseteq DOMAIN b.slots
  /\ \A k \in DOMAIN a.slots : a.slots[k].mode = "ALLOCATED" => b.slots[k] = a.slots[k]
  /\ \A k \in DOMAIN b.slots : b.slots[k].mode = "ALLOCATED" => k \in DOMAIN a.slots /\ b.slots[k] = a.slots[k]
  /\ \A p \in 1..MaxPage : p \in b.access => p \in a.access \/ p \in ListPages(b) \/ p \notin a.mapped
  /\ env.protect => \A p \in Nat : Covered(a, p) => Covered(b, p)

(* Growing the list: the new one is allocated before the old one is freed, *)
(* and no buffer of the program is touched.                                *)
LEMMA MoreSlots ==
  ASSUME NEW a, ArenaOk(a), EnvOk, a.unUsed >= 2, NEW where \in Nat \ {0}
  PROVE  More(a, allocateMoreSlots(a, where))
<1>1. a \in ArenaType /\ ~a.error /\ Tiled(a) /\ a.listPages \in Nat /\ SlotSeq(a.slots)
  BY ArenaFields DEF ArenaOk
<1>2. PICK k \in Nat : k = a.listPages + 1
  BY <1>1
<1>3. Start(k) \in Nat /\ Start(k) > 0 /\ EF_ALIGNMENT \in Nat /\ PageBytes \in Nat \ {0}
  <2>1. EF_ALIGNMENT \in Nat /\ PageBytes \in Nat \ {0} /\ k > 0
    BY <1>1, <1>2, EfenceAssumption
  <2>2. Start(k) \in Nat /\ Start(k) >= PageBytes
    BY <2>1, StartMono
  <2> QED BY <2>1, <2>2
<1>4. PICK l \in DOMAIN a.slots : HoldsList(a, l)
  BY DEF ArenaOk, Listed
<1>5. PICK r : r = Allocate(a, EF_ALIGNMENT, Start(k), TRUE, where)
  OBVIOUS
<1> DEFINE c == r[1]
           f == r[2]
           x == c.slots[f].ua
           g == Longer(c, x)
           b == free_locked(g, a.list, TRUE)
<1>6. Given(a, c, f, UserSize(EF_ALIGNMENT, Start(k)), ModeFor(TRUE)) /\ ArenaOk(c)
  BY <1>3, <1>5, AllocateKeeps, Zenon
<1>7. Given(a, c, f, Start(k), "INTERNAL_USE")
  BY <1>6, ListSize DEF ModeFor
<1>8. RoundUp(Start(k) + PageBytes, PageBytes) = Start(k) + PageBytes
  BY ListSize
<1>9. allocateMoreSlots(a, where) = b
  <2>1. r = Allocate(a, EF_ALIGNMENT, (a.listPages + 1) * PageBytes, TRUE, where)
    BY <1>2, <1>5 DEF Start
  <2>2. ~c.error
    BY <1>6 DEF ArenaOk
  <2> QED BY <2>1, <2>2, Zenon DEF allocateMoreSlots, Longer
<1> HIDE DEF c, f
<1>10. /\ c \in ArenaType /\ Tiled(c) /\ SlotSeq(c.slots) /\ c.listPages = a.listPages
       /\ f \in DOMAIN a.slots /\ DOMAIN c.slots = DOMAIN a.slots /\ l # f /\ c.slots[l] = a.slots[l]
       /\ c.slots[f] \in SlotType /\ c.slots[f].mode = "INTERNAL_USE"
       /\ c.slots[f].us = Start(k) /\ c.slots[f].is = Start(k) + PageBytes
       /\ Shaped(c.slots[f]) /\ Guarded(c.slots[f], c.access)
  <2>1. c \in ArenaType /\ Tiled(c) /\ SlotSeq(c.slots)
    BY <1>6, ArenaFields DEF ArenaOk
  <2>2. f \in DOMAIN a.slots /\ DOMAIN c.slots = DOMAIN a.slots
    BY <1>7 DEF Given
  <2>3. l # f /\ c.slots[l] = a.slots[l]
    BY <1>7, <1>4 DEF Given, HoldsList
  <2>4. c.slots[f] \in SlotType
    BY <2>1, <2>2, SlotFields
  <2> QED BY <2>1, <2>2, <2>3, <2>4, <1>7, <1>8 DEF Given
<1>11. /\ c.slots[f].ia <= x /\ x + Start(k) <= c.slots[f].ia + c.slots[f].is /\ x \in Nat
       /\ \A p \in 1..MaxPage : Inside(c.slots[f], p) /\ Live(c.slots[f], p) => p \in PagesOf(x, Start(k))
  <2>1. x \in Nat
    BY <1>10 DEF SlotType
  <2> QED BY <2>1, <1>10, WholePages
<1>12. ArenaOk(g) /\ HoldsList(g, f)
  <2> HIDE DEF x
  <2>1. c.slots[f].ua = x
    BY DEF x
  <2>2. x + Start(c.listPages + 1) <= c.slots[f].ia + c.slots[f].is
    BY <1>2, <1>10, <1>11
  <2> QED BY <2>1, <2>2, <1>6, <1>10, <1>11, LongerKeeps
<1>13. /\ g \in ArenaType /\ g.list = x /\ g.listPages = k
       /\ g.mapped = c.mapped /\ g.access = c.access /\ g.unUsed = c.unUsed + SlotsPerPage
       /\ Lengthened(c.slots, g.slots, SlotsPerPage)
  <2>1. x \in Nat /\ c \in ArenaType /\ c.listPages + 1 = k /\ g = Longer(c, x)
    BY <1>2, <1>10, <1>11
  <2> HIDE DEF x, g
  <2>2. LongerMade(c, g, x)
    BY ONLY <2>1, LongerFields
  <2> QED BY <2>1, <2>2 DEF LongerMade
<1> HIDE DEF g, x
<1>14. l \in DOMAIN g.slots /\ f \in DOMAIN g.slots /\ g.slots[l] = a.slots[l] /\ g.slots[f] = c.slots[f]
  BY <1>4, <1>10, <1>13 DEF Lengthened
<1>15. a.slots[l].ua = a.list /\ a.slots[l].ua # 0 /\ a.slots[l].mode = "INTERNAL_USE" /\ Used(a.slots[l])
  <2>1. a.slots[l].ua = a.list /\ a.slots[l].mode = "INTERNAL_USE" /\ Used(a.slots[l]) /\ a.slots[l].ia <= a.list
    BY <1>4 DEF HoldsList, Used
  <2>2. a.slots[l].ia > 0 /\ a.slots[l].ia \in Nat
    BY <2>1, <1>1, SlotFields DEF Tiled, SlotsOk, SlotOk
  <2>3. a.list \in Nat
    BY <1>1, ArenaFields
  <2> QED BY <2>1, <2>2, <2>3
<1>16. b = FreeSlot(g, l, FreeMode)
  <2>1. Tiled(g) /\ g.slots[l].ua = a.list /\ g.slots[l].ua # 0 /\ g.slots[l].mode = "INTERNAL_USE"
    BY <1>12, <1>14, <1>15 DEF ArenaOk
  <2>2. free_locked(g, g.slots[l].ua, TRUE) = FreeSlot(g, l, FreeMode)
    BY <2>1, <1>13, <1>14, FreeLocked
  <2> QED BY <2>1, <2>2
<1> HIDE DEF b
<1>17. FreeMode \in {"FREE", "PROTECTED"} /\ Used(g.slots[l])
  BY <1>14, <1>15 DEF FreeMode
<1>18. Freed(g, b, l, FreeMode) /\ Tiled(b)
  BY <1>12, <1>13, <1>14, <1>15, <1>16, <1>17, FreeSlotKeeps DEF ArenaOk
<1>19. ArenaOk(b)
  BY <1>10, <1>12, <1>14, <1>17, <1>18, FreedArena
<1>20. a.mapped \subseteq b.mapped /\ b.unUsed >= a.unUsed - 2 + SlotsPerPage
  <2>1. b.mapped = c.mapped /\ a.mapped \subseteq c.mapped
    BY <1>18, <1>13, <1>7 DEF Freed, SameRest, Given
  <2>2. b.unUsed >= c.unUsed + SlotsPerPage /\ c.unUsed >= a.unUsed - 2
    BY <1>18, <1>13, <1>7 DEF Freed, Given
  <2>3. b.unUsed \in Int /\ c.unUsed \in Int /\ a.unUsed \in Int /\ SlotsPerPage \in Nat
    BY <1>1, <1>10, <1>19, ArenaFields, EfenceAssumption DEF ArenaOk
  <2> QED BY <2>1, <2>2, <2>3
<1>21. /\ DOMAIN b.slots = DOMAIN g.slots /\ DOMAIN a.slots \subseteq DOMAIN g.slots
       /\ \A i \in DOMAIN a.slots : g.slots[i] = c.slots[i]
       /\ \A i \in DOMAIN g.slots \ DOMAIN a.slots : g.slots[i] = NoSlotUsed
  BY <1>10, <1>13, <1>18 DEF Freed, Lengthened
<1>22. ASSUME NEW i \in DOMAIN a.slots, a.slots[i].mode = "ALLOCATED"
       PROVE  b.slots[i] = a.slots[i]
  <2>1. c.slots[i] = a.slots[i]
    BY <1>22, <1>7 DEF Given
  <2>2. i \in DOMAIN g.slots /\ g.slots[i] = a.slots[i] /\ i # l
    BY <1>21, <1>22, <1>15, <2>1
  <2>3. g.slots[i].mode # FreeMode /\ Used(g.slots[i])
    BY <1>17, <1>22, <2>2 DEF Used
  <2> QED BY <2>2, <2>3, <1>18 DEF Freed
<1>23. ASSUME NEW i \in DOMAIN b.slots, b.slots[i].mode = "ALLOCATED"
       PROVE  i \in DOMAIN a.slots /\ b.slots[i] = a.slots[i]
  <2>1. i \in DOMAIN g.slots /\ Used(b.slots[i]) /\ b.slots[i].mode # FreeMode
    BY <1>17, <1>21, <1>23 DEF Used
  <2>2. b.slots[i] = g.slots[i]
    BY <2>1, <1>18 DEF Freed
  <2>3. i \in DOMAIN a.slots /\ g.slots[i] = c.slots[i]
    <3>1. NoSlotUsed.mode # "ALLOCATED"
      BY DEF NoSlotUsed
    <3> QED BY <3>1, <2>1, <2>2, <1>21, <1>23
  <2>4. i # f /\ c.slots[i].mode \notin {"FREE", "NOT_IN_USE"}
    BY <2>2, <2>3, <1>23, <1>10
  <2>5. c.slots[i] = a.slots[i]
    BY <2>3, <2>4, <1>7 DEF Given
  <2> QED BY <2>2, <2>3, <2>5
<1>24. ASSUME NEW p \in 1..MaxPage, p \in b.access
       PROVE  p \in a.access \/ p \in ListPages(b) \/ p \notin a.mapped
  <2>1. p \in c.access /\ p \notin PagesOf(a.slots[l].ia, a.slots[l].is)
    BY <1>13, <1>14, <1>18, <1>24 DEF Freed
  <2>2. p \notin ListPages(a)
    BY <2>1, <1>1, <1>4, ListInside, InsidePages
  <2>3. p \in a.access \/ Inside(c.slots[f], p) \/ p \notin a.mapped
    BY <2>1, <2>2, <1>7 DEF Given
  <2>4. ASSUME Inside(c.slots[f], p) PROVE p \in ListPages(b)
    <3>1. Live(c.slots[f], p)
      BY <2>1, <2>4, <1>10 DEF Guarded
    <3>2. b.list = x /\ b.listPages = k
      BY <1>13, <1>18 DEF Freed, SameRest
    <3> QED BY <3>1, <3>2, <2>4, <1>11 DEF ListPages, Start
  <2> QED BY <2>3, <2>4
<1>25. ASSUME env.protect, NEW p \in Nat, Covered(a, p)
       PROVE  Covered(b, p)
  <2>1. PICK i \in DOMAIN a.slots : a.slots[i].mode = "PROTECTED" /\ Inside(a.slots[i], p)
    BY <1>25 DEF Covered
  <2>2. c.slots[i] = a.slots[i]
    BY <2>1, <1>7 DEF Given
  <2>3. i \in DOMAIN g.slots /\ g.slots[i].mode = "PROTECTED" /\ Inside(g.slots[i], p) /\ FreeMode = "PROTECTED"
    BY <2>1, <2>2, <1>21, <1>25 DEF FreeMode
  <2>4. PICK n \in DOMAIN g.slots : b.slots[n].mode = "PROTECTED" /\ Inside(b.slots[n], p)
    BY <2>3, <1>18 DEF Freed
  <2> QED BY <2>4, <1>21 DEF Covered
<1>26. More(a, b)
  BY <1>19, <1>20, <1>21, <1>22, <1>23, <1>24, <1>25 DEF More
<1> QED BY <1>9, <1>26

(* What memalign_locked does: slot f is the buffer handed out.             *)
Got(a, b, f, size) ==
  /\ ArenaOk(b) /\ ListClosed(b) /\ a.mapped \subseteq b.mapped /\ b.unUsed >= 2
  /\ f \in DOMAIN b.slots /\ b.slots[f].mode = "ALLOCATED" /\ b.slots[f].us >= size
  /\ \A k \in DOMAIN a.slots : a.slots[k].mode = "ALLOCATED"
        => k # f /\ k \in DOMAIN b.slots /\ b.slots[k] = a.slots[k]
  /\ \A k \in DOMAIN b.slots : k # f /\ b.slots[k].mode = "ALLOCATED"
        => k \in DOMAIN a.slots /\ b.slots[k] = a.slots[k]
  /\ \A p \in 1..MaxPage : p \in b.access
        => p \in a.access \/ Inside(b.slots[f], p) \/ p \notin a.mapped
  /\ env.protect => \A p \in Nat : Covered(a, p) => Covered(b, p)

LEMMA GotFromGiven ==
  ASSUME NEW a, a \in ArenaType, NEW c, ArenaOk(c), a.mapped \subseteq c.mapped,
         \A k \in DOMAIN a.slots : a.slots[k].mode = "ALLOCATED" => k \in DOMAIN c.slots /\ c.slots[k] = a.slots[k],
         \A k \in DOMAIN c.slots : c.slots[k].mode = "ALLOCATED" => k \in DOMAIN a.slots /\ c.slots[k] = a.slots[k],
         \A p \in 1..MaxPage : p \in c.access => p \in a.access \/ p \in ListPages(c) \/ p \notin a.mapped,
         env.protect => \A p \in Nat : Covered(a, p) => Covered(c, p),
         c.unUsed >= 4,
         NEW b, NEW f, NEW us, Given(c, b, f, us, "ALLOCATED"), ArenaOk(b), ListClosed(b),
         NEW size \in Nat, us >= size
  PROVE  Got(a, b, f, size)
<1>1. b.unUsed >= 2 /\ a.mapped \subseteq b.mapped
  <2>1. b.unUsed \in Int /\ c.unUsed \in Int
    BY ArenaFields DEF ArenaOk
  <2>2. b.unUsed >= c.unUsed - 2 /\ c.mapped \subseteq b.mapped
    BY DEF Given
  <2> QED BY <2>1, <2>2
<1>2. f \in DOMAIN b.slots /\ b.slots[f].mode = "ALLOCATED" /\ b.slots[f].us >= size
  BY DEF Given
<1>3. ASSUME NEW k \in DOMAIN a.slots, a.slots[k].mode = "ALLOCATED"
      PROVE  k # f /\ k \in DOMAIN b.slots /\ b.slots[k] = a.slots[k]
  BY <1>3 DEF Given
<1>4. ASSUME NEW k \in DOMAIN b.slots, k # f, b.slots[k].mode = "ALLOCATED"
      PROVE  k \in DOMAIN a.slots /\ b.slots[k] = a.slots[k]
  <2>1. k \in DOMAIN c.slots /\ b.slots[k] = c.slots[k]
    BY <1>4 DEF Given
  <2> QED BY <1>4, <2>1
<1>5. ASSUME NEW p \in 1..MaxPage, p \in b.access
      PROVE  p \in a.access \/ Inside(b.slots[f], p) \/ p \notin a.mapped
  <2>1. p \notin ListPages(c)
    BY <1>5 DEF Given, ListClosed, ListPages
  <2>2. p \in c.access \/ Inside(b.slots[f], p) \/ p \notin c.mapped
    BY <1>5, <2>1 DEF Given
  <2> QED BY <2>1, <2>2
<1>6. ASSUME env.protect, NEW p \in Nat, Covered(a, p)
      PROVE  Covered(b, p)
  <2>1. PICK i \in DOMAIN c.slots : c.slots[i].mode = "PROTECTED" /\ Inside(c.slots[i], p)
    BY <1>6 DEF Covered
  <2>2. i \in DOMAIN b.slots /\ b.slots[i] = c.slots[i]
    BY <2>1 DEF Given
  <2> QED BY <2>1, <2>2 DEF Covered
<1> QED BY <1>1, <1>2, <1>3, <1>4, <1>5, <1>6 DEF Got

(* memalign_locked: with two slots to spare there are slots enough to grow *)
(* the list, and after growing it two are to spare again.                  *)
LEMMA MemalignKeeps ==
  ASSUME NEW a, ArenaOk(a), EnvOk, a.unUsed >= 2, NEW alignment \in Nat, NEW size \in Nat,
         env.below => size > 0, NEW where \in [list : Nat \ {0}, buffer : Nat \ {0}],
         NEW r, r = memalign_locked(a, alignment, size, where)
  PROVE  Got(a, r[1], r[2], size)
<1> DEFINE us == UserSize(alignment, size)
           c == IF LowOnSlots(a) THEN allocateMoreSlots(a, where.list) ELSE a
<1>1. a \in ArenaType /\ a.unUsed \in Int /\ where.list \in Nat \ {0} /\ where.buffer \in Nat \ {0}
  BY ArenaFields DEF ArenaOk
<1>2. us \in Nat /\ us >= size
  <2>1. us \in Nat /\ size <= us
    BY GivenSizes DEF UserSize
  <2> QED BY <2>1
<1>3. /\ ArenaOk(c) /\ a.mapped \subseteq c.mapped /\ c.unUsed >= 4
      /\ \A k \in DOMAIN a.slots : a.slots[k].mode = "ALLOCATED" => k \in DOMAIN c.slots /\ c.slots[k] = a.slots[k]
      /\ \A k \in DOMAIN c.slots : c.slots[k].mode = "ALLOCATED" => k \in DOMAIN a.slots /\ c.slots[k] = a.slots[k]
      /\ \A p \in 1..MaxPage : p \in c.access => p \in a.access \/ p \in ListPages(c) \/ p \notin a.mapped
      /\ env.protect => \A p \in Nat : Covered(a, p) => Covered(c, p)
  <2>1. CASE LowOnSlots(a)
    <3>1. More(a, c)
      BY <2>1, <1>1, MoreSlots
    <3> HIDE DEF c
    <3>2. c.unUsed >= 4
      <4>1. c.unUsed \in Int /\ SlotsPerPage \in Nat /\ SlotsPerPage >= 4
        BY <3>1, ArenaFields, EfenceAssumption DEF More, ArenaOk
      <4>2. c.unUsed >= a.unUsed - 2 + SlotsPerPage
        BY <3>1 DEF More
      <4> QED BY <4>1, <4>2, <1>1
    <3> QED BY <3>1, <3>2 DEF More
  <2>2. CASE ~LowOnSlots(a)
    <3>1. c = a /\ a.unUsed >= 4
      BY <2>2, <1>1 DEF LowOnSlots
    <3> QED BY <3>1, <1>1
  <2> QED BY <2>1, <2>2
<1>4. r = Allocate(c, alignment, size, FALSE, where.buffer)
  <2>1. ~c.error
    BY <1>3 DEF ArenaOk
  <2> QED BY <2>1, Zenon DEF memalign_locked
<1> HIDE DEF c
<1>5. c.unUsed >= 2
  <2>1. c.unUsed \in Int
    BY <1>3, ArenaFields DEF ArenaOk
  <2> QED BY <2>1, <1>3
<1>6. Given(c, r[1], r[2], us, ModeFor(FALSE)) /\ ArenaOk(r[1]) /\ ListClosed(r[1])
  <2>0. ArenaOk(c)
    BY <1>3
  <2>1. PICK w \in Nat \ {0} : w = where.buffer
    BY <1>1
  <2>2. r = Allocate(c, alignment, size, FALSE, w)
    BY <1>4, <2>1
  <2>3. /\ Given(c, r[1], r[2], UserSize(alignment, size), ModeFor(FALSE)) /\ ArenaOk(r[1])
        /\ ~FALSE => ListClosed(r[1])
    BY ONLY <2>0, <1>5, <2>2, AllocateKeeps, EnvOk, alignment \in Nat, size \in Nat, w \in Nat \ {0},
            env.below => size > 0, FALSE \in BOOLEAN, Zenon
  <2> QED BY <2>3
<1>7. Given(c, r[1], r[2], us, "ALLOCATED")
  BY <1>6 DEF ModeFor
<1> HIDE DEF us
<1> QED BY <1>1, <1>2, <1>3, <1>6, <1>7, GotFromGiven

(* What free does with the buffer in slot i.                               *)
Gone(a, b, i) ==
  /\ ArenaOk(b) /\ ListClosed(b) /\ b.mapped = a.mapped /\ b.top = a.top /\ b.unUsed >= a.unUsed
  /\ DOMAIN b.slots = DOMAIN a.slots
  /\ \A k \in DOMAIN a.slots : k # i /\ a.slots[k].mode = "ALLOCATED" => b.slots[k] = a.slots[k]
  /\ \A k \in DOMAIN a.slots : b.slots[k].mode = "ALLOCATED" => k # i /\ b.slots[k] = a.slots[k]
  /\ \A p \in 1..MaxPage : p \in b.access => p \in a.access /\ ~Inside(a.slots[i], p)
  /\ env.protect => \A p \in Nat : Covered(a, p) \/ Inside(a.slots[i], p) => Covered(b, p)

(* free: the slot is found by its address, released, joined and closed.    *)
LEMMA FreeKept ==
  ASSUME NEW a, ArenaOk(a), EnvOk, NEW i \in DOMAIN a.slots, a.slots[i].mode = "ALLOCATED",
         NEW c, c = free_locked(a, a.slots[i].ua, FALSE),
         NEW b, b = Page_DenyAccess(c, c.list, c.listPages * PageBytes)
  PROVE  Gone(a, b, i) /\ c.list = a.list /\ c.listPages = a.listPages
<1>1. a \in ArenaType /\ Tiled(a) /\ SlotSeq(a.slots) /\ a.unUsed \in Int
  BY ArenaFields DEF ArenaOk
<1>2. a.slots[i].ua # 0
  BY AllocatedAddress DEF EnvOk
<1>3. FreeMode \in {"FREE", "PROTECTED"} /\ Used(a.slots[i])
  BY DEF FreeMode, Used
<1>4. c = FreeSlot(a, i, FreeMode)
  BY <1>1, <1>2, FreeLocked
<1>5. Freed(a, c, i, FreeMode) /\ Tiled(c)
  BY <1>1, <1>3, <1>4, FreeSlotKeeps
<1>6. PICK l \in DOMAIN a.slots : HoldsList(a, l)
  BY DEF ArenaOk, Listed
<1>7. l # i
  BY <1>6 DEF HoldsList
<1>8. ArenaOk(c)
  BY <1>3, <1>5, <1>6, <1>7, FreedArena
<1>9. /\ ArenaOk(b) /\ ListClosed(b)
      /\ SameRest(c, b) /\ b.slots = c.slots /\ b.unUsed = c.unUsed /\ b.access \subseteq c.access
  BY <1>8, DenyKeeps
<1>10. ASSUME NEW k \in DOMAIN a.slots, k # i, a.slots[k].mode = "ALLOCATED"
       PROVE  b.slots[k] = a.slots[k]
  <2>1. Used(a.slots[k]) /\ a.slots[k].mode # FreeMode
    BY <1>3, <1>10 DEF Used
  <2> QED BY <2>1, <1>5, <1>9, <1>10 DEF Freed
<1>11. ASSUME NEW k \in DOMAIN a.slots, b.slots[k].mode = "ALLOCATED"
       PROVE  k # i /\ b.slots[k] = a.slots[k]
  <2>1. Used(c.slots[k]) /\ c.slots[k].mode # FreeMode
    BY <1>3, <1>9, <1>11 DEF Used
  <2> QED BY <2>1, <1>5, <1>9 DEF Freed
<1>12. ASSUME NEW p \in 1..MaxPage, p \in b.access
       PROVE  p \in a.access /\ ~Inside(a.slots[i], p)
  <2>1. p \in a.access /\ p \notin PagesOf(a.slots[i].ia, a.slots[i].is)
    BY <1>5, <1>9, <1>12 DEF Freed
  <2> QED BY <2>1, InsidePages
<1>13. ASSUME env.protect, NEW p \in Nat, Covered(a, p) \/ Inside(a.slots[i], p)
       PROVE  Covered(b, p)
  <2>1. FreeMode = "PROTECTED"
    BY <1>13 DEF FreeMode
  <2>2. PICK k \in DOMAIN a.slots : (k = i \/ a.slots[k].mode = FreeMode) /\ Inside(a.slots[k], p)
    BY <1>13, <2>1 DEF Covered
  <2>3. PICK n \in DOMAIN a.slots : c.slots[n].mode = FreeMode /\ Inside(c.slots[n], p)
    BY <2>2, <1>5 DEF Freed
  <2>4. n \in DOMAIN b.slots
    BY <1>5, <1>9 DEF Freed
  <2> QED BY <2>1, <2>3, <2>4, <1>9 DEF Covered
<1>14. /\ b.mapped = a.mapped /\ b.top = a.top /\ b.unUsed >= a.unUsed /\ DOMAIN b.slots = DOMAIN a.slots
       /\ c.list = a.list /\ c.listPages = a.listPages
  BY <1>5, <1>9 DEF Freed, SameRest
<1> QED BY <1>9, <1>10, <1>11, <1>12, <1>13, <1>14 DEF Gone

(* No two buffers in use have the same address.                            *)
LEMMA AddressIsUnique ==
  ASSUME NEW a, ArenaOk(a), EnvOk, NEW i \in DOMAIN a.slots, NEW j \in DOMAIN a.slots,
         a.slots[i].mode = "ALLOCATED", a.slots[j].mode = "ALLOCATED", a.slots[i].ua = a.slots[j].ua
  PROVE  i = j
<1>1. a.slots[i].ua # 0 /\ a.slots[j].ua # 0
  BY AllocatedAddress DEF EnvOk
<1>2. a \in ArenaType /\ Tiled(a)
  BY DEF ArenaOk
<1>3. slotForUserAddress(a, a.slots[i].ua) = i
  BY <1>1, <1>2, UserSlot
<1>4. slotForUserAddress(a, a.slots[j].ua) = j
  BY <1>1, <1>2, UserSlot
<1> QED BY <1>3, <1>4

(* What memalign hands out was not in use.                                 *)
LEMMA GotGranted ==
  ASSUME NEW a, NEW b, EnvOk, NEW f, NEW size, Got(a, b, f, size), NEW g, GrantedOk(a, g),
         NEW h, DOMAIN h = DOMAIN g \union {b.slots[f].ua}, h[b.slots[f].ua] = size,
         \A x \in DOMAIN g : x # b.slots[f].ua => h[x] = g[x]
  PROVE  GrantedOk(b, h) /\ b.slots[f].ua \notin DOMAIN g
<1>1. ArenaOk(b) /\ f \in DOMAIN b.slots /\ b.slots[f].mode = "ALLOCATED" /\ b.slots[f].us >= size
  BY DEF Got
<1>2. \A k \in DOMAIN a.slots : a.slots[k].mode = "ALLOCATED"
        => k # f /\ k \in DOMAIN b.slots /\ b.slots[k] = a.slots[k]
  BY DEF Got
<1>3. ASSUME NEW x \in DOMAIN g
      PROVE  x # b.slots[f].ua /\ \E i \in DOMAIN b.slots : b.slots[i].mode = "ALLOCATED" /\ b.slots[i].ua = x
  <2>1. PICK i \in DOMAIN a.slots : a.slots[i].mode = "ALLOCATED" /\ a.slots[i].ua = x
    BY DEF GrantedOk
  <2>2. i # f /\ i \in DOMAIN b.slots /\ b.slots[i].mode = "ALLOCATED" /\ b.slots[i].ua = x
    BY <2>1, <1>2
  <2>3. x # b.slots[f].ua
    BY <2>2, <1>1, AddressIsUnique
  <2> QED BY <2>2, <2>3
<1>4. ASSUME NEW x \in DOMAIN h
      PROVE  \E i \in DOMAIN b.slots : b.slots[i].mode = "ALLOCATED" /\ b.slots[i].ua = x
  BY <1>1, <1>3
<1>5. ASSUME NEW i \in DOMAIN b.slots, b.slots[i].mode = "ALLOCATED"
      PROVE  b.slots[i].ua \in DOMAIN h /\ b.slots[i].us >= h[b.slots[i].ua]
  <2>1. CASE i = f
    BY <2>1, <1>1
  <2>2. CASE i # f
    <3>1. i \in DOMAIN a.slots /\ b.slots[i] = a.slots[i]
      BY <1>5, <2>2 DEF Got
    <3>2. b.slots[i].ua \in DOMAIN g /\ b.slots[i].us >= g[b.slots[i].ua]
      BY <3>1, <1>5 DEF GrantedOk
    <3> QED BY <3>2, <1>3
  <2> QED BY <2>1, <2>2
<1> QED BY <1>3, <1>4, <1>5 DEF GrantedOk

(* Memory that was given back is closed after an allocation too, unless it *)
(* is the memory handed out.                                               *)
LEMMA GotDead ==
  ASSUME NEW a, NEW b, NEW f, NEW size, a \in ArenaType, Got(a, b, f, size), NEW d, DeadOk(a, d)
  PROVE  DeadOk(b, d \ PagesOf(b.slots[f].ia, b.slots[f].is))
<1> DEFINE e == d \ PagesOf(b.slots[f].ia, b.slots[f].is)
<1>1. a.mapped \subseteq b.mapped /\ MaxPage \in Nat
  BY EfenceAssumption DEF Got
<1>2. ASSUME NEW p \in e
      PROVE  /\ p \in 1..MaxPage /\ p \in b.mapped /\ p \notin b.access
             /\ env.protect => Covered(b, p)
  <2>1. p \in 1..MaxPage /\ p \in Nat /\ p \in a.mapped /\ p \notin a.access /\ (env.protect => Covered(a, p))
    BY <1>1, <1>2 DEF DeadOk, Covered
  <2>2. ~Inside(b.slots[f], p)
    BY <1>2, <2>1, InsidePages
  <2>4. p \notin b.access
    BY <2>1, <2>2 DEF Got
  <2>5. env.protect => Covered(b, p)
    BY <2>1 DEF Got
  <2> QED BY <2>1, <2>4, <2>5, <1>1
<1> HIDE DEF e
<1>3. DeadOk(b, e)
  BY <1>2 DEF DeadOk, Covered
<1> QED BY <1>3 DEF e

LEMMA GoneGranted ==
  ASSUME NEW a, ArenaOk(a), EnvOk, NEW b, NEW i \in DOMAIN a.slots, a.slots[i].mode = "ALLOCATED",
         Gone(a, b, i), NEW g, GrantedOk(a, g),
         NEW h, DOMAIN h = DOMAIN g \ {a.slots[i].ua}, \A x \in DOMAIN h : h[x] = g[x]
  PROVE  GrantedOk(b, h)
<1>1. ASSUME NEW x \in DOMAIN h
      PROVE  \E k \in DOMAIN b.slots : b.slots[k].mode = "ALLOCATED" /\ b.slots[k].ua = x
  <2>1. PICK k \in DOMAIN a.slots : a.slots[k].mode = "ALLOCATED" /\ a.slots[k].ua = x
    BY DEF GrantedOk
  <2>2. k # i
    BY <2>1
  <2> QED BY <2>1, <2>2 DEF Gone
<1>2. ASSUME NEW k \in DOMAIN b.slots, b.slots[k].mode = "ALLOCATED"
      PROVE  b.slots[k].ua \in DOMAIN h /\ b.slots[k].us >= h[b.slots[k].ua]
  <2>1. k \in DOMAIN a.slots /\ k # i /\ b.slots[k] = a.slots[k]
    BY <1>2 DEF Gone
  <2>2. b.slots[k].ua \in DOMAIN g /\ b.slots[k].us >= g[b.slots[k].ua]
    BY <2>1, <1>2 DEF GrantedOk
  <2>3. b.slots[k].ua # a.slots[i].ua
    BY <2>1, <1>2, AddressIsUnique
  <2> QED BY <2>2, <2>3
<1> QED BY <1>1, <1>2 DEF GrantedOk

LEMMA GoneDead ==
  ASSUME NEW a, ArenaOk(a), NEW b, NEW i \in DOMAIN a.slots, a.slots[i].mode = "ALLOCATED",
         Gone(a, b, i), NEW d, DeadOk(a, d)
  PROVE  DeadOk(b, d \union PagesOf(a.slots[i].ia, a.slots[i].is))
<1> DEFINE e == d \union PagesOf(a.slots[i].ia, a.slots[i].is)
<1>1. a \in ArenaType /\ b.mapped = a.mapped /\ MaxPage \in Nat
  BY ArenaFields, EfenceAssumption DEF Gone, ArenaOk
<1>2. ASSUME NEW p \in e
      PROVE  /\ p \in 1..MaxPage /\ p \in b.mapped /\ p \notin b.access
             /\ env.protect => Covered(b, p)
  <2>1. CASE p \in d
    <3>1. p \in 1..MaxPage /\ p \in Nat /\ p \in a.mapped /\ p \notin a.access /\ (env.protect => Covered(a, p))
      BY ONLY <2>1, <1>1, DeadOk(a, d) DEF DeadOk, Covered
    <3> QED BY <3>1, <1>1 DEF Gone
  <2>2. CASE p \in PagesOf(a.slots[i].ia, a.slots[i].is)
    <3>1. p \in 1..MaxPage /\ p \in Nat /\ Inside(a.slots[i], p)
      <4>1. p \in 1..MaxPage /\ Inside(a.slots[i], p)
        BY ONLY <2>2, InsidePages
      <4> QED BY ONLY <4>1, <1>1
    <3>3. p \in a.mapped
      <4>1. SlotsOk(a.slots, a.mapped) /\ Used(a.slots[i])
        BY DEF ArenaOk, Tiled, Used
      <4> QED BY <4>1, <3>1 DEF SlotsOk, SlotOk
    <3> QED BY <3>1, <3>3, <1>1 DEF Gone
  <2> QED BY <2>1, <2>2
<1> HIDE DEF e
<1>3. DeadOk(b, e)
  BY <1>2 DEF DeadOk, Covered
<1> QED BY <1>3 DEF e

(* The options never change.                                               *)
LEMMA EfInvPrimed ==
  ASSUME EnvOk, env' = env, EfState(arena', granted', dead'), ListClosed(arena')
  PROVE  EfInv'
<1>1. env' \in [below : BOOLEAN, protect : BOOLEAN, zero : BOOLEAN]
  BY DEF EnvOk
<1>2. ArenaOk(arena)'
  BY DEF EfState, ArenaOk, Fenced, Guarded, Live, Shaped
<1>3. DeadOk(arena, dead)'
  BY DEF EfState, DeadOk
<1> QED BY <1>1, <1>2, <1>3 DEF EfInv, EfState, ListClosed, GrantedOk

(* The three actions and the initial state.                                *)
LEMMA MemalignStep ==
  ASSUME EfInv, NEW alignment \in Nat, NEW size \in Nat, NEW where \in [list : Nat \ {0}, buffer : Nat \ {0}], memalign(alignment, size, where)
  PROVE  EfInv'
<1>1. /\ EnvOk /\ ArenaOk(arena) /\ arena \in ArenaType /\ arena.unUsed >= 2
      /\ GrantedOk(arena, granted) /\ DeadOk(arena, dead)
  BY DEF EfInv, EfState, EnvOk, ArenaOk
<1>2. PICK r : /\ r = memalign_locked(arena, alignment, size, where)
               /\ Grant(r, size) /\ dead' = dead \ GivenPages(r)
  BY DEF memalign
<1>3. env' = env /\ (env.below => size > 0)
  BY DEF memalign, MayAsk
<1>4. Got(arena, r[1], r[2], size)
  BY <1>1, <1>2, <1>3, MemalignKeeps
<1>5. arena' = r[1] /\ arena'.top <= MaxPage + 1
  BY <1>2 DEF Grant, WithinBound
<1>6. PICK f : f = r[2]
  OBVIOUS
<1>7. PICK x : x = arena'.slots[f].ua
  OBVIOUS
<1>8. Got(arena, arena', f, size)
  BY <1>4, <1>5, <1>6
<1>9. granted' = [y \in DOMAIN granted \union {x} |-> IF y = x THEN size ELSE granted[y]]
  BY <1>2, <1>5, <1>6, <1>7 DEF Grant
<1>10. /\ DOMAIN granted' = DOMAIN granted \union {x} /\ granted'[x] = size
       /\ \A y \in DOMAIN granted : y # x => granted'[y] = granted[y]
  BY <1>9
<1>11. GrantedOk(arena', granted')
  BY <1>1, <1>7, <1>8, <1>10, GotGranted
<1>12. DeadOk(arena', dead')
  BY <1>1, <1>2, <1>5, <1>6, <1>8, GotDead DEF GivenPages
<1>13. ListClosed(arena') /\ EfState(arena', granted', dead')
  BY <1>5, <1>8, <1>11, <1>12 DEF EfState, Got
<1> QED BY <1>1, <1>3, <1>13, EfInvPrimed

(* The pages of the one buffer that has an address.                        *)
LEMMA PagesOfBuffer ==
  ASSUME EnvOk, ArenaOk(arena), NEW i \in DOMAIN arena.slots, arena.slots[i].mode = "ALLOCATED"
  PROVE  BufferPages(arena.slots[i].ua) = PagesOf(arena.slots[i].ia, arena.slots[i].is)
<1>1. \A j \in DOMAIN arena.slots : arena.slots[j].mode = "ALLOCATED" /\ arena.slots[j].ua = arena.slots[i].ua => j = i
  BY AddressIsUnique
<1>2. {j \in SlotsIn(arena, "ALLOCATED") : arena.slots[j].ua = arena.slots[i].ua} = {i}
  BY <1>1 DEF SlotsIn
<1> QED BY <1>2 DEF BufferPages

LEMMA FreeStep ==
  ASSUME EfInv, NEW address \in DOMAIN granted, free(address)
  PROVE  EfInv'
<1>1. EnvOk /\ ArenaOk(arena) /\ arena \in ArenaType /\ arena.unUsed >= 2 /\ arena.top <= MaxPage + 1
      /\ GrantedOk(arena, granted) /\ DeadOk(arena, dead)
  BY DEF EfInv, EfState, EnvOk, ArenaOk
<1>2. PICK i \in DOMAIN arena.slots : arena.slots[i].mode = "ALLOCATED" /\ arena.slots[i].ua = address
  BY <1>1 DEF GrantedOk
<1>3. PICK c : c = free_locked(arena, address, FALSE)
  OBVIOUS
<1>4. PICK b : b = Page_DenyAccess(c, c.list, c.listPages * PageBytes)
  OBVIOUS
<1>5. Gone(arena, b, i) /\ c.list = arena.list /\ c.listPages = arena.listPages
  BY <1>1, <1>2, <1>3, <1>4, FreeKept
<1>6. env' = env /\ arena' = b
  BY <1>3, <1>4, <1>5 DEF free
<1>7. DOMAIN granted' = DOMAIN granted \ {address} /\ \A x \in DOMAIN granted' : granted'[x] = granted[x]
  BY DEF free
<1>8. dead' = dead \union PagesOf(arena.slots[i].ia, arena.slots[i].is)
  BY <1>1, <1>2, PagesOfBuffer DEF free
<1>9. GrantedOk(b, granted')
  BY <1>1, <1>2, <1>5, <1>7, GoneGranted
<1>10. DeadOk(b, dead')
  BY <1>1, <1>2, <1>5, <1>8, GoneDead
<1>11. ArenaOk(b) /\ ListClosed(b) /\ b.top <= MaxPage + 1 /\ b.unUsed >= 2
  <2>1. ArenaOk(b) /\ ListClosed(b) /\ b.top = arena.top /\ b.unUsed >= arena.unUsed
    BY <1>5 DEF Gone
  <2>2. b.unUsed \in Int /\ arena.unUsed \in Int
    BY <1>1, <2>1, ArenaFields DEF ArenaOk
  <2> QED BY <1>1, <2>1, <2>2
<1>12. ListClosed(arena') /\ EfState(arena', granted', dead')
  BY <1>6, <1>9, <1>10, <1>11 DEF EfState
<1> QED BY <1>1, <1>6, <1>12, EfInvPrimed

LEMMA ReallocStep ==
  ASSUME EfInv, NEW address \in DOMAIN granted, NEW size \in Nat, NEW where \in [list : Nat \ {0}, buffer : Nat \ {0}], realloc(address, size, where)
  PROVE  EfInv'
<1>1. /\ EnvOk /\ ArenaOk(arena) /\ arena \in ArenaType /\ arena.unUsed >= 2
      /\ GrantedOk(arena, granted) /\ DeadOk(arena, dead)
  BY DEF EfInv, EfState, EnvOk, ArenaOk
<1>2. PICK r : /\ r = memalign_locked(arena, EF_ALIGNMENT, size, where)
               /\ WithinBound(r[1])
               /\ arena' = Page_DenyAccess(free_locked(r[1], address, FALSE), free_locked(r[1], address, FALSE).list,
                                           free_locked(r[1], address, FALSE).listPages * PageBytes)
               /\ granted' = [x \in (DOMAIN granted \ {address}) \union {r[1].slots[r[2]].ua} |->
                                IF x = r[1].slots[r[2]].ua THEN size ELSE granted[x]]
               /\ dead' = (dead \ GivenPages(r)) \union BufferPages(address)
  BY DEF realloc
<1>3. env' = env /\ (env.below => size > 0) /\ EF_ALIGNMENT \in Nat
  BY EfenceAssumption DEF realloc, MayAsk
<1>4. PICK a, f : a = r[1] /\ f = r[2]
  OBVIOUS
<1>5. Got(arena, a, f, size)
  BY <1>1, <1>2, <1>3, <1>4, MemalignKeeps
<1>6. PICK x : x = a.slots[f].ua
  OBVIOUS
<1>7. PICK g : g = [y \in DOMAIN granted \union {x} |-> IF y = x THEN size ELSE granted[y]]
  OBVIOUS
<1>8. DOMAIN g = DOMAIN granted \union {x} /\ g[x] = size /\ \A y \in DOMAIN granted : y # x => g[y] = granted[y]
  BY <1>7
<1>9. GrantedOk(a, g) /\ x \notin DOMAIN granted
  BY <1>1, <1>5, <1>6, <1>8, GotGranted
<1>10. PICK d : d = dead \ GivenPages(r)
  OBVIOUS
<1>11. DeadOk(a, d)
  BY <1>1, <1>4, <1>5, <1>10, GotDead DEF GivenPages
<1>12. PICK i \in DOMAIN arena.slots : arena.slots[i].mode = "ALLOCATED" /\ arena.slots[i].ua = address
  BY <1>1 DEF GrantedOk
<1>13. i \in DOMAIN a.slots /\ a.slots[i] = arena.slots[i] /\ ArenaOk(a)
  BY <1>5, <1>12 DEF Got
<1>14. PICK c : c = free_locked(a, address, FALSE)
  OBVIOUS
<1>15. PICK b : b = Page_DenyAccess(c, c.list, c.listPages * PageBytes)
  OBVIOUS
<1>16. Gone(a, b, i)
  BY <1>1, <1>12, <1>13, <1>14, <1>15, FreeKept
<1>17. arena' = b
  BY <1>2, <1>4, <1>14, <1>15
<1>18. DOMAIN granted' = DOMAIN g \ {address} /\ \A y \in DOMAIN granted' : granted'[y] = g[y]
  <2>1. granted' = [y \in (DOMAIN granted \ {address}) \union {x} |-> IF y = x THEN size ELSE granted[y]]
    BY <1>2, <1>4, <1>6
  <2>2. x # address
    BY <1>9
  <2> QED BY <2>1, <2>2, <1>7
<1>19. GrantedOk(b, granted')
  BY <1>1, <1>9, <1>12, <1>13, <1>16, <1>18, GoneGranted
<1>20. dead' = d \union PagesOf(a.slots[i].ia, a.slots[i].is)
  BY <1>1, <1>2, <1>10, <1>12, <1>13, PagesOfBuffer
<1>21. DeadOk(b, dead')
  BY <1>11, <1>12, <1>13, <1>16, <1>20, GoneDead
<1>22. ArenaOk(b) /\ ListClosed(b) /\ b.top <= MaxPage + 1 /\ b.unUsed >= 2
  <2>1. ArenaOk(b) /\ ListClosed(b) /\ b.top = a.top /\ b.unUsed >= a.unUsed
    BY <1>16 DEF Gone
  <2>2. b.unUsed \in Int /\ a.unUsed \in Int /\ a.unUsed >= 2
    BY <1>5, <1>13, <2>1, ArenaFields DEF ArenaOk, Got
  <2> QED BY <1>2, <1>4, <2>1, <2>2 DEF WithinBound
<1>23. ListClosed(arena') /\ EfState(arena', granted', dead')
  BY <1>17, <1>19, <1>21, <1>22 DEF EfState
<1> QED BY <1>1, <1>3, <1>23, EfInvPrimed

LEMMA EfInvInit == EfenceInit => EfInv
<1> SUFFICES ASSUME EfenceInit PROVE EfInv
  OBVIOUS
<1> DEFINE s1 == [mode |-> "INTERNAL_USE", ua |-> FirstPage * PageBytes,
                  ia |-> FirstPage * PageBytes, us |-> PageBytes, is |-> PageBytes]
           s2 == [mode |-> "FREE", ua |-> (FirstPage+1) * PageBytes, ia |-> (FirstPage+1) * PageBytes,
                  us |-> (ChunkPages-1) * PageBytes, is |-> (ChunkPages-1) * PageBytes]
           t == <<s1, s2>>
           m == SlotsPerPage - 2
           u == t \o [i \in 1..m |-> NoSlotUsed]
<1>1. /\ PageBytes \in Nat /\ PageBytes > 0 /\ ChunkPages \in Nat /\ ChunkPages > 1
      /\ SlotsPerPage \in Nat /\ SlotsPerPage >= 4 /\ MaxPage \in Nat
      /\ FirstPage \in Nat /\ FirstPage > 0 /\ MaxPage >= FirstPage + ChunkPages - 1
  BY EfenceAssumption
<1>2. PICK w \in Nat : w = ChunkPages - 1 /\ w > 0
  BY <1>1
<1>3. PICK x \in Nat, y \in Nat, z \in Nat, v \in Nat :
        /\ x = FirstPage * PageBytes /\ y = (FirstPage+1) * PageBytes /\ z = (ChunkPages-1) * PageBytes
        /\ v = FirstPage + ChunkPages /\ x = Start(FirstPage) /\ y = Start(FirstPage+1) /\ z = Start(w)
        /\ x > 0 /\ y = x + PageBytes /\ z >= PageBytes /\ Start(v) = y + z
  <2>1. /\ Start(FirstPage) = FirstPage * PageBytes /\ Start(FirstPage+1) = (FirstPage+1) * PageBytes
        /\ Start(w) = (ChunkPages-1) * PageBytes /\ Start(1) = PageBytes
    BY <1>1, <1>2 DEF Start
  <2>2. PICK h \in Nat : h = FirstPage + 1
    BY <1>1
  <2>3. /\ Start(FirstPage) \in Nat /\ Start(FirstPage) >= PageBytes /\ Start(w) \in Nat /\ Start(w) >= PageBytes
        /\ Start(h) \in Nat /\ Start(FirstPage + 1) = Start(FirstPage) + Start(1)
        /\ Start(h + w) = Start(h) + Start(w)
    BY <1>1, <1>2, StartMono
  <2>4. h + w = FirstPage + ChunkPages /\ FirstPage + ChunkPages \in Nat
    BY <2>2, <1>1, <1>2
  <2> QED BY <2>1, <2>2, <2>3, <2>4, <1>1
<1>4. /\ s1 \in SlotType /\ s2 \in SlotType
      /\ s1.mode = "INTERNAL_USE" /\ s1.ua = x /\ s1.ia = x /\ s1.is = PageBytes
      /\ s2.mode = "FREE" /\ s2.ua = y /\ s2.ia = y /\ s2.is = z
  BY <1>1, <1>3 DEF SlotType, Modes
<1> HIDE DEF s1, s2
<1>5. /\ SlotSeq(t) /\ DOMAIN t = {1, 2} /\ t[1] = s1 /\ t[2] = s2
  BY <1>4 DEF SlotSeq
<1>6. m \in Nat
  BY <1>1
<1> HIDE DEF t
<1>7. SlotSeq(u) /\ Lengthened(t, u, m)
  BY <1>5, <1>6, LongerSlots
<1>8. /\ arena = [slots |-> u, list |-> x, listPages |-> 1, unUsed |-> m, access |-> {FirstPage},
                  mapped |-> FirstPage .. FirstPage + ChunkPages - 1, top |-> v, seams |-> {}, error |-> FALSE]
      /\ granted = << >> /\ dead = {} /\ EnvOk
  BY <1>3 DEF EfenceInit, EnvOk, t, s1, s2
<1> HIDE DEF u
<1>9. /\ arena \in ArenaType /\ arena.slots = u /\ arena.list = x /\ arena.listPages = 1
      /\ arena.unUsed = m /\ arena.top = v /\ arena.seams = {} /\ ~arena.error
      /\ arena.mapped = FirstPage .. FirstPage + ChunkPages - 1
  <2> DEFINE R == FirstPage .. FirstPage + ChunkPages - 1
  <2>1. u \in Seq(SlotType) /\ {FirstPage} \in SUBSET (1..MaxPage) /\ R \in SUBSET Nat
    BY <1>1, <1>7 DEF SlotSeq
  <2>2. arena = [slots |-> u, list |-> x, listPages |-> 1, unUsed |-> m, access |-> {FirstPage},
                 mapped |-> R, top |-> v, seams |-> {}, error |-> FALSE]
    BY <1>8
  <2> HIDE DEF R
  <2>3. /\ arena \in ArenaType /\ arena.slots = u /\ arena.list = x /\ arena.listPages = 1
        /\ arena.unUsed = m /\ arena.top = v /\ arena.seams = {} /\ ~arena.error /\ arena.mapped = R
    BY <2>1, <2>2, <1>6 DEF ArenaType
  <2> QED BY <2>3 DEF R
<1>a. Below(arena)
  <2>1. v > 0 /\ \A p \in FirstPage .. FirstPage + ChunkPages - 1 : p < v
    BY ONLY <1>1, <1>3
  <2> QED BY ONLY <2>1, <1>9 DEF Below
<1>b. ASSUME NEW p \in Nat, x <= Start(p), Start(p) < y + z PROVE p \in arena.mapped
  <2>1. Start(p) \in Nat /\ (p < FirstPage => Start(p) + PageBytes <= Start(FirstPage)) /\ (v <= p => Start(v) <= Start(p))
    BY <1>1, StartMono
  <2>2. FirstPage <= p /\ p < v
    BY <2>1, <1>b, <1>1, <1>3
  <2> QED BY <2>2, <1>1, <1>3, <1>9
<1>10. /\ 1 \in DOMAIN u /\ 2 \in DOMAIN u /\ u[1] = s1 /\ u[2] = s2
       /\ \A i \in DOMAIN u : i = 1 \/ i = 2 \/ u[i] = NoSlotUsed
  BY <1>5, <1>7 DEF Lengthened
<1>11. NoSlotUsed.mode = "NOT_IN_USE" /\ ~Used(NoSlotUsed)
  BY NoSlotIsSlot DEF NoSlotUsed
<1>12. SlotsOk(u, arena.mapped)
  <2>1. Aligned(x) /\ Aligned(y) /\ Aligned(z) /\ Aligned(PageBytes)
    BY <1>1, <1>2, <1>3, AlignedPage
  <2>2. ASSUME NEW p \in Nat, Inside(s1, p) \/ Inside(s2, p) PROVE p \in arena.mapped
    <3>1. Start(p) \in Nat
      BY ONLY p \in Nat, StartMono
    <3>2. x <= Start(p) /\ Start(p) < y + z
      BY ONLY <3>1, <2>2, <1>1, <1>3, <1>4, x \in Nat, y \in Nat, z \in Nat DEF Inside
    <3> QED BY <3>2, <1>b
  <2>3. SlotOk(s1, arena.mapped)
    BY ONLY <2>1, <2>2, <1>1, <1>3, <1>4, x \in Nat, y \in Nat, z \in Nat DEF SlotOk, Used
  <2>4. SlotOk(s2, arena.mapped)
    BY ONLY <2>1, <2>2, <1>1, <1>3, <1>4, x \in Nat, y \in Nat, z \in Nat DEF SlotOk, Used
  <2>5. SlotOk(NoSlotUsed, arena.mapped)
    BY <1>11 DEF SlotOk
  <2> QED BY <2>3, <2>4, <2>5, <1>10 DEF SlotsOk
<1>13. AllApart(u)
  <2>1. Apart(s1, s2) /\ Apart(s2, s1)
    BY <1>1, <1>3, <1>4 DEF Apart
  <2> QED BY <2>1, <1>10, <1>11 DEF AllApart
<1>14. NoneMerge(u, arena.seams)
  <2>1. ~Merges(s2, s2, arena.seams)
    BY <1>1, <1>3, <1>4 DEF Merges
  <2> QED BY <2>1, <1>4, <1>10, <1>11 DEF NoneMerge, Merges
<1>15. Cardinality(Empties(u)) = m
  <2>1. Empties(t) = {}
    BY <1>4, <1>5 DEF Empties
  <2>2. Cardinality(Empties(t)) = 0
    BY <2>1, FS_EmptySet
  <2> QED BY <2>2, <1>6, <1>7 DEF Lengthened
<1>16. Fenced(arena)
  BY <1>4, <1>9, <1>10, <1>11 DEF Fenced
<1>c. Start(1) = PageBytes
  BY <1>1 DEF Start
<1>17. HoldsList(arena, 1)
  BY ONLY <1>1, <1>c, <1>4, <1>9, <1>10, x \in Nat DEF HoldsList
<1>18. ArenaOk(arena)
  BY <1>a, <1>9, <1>10, <1>12, <1>13, <1>14, <1>15, <1>16, <1>17 DEF ArenaOk, Tiled, Listed
<1>19. GrantedOk(arena, granted)
  BY <1>4, <1>8, <1>9, <1>10, <1>11 DEF GrantedOk
<1>20. DeadOk(arena, dead)
  BY <1>8 DEF DeadOk
<1>21. arena.unUsed >= 2 /\ arena.top <= MaxPage + 1
  BY <1>1, <1>3, <1>9
<1> QED BY <1>8, <1>18, <1>19, <1>20, <1>21 DEF EfInv, EfState, EnvOk

LEMMA EfInvNext == EfInv /\ [EfenceNext]_efenceVars => EfInv'
<1> SUFFICES ASSUME EfInv, [EfenceNext]_efenceVars PROVE EfInv'
  OBVIOUS
<1>0. AskSizes \subseteq Nat /\ Alignments \subseteq Nat /\ ChunkPlaces \subseteq Nat \ {0}
  BY EfenceAssumption
<1>1. ASSUME NEW size \in AskSizes, NEW where \in [list : ChunkPlaces, buffer : ChunkPlaces],
             NEW alignment \in Alignments, memalign(alignment, size, where)
      PROVE  EfInv'
  <2>1. size \in Nat /\ where \in [list : Nat \ {0}, buffer : Nat \ {0}] /\ alignment \in Nat
    BY <1>0, <1>1
  <2> QED BY <2>1, <1>1, MemalignStep
<1>2. ASSUME NEW size \in AskSizes, NEW where \in [list : ChunkPlaces, buffer : ChunkPlaces],
             NEW address \in DOMAIN granted, realloc(address, size, where)
      PROVE  EfInv'
  <2>1. size \in Nat /\ where \in [list : Nat \ {0}, buffer : Nat \ {0}]
    BY <1>0, <1>2
  <2> QED BY <2>1, <1>2, ReallocStep
<1>3. ASSUME NEW address \in DOMAIN granted, free(address)
      PROVE  EfInv'
  BY <1>3, FreeStep
<1>4. CASE UNCHANGED efenceVars
  BY <1>4 DEF efenceVars, EfInv, EfState, ArenaOk, Tiled, Fenced, Guarded, Live, Shaped, Listed, HoldsList,
              GrantedOk, DeadOk, ListClosed, Below
<1> QED BY <1>1, <1>2, <1>3, <1>4 DEF EfenceNext

(* The page a byte is on.                                                  *)
LEMMA PageOfByte ==
  ASSUME NEW y \in Nat, NEW p, p = y \div PageBytes
  PROVE  /\ p \in Nat /\ Start(p) <= y
         /\ \A k \in Nat : (Start(k) <= y => k <= p) /\ (y < Start(k) => p < k)
<1>1. PageBytes \in Nat \ {0}
  BY EfenceAssumption
<1>2. p \in Nat /\ Start(p) <= y /\ y < Start(p) + PageBytes
  BY <1>1 DEF Start
<1>3. Start(p) \in Nat
  BY <1>2, StartMono
<1>4. ASSUME NEW k \in Nat PROVE (Start(k) <= y => k <= p) /\ (y < Start(k) => p < k)
  <2>1. Start(k) \in Nat
    BY StartMono
  <2>2. p < k => Start(p) + PageBytes <= Start(k)
    BY <1>2, StartMono
  <2>3. k <= p => Start(k) <= Start(p)
    BY <1>2, StartMono
  <2> QED BY <1>1, <1>2, <1>3, <2>1, <2>2, <2>3
<1> QED BY <1>2, <1>4

(* What the invariant says of the properties.                              *)
LEMMA InvSlotsRight == EfInv => SlotsRight
<1> SUFFICES ASSUME EfInv PROVE SlotsRight
  OBVIOUS
<1>1. arena \in ArenaType /\ ~arena.error /\ Tiled(arena) /\ SlotSeq(arena.slots) /\ MaxPage \in Nat
  BY ArenaFields, EfenceAssumption DEF EfInv, EfState, ArenaOk
<1>2. \A i \in InUse : i \in DOMAIN arena.slots /\ Used(arena.slots[i])
  BY DEF InUse, SlotsIn, Used
<1>3. ASSUME NEW i \in InUse, NEW j \in InUse, i # j
      PROVE  SlotPages(i) \intersect SlotPages(j) = {}
  <2>1. ASSUME NEW p, p \in SlotPages(i), p \in SlotPages(j) PROVE FALSE
    <3>1. p \in 1..MaxPage /\ Inside(arena.slots[i], p) /\ Inside(arena.slots[j], p)
      BY <2>1, InsidePages DEF SlotPages
    <3>2. p \in Nat
      BY <3>1, <1>1
    <3>3. AllApart(arena.slots)
      BY <1>1 DEF Tiled
    <3> QED BY <3>1, <3>2, <3>3, <1>1, <1>2, <1>3, NotInsideOther
  <2> QED BY <2>1
<1>4. arena.unUsed = Cardinality(SlotsIn(arena, "NOT_IN_USE"))
  BY <1>1 DEF Tiled, Empties, SlotsIn
<1>5. FreeIsJoined
  <2>1. \A i, j \in DOMAIN arena.slots : ~Merges(arena.slots[i], arena.slots[j], arena.seams)
    BY <1>1 DEF Tiled, NoneMerge
  <2> QED BY <2>1, <1>2 DEF FreeIsJoined, Merges
<1> QED BY <1>1, <1>3, <1>4, <1>5 DEF SlotsRight, NeverAborted, SlotsTile

LEMMA InvOverrunTraps == EfInv => OverrunTraps
<1> SUFFICES ASSUME EfInv, NEW i \in SlotsIn(arena, "ALLOCATED"), NEW s, s = arena.slots[i],
                    NEW edge, edge = (IF env.below THEN s.ua - 1 ELSE s.ua + s.us)
             PROVE  /\ \A b \in s.ua .. s.ua + s.us - 1 : b \div PageBytes \in arena.access
                    /\ edge \div PageBytes \notin arena.access
                    /\ s.ua \in DOMAIN granted /\ s.us >= granted[s.ua]
  BY Zenon DEF OverrunTraps
<1>1. /\ arena \in ArenaType /\ SlotSeq(arena.slots) /\ i \in DOMAIN arena.slots /\ s.mode = "ALLOCATED" /\ EnvOk
      /\ PageBytes \in Nat /\ PageBytes > 0 /\ MaxPage \in Nat
  BY ArenaFields, EfenceAssumption DEF EfInv, EfState, ArenaOk, SlotsIn, EnvOk
<1>2. /\ s.ua \in Nat /\ s.ia \in Nat /\ s.us \in Nat /\ s.is \in Nat /\ arena.top \in Nat
      /\ env.below \in BOOLEAN
  BY <1>1, SlotFields, ArenaFields DEF EnvOk
<1>3. /\ Aligned(s.ia) /\ Aligned(s.is) /\ s.ia > 0 /\ s.is > 0
      /\ \A p \in Nat : Inside(s, p) => p \in arena.mapped
  <2>1. SlotOk(s, arena.mapped) /\ Used(s)
    BY <1>1 DEF EfInv, EfState, ArenaOk, Tiled, SlotsOk, Used
  <2> QED BY <2>1 DEF SlotOk
<1>4. Shaped(s) /\ Guarded(s, arena.access)
  BY <1>1 DEF EfInv, EfState, ArenaOk, Fenced
<1>5. PICK k \in Nat, m \in Nat : s.ia = Start(k) /\ s.is = Start(m)
  BY <1>3 DEF Aligned
<1>6. Start(0) = 0 /\ k > 0 /\ m > 0
  BY <1>1, <1>3, <1>5 DEF Start
<1>7. PICK n \in Nat : n + 1 = m
  <2>1. m - 1 \in Nat /\ (m - 1) + 1 = m
    BY ONLY <1>6
  <2> QED BY ONLY <2>1
<1>8. /\ Start(k + m) = s.ia + s.is /\ Start(k + 1) = s.ia + PageBytes /\ Start(k + n) = s.ia + s.is - PageBytes
      /\ Start(n) \in Nat /\ s.is = Start(n) + PageBytes
  <2>1. Start(1) = PageBytes
    BY <1>1 DEF Start
  <2>2. Start(k + m) = Start(k) + Start(m) /\ Start(k + 1) = Start(k) + Start(1)
        /\ Start(k + n) = Start(k) + Start(n) /\ Start(n + 1) = Start(n) + Start(1) /\ Start(n) \in Nat
    BY StartMono
  <2> QED BY <2>1, <2>2, <1>1, <1>2, <1>5, <1>7
<1>9. arena.top <= MaxPage + 1 /\ \A p \in arena.mapped : p < arena.top
  BY DEF EfInv, EfState, ArenaOk, Below
<1>10. ASSUME NEW p \in Nat, Inside(s, p) PROVE p \in 1..MaxPage
  <2>1. Start(p) \in Nat /\ (p < k => Start(p) + PageBytes <= Start(k))
    BY StartMono
  <2>2. k <= p
    BY <2>1, <1>1, <1>2, <1>5, <1>10 DEF Inside
  <2>3. p < arena.top
    BY <1>3, <1>9, <1>10
  <2> QED BY <2>2, <2>3, <1>1, <1>2, <1>6, <1>9
<1>11. ASSUME NEW b \in s.ua .. s.ua + s.us - 1 PROVE b \div PageBytes \in arena.access
  <2>1. b \in Nat /\ s.ua <= b /\ b < s.ua + s.us
    BY <1>2
  <2>2. PICK p : p = b \div PageBytes
    OBVIOUS
  <2>3. p \in Nat /\ Start(p) <= b
    BY <2>1, <2>2, PageOfByte
  <2>4. (Start(k) <= b => k <= p) /\ (Start(k + 1) <= b => k + 1 <= p)
    BY <2>1, <2>2, PageOfByte
  <2>5. Start(p) \in Nat /\ (k <= p => Start(k) <= Start(p)) /\ (k + 1 <= p => Start(k + 1) <= Start(p))
    <3>1. PICK q \in Nat : q = k + 1
      OBVIOUS
    <3>2. Start(p) \in Nat /\ (k <= p => Start(k) <= Start(p)) /\ (q <= p => Start(q) <= Start(p))
      BY <2>3, StartMono
    <3> QED BY <3>1, <3>2
  <2>6. s.ia <= s.ua /\ s.ua + s.us <= s.ia + s.is
    BY <1>1, <1>2, <1>4, <1>8 DEF Shaped
  <2>7. Inside(s, p)
    BY <2>1, <2>3, <2>4, <2>5, <2>6, <1>2, <1>5 DEF Inside
  <2>8. Live(s, p)
    BY <2>1, <2>3, <2>4, <2>5, <2>6, <1>1, <1>2, <1>4, <1>8 DEF Live, Shaped
  <2>9. p \in arena.access
    BY <2>3, <2>7, <2>8, <1>4, <1>10 DEF Guarded
  <2> QED BY <2>2, <2>9
<1>12. edge \div PageBytes \notin arena.access
  <2>1. PICK p : p = edge \div PageBytes
    OBVIOUS
  <2>2. edge \in Nat /\ edge = IF env.below THEN s.ia + PageBytes - 1 ELSE s.ia + s.is - PageBytes
    BY <1>1, <1>2, <1>4, <1>8 DEF Shaped
  <2>3. p \in Nat /\ Start(p) <= edge
    BY <2>1, <2>2, PageOfByte
  <2>4. Start(k) <= edge => k <= p
    BY <2>1, <2>2, PageOfByte
  <2>5. edge < Start(k + 1) => p < k + 1
    BY <2>1, <2>2, PageOfByte
  <2>6. Start(k + n) <= edge => k + n <= p
    BY <2>1, <2>2, PageOfByte
  <2>7. Start(p) \in Nat /\ (k <= p => Start(k) <= Start(p)) /\ (p < k + 1 => Start(p) + PageBytes <= Start(k + 1))
        /\ (k + n <= p => Start(k + n) <= Start(p))
    <3>1. PICK q \in Nat, h \in Nat : q = k + 1 /\ h = k + n
      OBVIOUS
    <3>2. Start(p) \in Nat /\ (k <= p => Start(k) <= Start(p))
      BY <2>3, StartMono
    <3>3. p < q => Start(p) + PageBytes <= Start(q)
      BY <2>3, StartMono
    <3>4. h <= p => Start(h) <= Start(p)
      BY <2>3, StartMono
    <3> QED BY <3>1, <3>2, <3>3, <3>4
  <2>8. Inside(s, p)
    BY <2>2, <2>3, <2>4, <2>7, <1>1, <1>2, <1>5, <1>8 DEF Inside
  <2>9. ~Live(s, p)
    BY <2>2, <2>3, <2>5, <2>6, <2>7, <1>1, <1>2, <1>5, <1>8 DEF Live
  <2>10. p \notin arena.access
    BY <2>3, <2>8, <2>9, <1>4, <1>10 DEF Guarded
  <2> QED BY <2>1, <2>10
<1>13. s.ua \in DOMAIN granted /\ s.us >= granted[s.ua]
  BY <1>1 DEF EfInv, EfState, GrantedOk
<1> QED BY <1>11, <1>12, <1>13

LEMMA InvFreed == EfInv => FreedIsInaccessible
<1> SUFFICES ASSUME EfInv PROVE FreedIsInaccessible
  OBVIOUS
<1>1. DeadOk(arena, dead)
  BY DEF EfInv, EfState
<1>2. dead \intersect arena.access = {}
  BY <1>1 DEF DeadOk
<1>3. granted # << >> \/ dead # {} => PagesOf(arena.list, arena.listPages * PageBytes) \intersect arena.access = {}
  BY DEF EfInv, ListClosed
<1>4. ASSUME env.protect, NEW p \in dead
      PROVE  \E i \in SlotsIn(arena, "PROTECTED") : p \in SlotPages(i)
  <2>1. PICK i \in DOMAIN arena.slots : arena.slots[i].mode = "PROTECTED" /\ Inside(arena.slots[i], p)
    BY <1>1, <1>4 DEF DeadOk
  <2>2. p \in 1..MaxPage
    BY <1>1 DEF DeadOk
  <2> QED BY <2>1, <2>2, InsidePages DEF SlotsIn, SlotPages
<1> QED BY <1>2, <1>3, <1>4 DEF FreedIsInaccessible

LEMMA EfInvAlways == EfenceSpec => []EfInv
  BY EfInvInit, EfInvNext, PTL DEF EfenceSpec

(* efence.c never aborts a program that frees only what it was given, its  *)
(* slots lie apart and are counted, and neighbours that are free are       *)
(* joined except where a chunk was placed directly below earlier memory,   *)
(* for every page size, chunk size and default alignment that divides the  *)
(* page, every sequence of malloc, memalign, realloc and free that MayAsk  *)
(* admits and every placement of new memory, above, between or below what  *)
(* is mapped: a list of slots that is one page longer always leaves as     *)
(* many to spare as growing it took.                                       *)
THEOREM SlotsStayRight == EfenceSpec => []SlotsRight
  BY EfInvAlways, InvSlotsRight, PTL

(* Every byte of a buffer can be touched, and the byte behind it (before   *)
(* it, with EF_PROTECT_BELOW) cannot, as long as the buffer is in use:     *)
(* what the allocator opens and closes for other buffers, for new memory   *)
(* and for its own list never meets the pages of this one.                 *)
THEOREM OverrunIsTrapped == EfenceSpec => []OverrunTraps
  BY EfInvAlways, InvOverrunTraps, PTL

(* Memory given back by free cannot be touched until it is handed out      *)
(* again, and stays aside for good with EF_PROTECT_FREE; between calls the *)
(* list of slots cannot be touched either.                                 *)
THEOREM FreedStaysClosed == EfenceSpec => []FreedIsInaccessible
  BY EfInvAlways, InvFreed, PTL
=============================================================================
