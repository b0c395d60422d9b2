-------------------------------- MODULE Pool --------------------------------
(***************************************************************************)
(* The element pool of pool.c, used by one thread at a time.  Elements are *)
(* carved one after the other from blocks of block_size elements; elements *)
(* given back form a list that is used first.  The array of block pointers *)
(* doubles when it is full.                                                *)
(*                                                                         *)
(* A pointer is the pair <<block, index>>.  Each malloc may fail.  A block *)
(* whose malloc failed stays NULL in the array: its first element is the   *)
(* NULL that pool_malloc returns, its later ones are offsets from NULL,    *)
(* which the caller cannot tell from elements.                             *)
(***************************************************************************)
EXTENDS Integers, Sequences, Functions

CONSTANTS BlockSize,  \* block_size
          MaxBlocks   \* bound: blocks carved

ASSUME PoolAssumption == BlockSize \in Nat \ {0} /\ MaxBlocks \in Nat \ {0}

VARIABLES
  status,      \* "down" (not initialised or deinitialised), "up" or "crashed"
  used,        \* p->used: index of the element carved last
  block,       \* p->block: the block it was carved from
  blocks_used, \* p->blocks_used: length of p->blocks
  blocks,      \* indices of p->blocks that are not NULL
  freed,       \* p->freed, the list of elements given back
  live,        \* elements handed out and not given back
  heap,        \* blocks allocated and not freed
  oom          \* a block's malloc has failed since pool_init

poolVars == <<status, used, block, blocks_used, blocks, freed, live, heap, oom>>

BlockIndex == 0..MaxBlocks-1
Element == BlockIndex \X (0..BlockSize-1)

PoolInit ==
  /\ status = "down"
  /\ used = 0 /\ block = 0 /\ blocks_used = 0
  /\ blocks = {} /\ freed = <<>> /\ live = {} /\ heap = {}
  /\ oom = FALSE

(* The next element carved is the first of block 0.                        *)
Rewind ==
  /\ used' = BlockSize - 1
  /\ block' = -1
  /\ freed' = <<>>
  /\ live' = {}

pool_free_all ==
  /\ status = "up"
  /\ Rewind
  /\ UNCHANGED <<status, blocks_used, blocks, heap, oom>>

(* Without memory for the array pool_init returns -ENOMEM.                 *)
pool_init ==
  /\ status = "down"
  /\ Rewind
  /\ blocks_used' = 1
  /\ blocks' = {}
  /\ heap' = {}
  /\ oom' = FALSE
  /\ status' \in {"up", "down"}

(* pool_deinit frees the blocks up to the first NULL in the array.         *)
FreedByDeinit == {b \in blocks : \A c \in 0..b : c \in blocks}

pool_deinit ==
  /\ status = "up"
  /\ status' = "down"
  /\ heap' = heap \ FreedByDeinit
  /\ live' = {}
  /\ UNCHANGED <<used, block, blocks_used, blocks, freed, oom>>

(* pool_malloc takes the element given back last, if there is one.         *)
pool_malloc_recycle ==
  /\ status = "up" /\ freed # <<>>
  /\ freed' = Tail(freed)
  /\ live' = live \union {Head(freed)}
  /\ UNCHANGED <<status, used, block, blocks_used, blocks, heap, oom>>

(* The test of the incremented p->used.                                    *)
BlockIsFull == used + 1 = BlockSize

(* Otherwise it carves the next one of the current block.                  *)
pool_malloc_carve ==
  /\ status = "up" /\ freed = <<>> /\ ~BlockIsFull
  /\ used' = used + 1
  /\ live' = live \union {<<block, used + 1>>}
  /\ UNCHANGED <<status, block, blocks_used, blocks, freed, heap, oom>>

(* Length of the array that has room for block b.                          *)
Enlarged(b) == IF b = blocks_used THEN 2 * blocks_used ELSE blocks_used

(* At the end of a block it goes on to the next one: enlarges the array if *)
(* need be, and allocates the block unless an earlier round left it there. *)
(* The result of realloc is not checked: the program then dies.            *)
pool_malloc_next_block ==
  LET b == block + 1 IN
  /\ status = "up" /\ freed = <<>> /\ BlockIsFull
  /\ b < MaxBlocks
  /\ \/ /\ used' = 0
        /\ block' = b
        /\ blocks_used' = Enlarged(b)
        /\ blocks' = blocks \union {b}
        /\ heap' = heap \union {b}
        /\ live' = live \union {<<b, 0>>}
        /\ UNCHANGED <<status, oom>>
     \/ /\ b \notin blocks                     \* malloc fails: NULL
        /\ used' = 0
        /\ block' = b
        /\ blocks_used' = Enlarged(b)
        /\ oom' = TRUE
        /\ UNCHANGED <<status, blocks, heap, live>>
     \/ /\ b = blocks_used                     \* realloc fails
        /\ status' = "crashed"
        /\ UNCHANGED <<used, block, blocks_used, blocks, heap, live, oom>>
  /\ UNCHANGED freed

(* Slip: the element goes to the list although its owner keeps it.         *)
pool_free_kept(e) ==
  /\ status = "up" /\ e \in live
  /\ freed' = <<e>> \o freed
  /\ UNCHANGED <<status, used, block, blocks_used, blocks, live, heap, oom>>

(* The owner of an element gives it back.  The link is stored in the       *)
(* element itself; there is none to store it in when its block is NULL.    *)
pool_free(e) ==
  /\ status = "up" /\ e \in live
  /\ freed' = <<e>> \o freed
  /\ live' = live \ {e}
  /\ status' = IF e[1] \in blocks THEN "up" ELSE "crashed"
  /\ UNCHANGED <<used, block, blocks_used, blocks, heap, oom>>

PoolNext ==
  \/ pool_init
  \/ pool_deinit
  \/ pool_free_all
  \/ pool_malloc_recycle
  \/ pool_malloc_carve
  \/ pool_malloc_next_block
  \/ \E e \in Element : pool_free(e)

PoolSpec == PoolInit /\ [][PoolNext]_poolVars
-----------------------------------------------------------------------------
(* The places carved so far: all of the earlier blocks and the current     *)
(* block up to used.  The first place of a missing block was never handed  *)
(* out, since pool_malloc returned NULL for it.                            *)
Carved == {e \in Element :
             /\ e[1] < block \/ (e[1] = block /\ e[2] <= used)
             /\ e[1] \in blocks \/ e[2] > 0}

(* Every element carved is either with one owner or on the freed list      *)
(* once: none is lost and none can be handed out twice, through all        *)
(* recycling, pool_free_all and failing allocations; and p->block indexes  *)
(* the array of blocks.                                                    *)
EveryElementOnce ==
  status = "up" =>
    /\ IsInjective(freed)
    /\ Range(freed) \intersect live = {}
    /\ Range(freed) \union live = Carved
    /\ block \in -1 .. blocks_used-1

(* pool_malloc hands out memory that exists.  The exception is what the    *)
(* code really does once the malloc of a block has failed.                 *)
HandedOutExists ==
  ~oom => live \subseteq heap \X (0..BlockSize-1)

(* pool_deinit frees every block although it stops at the first NULL,      *)
(* unless a failed malloc has left a gap between them.                     *)
DeinitFreesAll == status = "down" /\ ~oom => heap = {}

(* No element and no block of the pool is lost, shared or left behind.     *)
PoolConserved == EveryElementOnce /\ HandedOutExists /\ DeinitFreesAll
=============================================================================
