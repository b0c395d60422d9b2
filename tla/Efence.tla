------------------------------- MODULE Efence -------------------------------
(***************************************************************************)
(* The allocator of efence.c: every buffer has pages of its own and a dead *)
(* page behind it (or before it), and freed memory is inaccessible.        *)
(*                                                                         *)
(* Addresses and sizes are in bytes, a page has PageBytes of them, and     *)
(* page p is the bytes p*PageBytes .. (p+1)*PageBytes - 1; page 0 is never *)
(* mapped.  Every call runs with the semaphore held from its first look at *)
(* the allocation list to its last, so it is one step.                     *)
(***************************************************************************)
EXTENDS Integers, Sequences, FiniteSets, FiniteSetsExt

CONSTANTS PageBytes,      \* Page_Size()
          ChunkPages,     \* MEMORY_CREATION_SIZE, in pages
          FirstPage,      \* where mmap places the first chunk
          ChunkPlaces,    \* pages where it may place later ones
          SlotsPerPage,   \* slots that fit in a page
          EF_ALIGNMENT,   \* the alignment of malloc, calloc and realloc
          AskSizes,       \* sizes callers ask for
          Alignments,     \* alignments callers ask for
          MaxPage,        \* bound: the highest page that is ever mapped
          MaxMapped,      \* bound: pages mapped in a behaviour
          MaxLive         \* bound: buffers in use at once

VARIABLES
  arena,   \* the allocator's state and the protection of the pages:
           \*   slots, list, listPages, unUsed: allocationList and its counters
           \*   access: the pages that may be touched
           \*   mapped: the pages mapped so far, all of them below page top
           \*   seams: addresses where a chunk ends and earlier memory begins
           \*   error: the program was aborted
  env,     \* EF_PROTECT_BELOW, EF_PROTECT_FREE, EF_ALLOW_MALLOC_0
  granted, \* history: user address -> size asked, of the buffers in use
  dead     \* history: pages given back by free and not allocated since

efenceVars == <<arena, env, granted, dead>>

(* A page holds slots enough that a list with some to spare, once grown,   *)
(* has some to spare again; and the list, which is allocated with the      *)
(* default alignment, fills whole pages.                                   *)
ASSUME EfenceAssumption ==
  /\ PageBytes \in Nat \ {0}
  /\ ChunkPages \in Nat /\ ChunkPages > 1
  /\ SlotsPerPage \in Nat /\ SlotsPerPage >= 4
  /\ EF_ALIGNMENT \in Nat /\ (EF_ALIGNMENT > 1 => PageBytes % EF_ALIGNMENT = 0)
  /\ AskSizes \subseteq Nat /\ Alignments \subseteq Nat
  /\ FirstPage \in Nat \ {0} /\ ChunkPlaces \subseteq Nat \ {0}
  /\ MaxPage \in Nat /\ MaxPage >= FirstPage + ChunkPages - 1

NoSlotUsed == [mode |-> "NOT_IN_USE", ua |-> 0, ia |-> 0, us |-> 0, is |-> 0]
RoundUp(n, unit) == ((n + unit - 1) \div unit) * unit
PagesOf(address, size) == {p \in 1..MaxPage : p * PageBytes >= address /\ p * PageBytes < address + size}
SlotsIn(a, mode) == {i \in DOMAIN a.slots : a.slots[i].mode = mode}

Page_AllowAccess(a, address, size) == [a EXCEPT !.access = @ \union PagesOf(address, size)]
Page_DenyAccess(a, address, size) == [a EXCEPT !.access = @ \ PagesOf(address, size)]
Page_Delete(a, address, size) == Page_DenyAccess(a, address, size)

(* startAddr is only a hint to mmap: the new memory is where the system    *)
(* wants it, below, between or above what is mapped already.  It is at     *)
(* page where if it fits there, and above everything if not.               *)
Placed(a, pages, where) ==
  IF (where .. where + pages - 1) \intersect a.mapped = {} THEN where ELSE a.top

(* The memory is accessible.                                               *)
Page_Create(a, pages, where) ==
  LET from == Placed(a, pages, where)
      end == from + pages
  IN  [Page_AllowAccess(a, from * PageBytes, pages * PageBytes) EXCEPT
         !.mapped = @ \union (from .. end - 1),
         !.top = Max({a.top, end}),
         !.seams = @ \union (IF end \in a.mapped THEN {end * PageBytes} ELSE {})]

(* The environment chooses the options.  The first page holds the slots,   *)
(* and the rest of the first chunk is one free buffer.                     *)
EfenceInit ==
  /\ env \in [below : BOOLEAN, protect : BOOLEAN, zero : BOOLEAN]
  /\ arena =
       [slots |-> <<[mode |-> "INTERNAL_USE", ua |-> FirstPage * PageBytes,
                     ia |-> FirstPage * PageBytes, us |-> PageBytes, is |-> PageBytes],
                    [mode |-> "FREE", ua |-> (FirstPage+1) * PageBytes, ia |-> (FirstPage+1) * PageBytes,
                     us |-> (ChunkPages-1) * PageBytes, is |-> (ChunkPages-1) * PageBytes]>>
                  \o [i \in 1 .. SlotsPerPage - 2 |-> NoSlotUsed],
        list |-> FirstPage * PageBytes, listPages |-> 1, unUsed |-> SlotsPerPage - 2,
        access |-> {FirstPage}, mapped |-> FirstPage .. FirstPage + ChunkPages - 1,
        top |-> FirstPage + ChunkPages, seams |-> {}, error |-> FALSE]
  /\ granted = << >>
  /\ dead = {}
-----------------------------------------------------------------------------
(* The free buffer of the least size that is enough, the first of them.    *)
BestFit(a, size) ==
  LET fits == {i \in SlotsIn(a, "FREE") : a.slots[i].is >= size}
      best == {i \in fits : \A j \in fits : a.slots[i].is <= a.slots[j].is}
  IN  IF fits = {} THEN 0 ELSE Min(best)

(* New memory, all of it free, in slot i.                                  *)
CreateChunk(a, i, size, where) ==
  LET pages == Max({ChunkPages, size \div PageBytes})
  IN  [Page_Create(a, pages, where) EXCEPT
         !.slots[i] = [@ EXCEPT !.ia = Placed(a, pages, where) * PageBytes,
                                !.is = pages * PageBytes, !.mode = "FREE"],
         !.unUsed = @ - 1]

(* Slip: the slot that takes the surplus is not counted.                   *)
Split_uncounted(a, i, e, size) ==
  IF a.slots[i].is = size THEN a
  ELSE [a EXCEPT !.slots[e] = [@ EXCEPT !.is = a.slots[i].is - size,
                                        !.ia = a.slots[i].ia + size, !.mode = "FREE"],
                 !.slots[i].is = size]

(* What is more than needed in slot i becomes a free buffer in slot e.     *)
Split(a, i, e, size) ==
  IF a.slots[i].is = size THEN a
  ELSE [a EXCEPT !.slots[e] = [@ EXCEPT !.is = a.slots[i].is - size,
                                        !.ia = a.slots[i].ia + size, !.mode = "FREE"],
                 !.slots[i].is = size,
                 !.unUsed = @ - 1]

(* Slip: the dead page is left as it was.                                  *)
Fence_open(a, i, userSize) ==
  LET ia == a.slots[i].ia  livesize == a.slots[i].is - PageBytes
      address == IF env.below THEN ia + PageBytes ELSE ia + livesize - userSize
  IN  [Page_AllowAccess(a, IF env.below THEN ia + PageBytes ELSE ia, livesize)
         EXCEPT !.slots[i].ua = address, !.slots[i].us = userSize]

(* The live pages and the dead page of slot i, and the address handed out: *)
(* the end of the buffer meets the dead page, or its start does.           *)
Fence(a, i, userSize) ==
  LET ia == a.slots[i].ia  livesize == a.slots[i].is - PageBytes
      address == IF env.below THEN ia + PageBytes ELSE ia + livesize - userSize
      fenced == IF env.below
                THEN Page_AllowAccess(Page_Delete(a, ia, PageBytes), address, livesize)
                ELSE Page_Delete(Page_AllowAccess(a, ia, livesize), ia + livesize, PageBytes)
  IN  [fenced EXCEPT !.slots[i].ua = address, !.slots[i].us = userSize]

(* memalign_locked once there are slots enough.  The list stays accessible *)
(* when it is the allocator that asks.  Returns the arena and the slot.    *)
Allocate(a, alignment, size, internalUse, where) ==
  LET userSize == IF ~env.below /\ alignment > 1 THEN RoundUp(size, alignment) ELSE size
      internalSize == RoundUp(userSize + PageBytes, PageBytes)
      empty == SlotsIn(a, "NOT_IN_USE")
      fit == BestFit(a, internalSize)
      noFit == fit = 0
      full == IF noFit THEN Min(empty) ELSE fit
      spare == IF noFit THEN Min(empty \ {full}) ELSE Min(empty)
      a1 == Page_AllowAccess(a, a.list, a.listPages * PageBytes)
      a2 == IF noFit THEN CreateChunk(a1, full, internalSize, where) ELSE a1
      a3 == Split([a2 EXCEPT !.slots[full].mode =
                     IF internalUse THEN "INTERNAL_USE" ELSE "ALLOCATED"],
                  full, spare, internalSize)
      a4 == Fence(a3, full, userSize)
  IN  IF Cardinality(empty) < (IF noFit THEN 2 ELSE 1)
      THEN <<[a EXCEPT !.error = TRUE], 1>>
      ELSE <<IF internalUse THEN a4 ELSE Page_DenyAccess(a4, a.list, a.listPages * PageBytes), full>>

(* Coalescing slot i of arena a with slot j, which lies right behind it.   *)
Absorb(a, i, j) ==
  [a EXCEPT !.slots[i].is = @ + a.slots[j].is, !.slots[j] = NoSlotUsed, !.unUsed = @ + 1]

slotForInternalAddress(a, address) == {i \in DOMAIN a.slots : a.slots[i].ia = address}
slotForInternalAddressPreviousTo(a, address) ==
  {i \in DOMAIN a.slots : a.slots[i].ia + a.slots[i].is = address}

(* The first slot of the set found when it is in the given mode.           *)
InMode(a, found, mode) == {i \in found : i = Min(found) /\ a.slots[i].mode = mode}

(* Slip: the buffer stays accessible.                                      *)
Released_open(a, i, mode) == [a EXCEPT !.slots[i].mode = mode]

(* Access is denied, and the slot is in its new mode.                      *)
Released(a, i, mode) ==
  [Page_Delete(a, a.slots[i].ia, a.slots[i].is) EXCEPT !.slots[i].mode = mode]

(* Slot i joined with the buffers before it and behind it that are in the  *)
(* same mode, and the slot that describes them all.                        *)
Joined(a, i, mode) ==
  LET previous == InMode(a, slotForInternalAddressPreviousTo(a, a.slots[i].ia), mode)
      next == InMode(a, slotForInternalAddress(a, a.slots[i].ia + a.slots[i].is), mode)
      s == IF previous # {} THEN Min(previous) ELSE i
      a1 == IF previous # {} THEN Absorb(a, s, i) ELSE a
  IN  <<s, IF next # {} THEN Absorb(a1, s, Min(next)) ELSE a1>>

(* What free_locked does with the slot it has found.                       *)
FreeSlot(a, i, mode) ==
  LET j == Joined(Released(a, i, mode), i, mode)
  IN  [j[2] EXCEPT !.slots[j[1]] = [@ EXCEPT !.ua = j[2].slots[j[1]].ia, !.us = j[2].slots[j[1]].is]]

slotForUserAddress(a, address) ==
  LET found == {i \in DOMAIN a.slots : a.slots[i].ua = address}
  IN  IF found = {} THEN 0 ELSE Min(found)

free_locked(a, address, internalUse) ==
  LET i == slotForUserAddress(a, address)
      allowed == {"ALLOCATED"} \union (IF internalUse THEN {"INTERNAL_USE"} ELSE {})
  IN  IF i = 0 THEN [a EXCEPT !.error = TRUE]
      ELSE IF a.slots[i].mode \notin allowed THEN [a EXCEPT !.error = TRUE]
      ELSE FreeSlot(a, i, IF env.protect THEN "PROTECTED" ELSE "FREE")

(* A list one page longer takes over, and the old one is freed.            *)
allocateMoreSlots(a, where) ==
  LET r == Allocate(a, EF_ALIGNMENT, (a.listPages + 1) * PageBytes, TRUE, where)
      grown == [r[1] EXCEPT !.slots = @ \o [k \in 1..SlotsPerPage |-> NoSlotUsed],
                            !.list = r[1].slots[r[2]].ua,
                            !.listPages = @ + 1,
                            !.unUsed = @ + SlotsPerPage]
  IN  IF r[1].error THEN r[1] ELSE free_locked(grown, a.list, TRUE)

LowOnSlots(a) == a.unUsed < 7

(* The list and the buffer may each need new memory: where they get it.    *)
memalign_locked(a, alignment, size, where) ==
  LET a1 == IF LowOnSlots(a) THEN allocateMoreSlots(a, where.list) ELSE a
  IN  IF a1.error THEN <<a1, 1>> ELSE Allocate(a1, alignment, size, FALSE, where.buffer)
-----------------------------------------------------------------------------
(* What callers may ask: zero bytes only with EF_ALLOW_MALLOC_0, and not   *)
(* with EF_PROTECT_BELOW, where the address would be the next buffer's.    *)
MayAsk(size) == size > 0 \/ (env.zero /\ ~env.below)

WithinBound(a) == a.top <= MaxPage + 1 /\ Cardinality(a.mapped) <= MaxMapped

Grant(r, size) ==
  LET address == r[1].slots[r[2]].ua
  IN  /\ WithinBound(r[1])
      /\ arena' = r[1]
      /\ granted' = [x \in DOMAIN granted \union {address} |-> IF x = address THEN size ELSE granted[x]]

(* The pages of the buffer at an address, and of the one just allocated.   *)
BufferPages(address) ==
  UNION {PagesOf(arena.slots[i].ia, arena.slots[i].is) :
           i \in {j \in SlotsIn(arena, "ALLOCATED") : arena.slots[j].ua = address}}
GivenPages(r) == PagesOf(r[1].slots[r[2]].ia, r[1].slots[r[2]].is)

(* memalign, and malloc, calloc and valloc through it.                     *)
memalign(alignment, size, where) ==
  /\ ~arena.error /\ Cardinality(DOMAIN granted) < MaxLive
  /\ MayAsk(size)
  /\ \E r \in {memalign_locked(arena, alignment, size, where)} :
       /\ Grant(r, size)
       /\ dead' = dead \ GivenPages(r)
  /\ UNCHANGED env

free(address) ==
  /\ ~arena.error
  /\ arena' = Page_DenyAccess(free_locked(arena, address, FALSE), arena.list, arena.listPages * PageBytes)
  /\ granted' = [x \in DOMAIN granted \ {address} |-> granted[x]]
  /\ dead' = dead \union BufferPages(address)
  /\ UNCHANGED env

(* The new buffer is there before the old one is freed.                    *)
realloc(address, size, where) ==
  /\ ~arena.error
  /\ MayAsk(size)
  /\ \E r \in {memalign_locked(arena, EF_ALIGNMENT, size, where)} :
       /\ WithinBound(r[1])
       /\ LET a == free_locked(r[1], address, FALSE)
          IN  arena' = Page_DenyAccess(a, a.list, a.listPages * PageBytes)
       /\ granted' = [x \in (DOMAIN granted \ {address}) \union {r[1].slots[r[2]].ua} |->
                        IF x = r[1].slots[r[2]].ua THEN size ELSE granted[x]]
       /\ dead' = (dead \ GivenPages(r)) \union BufferPages(address)
  /\ UNCHANGED env

EfenceNext ==
  \/ \E size \in AskSizes, where \in [list : ChunkPlaces, buffer : ChunkPlaces] :
       \/ \E alignment \in Alignments : memalign(alignment, size, where)
       \/ \E address \in DOMAIN granted : realloc(address, size, where)
  \/ \E address \in DOMAIN granted : free(address)

EfenceSpec == EfenceInit /\ [][EfenceNext]_efenceVars
-----------------------------------------------------------------------------
InUse == DOMAIN arena.slots \ SlotsIn(arena, "NOT_IN_USE")
SlotPages(i) == PagesOf(arena.slots[i].ia, arena.slots[i].is)

(* A program that frees only what it was given is never aborted: the slot  *)
(* of a buffer is found by its address whatever was split and joined since *)
(* and the allocator never runs out of slots, although it needs some to    *)
(* make more.                                                              *)
NeverAborted == ~arena.error

(* The slots in use cover disjoint memory, and their number is what the    *)
(* counter that decides when to make more says.                            *)
SlotsTile ==
  /\ \A i, j \in InUse : i # j => SlotPages(i) \intersect SlotPages(j) = {}
  /\ arena.unUsed = Cardinality(SlotsIn(arena, "NOT_IN_USE"))

(* Every buffer in use can be touched from its first byte to its last, and *)
(* the byte behind it (before it, with EF_PROTECT_BELOW) cannot, counting  *)
(* the bytes that fill up to the alignment.                                *)
OverrunTraps ==
  \A i \in SlotsIn(arena, "ALLOCATED") :
    LET s == arena.slots[i]
        PageAt(b) == b \div PageBytes
        edge == IF env.below THEN s.ua - 1 ELSE s.ua + s.us
    IN  /\ \A b \in s.ua .. s.ua + s.us - 1 : PageAt(b) \in arena.access
        /\ PageAt(edge) \notin arena.access
        /\ s.ua \in DOMAIN granted /\ s.us >= granted[s.ua]

(* Memory that was freed cannot be touched until it is allocated again,    *)
(* and never again with EF_PROTECT_FREE; nor can the allocation list       *)
(* between calls, where an overrun would corrupt the allocator.            *)
FreedIsInaccessible ==
  /\ dead \intersect arena.access = {}
  /\ granted # << >> \/ dead # {}
       => PagesOf(arena.list, arena.listPages * PageBytes) \intersect arena.access = {}
  /\ env.protect => dead \subseteq UNION {SlotPages(i) : i \in SlotsIn(arena, "PROTECTED")}

(* No two neighbouring buffers are both free or both protected, for free   *)
(* joins them, also across chunks that happen to be mapped next to each    *)
(* other: memory that is free and adjacent can be allocated as one.  The   *)
(* exception is a chunk that was placed directly below earlier memory: the *)
(* free rest of it is not joined with a free buffer that begins there.     *)
FreeIsJoined ==
  \A i, j \in InUse :
    /\ arena.slots[i].mode \in {"FREE", "PROTECTED"} /\ arena.slots[j].mode = arena.slots[i].mode
    /\ arena.slots[i].ia + arena.slots[i].is = arena.slots[j].ia
    => arena.slots[i].mode = "FREE" /\ arena.slots[j].ia \in arena.seams

(* Electric Fence keeps its slots right through splitting, joining and the *)
(* growth of the list that holds them, and never aborts a right program.   *)
SlotsRight == NeverAborted /\ SlotsTile /\ FreeIsJoined
=============================================================================
