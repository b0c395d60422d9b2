# ctools in TLA+

A verification development for ctools, a collection of C building blocks for
embedded Linux programs. TLC checks each model on a small instance; TLAPS
proves the most important invariants for all values of the constants.

`PROJECT.json` has the machine-readable side: which definition models which
lines, which run checks what, the mutants that show that each property can
fail, the findings and the hazards. `src/` paths below are relative to the
repository.

## The system

ctools is a library, not one program. A few parts build on others; the others
stand alone and are used by the program that links them.

| part | state | operations | works with |
|---|---|---|---|
| ring buffer `queue.c` | `buff`, `head`, `num_items` (`uint16_t`) | clear, append, get, enqueue, two peeks, release, two counters | `OS_ENTER_CRITICAL` of `libcpu`; producer and consumer may be an interrupt and a task |
| element pool `pool.c` | blocks, carving position, freed list | init, deinit, malloc, free, free_all | used by `activity.c` for messages and exec items |
| activity objects `activity.c` | per object: state, queue, eventfd, timer, thread; a list of objects; two pools and a heap | register, run, stop, send, exec, periodic timer, manager init and fini | libuev loop per thread, `pool.c`, `linux_list.h`, threads of the program |
| event flags `event1.c` | a word of bits, mutex, condition variable | post, wait, timed wait | threads of the program |
| log buffer `logbuffer.c` | memory, `tail`, `round_flag` | put, get, write to a descriptor | - |
| bitmap `bitmap.h` | bytes | set one, set all, get, search, loop | - |
| TCP server `sktcpserver.c` | list of client contexts, watchers, receive buffer, lock | init, fini, accept and receive handlers, send | libuev, `linux_list.h`, callbacks into the program |
| TCP client `sktcpclient.c` | state, descriptor, watcher, lock | connect, disconnect, send, pause, resume, read handler | libuev, threads of the program |
| linked lists `linux_list.h` | links of the nodes | add, delete, replace, move, rotate, cut, splice, tests, loops; hash chains likewise | `activity.c`, `sktcpserver.c` |
| bit operations `linux_bitops.h` | words of a bitmap | single bits, ranges, set operations, shifts, searches, counts | - |
| Electric Fence `efence` | list of slots, which pages are accessible, options from the environment | malloc, calloc, memalign, valloc, realloc, free | `mmap` and `mprotect` in `page.c`; stands in for `malloc` in a program under test |
| test framework `cmocka` | expectations of mocks, list of allocated blocks, flags of the running test, results | declare, mock, check, run a group with fixtures, skip, expect an assertion | `setjmp`, signals; the program under test |
| protothreads `protothread` | a line number per thread, counters of semaphores | begin, end, wait, schedule, semaphores | the program's main loop |
| digest and codecs `md5`, `crc`, `b64`, `speck`, `app_utils` | MD5 context: buffer, count | feed, finish, stream; otherwise pure functions | - |
| I/O probe, tick, log, shell commands | little or none | thin wrappers | - |
| `libcpu` | - | critical sections | `queue.c` |

Lists, bit operations, Electric Fence, cmocka, protothreads, MD5, base 64 and
Speck come from elsewhere and are kept here as source, some of them changed.

The only test of the library (`test/test-io_probe.c`) asserts nothing, so what
the parts are meant to do is known from the comments in their headers and from
their callers.

What is hard in this code:

* interleavings of threads: sends, starts and stops of activity objects; posts
  and waits of event flags; the TCP client's users against its event loop;
* data handed out and used later: the pointer of `queue_peek_noncopy`, the free
  space read by a producer, `act->thread` read after the unlock, descriptors
  and addresses that are used again;
* failures: every allocation, the set-up of threads and loops, `clock_gettime`,
  `accept`, `connect` and `select` may fail half-way through an operation;
* boundaries: 16-bit sums, wrap-around at the end of a memory, an array of
  blocks that doubles, the last byte of a bitmap, shifts across words, blocks of
  a message that are just full;
* long sequences of legal calls: slots that are split and joined while their own
  table moves, lists spliced and cut when empty, expectations half used up when
  a test is left by `longjmp`;
* things that must happen: a queued message is handled, a stop completes, a
  join and a timed wait return.

Per component, what makes it correct: the queue is a bounded FIFO that stays in
its memory and leaves peeked bytes alone; the pool loses no element and hands
out none twice; an activity object is a mailbox with one thread; no post of an
event is missed; the log buffer holds the newest bytes; the bitmap loop visits
the set bits; the server's handles and watchers belong to live clients; the
client closes only what it owns; lists are sequences and bitmaps are sets; every
overrun and every use of freed memory meets a closed page of Electric Fence;
cmocka's reports are true, and nothing of one test reaches the next; what is
encoded is decoded to the same, and the digest sees every byte once and in order.

## Modules

| module | models | role |
|---|---|---|
| `Fifo` | - | abstract: bounded FIFO of bytes |
| `Queue` | `queue.c` | implements `Fifo` (`contents` is the refinement mapping) |
| `QueueProofs` | | theorems about `Queue` |
| `Pool` | `pool.c` | pool used by one thread |
| `MsgPool` | `pool.c` as used by `activity.c` | loads and stores of the shared message pool |
| `Mailbox` | - | abstract: what `activity.h` promises |
| `Activity` | `activity.c` | implements `Mailbox` (`StatusOf`, `BoxOf`) |
| `ActivityProofs` | | theorems about `Activity` |
| `Event1` | `event1.c` | |
| `Event1Proofs` | | theorems about `Event1` |
| `LogBuffer` | `logbuffer.c` | |
| `Bitmap` | `bitmap.h` | |
| `SktcpServer` | `sktcpserver.c` | |
| `SktcpServerProofs` | | theorems about `SktcpServer` |
| `SktcpClient` | `sktcpclient.c` | |
| `SktcpClientProofs` | | theorems about `SktcpClient` |
| `LinuxList`, `LinuxHlist` | `linux_list.h` | links of both kinds of list, against sequences |
| `ListProofs` | | theorems about both kinds of list |
| `Bitops`, `WordOps` | `linux_bitops.h` | bitmaps word by word, against sets; operations on one word |
| `Efence` | `efence.c`, `page.c` | slots and pages of Electric Fence |
| `Md5` | `md5.c` | buffering, counting and padding |
| `Codecs` | `crc.c`, `b64.c`, `speck.c`, `app_utils.c` | pure functions, against reference definitions and their inverses |
| `Protothread` | `pt.h`, `pt-sem.h`, `lc-switch.h` | the documented producer and consumer |
| `LibraryProofs` | | theorems about `LogBuffer`, `Pool`, `Md5`, `Protothread` and `Efence` |
| `CmockaMock` | `cmocka.c` | expectations of mocks in one test |
| `CmockaRunner` | `cmocka.c` | a group of tests, fixtures, leaks |
| `CmockaProofs` | | theorems about both cmocka modules |
| `MCLibrary`, `MCCmocka` | | compose independent parts into one run each |
| `MC...` | | instances for TLC; the `.cfg` files give the constants |

Actions and operators have the names of the C functions. A function that lets
others run in the middle is several actions (`activity_msg_send_begin` and
`activity_msg_send`, `sktcpclient_connect` and `sktcpclient_connect_end`). Names
with a suffix after the C name, introduced as slips, are the mutated forms used
by the mutation runs and by nothing else.

**Queue.** All operations but the counters run inside a critical section and
are one step each. `Modulus` stands for 2^16, and sums are taken modulo it
exactly where the code stores them in a `uint16_t`. `touched` records the
indices a call uses, `view` what the consumer still holds of its last
`queue_peek_noncopy`, `room` the free space the producer last read. A read
outside the buffer yields `Beyond`. The dummy port of `libcpu` has empty
critical sections; there the model speaks only of single-threaded use.

**Pool.** Elements are pairs of block and place. `malloc` of a block and
`realloc` of the array may fail; a store through a missing block ends in
`crashed`. `heap` is the set of blocks really allocated.

**MsgPool.** The same freed list with one action per load and store. Senders
hold the lock of the activity they send to; the thread of an activity gives
cells back without a lock, as `msg_queue_handler` does.

**Activity.** What runs under `act->lock` is one step; the write of `act->state`
after `pthread_create`, the read of `act->thread` for the join, and everything
before the lock is taken are steps of their own. Arguments are only their
ownership: whether a message has a copy on the heap. `worker[a][r]` is the r-th
thread of an activity, so that a restart during a join is visible. libuev is
external: `uev_run` reads the eventfd and calls its watcher, and returns once
`uev_exit` was called. (A comment at `activity.c:449` doubts the latter; with a
loop that never returned, no stop could complete at all.) The result of
`pthread_join` is not looked at (`activity.c:301`): a stop that finds another one
joining the thread that `act->thread` names returns at once or waits as well, and
the model allows both; joining a thread that was joined before is undefined.
`activity_manager_fini` empties the pools and the heap, and the queues then lead
to freed memory: threads may still go to sleep, end, or find their queues empty,
but a step that touches a message, an exec item or a copy is undefined too. An
undefined step makes `mgr` `"broken"`, and nothing is said of what follows it.

**Event1.** The mutex is held from the lock to the next wait, so a turn of the
waiting loop is one step. Threads woken by a broadcast compete for the mutex;
spurious wake-ups are allowed at any time. An unnormalised time makes
`pthread_cond_timedwait` fail at once; the model lets any timed wait end with
an error at any time, which includes that. A failing `clock_gettime` leaves the
mutex locked for ever (`mutex = "lost"`). The error return of `pthread_cond_wait`
(`event1.c:68`) is left out: it comes only of a mutex that is not the caller's or
not initialised.

**LogBuffer.** A byte is its number in the stream of all bytes ever put, so
that a reading shows exactly which bytes are kept.

**Bitmap.** A byte is a set of bits. The search is given by its result: since
`j` is not reset, only the first byte that is not zero is really searched.

**SktcpServer.** One thread runs the handlers and makes all calls; the lock of
the server does not cover the handlers, so no other use is free of races.
Descriptors and addresses are used again. A read of freed memory by
`client_log` may end in `crashed`.

**SktcpClient.** User threads and the event loop interleave. Descriptors belong
to the whole program: the rest of it opens and closes its own. Registration of
the watcher before `tcp->fd` is set is a separate step. The handler reads
whatever `tcp->fd` is by then. If that is the standard input, or a number somebody
else has got since, the read need not return: the loop is then `"blocked"`, and
nothing promises that it goes on.

**LinuxList, LinuxHlist.** The heap is a function from cells to their links,
and every C function is an operator on it, assignment by assignment; deleted
entries are poisoned as in the code. Next to the links a sequence per head says
what the list should be, and every loop macro is evaluated in every state. The
loops that allow deletion are steps, with a body that deletes or keeps the
current entry. Links of hash chains point at slots (`first` of a bucket, `next`
of a node), as `pprev` does.

**Bitops, WordOps.** A word is a set of `WordBits` bits, so all word boundaries
occur in small bitmaps. Overhead bits of the last word keep what the code leaves
there. Shifts may have the same bitmap as source and destination. The functions on one
word are computed with the code's masks on every byte and on wider words made of
bytes.

**Efence.** Addresses are numbers, pages are `PageBytes` long. `arena` has the
slots, where their list is, and which pages are mapped and accessible. `mmap`
places a new chunk where it likes: at any of `ChunkPlaces` that is not taken, or
above everything, so below, between or above the earlier ones and next to them or
not. `seams` are the addresses where a chunk ends directly below memory mapped
before it: the surplus of the chunk is made a free slot without a look at its
neighbours (`efence.c:598`), so it is not joined there. A call is one step: it
holds the lock. `initialize` is the initial state, with every combination of
options. Callers free what they were given. A page holds at least four slots, and
the default alignment divides the page, as `sizeof(int)` and every power of two up
to the page do. Requests for zero bytes with `EF_PROTECT_BELOW` are left out: their
address is the next slot's. So are failures of `mmap` and `mprotect`, which end
the program. The surplus of a later chunk stays accessible until it is first
allocated, although `efence.c:11` says that free memory is inaccessible;
`FreedIsInaccessible` speaks of memory that was allocated and freed.

**Md5.** Bytes are numbered, and the compression of a block is abstracted to
appending its bytes, so a state tells which bytes were hashed in which order.
The block has 8 bytes and a count word a small modulus, so that the carry happens.
`MaxPiece` bounds the bytes of one call: below the range of a word where `size_t`
has 32 bits, above it where it is wider.

**Codecs.** CRC with its real table, for every byte and for short messages in
pieces; base 64 with real characters; Speck with words of two 2-bit bytes, where
every block is tried under three keys; hexadecimal digits in both cases.

**Protothread.** A thread's function is called again and goes on from the line
its continuation names; a step is one statement. Which operand of `&` comes
first is chosen at the start, as C leaves it to the build.

**CmockaMock.** A declaration is its number, which is also the value it returns.
The two-level symbol map is one function. `longjmp` is the stage `failed`, with
the lists as they are until `teardown_testing`. When an ignored call is alone in
the list and another function is called, `_function_called` reads through the
NULL value of the list's head; the exception handler turns that into a failure.
A custom check may fail an assertion, and a comparison of strings or memory may
follow a bad pointer: `check_value` is then left by `longjmp`, with the node
already out of its list and the check not yet freed (`cmocka.c:1537`). The count 0
is what the code makes of it: `_will_return` allocates and then fails its
assertion, `_expect_check` accepts it and `get_symbol_value` later takes it for no
value at all. `left_in` remembers the declaration that is lost in either way.

**CmockaRunner.** Functions of the program do anything: allocate, free, overrun,
leave expectations, fail, skip, raise a signal or return. Check points are block
numbers. A check point's block may be freed like any other; its memory may then be
handed out again, to a block that so becomes the check point (`reused`), and a
function that is asked from one that is still freed reads freed memory, which ends
in a signal or in `crashed` (`ReturnAstray`). `unfit` records the tests one of whose fixtures failed, independently
of their status. `global_expecting_assert` that outlives the function that set it is
`stale`, and a jump to it ends in `crashed`.

## Runs

| run | result | what it shows |
|---|---|---|
| `queue` | pass, 2460 states | in-bounds accesses, peeked bytes stable, room seen by the producer stays, implements `Fifo` |
| `queue_large` | violation of `PeekShowsStored` | with `size` above 32768 `head + num_items` overflows and a peek shows bytes that are not stored |
| `library` | pass, 68173 states | one part per behaviour. Log buffer: a reading is the last bytes put. Pool: every carved element is with one owner or on the freed list once, memory handed out exists, deinit frees all unless a `malloc` has failed. Electric Fence: slots tile the memory and are counted right, overruns and uses of freed memory meet a closed page. Lists, chains and bitmaps are sequences and sets; loops that delete visit everything; MD5 gets the whole message padded; checksum and codecs are right; the protothreads guard their buffer and end |
| `msg_pool_race` | violation of `OneMessagePerCell` | two senders to different activities get the same message cell |
| `activity` | pass, 210876 states | one thread per object, no lost wake-up, nothing accepted behind STOP, no leak or double free, a stop that joins alone has waited for its thread, implements `Mailbox`; accepted messages are handled and stops complete unless the manager goes first |
| `activity_fini` | violation of `FiniWaits` | `activity_manager_fini` returns with threads still at work, against `activity.h:74` |
| `event1` | pass, 5731 states | no missed post, `event_wait` delivers, nobody starves on bits that stay, timed waits end |
| `bitmap_foreach` | violation of `ForeachComplete` | the loop ends early, against `bitmap.h:50` |
| `sktcpserver` | pass, 2574 states | handlers get live contexts, handles lead to their own connection, fini cleans up |
| `sktcpserver_refuse` | violation of `RefusedIsClosed` | a refused client stays connected, against `sktcpserver.c:107` |
| `sktcpclient` | pass, 2712 states | only own descriptors are closed, connected means open, the end of a connection is noticed unless the loop blocks for ever on somebody else's descriptor |
| `cmocka` | pass, 3568125 states | expectations are used in order, passing means satisfied, declarations are freed but the one a failed test was left in; a test is an error exactly when a fixture of it failed, reports are true, leaks of passed tests are noticed unless a check point's memory was used again |

Bounds, and why they are enough:

* `queue`: `Size = 3`, `Modulus = 8`, blocks of up to 3 of two byte values. All
  positions of `head` and all fill levels occur, blocks that end before, at and
  past the end of the buffer, and refused ones. `queue_large` has `Size = 5` of
  `Modulus = 8`, the situation of a buffer above half of 2^16.
* `activity`: one object, two callers, two messages, one restart. The races are
  between callers and one thread; the objects share only the manager lock and
  the pools, and those are the subject of `MsgPool`; the theorems hold for any number of
  objects. Symmetry is not used,
  because it is not sound for liveness.
* `event1`: two threads and two bits, waits for all and any, with and without
  clearing and timeout: a waiter can take the bits away from another.
* `library`, log buffer: `Size = 5`, puts of up to 12, 60 bytes in total: from
  every `tail`, every length up to more than twice the memory. The theorem does
  not depend on the bounds. Pool: blocks of 2 and three blocks: the array of one
  block is doubled twice. Electric Fence: two live buffers of 0 or 3 bytes on
  pages of 2, chunks of 5 pages, 9 slots to a page of the list: the list moves,
  slots are split and joined on both sides. The first chunk is at page 6, and the
  second (`MaxMapped` allows two) directly below it or directly above it; that
  chunks lie apart, and any number of them, is in the theorems. Lists and chains: three entries and two heads, all lists that can
  be made of them. Bitmaps: two of 2, of 4 and of 5 bits in words of 2: a single word, a
  last word that is full and one that is not, with a word in the middle. MD5: 40 bytes in blocks of 8
  and count words up to 31.
  Messages of up to 4 bytes of 6 values. Five items through a buffer of two.
* `cmocka`: two functions and a parameter, three declarations with every kind of
  count, 0 included, checks that pass, fail and are left; three tests with both fixtures, none and a
  setup only, and three blocks.
* `bitmap_foreach`: two bytes of three bits, all contents, are enough for the
  loop to end early.
* `sktcpserver`: more connections (5) than descriptors (3) and addresses (2);
  both are used again and run out.
* `sktcpclient`: two users, two descriptors besides the standard input; one
  comes back while the other is in use, by the client or somebody else.

Deadlock is checked for `queue` and `sktcpclient`, whose operations
are always possible. The other systems may really stop: after
`activity_manager_fini`, in `crashed`, with the mutex lost, when a test, a group
or a thread has ended, or at a bound. The protothread program takes one possible
step after the other, so `DriverEnds`, which bounds the passes, says that it ends;
no fairness is needed for it.

Fairness. `Activity`: weak fairness of each activity thread, as the operating
system schedules every runnable thread; nothing is assumed of the callers, who
may stop between any two of their steps, and no timer need be
armed. What follows `activity_manager_fini` is excepted by the properties, since
the memory of the messages is gone. `Event1`: weak fairness
of each thread inside a wait, and strong fairness of the expiry of a timed
wait, since its deadline is absolute and being woken in between does not move
it; posts and spurious wake-ups are not promised. `SktcpClient`: weak fairness
of the event loop and of a thread that holds the lock, but none of the end of a
read that blocks: `EndIsNoticed` excepts a loop that stays there.

## Proofs

TLAPS 1.4.5 checks every leaf. The theorems hold for every value of the
constants that satisfies the assumptions named in the module that declares them;
TLC evaluates those assumptions in every run. A bound such as `MaxMsgs`,
`MaxConn` or `MaxMade` is any natural number in a theorem.

| module | theorem | property | for every |
|---|---|---|---|
| `QueueProofs` | `TypeCorrect` | `TypeOK` | `Size < Modulus` |
| | `RingInBounds`, `RingViewStable`, `RingRoom` | `InBounds`, `PeekedDataStable`, `RoomStillThere` | `2 * Size <= Modulus` |
| | `RingIsFifo` | `ImplementsFifo` | `2 * Size <= Modulus` |
| `LibraryProofs` | `KeepsLastBytes` | `LastBytes` | size, longest put and total |
| | `PoolSafe` | `PoolConserved` | block size and number of blocks |
| | `DigestOfMessage` | `MessageHashed` | block size above the length field, word of at least two blocks, message and calls of any length up to `WordSize` |
| | `ThreadsKeepBuffer` | `ThreadsRight` | number of items, size of the buffer; the bound on the passes for the producer called first |
| | `SlotsStayRight`, `OverrunIsTrapped`, `FreedStaysClosed` | `SlotsRight`, `OverrunTraps`, `FreedIsInaccessible` | page and chunk size, at least 4 slots to a page, default alignment that divides the page, placement of new memory, sizes and alignments asked (0 bytes only without `EF_PROTECT_BELOW`) |
| `ListProofs` | `ListsAreRight`, `SafeLoops` | `ListsRight`, `SafeLoopVisitsAll` | set of entries and heads |
| | `ChainsAreRight` | `ChainsRight` | set of nodes and buckets |
| `Event1Proofs` | `NoPostMissed`, `WaitSatisfied` | `NoMissedPost`, `WaitDelivers` | set of threads and of waits |
| `SktcpServerProofs` | `ServerWatchers`, `ServerHandles`, `ServerFini` | `WatchersLive`, `HandlesRight`, `FiniCleans` | set of descriptors, addresses and number of connections |
| `SktcpClientProofs` | `ClientConnected`, `ClientClosesOwn` | `ConnectedIsOpen`, `ClosesOwn` | set of users and number of descriptors |
| `ActivityProofs` | `OneWorker`, `WakeupNotLost`, `StopLast` | `AtMostOneWorker`, `NoLostWakeup`, `StopIsLast` | set of objects and callers, number of messages and restarts |
| | `StopHasWaited` | `StopWaits` | same |
| | `ObjectIsMailbox` | `ImplementsMailbox` | same |
| | `MemorySafe` | `MemoryConserved` | same |
| `CmockaProofs` | `UseIsInOrder`, `PassIsEarned`, `NothingLeftBehind` | `UsedInOrder`, `PassedIsSatisfied`, `DeclarationsFreed` | set of functions, parameters, checks and counts |
| | `ReportSafe`, `LeaksSafe` | `ReportIsTrue`, `LeaksAreNoticed` | sequence of tests, fixtures or none |

Hardly any of these properties is inductive. What was added, and why:

* **Queue.** `WrapInIndex` is the point of `TypeCorrect`: one conditional
  subtraction brings the sum of an index and a count back into the buffer even
  where it overflows the index type, because what an overflow leaves is less
  than `Size`. For the rest `2 * Size <= Modulus` is necessary; `queue_large`
  shows what happens without it. A store leaves the peeked bytes alone because
  they lie among the stored items, so `RingInv` adds that the view starts at
  `head`, is no longer than the stored items and does not wrap. `RingIsFifo`
  needs no more than `TypeOK`: `contents` is a window on the ring (`Ring`), and a
  lemma per operation says how the window moves.
* **LogBuffer.** `Cells` says which byte of the stream each cell holds, before
  and after the memory was filled for the first time. `PutStores` reduces a put
  of any length to the part that is stored; `PutKeepsCells` then distinguishes
  whether it reaches the end of the memory.
* **Event1.** With the shape of the state, which includes that only timed waits
  expire, the two properties are inductive. `GotoSafe` carries the argument:
  taking bits away never satisfies a sleeping thread, and going to sleep tests
  the bits in the same step. `NoMissedPost` is about both waits: in `event_wait`
  nobody sleeps with the bits there, in `event_timedwait` (`event1.c:113`) a thread
  may, but has noted the match and returns 0.
* **SktcpServer.** Connection numbers are used once (`NumbersUnique`) and each
  listed context has an open descriptor of its own (`ContextsApart`): without
  that, closing one client could take away the watcher of another that got
  the same descriptor.
* **SktcpClient.** Between the two halves of `sktcpclient_connect` the thread
  holds the lock and has a socket (`ConnectingIsOpen`); so whoever gets the lock
  finds either no connection or one that is open.
* **Activity.** `ActInv` ties `act->state` to everything else of an object: its
  queue, eventfd, loop flag and threads. In `RUN` the last thread serves a
  queue without STOP; in `PENDING_STOP` the STOP is at the end of the queue, in the
  thread's hands, or done and the thread on its way out; in `STOP` the last thread
  has ended and the queue is empty, except between `pthread_create` and the
  write of the state, while the manager lock is held (`Starting`, `LockHeld`).
  Threads before the last have ended, which with `JoinsInv` makes a join on a
  later thread harmless: `StopWaits` holds of every join that is not shared, since
  one that is may fail at once. The refinement of `Mailbox` follows from the same
  invariant, one lemma per action. `Mem` is separate: message identities are
  distinct, and each copy, item and cell is counted for its one owner, until the
  manager frees them all. The refinement and the other invariants need no
  exception for that: after it the threads do only what touches no message.
* **Pool.** Without a failed `malloc` the blocks have no gap and reach to
  `p->block` (`NoGap`); before the first block nothing is left to carve.
* **LinuxList.** `ListInv` reads the links as rings: `next` of each cell of a
  head's ring is the cell behind it and `prev` the one before it, rings of
  different heads share no cell (`Apart`), and a head that was deleted or
  moved away is empty. A lemma per C function says which links its
  assignments leave; the reading of a list as a sequence, forwards and
  backwards, follows by induction along the ring. For the loops that delete,
  `LoopInv` adds that the cursor read in advance stands at the rest of the list
  still to be visited.
* **LinuxHlist.** `HlistInv` says for each place of a chain what its slot holds
  and that its node's `pprev` is that slot; nodes in no chain are loose: their
  `pprev` is empty or poisoned and no slot leads to them.
* **Md5.** `CtxOk` says that what was hashed and what the buffer holds make up
  the message so far, that whole blocks were hashed, and that the two words are
  the quotient and the remainder of their number (`CountAdds`: a carry
  happens exactly when the low word comes out less than what was added, if that
  is at most `WordSize`). The theorem says so of `MaxPiece`: a `size_t` wider
  than `md5_uint32` would let one call bring more bytes than that, of which the
  double word increment keeps the low word and at most one carry, and the
  length in the padding would be wrong. For the stream the same holds but for the stream's own buffer, which is never full between reads.
* **Protothread.** Where a worker's next call goes on decides what its counter
  may be (`Places`); a semaphore and the one a worker holds make up the room or
  the items (`Semaphores`); the items follow each other up to the last number
  and from 0 again, because a worker that is called after its end starts over
  (`Items`). `ProducerFirst` is the arithmetic of passes for the build that ends.
* **Efence.** `EfInv` says of the arena (`ArenaOk`) that the slots in use lie on
  mapped pages, apart from each other, that no two neighbours wait to be joined but
  at a seam, and that the empty ones are counted (`Tiled`); that the pages of a buffer
  in use are open exactly where it is live (`Fenced`); and that one slot describes
  the list itself (`Listed`). The three properties need more than their sum:
  `free` finds its slot by the user address alone, so that address must lie in its
  own slot and nowhere else; a dead page must be mapped, or a new chunk, which is
  put on pages that are not, would open it; and growing the list, which itself takes up to two slots,
  must find them. That last is the counter's bound `unUsed >= 2`: it is kept since a list
  that is not low has 7, an allocation takes at most two, and a list that is low gains
  a page of slots first, which pays for both allocations if a page holds four. What each
  call does is one relation between the arenas before and after
  it (`Given` an allocation, `Freed` a release, `More` a longer list, `Got`
  memalign, `Gone` free), and the actions follow from these. The default alignment
  must divide the page for `FreedIsInaccessible`: the list is allocated
  with it, and if its size were rounded up to more than its pages, the page in excess
  would be opened with the list and not closed with it.
* **CmockaMock.** `Listed` relates the three lists to the declarations: a list
  holds exactly those not used up, in order, each with the count that its uses have
  left (`ListOf`, `Counted`), and `left_in` is empty while the test runs. `InOrder` is `UsedInOrder` for the counters
  alone. What `remove_always_return_values_from_list` keeps is a recursive function,
  about which `KeptProperties` is proved by induction.
* **CmockaRunner.** `ReportInv` says for each test what its status may be before,
  during and after its turn (`StatusOf`), and that `global_skip_test` is up only
  after a fixture has called `skip()`. `LeakInv` says that the list of blocks is in order of
  allocation, so that the blocks after a check point are those with a greater
  number; that check points are numbers of blocks made so far, in the list or not
  (`Points`); and for each block of the present test, unless the test was handed
  a check point's memory, on which side of the check points it lies (`OriginOf`).

Induction. The library's induction theorems take an operator as a parameter,
which the provers cannot instantiate. `CmockaProofs!SetInduction` states
induction for a set instead, from `NatLessThanWellFounded` and `WFMin`, and serves
the recursive functions of that module; `ListProofs` uses the same device along
the rings and the chains, and `LibraryProofs` for the least slot of a set.

Only model-checked: all liveness (`AcceptedIsHandled`, `StopCompletes`,
`NotStarved`, `TimedReturns`, `EndIsNoticed`), which is outside this prover's
reach; and `Bitops`, `WordOps` and `Codecs`, whose
operators fold over words, bits and bytes: what they return is compared with a
reference for bounded inputs, and its proof for all inputs would be an induction
over data for every one of them.

## Not modelled

* `sktcpserver_send` from threads other than the loop's, and calls from the
  disconnect callback: the handlers take no lock, so these are data races.
  libuev batches that still hold an event of a watcher stopped by an earlier
  handler of the same batch.
* `activity_msg_send` of `ACTIVITY_MSG_STOP` by the program itself.
* Return values of `write` in `logbuffer_gets_to_fd`; `buf_size` of
  `logbuffer_gets`, which the code ignores; an unchecked `malloc` in
  `logbuffer_init`.
* `event_destroy`, and waits with neither AND nor OR.
* Electric Fence: output, the contents of buffers, the aborts of wrong programs,
  failures of `mmap` and `mprotect`, zero bytes with `EF_PROTECT_BELOW`,
  and `initialize` called by two threads at once, outside the lock.
* MD5's 64 steps on a block, and allocation failures of `b64.c`.
* Protothreads: `PT_SPAWN`, `PT_RESTART`, `PT_EXIT`, `PT_YIELD`,
  `PT_YIELD_UNTIL`, which nothing in the repository uses, and `graham-pt.h`,
  which nothing includes.
* cmocka: the output in all its formats, the assert macros, a group with entries
  that have no name or no function, and the deprecated runners.
* `asc2bcd` and `bcd2asc` beyond 255 bytes, where their `uint8_t` counters wrap
  and the loops do not end; `remove_recursive` and `check_file_exists`.
* `io_probe.h`, `g_systick.c`, `log.c`, `syscmd.c`, `getch.h`, `sys_tickclk.h`,
  `split_string.hpp`, `app_type.h`, `event.h`, `libcpu`, `stacktrace.cxx`:
  wrappers, output and declarations without state of interest.

## Plan

Done, in this order: `Queue` with `Fifo`, `Pool`, `Activity` with `Mailbox`,
`MsgPool`, `Event1`, `LogBuffer`, `Bitmap`, `SktcpServer`, `SktcpClient`; then the
lists, `Bitops` and `WordOps`, `Md5`, `Codecs`, `Efence`, the two halves of cmocka
and `Protothread`; then the proofs above.

Left to model: `SktcpServer` with sender threads (which of the properties survive,
and the disconnect callback that sends while the lock is held); `Activity` with a STOP sent by the
program; the deprecated runners of cmocka; the scheduler of
`graham-pt.h`.

Left to prove: single bits and ranges of `Bitops` against sets.
