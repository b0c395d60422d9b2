-------------------------------- MODULE Md5 --------------------------------
(***************************************************************************)
(* The buffering, counting and padding of md5.c.  A message is fed in      *)
(* pieces of any length (md5_process_bytes) or read from a stream in       *)
(* pieces of any length (md5_stream); its bytes are numbered, so what is   *)
(* hashed tells which bytes, and in which order.  The 64 rounds over one   *)
(* block are abstracted to appending the block to `hashed'.                *)
(***************************************************************************)
EXTENDS Integers, Sequences

CONSTANTS Block,      \* bytes of a block, 64 in the code
          WordSize,   \* a word of the byte count holds 0..WordSize-1, 2^32 in the code
          MaxPiece,   \* the most bytes of one call: below WordSize for a 32-bit size_t
          MaxFed      \* bound: bytes of a message

VARIABLES hashed,  \* the bytes of the blocks that went through the rounds
          count,   \* ctx->total: <<low word, high word>>
          buf,     \* ctx->buffer[0 .. buflen-1]
          fed,     \* history: bytes given so far
          sbuf,    \* md5_stream's buffer[0 .. sum-1]
          mode     \* who feeds: "bytes", "stream"; "done"; "failed"

md5Vars == <<hashed, count, buf, fed, sbuf, mode>>

LenBytes == 2            \* the length field: the low and the high word

ASSUME Md5Assumption ==
  /\ Block \in Nat /\ Block > LenBytes
  /\ WordSize \in Nat /\ WordSize >= 2 * Block
  /\ MaxPiece \in Nat /\ MaxFed \in Nat

BLOCKSIZE == 2 * Block   \* what md5_stream reads at a time

ctx == [hashed |-> hashed, count |-> count, buf |-> buf]
Bytes(from, to) == [i \in 1 .. to - from + 1 |-> <<"byte", from + i - 1>>]
Drop(s, n) == SubSeq(s, n + 1, Len(s))
WholeBlocks(n) == (n \div Block) * Block     \* n & ~63

(* The double word increment by len.                                       *)
Count(t, len) ==
  LET lo == (t[1] + len) % WordSize
  IN  <<lo, IF lo < len THEN t[2] + 1 ELSE t[2]>>

md5_process_block(c, s) ==
  [c EXCEPT !.hashed = @ \o s, !.count = Count(@, Len(s))]

(* The first part of md5_process_bytes: fill the buffer, and hash what it  *)
(* holds when that is more than one block.  A buffer of exactly one block  *)
(* waits.  The second component is the input that is left.                 *)
AddToBuffer(c, s) ==
  LET left_over == Len(c.buf)
      add == IF 2*Block - left_over > Len(s) THEN Len(s) ELSE 2*Block - left_over
      b == c.buf \o SubSeq(s, 1, add)
  IN  <<IF left_over + add > Block
        THEN [md5_process_block(c, SubSeq(b, 1, WholeBlocks(Len(b)))) EXCEPT !.buf = Drop(b, WholeBlocks(Len(b)))]
        ELSE [c EXCEPT !.buf = b],
        Drop(s, add)>>

md5_process_bytes(c0, s0) ==
  LET step == IF c0.buf # <<>> THEN AddToBuffer(c0, s0) ELSE <<c0, s0>>
      c1 == step[1]  s1 == step[2]
      n == IF Len(s1) > Block THEN WholeBlocks(Len(s1)) ELSE 0
      c2 == IF n > 0 THEN md5_process_block(c1, SubSeq(s1, 1, n)) ELSE c1
      s2 == Drop(s1, n)
  IN  IF s2 # <<>> THEN [c2 EXCEPT !.buf = s2] ELSE c2

(* Slip: no room is made for the length when it no longer fits.            *)
PadLength_tight(bytes) ==
  IF bytes > Block - LenBytes THEN Block + Block - LenBytes - bytes
  ELSE Block - LenBytes - bytes

PadLength(bytes) ==
  IF bytes >= Block - LenBytes THEN Block + Block - LenBytes - bytes
  ELSE Block - LenBytes - bytes

(* The length in bits: a shift by 3 of the two words.                      *)
md5_finish_ctx(c) ==
  LET t == Count(c.count, Len(c.buf))
      pad == [i \in 1 .. PadLength(Len(c.buf)) |-> IF i = 1 THEN <<"0x80">> ELSE <<"0">>]
      lo == (t[1] * 8) % WordSize
      hi == (t[2] * 8 + (t[1] * 8) \div WordSize) % WordSize
  IN  md5_process_block([c EXCEPT !.count = t], c.buf \o pad \o <<<<"lo", lo>>, <<"hi", hi>>>>)

SetCtx(c) == hashed' = c.hashed /\ count' = c.count /\ buf' = c.buf

(* md5_init_ctx.                                                           *)
Md5Init ==
  /\ hashed = <<>> /\ count = <<0, 0>> /\ buf = <<>>
  /\ fed = 0 /\ sbuf = <<>>
  /\ mode \in {"bytes", "stream"}

Feed(n) ==
  /\ mode = "bytes" /\ n <= MaxPiece /\ fed + n <= MaxFed
  /\ SetCtx(md5_process_bytes(ctx, Bytes(fed + 1, fed + n)))
  /\ fed' = fed + n
  /\ UNCHANGED <<sbuf, mode>>

FinishMessage ==
  /\ mode = "bytes"
  /\ SetCtx(md5_finish_ctx(ctx))
  /\ mode' = "done"
  /\ UNCHANGED <<fed, sbuf>>

(* One fread of md5_stream that returns n bytes.  A full buffer is hashed  *)
(* at once, which is right only because BLOCKSIZE is whole blocks.         *)
StreamRead(n) ==
  LET b == sbuf \o Bytes(fed + 1, fed + n) IN
  /\ mode = "stream" /\ fed + n <= MaxFed
  /\ n \in 1 .. BLOCKSIZE - Len(sbuf)
  /\ fed' = fed + n
  /\ IF Len(b) = BLOCKSIZE THEN SetCtx(md5_process_block(ctx, b)) /\ sbuf' = <<>>
     ELSE UNCHANGED <<hashed, count, buf>> /\ sbuf' = b
  /\ UNCHANGED mode

(* fread returns 0: the end of the file, or an error.                      *)
StreamEnd ==
  /\ mode = "stream"
  /\ \/ /\ SetCtx(md5_finish_ctx(IF sbuf # <<>> THEN md5_process_bytes(ctx, sbuf) ELSE ctx))
        /\ mode' = "done"
     \/ UNCHANGED <<hashed, count, buf>> /\ mode' = "failed"
  /\ UNCHANGED <<fed, sbuf>>

(* The context is initialised for the next message.                        *)
NextMessage ==
  /\ mode \in {"done", "failed"}
  /\ hashed' = <<>> /\ count' = <<0, 0>> /\ buf' = <<>>
  /\ fed' = 0 /\ sbuf' = <<>>
  /\ mode' \in {"bytes", "stream"}

Md5Next ==
  \/ \E n \in 0 .. MaxFed : Feed(n) \/ StreamRead(n)
  \/ FinishMessage \/ StreamEnd \/ NextMessage

Md5Spec == Md5Init /\ [][Md5Next]_md5Vars
-----------------------------------------------------------------------------
(* However a message is cut into calls or reads, what is hashed is the     *)
(* message padded as RFC 1321 says: one 0x80, the fewest zeros that make   *)
(* the whole a number of blocks, and the length in bits of two words, also *)
(* when the low word of the byte count has overflowed.                     *)
PaddedMessageHashed ==
  mode = "done" =>
    LET n == Len(hashed)
        zeros == n - fed - 1 - LenBytes
    IN  /\ n % Block = 0
        /\ zeros \in 0 .. Block - 1
        /\ hashed = Bytes(1, fed) \o <<<<"0x80">>>> \o [i \in 1..zeros |-> <<"0">>]
                    \o <<<<"lo", (8*fed) % WordSize>>, <<"hi", ((8*fed) \div WordSize) % WordSize>>>>

(* Before the end no byte is lost, repeated or out of place between what   *)
(* was hashed and what waits in the buffers, and the context never keeps   *)
(* more than the one block md5_finish_ctx has room to pad.                 *)
NothingLost ==
  mode \in {"bytes", "stream"} =>
    /\ hashed \o buf \o sbuf = Bytes(1, fed)
    /\ Len(buf) <= Block

(* A message reaches the hash function whole, in order and padded.         *)
MessageHashed == PaddedMessageHashed /\ NothingLost
=============================================================================
