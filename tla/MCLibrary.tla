----------------------------- MODULE MCLibrary -----------------------------
(***************************************************************************)
(* The passive parts of the library on one run: the log buffer, the        *)
(* element pool, Electric Fence, the linked lists, the bit operations, the *)
(* digest, the codecs and the protothreads.  None of them calls another,   *)
(* so a behaviour exercises one part, which it chooses at the start, and   *)
(* the state of the others stays at one initial value.                     *)
(***************************************************************************)
EXTENDS LogBuffer, Pool, Efence, LinuxList, LinuxHlist, Bitops, WordOps, Md5, Codecs,
        Protothread

VARIABLE part  \* the part this behaviour is about

Keys == {<<1, 0, 2, 3, 3, 1>>, <<0, 0, 0, 0, 0, 0>>, <<3, 3, 2, 1, 0, 2>>}
Rotations == <<3, 1>>

(* Parts with more than one initial state start in one of them only when   *)
(* the behaviour is about them.                                            *)
LibraryInit ==
  /\ part \in {"logbuffer", "pool", "efence", "list", "hlist", "bitops", "md5", "codecs",
              "threads"}
  /\ Init /\ PoolInit /\ EfenceInit /\ ListInit /\ HlistInit /\ BitopsInit /\ Md5Init /\ CodecInit
  /\ ProtothreadInit
  /\ part = "efence" \/ env = [below |-> FALSE, protect |-> FALSE, zero |-> FALSE]
  /\ part = "bitops" \/ (nbits = Min(Sizes) /\ \A d \in DOMAIN bits : bits[d] = {})
  /\ part = "md5" \/ mode = "bytes"
  /\ part = "threads" \/ left = "producer"

LibraryNext ==
  \/ /\ part = "logbuffer" /\ Next
     /\ UNCHANGED <<part, poolVars, efenceVars, listVars, hlistVars, bitopsVars, md5Vars, codecVars, ptVars>>
  \/ /\ part = "pool" /\ PoolNext
     /\ UNCHANGED <<part, vars, efenceVars, listVars, hlistVars, bitopsVars, md5Vars, codecVars, ptVars>>
  \/ /\ part = "efence" /\ EfenceNext
     /\ UNCHANGED <<part, vars, poolVars, listVars, hlistVars, bitopsVars, md5Vars, codecVars, ptVars>>
  \/ /\ part = "list" /\ ListNext
     /\ UNCHANGED <<part, vars, poolVars, efenceVars, hlistVars, bitopsVars, md5Vars, codecVars, ptVars>>
  \/ /\ part = "hlist" /\ HlistNext
     /\ UNCHANGED <<part, vars, poolVars, efenceVars, listVars, bitopsVars, md5Vars, codecVars, ptVars>>
  \/ /\ part = "bitops" /\ BitopsNext
     /\ UNCHANGED <<part, vars, poolVars, efenceVars, listVars, hlistVars, md5Vars, codecVars, ptVars>>
  \/ /\ part = "md5" /\ Md5Next
     /\ UNCHANGED <<part, vars, poolVars, efenceVars, listVars, hlistVars, bitopsVars, codecVars, ptVars>>
  \/ /\ part = "codecs" /\ CodecNext
     /\ UNCHANGED <<part, vars, poolVars, efenceVars, listVars, hlistVars, bitopsVars, md5Vars, ptVars>>
  \/ /\ part = "threads" /\ ProtothreadNext
     /\ UNCHANGED <<part, vars, poolVars, efenceVars, listVars, hlistVars, bitopsVars, md5Vars, codecVars>>

libraryVars == <<part, vars, poolVars, efenceVars, listVars, hlistVars, bitopsVars, md5Vars, codecVars, ptVars>>

LibrarySpec == LibraryInit /\ [][LibraryNext]_libraryVars

-----------------------------------------------------------------------------
(* What each part promises, which the other parts' behaviours cannot touch.*)

(* A bitmap is a set, for the calls that change it and those that ask; and *)
(* the operations on one word agree with what they compute, on each byte   *)
(* in turn and on wider words made of it.                                  *)
BitsRight ==
  /\ part = "bitops" => BitmapsAreSets /\ BitmapTestsRight
  /\ part = "codecs" => WordOpsRight(byte)

(* The checksum is the remainder the polynomial defines, and what is       *)
(* encoded in base 64, enciphered or written in hexadecimal is read back   *)
(* as it was.                                                              *)
CodecsRight ==
  part = "codecs" => ChecksumIsRemainder /\ Base64RoundTrip /\ CipherInverts /\ HexRoundTrip
=============================================================================
