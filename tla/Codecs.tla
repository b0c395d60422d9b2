------------------------------- MODULE Codecs -------------------------------
(***************************************************************************)
(* The checksum of crc.c, the base 64 of b64.c, the cipher of speck.c and  *)
(* the hexadecimal digits of app_utils.c, as operators on a message that   *)
(* grows byte by byte.  Characters are their ASCII codes.                  *)
(***************************************************************************)
EXTENDS Integers, Sequences, SequencesExt
LOCAL INSTANCE Bitwise

CONSTANTS ByteValues,  \* the bytes a message is made of
          MaxLength,   \* bound: bytes of a message
          SpeckBits,   \* bits of a byte of the cipher, 8 in the code
          SpeckRot,    \* the two rotations, <<8, 3>> in the code
          Rounds,      \* SPECK64_96_NROUNDS
          SpeckKeys    \* the keys the cipher is checked with

VARIABLES message,  \* the bytes so far
          crc,      \* their checksum, updated piece by piece
          byte      \* the byte the table and the words are looked at for

codecVars == <<message, crc, byte>>
-----------------------------------------------------------------------------
crc_table == <<
  \h0000, \h1021, \h2042, \h3063, \h4084, \h50a5, \h60c6, \h70e7,
  \h8108, \h9129, \ha14a, \hb16b, \hc18c, \hd1ad, \he1ce, \hf1ef,
  \h1231, \h0210, \h3273, \h2252, \h52b5, \h4294, \h72f7, \h62d6,
  \h9339, \h8318, \hb37b, \ha35a, \hd3bd, \hc39c, \hf3ff, \he3de,
  \h2462, \h3443, \h0420, \h1401, \h64e6, \h74c7, \h44a4, \h5485,
  \ha56a, \hb54b, \h8528, \h9509, \he5ee, \hf5cf, \hc5ac, \hd58d,
  \h3653, \h2672, \h1611, \h0630, \h76d7, \h66f6, \h5695, \h46b4,
  \hb75b, \ha77a, \h9719, \h8738, \hf7df, \he7fe, \hd79d, \hc7bc,
  \h48c4, \h58e5, \h6886, \h78a7, \h0840, \h1861, \h2802, \h3823,
  \hc9cc, \hd9ed, \he98e, \hf9af, \h8948, \h9969, \ha90a, \hb92b,
  \h5af5, \h4ad4, \h7ab7, \h6a96, \h1a71, \h0a50, \h3a33, \h2a12,
  \hdbfd, \hcbdc, \hfbbf, \heb9e, \h9b79, \h8b58, \hbb3b, \hab1a,
  \h6ca6, \h7c87, \h4ce4, \h5cc5, \h2c22, \h3c03, \h0c60, \h1c41,
  \hedae, \hfd8f, \hcdec, \hddcd, \had2a, \hbd0b, \h8d68, \h9d49,
  \h7e97, \h6eb6, \h5ed5, \h4ef4, \h3e13, \h2e32, \h1e51, \h0e70,
  \hff9f, \hefbe, \hdfdd, \hcffc, \hbf1b, \haf3a, \h9f59, \h8f78,
  \h9188, \h81a9, \hb1ca, \ha1eb, \hd10c, \hc12d, \hf14e, \he16f,
  \h1080, \h00a1, \h30c2, \h20e3, \h5004, \h4025, \h7046, \h6067,
  \h83b9, \h9398, \ha3fb, \hb3da, \hc33d, \hd31c, \he37f, \hf35e,
  \h02b1, \h1290, \h22f3, \h32d2, \h4235, \h5214, \h6277, \h7256,
  \hb5ea, \ha5cb, \h95a8, \h8589, \hf56e, \he54f, \hd52c, \hc50d,
  \h34e2, \h24c3, \h14a0, \h0481, \h7466, \h6447, \h5424, \h4405,
  \ha7db, \hb7fa, \h8799, \h97b8, \he75f, \hf77e, \hc71d, \hd73c,
  \h26d3, \h36f2, \h0691, \h16b0, \h6657, \h7676, \h4615, \h5634,
  \hd94c, \hc96d, \hf90e, \he92f, \h99c8, \h89e9, \hb98a, \ha9ab,
  \h5844, \h4865, \h7806, \h6827, \h18c0, \h08e1, \h3882, \h28a3,
  \hcb7d, \hdb5c, \heb3f, \hfb1e, \h8bf9, \h9bd8, \habbb, \hbb9a,
  \h4a75, \h5a54, \h6a37, \h7a16, \h0af1, \h1ad0, \h2ab3, \h3a92,
  \hfd2e, \hed0f, \hdd6c, \hcd4d, \hbdaa, \had8b, \h9de8, \h8dc9,
  \h7c26, \h6c07, \h5c64, \h4c45, \h3ca2, \h2c83, \h1ce0, \h0cc1,
  \hef1f, \hff3e, \hcf5d, \hdf7c, \haf9b, \hbfba, \h8fd9, \h9ff8,
  \h6e17, \h7e36, \h4e55, \h5e74, \h2e93, \h3eb2, \h0ed1, \h1ef0
>>

(* One byte: the high byte of the checksum selects the row with it.        *)
CrcStep(c, b) == ((c % 256) * 256) ^^ crc_table[((c \div 256) ^^ b) + 1]

crc_16bits_compute(s) == FoldLeft(CrcStep, 0, s)

crc_16bits_update(init, s) == FoldLeft(CrcStep, init, s)

(* Reference: the remainder modulo x^16 + x^12 + x^5 + 1, bit by bit.      *)
Remainder(s) ==
  LET Double(c) == IF c >= 32768 THEN ((c - 32768) * 2) ^^ \h1021 ELSE c * 2
      Byte(c, b) == FoldLeft(LAMBDA d, i : Double(d), c ^^ (b * 256), <<1, 2, 3, 4, 5, 6, 7, 8>>)
  IN  FoldLeft(Byte, 0, s)
-----------------------------------------------------------------------------
(* b64_table: A-Z, a-z, 0-9, + and /.                                      *)
b64_table(v) ==
  CASE v < 26 -> 65 + v
    [] v \in 26..51 -> 97 + v - 26
    [] v \in 52..61 -> 48 + v - 52
    [] v = 62 -> 43
    [] OTHER -> 47

At(s, i) == IF i <= Len(s) THEN s[i] ELSE 0      \* missing bytes are zero

(* Up to three bytes give one character more than there are bytes, and =   *)
(* for each byte that is missing.                                          *)
EncodeGroup(t) ==
  LET v == <<At(t, 1) \div 4, (At(t, 1) % 4) * 16 + At(t, 2) \div 16,
             (At(t, 2) % 16) * 4 + At(t, 3) \div 64, At(t, 3) % 64>>
  IN  [i \in 1..4 |-> IF i <= Len(t) + 1 THEN b64_table(v[i]) ELSE 61]

(* s cut into groups of n, the last one shorter when s does not divide.    *)
Groups(s, n) ==
  [g \in 1 .. (Len(s) + n - 1) \div n |->
     SubSeq(s, (g-1)*n + 1, IF g*n < Len(s) THEN g*n ELSE Len(s))]

b64_encode(s) == FlattenSeq([g \in DOMAIN Groups(s, 3) |-> EncodeGroup(Groups(s, 3)[g])])

IsBase64(c) == c \in (65..90) \union (97..122) \union (48..57) \union {43, 47}

(* Translating a character back; what is not in the table stays as it is.  *)
Value(c) == IF IsBase64(c) THEN CHOOSE v \in 0..63 : b64_table(v) = c ELSE c

(* Slip: the padding is decoded as well.                                   *)
DecodeGroup_all(t) ==
  LET v == [i \in 1..4 |-> Value(At(t, i))]
  IN  <<v[1]*4 + v[2] \div 16, (v[2] % 16) * 16 + v[3] \div 4, (v[3] % 4) * 64 + v[4]>>

DecodeGroup(t) ==
  LET v == [i \in 1..4 |-> Value(At(t, i))]
      b == <<v[1]*4 + v[2] \div 16, (v[2] % 16) * 16 + v[3] \div 4, (v[3] % 4) * 64 + v[4]>>
  IN  SubSeq(b, 1, Len(t) - 1)

(* Decoding stops at = or at any other character.  A lone character at the *)
(* start reallocates the result to 0 bytes, which frees it: NULL.          *)
b64_decode_ex(s) ==
  LET stops == {i \in DOMAIN s : ~IsBase64(s[i])}
      body == IF stops = {} THEN s ELSE SubSeq(s, 1, Min(stops) - 1)
      gs == Groups(body, 4)
  IN  IF Len(body) = 1 THEN "NULL"
      ELSE FlattenSeq([g \in DOMAIN gs |-> DecodeGroup(gs[g])])
-----------------------------------------------------------------------------
(* A word is SpeckWord bytes of SpeckBits bits, the lowest byte first.     *)
SpeckWord == 2
SpeckByte == 2^SpeckBits
WordMod == SpeckByte^SpeckWord

rol(w, n) == ((w * 2^n) % WordMod) + ((w * 2^n) \div WordMod)
ror(w, n) == rol(w, SpeckBits * SpeckWord - n)

get_unaligned_le32(p) == p[1] + p[2] * SpeckByte
put_unaligned_le32(v) == <<v % SpeckByte, v \div SpeckByte>>

speck64_round(x, y, k) ==
  LET x1 == ((ror(x, SpeckRot[1]) + y) % WordMod) ^^ k
  IN  <<x1, rol(y, SpeckRot[2]) ^^ x1>>

speck64_unround(x, y, k) ==
  LET y1 == ror(y ^^ x, SpeckRot[2])
  IN  <<rol(((x ^^ k) - y1) % WordMod, SpeckRot[1]), y1>>

(* The key schedule runs the round on the two upper words by turns.        *)
crypto_speck64_setkey(key) ==
  LET Word(i) == get_unaligned_le32(SubSeq(key, 2*i + 1, 2*i + 2))
      s[i \in 0..Rounds] ==
        IF i = 0 THEN [k |-> Word(0), l |-> <<Word(1), Word(2)>>]
        ELSE LET j == 1 + ((i - 1) % 2)
                 r == speck64_round(s[i-1].l[j], s[i-1].k, i - 1)
             IN  [k |-> r[2], l |-> [s[i-1].l EXCEPT ![j] = r[1]]]
  IN  [i \in 1..Rounds |-> s[i-1].k]

crypto_speck64_cal(round_keys, is_encrypt, in) ==
  LET start == <<get_unaligned_le32(SubSeq(in, 3, 4)), get_unaligned_le32(SubSeq(in, 1, 2))>>
      end == IF is_encrypt
             THEN FoldLeft(LAMBDA b, k : speck64_round(b[1], b[2], k), start, round_keys)
             ELSE FoldLeft(LAMBDA b, k : speck64_unround(b[1], b[2], k), start, Reverse(round_keys))
  IN  put_unaligned_le32(end[2]) \o put_unaligned_le32(end[1])
-----------------------------------------------------------------------------
IsDigit(a) == a \in (65..90) \union (48..57) \union (97..122)
Digit(a) == CASE a \in 65..90 -> 10 + a - 65 [] a \in 48..57 -> a - 48 [] OTHER -> 10 + a - 97

(* One byte from two characters.  A character that is neither a letter nor *)
(* a digit leaves its part of c, which the byte before has set.            *)
DigitPair(c, a, b) ==
  LET c1 == IF IsDigit(a) THEN (Digit(a) * 16) % 256 ELSE c
  IN  IF IsDigit(b) THEN c1 | Digit(b) ELSE c1

asc2bcd(asc) ==
  LET c[i \in 0 .. Len(asc) \div 2] ==
        IF i = 0 THEN 0 ELSE DigitPair(c[i-1], asc[2*i - 1], asc[2*i])
  IN  [i \in 1 .. Len(asc) \div 2 |-> c[i]]

bcd2ascii(v) == IF v < 10 THEN 48 + v ELSE 97 + v - 10

bcd2asc(bcd) ==
  [i \in 1 .. 2 * Len(bcd) |->
     LET b == bcd[(i + 1) \div 2] IN bcd2ascii(IF i % 2 = 1 THEN b \div 16 ELSE b % 16)]

(* A digit string written by other means may use upper case letters.       *)
UpperCase(asc) == [i \in DOMAIN asc |-> IF asc[i] >= 97 THEN asc[i] - 32 ELSE asc[i]]
-----------------------------------------------------------------------------
CodecInit == message = <<>> /\ crc = 0 /\ byte = 0

(* A piece of one or two bytes arrives.                                    *)
Receive(s) ==
  /\ Len(message) + Len(s) <= MaxLength
  /\ message' = message \o s
  /\ crc' = crc_16bits_update(crc, s)
  /\ byte' = 0

StartAgain == message # <<>> /\ message' = <<>> /\ crc' = 0 /\ byte' = 0

(* Every byte in turn, alone.                                              *)
NextByte == message = <<>> /\ byte < 255 /\ byte' = byte + 1 /\ UNCHANGED <<message, crc>>

CodecNext ==
  \/ \E a, b \in ByteValues : Receive(<<a>>) \/ Receive(<<a, b>>)
  \/ StartAgain \/ NextByte
-----------------------------------------------------------------------------
(* The checksum of a message given in any pieces is the checksum of the    *)
(* whole, and both are the remainder the polynomial defines; every row of  *)
(* the table is right.                                                     *)
ChecksumIsRemainder ==
  /\ crc = crc_16bits_compute(message) /\ crc = Remainder(message)
  /\ crc_16bits_compute(<<byte>>) = Remainder(<<byte>>)

(* Decoding what was encoded gives the message back, for each of the three *)
(* lengths a last group may have; the text is whole groups of four.        *)
Base64RoundTrip ==
  /\ b64_decode_ex(b64_encode(message)) = message
  /\ Len(b64_encode(message)) = 4 * ((Len(message) + 2) \div 3)

(* Deciphering is the inverse of enciphering under every key, for blocks   *)
(* read and written byte by byte.                                          *)
CipherInverts ==
  Len(message) = 4 =>
    LET block == [i \in 1..4 |-> message[i] % SpeckByte] IN
    \A key \in SpeckKeys :
      LET rk == crypto_speck64_setkey(key)
      IN  crypto_speck64_cal(rk, FALSE, crypto_speck64_cal(rk, TRUE, block)) = block

(* Reading the digits of a message, in either case, gives the message.     *)
HexRoundTrip ==
  /\ asc2bcd(bcd2asc(message)) = message
  /\ asc2bcd(UpperCase(bcd2asc(message))) = message
=============================================================================
