------------------------------- MODULE TFFrame -------------------------------
(****************************************************************************)
(* The TinyFrame wire format (TinyFrame.c, TF_Config.example.h): the frame  *)
(* both sides agree on, apart from how either side produces or collects it. *)
(*                                                                          *)
(*   [SOF] ID LEN TYPE [HEAD_CKSUM] [DATA [DATA_CKSUM]]                     *)
(*                                                                          *)
(* A multi-byte field is an unsigned integer sent most significant byte     *)
(* first.  It is represented by its register: the tuple of its bytes, the   *)
(* most significant one first.  A byte is a number below ByteBase, which is *)
(* 256 in the program and smaller in the instances TLC checks.              *)
(****************************************************************************)
EXTENDS Integers, Sequences

CONSTANTS
  ByteBase,           \* number of values of a byte
  TF_ID_BYTES,        \* width of the frame ID field, in bytes
  TF_LEN_BYTES,       \* width of the payload length field
  TF_TYPE_BYTES,      \* width of the frame type field
  TF_CKSUM_BYTES,     \* width of a checksum
  TF_CKSUM_NONE,      \* TRUE when TF_CKSUM_TYPE is TF_CKSUM_NONE
  TF_USE_SOF_BYTE,    \* TRUE when frames start with a start-of-frame byte
  TF_SOF_BYTE,        \* that byte
  TF_CksumStart,      \* checksum of nothing
  TF_CksumAdd(_, _),  \* checksum extended by a byte
  TF_CksumEnd(_)      \* checksum as it is sent

Byte == 0 .. ByteBase - 1

\* A field of n bytes, and how many numbers it can hold.
Register(n) == [1 .. n -> Byte]
Values(n) ==
  CASE n = 1 -> ByteBase
    [] n = 2 -> ByteBase * ByteBase
    [] n = 3 -> ByteBase * ByteBase * ByteBase
    [] n = 4 -> ByteBase * ByteBase * ByteBase * ByteBase

\* The range of TF_LEN, the type of the length field.
LenRange == Values(TF_LEN_BYTES)

Cksum == Register(TF_CKSUM_BYTES)

\* The widths the configuration accepts (1, 2 or 4 bytes; #error otherwise) and
\* the types of the checksum functions.  A field's bytes are counted in a
\* variable of the type of the length field (rxi), which must have room.
ASSUME FormatAssumption ==
  /\ ByteBase \in Nat \ {0, 1}
  /\ {TF_ID_BYTES, TF_LEN_BYTES, TF_TYPE_BYTES, TF_CKSUM_BYTES} \subseteq {1, 2, 4}
  /\ \A n \in {TF_ID_BYTES, TF_LEN_BYTES, TF_TYPE_BYTES, TF_CKSUM_BYTES} : n < LenRange
  /\ {TF_CKSUM_NONE, TF_USE_SOF_BYTE} \subseteq BOOLEAN
  /\ TF_SOF_BYTE \in Byte
  /\ TF_CksumStart \in Cksum
  /\ \A k \in Cksum : TF_CksumEnd(k) \in Cksum
  /\ \A k \in Cksum, b \in Byte : TF_CksumAdd(k, b) \in Cksum

-----------------------------------------------------------------------------
\* The number a register holds.
Value(r) ==
  CASE Len(r) = 1 -> r[1]
    [] Len(r) = 2 -> r[1] * ByteBase + r[2]
    [] Len(r) = 4 -> ((r[1] * ByteBase + r[2]) * ByteBase + r[3]) * ByteBase + r[4]

\* The register of n bytes that holds x, truncated to the width (WRITENUM).
BigEndian(n, x) ==
  [i \in 1 .. n |-> IF i = n THEN x % ByteBase ELSE (x \div Values(n - i)) % ByteBase]

Zero(n) == [i \in 1 .. n |-> 0]

\* Shifting a byte into a register (COLLECT_NUMBER); its width does not grow.
ShiftIn(r, c) == Append(Tail(r), c)

\* The checksum k extended by the bytes s; over a part of a frame it starts from
\* TF_CksumStart.
CksumFrom(k, s) ==
  LET run[i \in 0 .. Len(s)] == IF i = 0 THEN k ELSE TF_CksumAdd(run[i - 1], s[i])
  IN  run[Len(s)]
CksumOver(s) == CksumFrom(TF_CksumStart, s)

\* The checksum of s as it appears on the wire: no bytes at all without checksums.
CksumField(s) == IF TF_CKSUM_NONE THEN << >> ELSE TF_CksumEnd(CksumOver(s))

-----------------------------------------------------------------------------
\* A message.  The payload is a sequence of bytes of the length the len field holds.
Message ==
  {m \in [frame_id : Register(TF_ID_BYTES), type : Register(TF_TYPE_BYTES),
          len : Register(TF_LEN_BYTES), data : Seq(Byte)] :
     Len(m.data) = Value(m.len)}

SofField == IF TF_USE_SOF_BYTE THEN <<TF_SOF_BYTE>> ELSE << >>

\* What the header checksum covers, and the header with it.
HeadBytes(m) == SofField \o m.frame_id \o m.len \o m.type
FrameHead(m) == HeadBytes(m) \o CksumField(HeadBytes(m))

\* The bytes of a frame: one with no payload ends with its header.
FrameBody(m) == IF m.data = << >> THEN << >> ELSE m.data \o CksumField(m.data)
Encode(m) == FrameHead(m) \o FrameBody(m)
=============================================================================
