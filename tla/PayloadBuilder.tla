---------------------------- MODULE PayloadBuilder ----------------------------
(****************************************************************************)
(* The payload builder (utilities/payload_builder.c): fields written one    *)
(* after the other into a buffer, with a handler for when it is full.       *)
(*                                                                          *)
(* The handler is the user's: either there is none, or it does what the     *)
(* header suggests, sends the buffer off and starts it again, if that makes *)
(* enough room.  A byte has ByteBase values, 256 in the program.            *)
(****************************************************************************)
EXTENDS Integers, Sequences

CONSTANTS
  ByteBase,   \* number of values of a byte
  Capacity,   \* size of the buffer
  Fields,     \* the fields users write
  MaxFields   \* bound on the fields written

ASSUME BuilderAssumption ==
  /\ ByteBase \in Nat \ {0, 1} /\ ByteBase % 2 = 0
  /\ {Capacity, MaxFields} \subseteq Nat

VARIABLES
  bigendian,  \* byte order of numbers, the same for builder and parser
  handler,    \* TRUE when the full and empty handlers are there
  built,      \* the bytes from start to current
  pb_ok,      \* ok of the builder
  flushed,    \* the buffers that the full handler sent off
  tried,      \* history: the fields given to the builder, but for rewound ones
  written,    \* history: the fields it took
  marks       \* history: how many fields were taken before each buffer began

pbVars == <<bigendian, handler, built, pb_ok, flushed, tried, written, marks>>

Byte == 0 .. ByteBase - 1

-----------------------------------------------------------------------------
(* What fields look like in the buffer.                                      *)

Kinds == {"u8", "i8", "bool", "u16", "i16", "u32", "i32", "float", "string", "buf"}
Width(kind) ==
  CASE kind \in {"u8", "i8", "bool"} -> 1
    [] kind \in {"u16", "i16"} -> 2
    [] kind \in {"u32", "i32", "float"} -> 4

\* How many numbers n bytes can hold.
Values(n) ==
  CASE n = 0 -> 1
    [] n = 1 -> ByteBase
    [] n = 2 -> ByteBase * ByteBase
    [] n = 3 -> ByteBase * ByteBase * ByteBase
    [] n = 4 -> ByteBase * ByteBase * ByteBase * ByteBase

\* What a field of a kind can hold: its C type, and strings end at their first 0.
FieldValues(kind) ==
  LET values == Values(Width(kind))
  IN  CASE kind = "string" -> Seq(Byte \ {0})
        [] kind = "buf" -> Seq(Byte)
        [] kind = "bool" -> BOOLEAN
        [] kind \in {"i8", "i16", "i32"} -> -(values \div 2) .. values \div 2 - 1
        [] OTHER -> 0 .. values - 1

ASSUME FieldsAssumption ==
  \A f \in Fields : \E kind \in Kinds : f \in [kind : {kind}, value : FieldValues(kind)]

\* The bytes of a number, the most significant first if big; a negative one has the two's
\* complement's, and a float is the number that its bits are.
NumberBytes(big, x, n) ==
  [i \in 1 .. n |-> (x \div Values(IF big THEN n - i ELSE i - 1)) % ByteBase]

FieldBytes(big, f) ==
  CASE f.kind = "string" -> Append(f.value, 0)
    [] f.kind = "buf" -> f.value
    [] f.kind = "bool" -> NumberBytes(big, IF f.value THEN 1 ELSE 0, 1)
    [] OTHER -> NumberBytes(big, f.value, Width(f.kind))

\* Fields one after the other.
FieldsBytes(big, fs) ==
  LET bytes[i \in 0 .. Len(fs)] == IF i = 0 THEN << >> ELSE bytes[i - 1] \o FieldBytes(big, fs[i])
  IN  bytes[Len(fs)]

-----------------------------------------------------------------------------
PbInit ==  \* pb_start
  /\ bigendian \in BOOLEAN /\ handler \in BOOLEAN
  /\ built = << >> /\ pb_ok = TRUE
  /\ flushed = << >>
  /\ tried = << >> /\ written = << >> /\ marks = <<0>>

\* Broken variant of Full: one byte too many passes.
Full_OffByOne(n) == Len(built) + n > Capacity + 1

\* pb_check_capacity: n bytes do not fit, and the handler is asked, after an earlier
\* failure too.
Full(n) == Len(built) + n > Capacity
Helped(n) == Full(n) /\ handler /\ n <= Capacity
Fits(n) == Full(n) => Helped(n)

\* Room for n bytes is made, then bytes s are written; f was written if it is taken.
PbPut(f, n, s, taken) ==
  /\ pb_ok' = (pb_ok /\ Fits(n))
  /\ flushed' = IF Helped(n) THEN Append(flushed, built) ELSE flushed
  /\ marks' = IF Helped(n) THEN Append(marks, Len(written)) ELSE marks
  /\ built' = (IF Helped(n) THEN << >> ELSE built) \o s
  /\ written' = IF taken THEN Append(written, f) ELSE written
  /\ tried' = Append(tried, f)
  /\ UNCHANGED <<bigendian, handler>>

\* Broken variant of PbWrite: a field that fits is written although one before was not.
PbWrite_AfterFailure(f) ==
  LET s == FieldBytes(bigendian, f)
  IN  PbPut(f, Len(s), IF Fits(Len(s)) THEN s ELSE << >>, Fits(Len(s)))

\* Broken variant of PbWrite: the bytes there is room for are written anyway.
PbWrite_Partly(f) ==
  LET s == FieldBytes(bigendian, f)
      good == pb_ok /\ Fits(Len(s))
  IN  PbPut(f, Len(s), IF Fits(Len(s)) THEN s ELSE SubSeq(s, 1, Capacity - Len(built)), good)

\* pb_u8, pb_string, pb_buf and the rest.  Once it is cleared ok is never set again.
PbWrite(f) ==
  LET s == FieldBytes(bigendian, f)
      good == pb_ok /\ Fits(Len(s))
  IN  PbPut(f, Len(s), IF good THEN s ELSE << >>, good)

\* pb_rewind: the fields in the buffer are forgotten, a failure is not.
PbRewind ==
  LET kept == marks[Len(marks)]
  IN  /\ built # << >>
      /\ built' = << >>
      /\ written' = SubSeq(written, 1, kept)
      /\ tried' = SubSeq(tried, 1, kept)
      /\ UNCHANGED <<bigendian, handler, pb_ok, flushed, marks>>

PbNext ==
  \/ /\ Len(tried) < MaxFields
     /\ \E f \in Fields : PbWrite(f)
  \/ PbRewind

-----------------------------------------------------------------------------
\* The buffers, the one being filled last, and the number of fields before the end
\* of each.
Buffers == Append(flushed, built)
FieldsTo(c) == IF c = Len(marks) THEN Len(written) ELSE marks[c + 1]

PbTypeOK ==
  /\ {bigendian, handler, pb_ok} \subseteq BOOLEAN
  /\ \A c \in DOMAIN Buffers : Buffers[c] \in Seq(Byte) /\ Len(Buffers[c]) <= Capacity
  /\ {tried, written} \subseteq Seq(Fields)
  /\ marks \in Seq(Nat) /\ Len(marks) = Len(flushed) + 1

(* A field is in one buffer, whole, or nowhere: a field that did not fit      *)
(* leaves nothing behind, and a handler that sends the buffer off does not    *)
(* cut one in two.                                                            *)
FieldsWhole ==
  \A c \in DOMAIN Buffers :
    Buffers[c] = FieldsBytes(bigendian, SubSeq(written, marks[c] + 1, FieldsTo(c)))

(* The payload is the fields the user wrote up to the first that did not fit, *)
(* and none after it, even if there is room for a smaller one or the buffer   *)
(* is started again; with ok still set it is all of them.                     *)
WrittenIsPrefix ==
  /\ Len(written) <= Len(tried)
  /\ written = SubSeq(tried, 1, Len(written))
  /\ pb_ok => written = tried
=============================================================================
