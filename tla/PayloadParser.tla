---------------------------- MODULE PayloadParser ----------------------------
(****************************************************************************)
(* The payload parser (utilities/payload_parser.c) on what PayloadBuilder   *)
(* built, sent buffer by buffer.  The empty handler, if there is one, loads *)
(* the next buffer when that holds as many bytes as are needed.             *)
(*                                                                          *)
(* The reader may call anything, in any order.  It trusts what it reads as  *)
(* long as it can tell that it is at the right place: it asks for the kinds *)
(* that were written, ok is set, a buffer is as long as it asked for, and a *)
(* string leaves a place free in its target.  Skipping past the end is the  *)
(* one thing it must not do: pp_skip does not look.                         *)
(****************************************************************************)
EXTENDS PayloadBuilder

CONSTANTS
  Lengths,   \* target sizes given to pp_string and pp_buf, and counts to pp_skip
  MaxReads   \* bound on the reads

ASSUME ParserAssumption == Lengths \subseteq Nat /\ MaxReads \in Nat

VARIABLES
  parsing,   \* FALSE while the payload is built
  loaded,    \* number of the buffer the parser is on
  position,  \* current - start
  pp_ok,     \* ok of the parser
  reads,     \* reads so far
  trusting,  \* history: the reader can tell that it is at the right place
  got        \* history: the fields it read and trusted, but for rewound ones

ppVars == <<parsing, loaded, position, pp_ok, reads, trusting, got>>
vars == <<pbVars, ppVars>>

Init ==
  /\ PbInit
  /\ parsing = FALSE /\ loaded = 1 /\ position = 0 /\ pp_ok = TRUE
  /\ reads = 0 /\ trusting = TRUE /\ got = << >>

-----------------------------------------------------------------------------
\* pp_length, and the bytes it counts.
Rest == SubSeq(Buffers[loaded], position + 1, Len(Buffers[loaded]))

\* pp_check_capacity: the handler is asked whenever there is less than is needed.
Short(needed) == position + needed > Len(Buffers[loaded])
PpHelped(needed) ==
  /\ Short(needed) /\ handler
  /\ loaded < Len(Buffers) /\ needed <= Len(Buffers[loaded + 1])
Enough(needed) == pp_ok /\ (Short(needed) => PpHelped(needed))

\* Where reading goes on after the check.
Source(needed) ==
  IF PpHelped(needed) THEN [loaded |-> loaded + 1, position |-> 0, bytes |-> Buffers[loaded + 1]]
                    ELSE [loaded |-> loaded, position |-> position, bytes |-> Rest]

\* The reader asks for the kind of the next field.
ExpectsKind(kind) ==
  trusting /\ Len(got) < Len(written) /\ written[Len(got) + 1].kind = kind

\* n bytes of src are read; if the reader trusts it, they are field f.
Took(src, n, trusted, f) ==
  /\ loaded' = src.loaded /\ position' = src.position + n
  /\ trusting' = trusted
  /\ got' = IF trusted THEN Append(got, f) ELSE got

-----------------------------------------------------------------------------
\* Broken variant of NumberRead: always the first byte first.
NumberRead_BigOnly(big, s) ==
  LET sum[i \in 0 .. Len(s)] == IF i = 0 THEN 0 ELSE sum[i - 1] * ByteBase + s[i]
  IN  sum[Len(s)]

\* The number that bytes s are, the most significant first if big.
NumberRead(big, s) ==
  LET at(i) == s[i] * Values(IF big THEN Len(s) - i ELSE i - 1)
  IN  CASE Len(s) = 1 -> at(1)
        [] Len(s) = 2 -> at(1) + at(2)
        [] Len(s) = 4 -> at(1) + at(2) + at(3) + at(4)

\* The unions of type_coerce.h: bits read as a signed number.
Coerced(kind, x) ==
  LET values == Values(Width(kind))
  IN  CASE kind = "bool" -> x # 0
        [] kind \in {"i8", "i16", "i32"} -> IF x >= values \div 2 THEN x - values ELSE x
        [] OTHER -> x

\* pp_u8, pp_i16, pp_float and the rest; 0 when there are not enough bytes.
PpNumber(kind) ==
  LET n == Width(kind)
      src == Source(n)
      value == Coerced(kind, NumberRead(bigendian, SubSeq(src.bytes, 1, n)))
  IN  /\ pp_ok' = Enough(n)
      /\ \/ /\ Enough(n)
            /\ Took(src, n, ExpectsKind(kind), [kind |-> kind, value |-> value])
         \/ /\ ~Enough(n)
            /\ Took(src, 0, FALSE, [kind |-> kind, value |-> 0])

\* Bytes pp_string consumes of s: up to a 0, with it, or the end, or until the target
\* has room for nothing but a terminator.
StringEnd(s, maxlen) ==
  LET stops(i) == i = Len(s) \/ i = maxlen - 1 \/ (i > 0 /\ s[i] = 0)
  IN  CHOOSE i \in 0 .. Len(s) : stops(i) /\ \A j \in 0 .. i - 1 : ~stops(j)

\* Broken variant of PpString: the terminator is put back.
PpString_KeepsZero(maxlen) ==
  LET src == Source(1)
      n == StringEnd(src.bytes, maxlen)
      len == IF n > 0 /\ src.bytes[n] = 0 THEN n - 1 ELSE n
  IN  /\ pp_ok' = Enough(1)
      /\ Took(src, len, Enough(1) /\ len < maxlen - 1 /\ ExpectsKind("string"),
              [kind |-> "string", value |-> SubSeq(src.bytes, 1, len)])

\* pp_string.  It reads on after a failure; a string that fills its target leaves its
\* terminator unread.
PpString(maxlen) ==
  LET src == Source(1)
      n == StringEnd(src.bytes, maxlen)
      len == IF n > 0 /\ src.bytes[n] = 0 THEN n - 1 ELSE n
  IN  /\ pp_ok' = Enough(1)
      /\ Took(src, n, Enough(1) /\ len < maxlen - 1 /\ ExpectsKind("string"),
              [kind |-> "string", value |-> SubSeq(src.bytes, 1, len)])

\* pp_buf.  It has no use for the handler, and reads on after a failure too.
PpBuf(maxlen) ==
  LET n == IF Len(Rest) < maxlen THEN Len(Rest) ELSE maxlen
      f == [kind |-> "buf", value |-> SubSeq(Rest, 1, n)]
      asked == ExpectsKind("buf") /\ Len(written[Len(got) + 1].value) = maxlen
  IN  /\ Took(Source(0), n, pp_ok /\ n = maxlen /\ asked, f)
      /\ UNCHANGED pp_ok

\* pp_skip, over the next field or anywhere inside the buffer.
PpSkip(num) ==
  /\ num <= Len(Rest)
  /\ LET next == written[Len(got) + 1]
         over == /\ trusting /\ Len(got) < FieldsTo(loaded)
                 /\ num = Len(FieldBytes(bigendian, next))
     IN  Took(Source(0), num, over, next)
  /\ UNCHANGED pp_ok

\* pp_tail: the rest of the buffer, which stays unread; the last field can be read so.
PpTail ==
  /\ LET last == /\ trusting /\ pp_ok /\ ~handler
                 /\ ExpectsKind("buf") /\ Len(got) + 1 = Len(written)
         f == [kind |-> "buf", value |-> IF pp_ok THEN Rest ELSE << >>]
     IN  got' = IF last THEN Append(got, f) ELSE got
  /\ trusting' = FALSE
  /\ UNCHANGED <<loaded, position, pp_ok>>

\* pp_rewind: the reader is back at the first field of the buffer, if ok is still set.
PpRewind ==
  /\ position' = 0
  /\ got' = SubSeq(written, 1, marks[loaded])
  /\ trusting' = pp_ok
  /\ UNCHANGED <<loaded, pp_ok>>

Read ==
  \/ \E kind \in Kinds \ {"string", "buf"} : PpNumber(kind)
  \/ \E n \in Lengths \ {0} : PpString(n)
  \/ \E n \in Lengths : PpBuf(n) \/ PpSkip(n)
  \/ PpTail
  \/ PpRewind

-----------------------------------------------------------------------------
Next ==
  \/ ~parsing /\ PbNext /\ UNCHANGED ppVars
  \/ ~parsing /\ parsing' = TRUE /\ UNCHANGED <<pbVars, loaded, position, pp_ok, reads, trusting, got>>
  \/ /\ parsing /\ reads < MaxReads /\ reads' = reads + 1
     /\ Read
     /\ UNCHANGED <<pbVars, parsing>>

Spec == Init /\ [][Next]_vars

-----------------------------------------------------------------------------
TypeOK ==
  /\ PbTypeOK
  /\ {parsing, pp_ok, trusting} \subseteq BOOLEAN
  /\ loaded \in DOMAIN Buffers
  /\ position \in 0 .. Len(Buffers[loaded])
  /\ reads \in 0 .. MaxReads

(* Whatever a reader trusts is what was written, in both byte orders, across  *)
(* buffers, and whatever it read before it started a buffer again.            *)
ReadsBack == Len(got) <= Len(written) /\ got = SubSeq(written, 1, Len(got))

(* A reader that trusts its place has the fields it has not read yet before   *)
(* it, from the first byte of the next one on.                                *)
AtTheNextField ==
  trusting => Rest = FieldsBytes(bigendian, SubSeq(written, Len(got) + 1, FieldsTo(loaded)))
=============================================================================
