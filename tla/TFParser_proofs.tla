--------------------------- MODULE TFParser_proofs ----------------------------
(****************************************************************************)
(* Proofs about the parser, for every format, checksum function, buffer     *)
(* size and timeout, and every sequence of bytes, resets and ticks.         *)
(****************************************************************************)
EXTENDS TFParserHistory, TFFrame_proofs

-----------------------------------------------------------------------------
(* Arithmetic of the field counter.                                         *)

LEMMA ModSmall ==
  ASSUME NEW n \in Nat \ {0}, NEW a \in 0 .. n - 1
  PROVE  a % n = a
OBVIOUS

LEMMA Widths ==
  /\ LenRange \in Nat \ {0}
  /\ {TF_ID_BYTES, TF_LEN_BYTES, TF_TYPE_BYTES, TF_CKSUM_BYTES}
       \subseteq {n \in Nat \ {0} : n < LenRange}
BY FormatAssumption, ValuesType DEF LenRange

LEMMA LengthType ==
  ASSUME TypeOK
  PROVE  Value(len) \in 0 .. LenRange - 1
<1>1. TF_LEN_BYTES \in {1, 2, 4} /\ len \in Register(TF_LEN_BYTES)
  BY FormatAssumption DEF TypeOK
<1> QED
  BY <1>1, ValueType DEF LenRange

LEMMA ReceivedType ==
  ASSUME TypeOK
  PROVE  Received \in 0 .. LenRange - 1
<1>1. (IF BeginsUnmarked THEN 0 ELSE rxi) + 1 \in Nat /\ LenRange \in Nat \ {0}
  BY Widths DEF TypeOK
<1> QED
  BY <1>1, ModRange DEF Received

-----------------------------------------------------------------------------
(* Type correctness.  data keeps its type only because what the parser       *)
(* overwrites is a prefix of what it stored, and a message is one only       *)
(* because what was announced was stored by then: both are part of the       *)
(* invariant.                                                                *)

PartStored == state = "DATA" /\ ~discard_data => rxi <= Len(data)
AllStored == state = "DATA_CKSUM" /\ ~discard_data => Value(len) <= Len(data)
NoCksums == TF_CKSUM_NONE => ~discard_data /\ state \notin {"HEAD_CKSUM", "DATA_CKSUM"}
Stored == PartStored /\ AllStored /\ NoCksums
TypeInv == TypeOK /\ Stored

LEMMA InitType == Init => TypeInv
<1> SUFFICES ASSUME Init PROVE TypeInv
  OBVIOUS
<1> USE DEF Init, ParserInit
<1>1. /\ id \in Register(TF_ID_BYTES) /\ len \in Register(TF_LEN_BYTES)
      /\ type \in Register(TF_TYPE_BYTES)
      /\ cksum \in Cksum /\ ref_cksum \in Cksum
  BY ZeroType, Widths DEF Cksum
<1>2. data \in Seq(Byte) /\ received \in Seq(Byte) /\ burst \in Seq(Byte)
  BY EmptySeq
<1>3. rxi \in 0 .. LenRange - 1
  BY Widths
<1>4. /\ parser_timeout_ticks \in 0 .. TF_PARSER_TIMEOUT_TICKS
      /\ idle \in 0 .. TF_PARSER_TIMEOUT_TICKS
  BY ParserAssumption
<1> QED
  BY <1>1, <1>2, <1>3, <1>4
  DEF TypeInv, TypeOK, Stored, PartStored, AllStored, NoCksums, States

(* The fields of the frame, which accepting a byte may change.               *)
FieldsOK ==
  /\ state \in States
  /\ id \in Register(TF_ID_BYTES) /\ len \in Register(TF_LEN_BYTES)
  /\ type \in Register(TF_TYPE_BYTES)
  /\ data \in Seq(Byte)
  /\ rxi \in 0 .. LenRange - 1
  /\ cksum \in Cksum /\ ref_cksum \in Cksum
  /\ discard_data \in BOOLEAN

\* A byte that is stored follows those stored before it, and Received counts it
\* or has wrapped to less.
LEMMA DataStored ==
  ASSUME TypeInv, NEW c \in Byte, CollectData(c)
  PROVE  /\ state = "DATA" /\ Received <= rxi + 1
         /\ ~discard_data => data' \in Seq(Byte) /\ Len(data') = rxi + 1
<1> USE DEF TypeInv, TypeOK
<1>1. Received \in 0 .. LenRange - 1
  BY ReceivedType
<1>2. state = "DATA" /\ Received = (rxi + 1) % LenRange
  BY DEF CollectData, Phase, Received, BeginsUnmarked
<1>3. Received <= rxi + 1
  <2>1. CASE rxi + 1 <= LenRange - 1
    BY <1>2, <2>1, Widths, ModSmall
  <2>2. CASE rxi + 1 = LenRange
    BY <1>1, <2>2, Widths
  <2> QED
    BY <2>1, <2>2, Widths
<1>4. ASSUME ~discard_data
      PROVE  data' \in Seq(Byte) /\ Len(data') = rxi + 1
  <2>1. rxi <= Len(data)
    BY <1>2, <1>4 DEF Stored, PartStored
  <2>2. SubSeq(data, 1, rxi) \in Seq(Byte) /\ Len(SubSeq(data, 1, rxi)) = rxi
    BY <2>1, SubSeqProperties, ElementOfSeq, LenProperties
  <2>3. data' = Append(SubSeq(data, 1, rxi), c)
    BY <1>4 DEF CollectData
  <2>4. ASSUME NEW s \in Seq(Byte), Len(s) = rxi
        PROVE  Append(s, c) \in Seq(Byte) /\ Len(Append(s, c)) = rxi + 1
    BY <2>4, AppendProperties
  <2> QED
    BY <2>2, <2>3, <2>4, Zenon
<1> QED
  BY <1>2, <1>3, <1>4

LEMMA AcceptFields ==
  ASSUME TypeInv, NEW c \in Byte, TF_AcceptChar(c)
  PROVE  FieldsOK' /\ PartStored'
<1> USE DEF TypeInv, TypeOK
<1> DEFINE R == Received
<1>r. R \in 0 .. LenRange - 1 /\ 0 \in 0 .. LenRange - 1
  BY ReceivedType, Widths
<1>k. /\ TF_CksumStart \in Cksum /\ TF_CksumEnd(cksum) \in Cksum
      /\ \A b \in Byte : TF_CksumAdd(cksum, b) \in Cksum /\ TF_CksumAdd(TF_CksumStart, b) \in Cksum
      /\ TF_SOF_BYTE \in Byte
      /\ Zero(TF_CKSUM_BYTES) \in Cksum
      /\ ShiftIn(ref_cksum, c) \in Cksum
  BY FormatAssumption, ZeroType, Widths, ShiftInType DEF Cksum
<1>s. /\ ShiftIn(id, c) \in Register(TF_ID_BYTES)
      /\ ShiftIn(len, c) \in Register(TF_LEN_BYTES)
      /\ ShiftIn(type, c) \in Register(TF_TYPE_BYTES)
  BY Widths, ShiftInType
<1>z. 0 <= Len(data)
  BY LenProperties
<1>f. ASSUME NEW w, NEW n \in States, FieldByte(w, n), Phase \in States
      PROVE  state' \in States /\ rxi' \in 0 .. LenRange - 1
  BY <1>f, <1>r DEF FieldByte
<1>p. Phase \in States
  BY DEF Phase, States
<1>1. CASE AwaitSof(c)
  BY <1>1, <1>r, <1>k DEF AwaitSof, FieldsOK, PartStored, States
<1>2. CASE CollectId(c)
  <2>1. state' \in States /\ rxi' \in 0 .. LenRange - 1 /\ state' # "DATA"
    BY <1>2, <1>f, <1>p DEF CollectId, States, FieldByte
  <2> QED
    BY <2>1, <1>2, <1>k, <1>s DEF CollectId, FieldsOK, PartStored
<1>3. CASE CollectLen(c)
  <2>1. state' \in States /\ rxi' \in 0 .. LenRange - 1 /\ state' # "DATA"
    BY <1>3, <1>f, <1>p DEF CollectLen, States, FieldByte
  <2> QED
    BY <2>1, <1>3, <1>k, <1>s DEF CollectLen, FieldsOK, PartStored
<1>4. CASE CollectType(c)
  <2>1. state' \in States /\ rxi' \in 0 .. LenRange - 1 /\ (state' = "DATA" => rxi' = 0)
    BY <1>4, <1>f, <1>p DEF CollectType, States, FieldByte
  <2> QED
    BY <2>1, <1>4, <1>k, <1>s, <1>z DEF CollectType, FieldsOK, PartStored
<1>5. CASE CollectHeadCksum(c)
  BY <1>5, <1>r, <1>k, <1>z
  DEF CollectHeadCksum, HeadCksumWrong, HeadOnlyFrame, EnterData, FieldsOK, PartStored, States
<1>6. CASE CollectData(c)
  <2>1. state = "DATA" /\ R <= rxi + 1
    BY <1>6, DataStored
  <2>2. ~discard_data => data' \in Seq(Byte) /\ Len(data') = rxi + 1
    BY <1>6, DataStored
  <2> QED
    BY <2>1, <2>2, <1>6, <1>r, <1>k DEF CollectData, FieldsOK, PartStored, States
<1>7. CASE CollectDataCksum(c)
  BY <1>7, <1>r, <1>k DEF CollectDataCksum, FieldsOK, PartStored, States
<1> QED
  BY <1>1, <1>2, <1>3, <1>4, <1>5, <1>6, <1>7 DEF TF_AcceptChar

LEMMA AcceptStored ==
  ASSUME TypeInv, NEW c \in Byte, TF_AcceptChar(c)
  PROVE  AllStored' /\ NoCksums'
<1>0. Phase \in {state, "SOF", "ID"}
  BY DEF Phase
<1>1. CASE AwaitSof(c)
  BY <1>1 DEF AwaitSof, TypeInv, Stored, AllStored, NoCksums
<1>2. CASE CollectId(c) \/ CollectLen(c) \/ CollectType(c)
  <2>1. /\ state' # "DATA_CKSUM" /\ (state' = "HEAD_CKSUM" => ~TF_CKSUM_NONE)
        /\ discard_data' => discard_data
    BY <1>2 DEF CollectId, CollectLen, CollectType, FieldByte, TypeInv, TypeOK
  <2> QED
    BY <2>1 DEF TypeInv, Stored, AllStored, NoCksums
<1>3. CASE CollectHeadCksum(c)
  <2>1. ~TF_CKSUM_NONE /\ state' # "DATA_CKSUM"
    BY <1>0, <1>3
    DEF CollectHeadCksum, HeadCksumWrong, HeadOnlyFrame, EnterData, TypeInv, Stored, NoCksums
  <2> QED
    BY <2>1 DEF AllStored, NoCksums
<1>4. CASE CollectData(c)
  <2>1. discard_data' = discard_data /\ len' = len /\ state' # "HEAD_CKSUM"
        /\ (state' = "DATA_CKSUM" => ~TF_CKSUM_NONE /\ Received = Value(len))
    BY <1>4 DEF CollectData
  <2>2. ASSUME state' = "DATA_CKSUM", ~discard_data
        PROVE  Value(len) <= Len(data')
    BY <1>4, <2>1, <2>2, DataStored
  <2> QED
    BY <2>1, <2>2 DEF TypeInv, Stored, AllStored, NoCksums
<1>5. CASE CollectDataCksum(c)
  <2>1. state = "DATA_CKSUM" /\ UNCHANGED <<len, data, discard_data>>
    BY <1>0, <1>5 DEF CollectDataCksum
  <2> QED
    BY <2>1 DEF TypeInv, Stored, AllStored, NoCksums
<1> QED
  BY <1>1, <1>2, <1>3, <1>4, <1>5 DEF TF_AcceptChar

\* What is handed on is a message: its payload has the length its header says.
LEMMA MessageStored ==
  ASSUME TypeInv, NEW d \in Seq(Byte), Value(len) <= Len(d)
  PROVE  MessageWith(d) \in Message
<1> DEFINE n == Value(len)
           m == MessageWith(d)
<1>1. n \in Nat /\ n <= Len(d)
  BY LengthType, Widths DEF TypeInv
<1> HIDE DEF n
<1>2. SubSeq(d, 1, n) \in Seq(Byte) /\ Len(SubSeq(d, 1, n)) = n
  BY <1>1, SubSeqProperties, ElementOfSeq, LenProperties
<1>3. /\ m.frame_id = id /\ m.type = type /\ m.len = len /\ m.data = SubSeq(d, 1, n)
      /\ m = [frame_id |-> id, type |-> type, len |-> len, data |-> SubSeq(d, 1, n)]
  BY DEF MessageWith, n
<1> HIDE DEF m
<1>4. Len(m.data) = Value(m.len)
  BY <1>2, <1>3 DEF n
<1>5. m \in [frame_id : Register(TF_ID_BYTES), type : Register(TF_TYPE_BYTES),
             len : Register(TF_LEN_BYTES), data : Seq(Byte)]
  BY <1>2, <1>3 DEF TypeInv, TypeOK
<1>6. m \in Message
  BY <1>4, <1>5 DEF Message
<1> QED
  BY <1>6 DEF m

LEMMA AcceptHandsOn ==
  ASSUME TypeInv, NEW c \in Byte, TF_AcceptChar(c)
  PROVE  handled' \in Message \cup {NoMsg}
<1>1. CASE AwaitSof(c) \/ CollectId(c) \/ CollectLen(c) \/ CollectType(c)
  BY <1>1 DEF AwaitSof, CollectId, CollectLen, CollectType
<1>2. CASE CollectHeadCksum(c)
  <2>1. Value(len) = 0 => MessageWith(data) \in Message
    BY MessageStored, LenProperties DEF TypeInv, TypeOK
  <2> QED
    BY <1>2, <2>1 DEF CollectHeadCksum, HeadCksumWrong, HeadOnlyFrame, EnterData
<1>3. CASE CollectData(c)
  <2>1. TF_CKSUM_NONE /\ Received = Value(len) => MessageWith(data') \in Message
    <3> SUFFICES ASSUME TF_CKSUM_NONE, Received = Value(len)
                 PROVE  MessageWith(data') \in Message
      OBVIOUS
    <3>1. data' \in Seq(Byte) /\ Value(len) <= Len(data')
      BY <1>3, DataStored DEF TypeInv, Stored, NoCksums
    <3> QED
      BY <3>1, MessageStored
  <2> QED
    BY <1>3, <2>1 DEF CollectData
<1>4. CASE CollectDataCksum(c)
  <2>1. state = "DATA_CKSUM"
    BY <1>4 DEF CollectDataCksum, Phase
  <2>2. ~discard_data => MessageWith(data) \in Message
    BY <2>1, MessageStored DEF TypeInv, Stored, AllStored, TypeOK
  <2> QED
    BY <1>4, <2>2 DEF CollectDataCksum
<1> QED
  BY <1>1, <1>2, <1>3, <1>4 DEF TF_AcceptChar

LEMMA OnLineType ==
  ASSUME burst \in Seq(Byte), NEW c \in Byte
  PROVE  OnLine(c) \in Seq(Byte)
BY EmptySeq, AppendProperties DEF OnLine

LEMMA NextType == TypeInv /\ [Next]_vars => TypeInv'
<1> SUFFICES ASSUME TypeInv, [Next]_vars PROVE TypeInv'
  OBVIOUS
<1> USE DEF TypeInv, TypeOK
<1>0. 0 \in 0 .. TF_PARSER_TIMEOUT_TICKS /\ << >> \in Seq(Byte)
  BY ParserAssumption, EmptySeq
<1>1. ASSUME NEW c \in Byte, Accept(c) PROVE TypeInv'
  <2>1. FieldsOK' /\ Stored'
    BY <1>1, AcceptFields, AcceptStored DEF Accept, Stored
  <2>2. parser_timeout_ticks' = 0 /\ idle' = 0
    BY <1>1 DEF Accept, TF_AcceptChar
  <2>3. received' \in Seq(Byte)
    BY <1>1, <1>0, AppendProperties DEF Accept
  <2>4. burst' \in Seq(Byte) /\ sync' \in BOOLEAN
    BY <1>1, <1>0, OnLineType DEF Accept
  <2>5. handled' \in Message \cup {NoMsg}
    BY <1>1, AcceptHandsOn DEF Accept
  <2> QED
    BY <2>1, <2>2, <2>3, <2>4, <2>5, <1>0 DEF FieldsOK
<1>2. CASE Reset
  BY <1>2, <1>0 DEF Reset, TF_ResetParser, frameVars, Stored, PartStored, AllStored, NoCksums, States
<1>3. CASE Tick
  BY <1>3, <1>0, ParserAssumption
  DEF Tick, ParserTick, TimedOut, Silence, frameVars, Stored, PartStored, AllStored, NoCksums
<1>4. CASE UNCHANGED vars
  BY <1>4 DEF vars, parserVars, frameVars, histVars, Stored, PartStored, AllStored, NoCksums
<1> QED
  BY <1>1, <1>2, <1>3, <1>4 DEF Next

(* The parser's state stays within its types, so that in particular no       *)
(* register outgrows its width and the field counter never overflows.        *)
THEOREM TypeCorrect == Spec => []TypeOK
<1>1. TypeInv => TypeOK
  BY DEF TypeInv
<1> QED
  BY <1>1, InitType, NextType, PTL DEF Spec
-----------------------------------------------------------------------------
(* What has been shifted into a register.                                   *)

LEMMA CollectedNone ==
  ASSUME NEW n \in Nat, NEW r \in Register(n), NEW p \in Seq(Byte)
  PROVE  p \o Collected(r, 0) = p
<1>1. Len(r) = n
  BY RegisterIsSeq
<1>2. Collected(r, 0) = << >>
  BY <1>1, SubSeqEmpty DEF Collected
<1> QED
  BY <1>2, ConcatEmptySeq

LEMMA CollectedAll ==
  ASSUME NEW n \in Nat, NEW r \in Register(n)
  PROVE  Collected(r, n) = r
BY RegisterIsSeq, SubSeqFull DEF Collected

LEMMA CollectedType ==
  ASSUME NEW n \in Nat, NEW r \in Register(n), NEW k \in 0 .. n
  PROVE  /\ Collected(r, k) \in Seq(Byte)
         /\ Len(Collected(r, k)) = k
         /\ \A i \in 1 .. k : Collected(r, k)[i] = r[n - k + i]
<1> DEFINE a == n - k + 1
           s == SubSeq(r, a, n)
<1>1. r \in Seq(Byte) /\ Len(r) = n
  BY RegisterIsSeq
<1>2. a \in Int /\ n \in Int /\ n - a + 1 = k /\ (a <= n \/ k = 0)
  OBVIOUS
<1>3. Collected(r, k) = s
  BY <1>1 DEF Collected
<1>4. \A i \in a .. n : r[i] \in Byte
  BY <1>1, ElementOfSeq
<1>5. /\ s \in Seq(Byte)
      /\ Len(s) = IF a <= n THEN n - a + 1 ELSE 0
      /\ \A i \in 1 .. n - a + 1 : s[i] = r[a + i - 1]
  <2> HIDE DEF a
  <2> QED
    BY <1>2, <1>4, SubSeqProperties
<1>6. \A i \in 1 .. k : a + i - 1 = n - k + i
  OBVIOUS
<1> HIDE DEF a, s
<1>7. Len(s) = k
  BY <1>2, <1>5
<1>8. \A i \in 1 .. k : s[i] = r[n - k + i]
  BY <1>2, <1>5, <1>6
<1> QED
  BY <1>3, <1>5, <1>7, <1>8, Zenon

LEMMA CollectedMore ==
  ASSUME NEW n \in Nat \ {0}, NEW r \in Register(n), NEW m \in 0 .. n - 1,
         NEW p \in Seq(Byte), NEW c \in Byte
  PROVE  /\ Collected(r, m) \in Seq(Byte)
         /\ Append(p \o Collected(r, m), c) = p \o Collected(ShiftIn(r, c), m + 1)
<1> DEFINE q == ShiftIn(r, c)
           s == Collected(r, m)
           t == Collected(q, m + 1)
<1>1. r \in Seq(Byte) /\ Len(r) = n
  BY RegisterIsSeq
<1>2. /\ q \in Seq(Byte) /\ Len(q) = n
      /\ \A i \in 1 .. n - 1 : q[i] = r[i + 1]
      /\ q[n] = c
  BY ShiftInType, RegisterIsSeq
<1> HIDE DEF q
<1>3. /\ s \in Seq(Byte) /\ Len(s) = m
      /\ \A i \in 1 .. m : s[i] = r[n - m + i]
  BY CollectedType
<1>4. /\ t \in Seq(Byte) /\ Len(t) = m + 1
      /\ \A i \in 1 .. m + 1 : t[i] = q[n - (m + 1) + i]
  <2>1. q \in Register(n)
    BY ShiftInType DEF q
  <2>2. m + 1 \in 0 .. n
    OBVIOUS
  <2> QED
    BY <2>1, <2>2, CollectedType
<1> HIDE DEF s, t
<1>5. /\ Append(s, c) \in Seq(Byte) /\ Len(Append(s, c)) = m + 1
      /\ \A i \in 1 .. m : Append(s, c)[i] = s[i]
      /\ Append(s, c)[m + 1] = c
  BY <1>3, AppendProperties
<1>6. Append(s, c) = t
  <2>1. \A i \in 1 .. m + 1 : Append(s, c)[i] = t[i]
    <3> TAKE i \in 1 .. m + 1
    <3>1. CASE i = m + 1
      <4>1. n - (m + 1) + i = n /\ i \in 1 .. m + 1
        BY <3>1
      <4> QED
        BY <3>1, <4>1, <1>2, <1>4, <1>5, Zenon
    <3>2. CASE i # m + 1
      <4>1. i \in 1 .. m /\ n - (m + 1) + i \in 1 .. n - 1
        BY <3>2
      <4>2. q[n - (m + 1) + i] = r[n - m + i]
        <5>1. (n - (m + 1) + i) + 1 = n - m + i
          OBVIOUS
        <5> QED
          BY <4>1, <5>1, <1>2
      <4>3. t[i] = q[n - (m + 1) + i] /\ Append(s, c)[i] = s[i] /\ s[i] = r[n - m + i]
        BY <4>1, <1>3, <1>4, <1>5
      <4> QED
        BY <4>2, <4>3, Zenon
    <3> QED
      BY <3>1, <3>2
  <2> QED
    BY <1>4, <1>5, <2>1, SeqEqual
<1>7. Append(p \o s, c) = p \o Append(s, c)
  BY <1>3, AppendConcat
<1> QED
  BY <1>3, <1>6, <1>7 DEF q, s, t

(* A byte of a field that follows the bytes p of the frame: the field has    *)
(* one byte more, or is complete and the next one has none.                  *)
LEMMA FieldExtended ==
  ASSUME NEW n \in Nat \ {0}, NEW r \in Register(n), NEW m \in 0 .. n - 1,
         NEW p \in Seq(Byte), NEW c \in Byte
  PROVE  /\ p \o Collected(r, m) \in Seq(Byte)
         /\ Append(p \o Collected(r, m), c) = p \o Collected(ShiftIn(r, c), m + 1)
<1>1. p \o Collected(r, m) \in Seq(Byte)
  BY CollectedMore, ConcatProperties
<1> QED
  BY <1>1, CollectedMore

LEMMA FieldComplete ==
  ASSUME NEW n \in Nat \ {0}, NEW q \in Register(n), NEW p \in Seq(Byte)
  PROVE  /\ p \o q \in Seq(Byte)
         /\ p \o Collected(q, n) = p \o q
<1>1. Collected(q, n) = q /\ q \in Seq(Byte)
  BY CollectedAll, RegisterIsSeq
<1> QED
  BY <1>1, ConcatProperties

-----------------------------------------------------------------------------
(* Soundness of delivery, with checksums.  ParserInv is inductive; a byte    *)
(* is looked at in each state it can find the parser in.                     *)

ParserInv == TypeInv /\ FrameInv /\ BufferInBounds

LEMMA PiecesType ==
  ASSUME TypeOK
  PROVE  /\ SofField \in Seq(Byte)
         /\ id \in Seq(Byte) /\ len \in Seq(Byte) /\ type \in Seq(Byte)
         /\ cksum \in Seq(Byte) /\ ref_cksum \in Seq(Byte)
         /\ SofField \o id \in Seq(Byte)
         /\ SofField \o id \o len \in Seq(Byte)
         /\ HeadSoFar \in Seq(Byte)
<1>1. SofField \in Seq(Byte)
  BY FormatAssumption, EmptySeq DEF SofField
<1>2. /\ id \in Seq(Byte) /\ len \in Seq(Byte) /\ type \in Seq(Byte)
      /\ cksum \in Seq(Byte) /\ ref_cksum \in Seq(Byte)
  BY RegisterIsSeq, Widths DEF TypeOK, Cksum
<1>3. SofField \o id \in Seq(Byte)
  BY <1>1, <1>2, ConcatProperties
<1>4. SofField \o id \o len \in Seq(Byte)
  BY <1>2, <1>3, ConcatProperties
<1>5. HeadSoFar \in Seq(Byte)
  BY <1>2, <1>4, ConcatProperties DEF HeadSoFar
<1> QED
  BY <1>1, <1>2, <1>3, <1>4, <1>5

(* Inside a frame: no silence, so the byte extends what was received.        *)
LEMMA InsideFrame ==
  ASSUME TypeInv, FrameInv, NEW c \in Byte, Accept(c), ~Idle
  PROVE  /\ ~BeginsUnmarked /\ Phase = state /\ state # "SOF"
         /\ rxi + 1 < LenRange => Received = rxi + 1
         /\ ~(state' = "SOF" /\ handled' = NoMsg) => received' = Append(received, c)
<1>1. ~BeginsUnmarked /\ Phase = state /\ state # "SOF"
  BY DEF BeginsUnmarked, Phase, Idle
<1>2. ~Silence
  BY DEF Idle, TimedOut, Silence, FrameInv
<1>3. ASSUME rxi + 1 < LenRange
      PROVE  Received = rxi + 1
  BY <1>1, <1>3, Widths, ModSmall DEF Received, TypeInv, TypeOK
<1> QED
  BY <1>1, <1>2, <1>3 DEF Accept

LEMMA SofStep ==
  ASSUME ParserInv, NEW c \in Byte, Accept(c), AwaitSof(c)
  PROVE  FrameInv' /\ BufferInBounds'
<1>1. Idle /\ TF_USE_SOF_BYTE
  BY DEF AwaitSof, Phase, Idle, ParserInv, TypeInv, TypeOK, States
<1>2. idle' = parser_timeout_ticks'
  BY DEF Accept, TF_AcceptChar
<1>3. BufferInBounds'
  BY DEF AwaitSof, ParserInv, BufferInBounds
<1>4. CASE c # TF_SOF_BYTE
  BY <1>2, <1>3, <1>4 DEF AwaitSof, FrameInv
<1>5. CASE c = TF_SOF_BYTE
  <2>1. received' = <<c>>
    <3>1. Silence \/ state = "SOF"
      BY <1>1 DEF Idle, TimedOut, Silence, ParserInv, FrameInv
    <3>2. state' = "ID" /\ received' = Append(<< >>, c)
      BY <3>1, <1>5, Zenon DEF Accept, AwaitSof
    <3> QED
      BY <3>2
  <2>2. /\ state' = "ID" /\ rxi' = 0 /\ ~discard_data' /\ id' = id
        /\ cksum' = TF_CksumAdd(TF_CksumStart, c)
    BY <1>5 DEF AwaitSof
  <2>3. SofField = <<c>> /\ <<c>> = Append(<< >>, c) /\ << >> \in Seq(Byte)
    BY <1>1, <1>5, EmptySeq DEF SofField
  <2>4. cksum' = CksumOver(received')
    BY <2>1, <2>2, <2>3, CksumOverEmpty, CksumOverAppend
  <2>5. received' = SofField \o Collected(id', 0)
    BY <2>1, <2>2, <2>3, CollectedNone, Widths, PiecesType DEF ParserInv, TypeInv, TypeOK
  <2>6. InId'
    BY <2>2, <2>4, <2>5, Widths DEF InId
  <2> QED
    BY <2>2, <2>6, <1>2, <1>3 DEF FrameInv
<1> QED
  BY <1>4, <1>5

LEMMA IdExtended ==
  ASSUME TypeOK, NEW c \in Byte, NEW n \in 0 .. TF_ID_BYTES - 1
  PROVE  Append(SofField \o Collected(id, n), c) = SofField \o Collected(ShiftIn(id, c), n + 1)
<1>1. SofField \in Seq(Byte)
  BY PiecesType
<1>2. id \in Register(TF_ID_BYTES) /\ TF_ID_BYTES \in Nat \ {0}
  BY Widths DEF TypeOK
<1> QED
  BY <1>1, <1>2, FieldExtended

(* An ID byte that extends the bytes `before` of a frame, n of them of the ID. *)
LEMMA IdByte ==
  ASSUME ParserInv, NEW c \in Byte, Accept(c), CollectId(c),
         NEW n \in 0 .. TF_ID_BYTES - 1, NEW before \in Seq(Byte),
         Received = n + 1,
         before = SofField \o Collected(id, n),
         cksum' = TF_CksumAdd(CksumOver(before), c),
         received' = Append(before, c),
         ~discard_data'
  PROVE  FrameInv' /\ BufferInBounds'
<1>1. TypeOK /\ FrameInv /\ BufferInBounds
  BY DEF ParserInv, TypeInv
<1>2. idle' = parser_timeout_ticks' /\ BufferInBounds'
  BY <1>1 DEF Accept, TF_AcceptChar, CollectId, BufferInBounds
<1>3. cksum' = CksumOver(received')
  BY CksumOverAppend
<1>4. /\ id \in Register(TF_ID_BYTES) /\ len \in Register(TF_LEN_BYTES)
      /\ TF_ID_BYTES \in Nat \ {0} /\ TF_LEN_BYTES \in Nat \ {0}
      /\ id' = ShiftIn(id, c) /\ len' = len
  BY <1>1, Widths DEF TypeOK, CollectId
<1>5. received' = SofField \o Collected(id', n + 1)
  <2>1. Append(SofField \o Collected(id, n), c) = SofField \o Collected(ShiftIn(id, c), n + 1)
    BY <1>1, IdExtended
  <2> QED
    BY <1>4, <2>1, Zenon
<1>6. CASE Received = TF_ID_BYTES
  <2>1. state' = "LEN" /\ rxi' = 0
    BY <1>6 DEF CollectId, FieldByte
  <2>2. received' = SofField \o id' \o Collected(len', rxi')
    <3>1. id' \in Register(TF_ID_BYTES) /\ SofField \in Seq(Byte)
      BY <1>1, <1>4, ShiftInType, PiecesType
    <3>2. SofField \o id' \in Seq(Byte) /\ SofField \o Collected(id', TF_ID_BYTES) = SofField \o id'
      BY <1>4, <3>1, FieldComplete
    <3>3. SofField \o id' \o Collected(len, 0) = SofField \o id'
      BY <1>4, <3>2, CollectedNone
    <3>4. n + 1 = TF_ID_BYTES
      BY <1>6
    <3> QED
      BY <1>4, <1>5, <2>1, <3>2, <3>3, <3>4, Zenon
  <2>3. InLen'
    BY <1>3, <1>4, <2>1, <2>2 DEF InLen
  <2> QED
    BY <1>2, <2>1, <2>3 DEF FrameInv
<1>7. CASE Received # TF_ID_BYTES
  <2>1. state' = "ID" /\ rxi' = n + 1
    BY <1>7 DEF CollectId, FieldByte
  <2>2. InId'
    BY <1>3, <1>4, <1>5, <1>7, <2>1 DEF InId
  <2> QED
    BY <1>2, <2>1, <2>2 DEF FrameInv
<1> QED
  BY <1>6, <1>7

LEMMA IdStep ==
  ASSUME ParserInv, NEW c \in Byte, Accept(c), CollectId(c)
  PROVE  FrameInv' /\ BufferInBounds'
<1>1. TypeOK /\ TypeInv /\ FrameInv
  BY DEF ParserInv, TypeInv
<1>2. state' # "SOF"
  BY DEF CollectId, FieldByte
<1>3. CASE BeginsUnmarked
  <2>1. SofField = << >> /\ << >> \in Seq(Byte)
    BY <1>3, EmptySeq DEF BeginsUnmarked, SofField
  <2>2. << >> = SofField \o Collected(id, 0)
    BY <2>1, <1>1, CollectedNone, Widths DEF TypeOK
  <2>3. cksum' = TF_CksumAdd(CksumOver(<< >>), c)
    BY <1>3, CksumOverEmpty DEF CollectId
  <2>4. Silence \/ state = "SOF"
    BY <1>1, <1>3 DEF BeginsUnmarked, Idle, TimedOut, Silence, FrameInv
  <2>5. Received = 0 + 1 /\ 0 \in 0 .. TF_ID_BYTES - 1
    BY <1>3, Widths, ModSmall DEF Received
  <2>6. received' = Append(<< >>, c)
    BY <1>2, <2>4, Zenon DEF Accept
  <2>7. ~discard_data'
    BY <1>3 DEF CollectId
  <2> QED
    BY <2>1, <2>2, <2>3, <2>5, <2>6, <2>7, IdByte
<1>4. CASE ~BeginsUnmarked
  <2>1. ~Idle /\ state = "ID"
    BY <1>4, <1>1 DEF CollectId, Phase, BeginsUnmarked, Idle
  <2>2. InId /\ ~discard_data
    BY <1>1, <2>1 DEF FrameInv
  <2>3. rxi \in 0 .. TF_ID_BYTES - 1 /\ received \in Seq(Byte)
    BY <1>1, <2>2, Widths DEF InId, TypeOK
  <2>4. Received = rxi + 1
    BY <2>1, <2>3, <1>1, InsideFrame, Widths
  <2>5. received' = Append(received, c)
    BY <1>1, <1>2, <2>1, InsideFrame
  <2>6. cksum' = TF_CksumAdd(CksumOver(received), c) /\ ~discard_data'
    BY <1>4, <2>2 DEF CollectId, InId
  <2>7. received = SofField \o Collected(id, rxi)
    BY <2>2 DEF InId
  <2> QED
    BY <2>3, <2>4, <2>5, <2>6, <2>7, IdByte
<1> QED
  BY <1>3, <1>4

LEMMA LenStep ==
  ASSUME ParserInv, NEW c \in Byte, Accept(c), CollectLen(c)
  PROVE  FrameInv' /\ BufferInBounds'
<1> DEFINE p == SofField \o id
<1>1. TypeOK /\ TypeInv /\ FrameInv /\ BufferInBounds
  BY DEF ParserInv, TypeInv
<1>2. ~Idle /\ state = "LEN"
  BY DEF CollectLen, Phase, Idle
<1>3. InLen /\ ~discard_data
  BY <1>1, <1>2 DEF FrameInv
<1>4. /\ len \in Register(TF_LEN_BYTES) /\ len' = ShiftIn(len, c)
      /\ len' \in Register(TF_LEN_BYTES)
      /\ type \in Register(TF_TYPE_BYTES) /\ type' = type /\ id' = id
      /\ TF_LEN_BYTES \in Nat \ {0} /\ TF_TYPE_BYTES \in Nat \ {0}
      /\ rxi \in 0 .. TF_LEN_BYTES - 1
      /\ received \in Seq(Byte)
  BY <1>1, <1>3, Widths, ShiftInType DEF TypeOK, CollectLen, InLen
<1>5. Received = rxi + 1
  BY <1>1, <1>2, <1>4, InsideFrame, Widths
<1>6. state' # "SOF"
  BY DEF CollectLen, FieldByte, Phase
<1>7. received' = Append(received, c)
  BY <1>1, <1>2, <1>6, InsideFrame
<1>8. cksum' = CksumOver(received')
  BY <1>3, <1>4, <1>7, CksumOverAppend DEF CollectLen, InLen
<1>9. p \in Seq(Byte)
  BY <1>1, PiecesType
<1>10. received' = p \o Collected(len', rxi + 1)
  <2>1. received = p \o Collected(len, rxi)
    BY <1>3 DEF InLen
  <2> HIDE DEF p
  <2>2. Append(p \o Collected(len, rxi), c) = p \o Collected(ShiftIn(len, c), rxi + 1)
    BY <1>4, <1>9, FieldExtended
  <2> QED
    BY <1>4, <1>7, <2>1, <2>2, Zenon
<1>11. idle' = parser_timeout_ticks' /\ BufferInBounds' /\ ~discard_data'
  BY <1>1, <1>3 DEF Accept, TF_AcceptChar, CollectLen, BufferInBounds
<1>12. CASE Received = TF_LEN_BYTES
  <2>1. state' = "TYPE" /\ rxi' = 0
    BY <1>12 DEF CollectLen, FieldByte
  <2>2. received' = p \o len' \o Collected(type', rxi')
    <3> HIDE DEF p
    <3>1. p \o len' \in Seq(Byte) /\ p \o Collected(len', TF_LEN_BYTES) = p \o len'
      BY <1>4, <1>9, FieldComplete
    <3>2. p \o len' \o Collected(type, 0) = p \o len'
      BY <1>4, <3>1, CollectedNone
    <3>3. rxi + 1 = TF_LEN_BYTES
      BY <1>5, <1>12
    <3> QED
      BY <1>4, <1>10, <2>1, <3>1, <3>2, <3>3, Zenon
  <2>3. InType'
    BY <1>4, <1>8, <2>1, <2>2 DEF InType
  <2> QED
    BY <1>11, <2>1, <2>3 DEF FrameInv
<1>13. CASE Received # TF_LEN_BYTES
  <2>1. state' = "LEN" /\ rxi' = rxi + 1
    BY <1>5, <1>13 DEF CollectLen, FieldByte
  <2>2. InLen'
    BY <1>4, <1>5, <1>8, <1>10, <1>13, <2>1 DEF InLen
  <2> QED
    BY <1>11, <2>1, <2>2 DEF FrameInv
<1> QED
  BY <1>12, <1>13

LEMMA TypeStep ==
  ASSUME ParserInv, NEW c \in Byte, Accept(c), CollectType(c), ~TF_CKSUM_NONE
  PROVE  FrameInv' /\ BufferInBounds'
<1> DEFINE p == SofField \o id \o len
<1>1. TypeOK /\ TypeInv /\ FrameInv /\ BufferInBounds
  BY DEF ParserInv, TypeInv
<1>2. ~Idle /\ state = "TYPE"
  BY DEF CollectType, Phase, Idle
<1>3. InType /\ ~discard_data
  BY <1>1, <1>2 DEF FrameInv
<1>4. /\ type \in Register(TF_TYPE_BYTES) /\ type' = ShiftIn(type, c)
      /\ type' \in Register(TF_TYPE_BYTES)
      /\ id' = id /\ len' = len
      /\ Zero(TF_CKSUM_BYTES) \in Register(TF_CKSUM_BYTES)
      /\ TF_TYPE_BYTES \in Nat \ {0} /\ TF_CKSUM_BYTES \in Nat \ {0}
      /\ rxi \in 0 .. TF_TYPE_BYTES - 1
      /\ received \in Seq(Byte)
  <2>1. /\ type \in Register(TF_TYPE_BYTES) /\ received \in Seq(Byte)
        /\ type' = ShiftIn(type, c) /\ id' = id /\ len' = len
        /\ rxi \in Nat /\ rxi < TF_TYPE_BYTES
    BY <1>1, <1>3, Widths DEF TypeOK, CollectType, InType
  <2>2. /\ TF_TYPE_BYTES \in Nat \ {0} /\ TF_CKSUM_BYTES \in Nat \ {0}
        /\ Zero(TF_CKSUM_BYTES) \in Register(TF_CKSUM_BYTES)
    BY Widths, ZeroType
  <2> QED
    BY <2>1, <2>2, ShiftInType
<1>5. Received = rxi + 1
  BY <1>1, <1>2, <1>4, InsideFrame, Widths
<1>6. state' # "SOF"
  BY DEF CollectType, FieldByte, Phase
<1>7. received' = Append(received, c)
  BY <1>1, <1>2, <1>6, InsideFrame
<1>8. cksum' = CksumOver(received')
  BY <1>3, <1>4, <1>7, CksumOverAppend DEF CollectType, InType
<1>9. p \in Seq(Byte)
  BY <1>1, PiecesType
<1>10. received' = p \o Collected(type', rxi + 1)
  <2>1. received = p \o Collected(type, rxi)
    BY <1>3 DEF InType
  <2> HIDE DEF p
  <2>2. Append(p \o Collected(type, rxi), c) = p \o Collected(ShiftIn(type, c), rxi + 1)
    BY <1>4, <1>9, FieldExtended
  <2> QED
    BY <1>4, <1>7, <2>1, <2>2, Zenon
<1>11. idle' = parser_timeout_ticks' /\ BufferInBounds' /\ ~discard_data'
  BY <1>1, <1>3 DEF Accept, TF_AcceptChar, CollectType, BufferInBounds
<1>12. CASE Received = TF_TYPE_BYTES
  <2>1. state' = "HEAD_CKSUM" /\ rxi' = 0 /\ ref_cksum' = Zero(TF_CKSUM_BYTES)
    BY <1>12 DEF CollectType, FieldByte
  <2>2. HeadSoFar' = p \o type'
    BY <1>4 DEF HeadSoFar
  <2>3. received' = HeadSoFar' /\ received' = HeadSoFar' \o Collected(ref_cksum', rxi')
    <3> HIDE DEF p
    <3>1. p \o type' \in Seq(Byte) /\ p \o Collected(type', TF_TYPE_BYTES) = p \o type'
      BY <1>4, <1>9, FieldComplete
    <3>2. p \o type' \o Collected(Zero(TF_CKSUM_BYTES), 0) = p \o type'
      BY <1>4, <3>1, CollectedNone
    <3>3. rxi + 1 = TF_TYPE_BYTES
      BY <1>5, <1>12
    <3> QED
      BY <1>10, <2>1, <2>2, <3>1, <3>2, <3>3, Zenon
  <2>4. InHeadCksum'
    BY <1>4, <1>8, <2>1, <2>3 DEF InHeadCksum
  <2> QED
    BY <1>11, <2>1, <2>4 DEF FrameInv
<1>13. CASE Received # TF_TYPE_BYTES
  <2>1. state' = "TYPE" /\ rxi' = rxi + 1
    BY <1>5, <1>13 DEF CollectType, FieldByte
  <2>2. InType'
    BY <1>4, <1>5, <1>8, <1>10, <1>13, <2>1 DEF InType
  <2> QED
    BY <1>11, <2>1, <2>2 DEF FrameInv
<1> QED
  BY <1>12, <1>13

(* The last byte of the header checksum: the header is accepted only if what *)
(* was received is a header with its checksum, and a frame with no payload   *)
(* ends there.                                                               *)
LEMMA HeadDoneType ==
  ASSUME TypeOK
  PROVE  HeadDone \in Seq(Byte)
<1>1. CksumOver(HeadSoFar) \in Cksum
  BY PiecesType, CksumOverType
<1>2. TF_CksumEnd(CksumOver(HeadSoFar)) \in Seq(Byte)
  BY <1>1, FormatAssumption, RegisterIsSeq, Widths DEF Cksum
<1> QED
  BY <1>2, PiecesType, ConcatProperties DEF HeadDone

LEMMA HeadCksumStep ==
  ASSUME ParserInv, NEW c \in Byte, Accept(c), CollectHeadCksum(c), ~TF_CKSUM_NONE
  PROVE  FrameInv' /\ BufferInBounds' /\ DeliveredAsSent'
<1> DEFINE p == HeadSoFar
<1>1. TypeOK /\ TypeInv /\ FrameInv /\ BufferInBounds
  BY DEF ParserInv, TypeInv
<1>2. ~Idle /\ state = "HEAD_CKSUM"
  BY DEF CollectHeadCksum, Phase, Idle
<1>3. InHeadCksum /\ ~discard_data
  BY <1>1, <1>2 DEF FrameInv
<1>4. /\ ref_cksum \in Register(TF_CKSUM_BYTES) /\ ref_cksum' = ShiftIn(ref_cksum, c)
      /\ ref_cksum' \in Register(TF_CKSUM_BYTES)
      /\ id' = id /\ len' = len /\ type' = type /\ data' = data
      /\ TF_CKSUM_BYTES \in Nat \ {0}
      /\ rxi \in 0 .. TF_CKSUM_BYTES - 1
      /\ received \in Seq(Byte)
  BY <1>1, <1>3, Widths, ShiftInType DEF TypeOK, CollectHeadCksum, InHeadCksum, Cksum
<1>5. Received = rxi + 1
  BY <1>1, <1>2, <1>4, InsideFrame, Widths
<1>6. p \in Seq(Byte) /\ HeadSoFar' = p /\ HeadDone' = HeadDone
  BY <1>1, <1>4, PiecesType DEF HeadSoFar, HeadDone
<1>7. Append(received, c) = p \o Collected(ref_cksum', rxi + 1)
  <2>1. received = p \o Collected(ref_cksum, rxi) /\ p \in Seq(Byte)
    BY <1>3, <1>6 DEF InHeadCksum
  <2> HIDE DEF p
  <2>2. Append(p \o Collected(ref_cksum, rxi), c) = p \o Collected(ShiftIn(ref_cksum, c), rxi + 1)
    BY <1>4, <2>1, FieldExtended
  <2> QED
    BY <1>4, <2>1, <2>2, Zenon
<1>8. idle' = parser_timeout_ticks' /\ BufferInBounds'
  BY <1>1, <1>4 DEF Accept, TF_AcceptChar, BufferInBounds
<1>9. cksum = CksumOver(p)
  BY <1>3 DEF InHeadCksum
<1>10. CASE Received # TF_CKSUM_BYTES
  <2>1. /\ state' = "HEAD_CKSUM" /\ rxi' = rxi + 1 /\ handled' = NoMsg
        /\ cksum' = cksum /\ ~discard_data'
    BY <1>3, <1>5, <1>10 DEF CollectHeadCksum
  <2>2. received' = Append(received, c)
    BY <1>1, <1>2, <2>1, InsideFrame
  <2>3. InHeadCksum'
    BY <1>4, <1>5, <1>6, <1>7, <1>9, <1>10, <2>1, <2>2 DEF InHeadCksum
  <2> QED
    BY <1>8, <2>1, <2>3 DEF FrameInv, DeliveredAsSent
<1>11. CASE Received = TF_CKSUM_BYTES
  <2>1. Append(received, c) = p \o ref_cksum'
    <3>1. p \o Collected(ref_cksum', TF_CKSUM_BYTES) = p \o ref_cksum'
      BY <1>4, <1>6, FieldComplete
    <3>2. rxi + 1 = TF_CKSUM_BYTES
      BY <1>5, <1>11
    <3> QED
      BY <1>7, <3>1, <3>2, Zenon
  <2>2. CASE HeadCksumWrong
    BY <2>2, <1>8 DEF HeadCksumWrong, FrameInv, DeliveredAsSent
  <2>3. CASE HeadOnlyFrame
    <3>1. FrameInv'
      BY <2>3, <1>8 DEF HeadOnlyFrame, FrameInv
    <3>2. SUFFICES ASSUME handled' # NoMsg PROVE DeliveredAsSent'
      BY <1>8, <3>1 DEF DeliveredAsSent
    <3>3. handled' = MessageWith(data) /\ Value(len) = 0 /\ TF_CksumEnd(cksum) = ref_cksum'
      BY <2>3 DEF HeadOnlyFrame
    <3>4. received' = p \o TF_CksumEnd(CksumOver(p))
      BY <1>1, <1>2, <1>9, <2>1, <3>2, <3>3, InsideFrame
    <3> DEFINE m == MessageWith(data)
    <3>5. m.data = << >>
      BY <3>3, SubSeqEmpty DEF MessageWith
    <3>6. m.frame_id = id /\ m.len = len /\ m.type = type
      BY DEF MessageWith
    <3> HIDE DEF m
    <3>7. Encode(m) = FrameHead(m) \o << >> /\ HeadBytes(m) = p
      BY <3>5, <3>6 DEF Encode, FrameBody, HeadBytes, HeadSoFar
    <3>8. FrameHead(m) = HeadDone
      BY <3>7 DEF FrameHead, CksumField, HeadDone
    <3>9. Encode(m) = HeadDone
      BY <1>1, <3>7, <3>8, HeadDoneType, ConcatEmptySeq
    <3>10. handled' = m /\ received' = HeadDone
      BY <3>3, <3>4 DEF m, HeadDone
    <3>11. Len(m.data) = 0 /\ Value(m.len) = 0
      BY <3>3, <3>5, <3>6, EmptySeq
    <3> QED
      BY <3>9, <3>10, <3>11, ParserAssumption DEF DeliveredAsSent
  <2>4. CASE EnterData
    <3>1. /\ state' = "DATA" /\ rxi' = 0 /\ handled' = NoMsg
          /\ cksum' = TF_CksumStart /\ Value(len) # 0
          /\ discard_data' = (Value(len) > TF_MAX_PAYLOAD_RX)
          /\ TF_CksumEnd(cksum) = ref_cksum'
      BY <1>3, <2>4 DEF EnterData
    <3>2. received' = HeadDone
      BY <1>1, <1>2, <1>9, <2>1, <3>1, InsideFrame DEF HeadDone
    <3>3. SubSeq(data', 1, 0) = << >> /\ HeadDone \o << >> = HeadDone
      BY <1>1, SubSeqEmpty, HeadDoneType, ConcatEmptySeq
    <3>4. Value(len) \in Nat
      BY <1>1, LengthType, Widths
    <3>5. InData'
      <4>1. rxi' < Value(len')
        BY <1>4, <3>1, <3>4
      <4>2. received' = HeadDone' \o SubSeq(data', 1, rxi')
        BY <1>6, <3>1, <3>2, <3>3, Zenon
      <4>3. cksum' = CksumOver(SubSeq(data', 1, rxi'))
        BY <3>1, <3>3, CksumOverEmpty, Zenon
      <4>4. ~discard_data' => Value(len') <= TF_MAX_PAYLOAD_RX
        <5>1. ~discard_data' => ~(Value(len) > TF_MAX_PAYLOAD_RX)
          BY <3>1, Zenon
        <5>2. ~(Value(len) > TF_MAX_PAYLOAD_RX) => Value(len) <= TF_MAX_PAYLOAD_RX
          BY <3>4, ParserAssumption
        <5> QED
          BY <1>4, <5>1, <5>2, Zenon
      <4> QED
        BY <4>1, <4>2, <4>3, <4>4, Zenon DEF InData
    <3> QED
      BY <1>8, <3>1, <3>5 DEF FrameInv, DeliveredAsSent
  <2> QED
    BY <1>11, <2>2, <2>3, <2>4 DEF CollectHeadCksum
<1> QED
  BY <1>10, <1>11

LEMMA DataStep ==
  ASSUME ParserInv, NEW c \in Byte, Accept(c), CollectData(c), ~TF_CKSUM_NONE
  PROVE  FrameInv' /\ BufferInBounds' /\ DeliveredAsSent'
<1> DEFINE s == SubSeq(data, 1, rxi)
<1>1. TypeOK /\ TypeInv /\ FrameInv /\ BufferInBounds /\ Stored
  BY DEF ParserInv, TypeInv
<1>2. ~Idle /\ state = "DATA"
  BY DEF CollectData, Phase, Idle
<1>3. InData
  BY <1>1, <1>2 DEF FrameInv
<1>4. Value(len) \in Nat /\ Value(len) < LenRange /\ rxi \in Nat
  BY <1>1, LengthType, Widths DEF TypeOK
<1>5. Received = rxi + 1 /\ Received <= Value(len)
  BY <1>1, <1>2, <1>3, <1>4, InsideFrame, Widths DEF InData
<1>6. /\ state' # "SOF" /\ handled' = NoMsg
      /\ id' = id /\ len' = len /\ type' = type /\ discard_data' = discard_data
  BY DEF CollectData
<1>7. received' = Append(received, c)
  BY <1>1, <1>2, <1>6, InsideFrame
<1>8. idle' = parser_timeout_ticks'
  BY DEF Accept, TF_AcceptChar
<1>9. HeadDone \in Seq(Byte) /\ HeadDone' = HeadDone
  BY <1>1, <1>6, HeadDoneType DEF HeadDone, HeadSoFar
<1>10. /\ Received # Value(len) => state' = "DATA" /\ rxi' = rxi + 1
       /\ Received = Value(len) =>
            /\ state' = "DATA_CKSUM" /\ rxi' = 0
            /\ ref_cksum' = Zero(TF_CKSUM_BYTES)
  BY <1>5 DEF CollectData
<1>11. CASE discard_data
  <2>1. BufferInBounds'
    BY <1>1, <1>11 DEF CollectData, BufferInBounds
  <2>2. state' = "DATA" => InData'
    BY <1>4, <1>5, <1>6, <1>10, <1>11 DEF InData
  <2>3. state' = "DATA_CKSUM" => InDataCksum'
    BY <1>5, <1>6, <1>10, <1>11, Widths DEF InDataCksum
  <2> QED
    BY <1>6, <1>8, <1>10, <2>1, <2>2, <2>3 DEF FrameInv, DeliveredAsSent
<1>12. CASE ~discard_data
  <2>1. /\ Value(len) <= TF_MAX_PAYLOAD_RX
        /\ received = HeadDone \o s
        /\ cksum = CksumOver(s)
    BY <1>3, <1>12 DEF InData
  <2>2. s \in Seq(Byte) /\ Len(s) = rxi
    <3>1. rxi <= Len(data) /\ data \in Seq(Byte)
      BY <1>1, <1>2, <1>12 DEF Stored, PartStored, TypeOK
    <3> QED
      BY <1>4, <3>1, SubSeqProperties, ElementOfSeq, LenProperties
  <2>3. data' = Append(s, c) /\ cksum' = TF_CksumAdd(cksum, c)
    BY <1>12 DEF CollectData
  <2> HIDE DEF s
  <2>4. data' \in Seq(Byte) /\ Len(data') = rxi + 1 /\ data' # << >>
    BY <2>2, <2>3, AppendProperties
  <2>5. SubSeq(data', 1, rxi + 1) = data'
    BY <2>4, SubSeqFull
  <2>6. received' = HeadDone \o data'
    BY <1>7, <1>9, <2>1, <2>2, <2>3, AppendConcat
  <2>7. cksum' = CksumOver(data')
    BY <2>1, <2>2, <2>3, CksumOverAppend
  <2>8. BufferInBounds'
    BY <1>5, <2>1, <2>4, <1>4, ParserAssumption DEF BufferInBounds
  <2>9. ASSUME state' = "DATA" PROVE InData'
    <3>1. rxi' = rxi + 1 /\ rxi' < Value(len')
      BY <1>4, <1>5, <1>6, <1>10, <2>9
    <3> QED
      BY <1>6, <1>9, <2>1, <2>5, <2>6, <2>7, <3>1 DEF InData
  <2>10. ASSUME state' = "DATA_CKSUM" PROVE InDataCksum'
    <3>1. /\ rxi' = 0 /\ ref_cksum' = Zero(TF_CKSUM_BYTES)
          /\ Len(data') = Value(len')
      BY <1>5, <1>6, <1>10, <2>4, <2>10
    <3>2. HeadDone \o data' \o Collected(ref_cksum', 0) = HeadDone \o data'
      <4>1. HeadDone \o data' \in Seq(Byte)
        BY <1>9, <2>4, ConcatProperties
      <4>2. ref_cksum' \in Register(TF_CKSUM_BYTES) /\ TF_CKSUM_BYTES \in Nat
        BY <3>1, ZeroType, Widths
      <4> QED
        BY <4>1, <4>2, CollectedNone
    <3>3. received' = HeadDone' \o data' \o Collected(ref_cksum', rxi')
      BY <1>9, <2>6, <3>1, <3>2, Zenon
    <3> QED
      BY <1>6, <2>1, <2>4, <2>7, <3>1, <3>3, Widths DEF InDataCksum
  <2> QED
    BY <1>6, <1>8, <1>10, <2>8, <2>9, <2>10 DEF FrameInv, DeliveredAsSent
<1> QED
  BY <1>11, <1>12

(* The last byte of the payload's checksum: a payload whose checksum is not  *)
(* the one received, or which was not stored, is not delivered.              *)
LEMMA DataCksumStep ==
  ASSUME ParserInv, NEW c \in Byte, Accept(c), CollectDataCksum(c), ~TF_CKSUM_NONE
  PROVE  FrameInv' /\ BufferInBounds' /\ DeliveredAsSent'
<1> DEFINE p == HeadDone \o data
<1>1. TypeOK /\ TypeInv /\ FrameInv /\ BufferInBounds
  BY DEF ParserInv, TypeInv
<1>2. ~Idle /\ state = "DATA_CKSUM"
  BY DEF CollectDataCksum, Phase, Idle
<1>3. InDataCksum
  BY <1>1, <1>2 DEF FrameInv
<1>4. /\ ref_cksum \in Register(TF_CKSUM_BYTES) /\ ref_cksum' = ShiftIn(ref_cksum, c)
      /\ ref_cksum' \in Register(TF_CKSUM_BYTES)
      /\ id' = id /\ len' = len /\ type' = type /\ data' = data
      /\ discard_data' = discard_data
      /\ TF_CKSUM_BYTES \in Nat \ {0}
      /\ rxi \in 0 .. TF_CKSUM_BYTES - 1
  BY <1>1, <1>3, Widths, ShiftInType DEF TypeOK, CollectDataCksum, InDataCksum, Cksum
<1>5. Received = rxi + 1
  BY <1>1, <1>2, <1>4, InsideFrame, Widths
<1>6. /\ HeadDone \in Seq(Byte) /\ data \in Seq(Byte) /\ p \in Seq(Byte)
      /\ HeadDone' = HeadDone
  BY <1>1, <1>4, HeadDoneType, ConcatProperties DEF HeadDone, HeadSoFar, TypeOK
<1>7. idle' = parser_timeout_ticks' /\ BufferInBounds'
  BY <1>1, <1>4 DEF Accept, TF_AcceptChar, BufferInBounds
<1>8. ASSUME ~discard_data
      PROVE  Append(received, c) = p \o Collected(ref_cksum', rxi + 1)
  <2>1. received = p \o Collected(ref_cksum, rxi)
    BY <1>3, <1>8 DEF InDataCksum
  <2> HIDE DEF p
  <2>2. Append(p \o Collected(ref_cksum, rxi), c) = p \o Collected(ShiftIn(ref_cksum, c), rxi + 1)
    BY <1>4, <1>6, FieldExtended
  <2> QED
    BY <1>4, <2>1, <2>2, Zenon
<1>9. CASE Received # TF_CKSUM_BYTES
  <2>1. state' = "DATA_CKSUM" /\ rxi' = rxi + 1 /\ handled' = NoMsg /\ cksum' = cksum
    BY <1>5, <1>9 DEF CollectDataCksum
  <2>2. received' = Append(received, c)
    BY <1>1, <1>2, <2>1, InsideFrame
  <2>3. ~discard_data => received' = HeadDone' \o data' \o Collected(ref_cksum', rxi')
    BY <1>4, <1>6, <1>8, <2>1, <2>2, Zenon
  <2>4. InDataCksum'
    BY <1>3, <1>4, <1>5, <1>9, <2>1, <2>3 DEF InDataCksum
  <2> QED
    BY <1>7, <2>1, <2>4 DEF FrameInv, DeliveredAsSent
<1>10. CASE Received = TF_CKSUM_BYTES
  <2>1. state' = "SOF"
    BY <1>10 DEF CollectDataCksum
  <2>2. FrameInv'
    BY <1>7, <2>1 DEF FrameInv
  <2>3. SUFFICES ASSUME handled' # NoMsg PROVE DeliveredAsSent'
    BY <1>7, <2>2 DEF DeliveredAsSent
  <2>4. ~discard_data /\ TF_CksumEnd(cksum) = ref_cksum' /\ handled' = MessageWith(data)
    BY <1>10, <2>3 DEF CollectDataCksum
  <2>5. /\ Len(data) = Value(len) /\ data # << >> /\ Value(len) <= TF_MAX_PAYLOAD_RX
        /\ cksum = CksumOver(data)
    BY <1>3, <2>4 DEF InDataCksum
  <2>6. received' = p \o ref_cksum'
    <3>1. p \o Collected(ref_cksum', TF_CKSUM_BYTES) = p \o ref_cksum'
      BY <1>4, <1>6, FieldComplete
    <3>2. rxi + 1 = TF_CKSUM_BYTES
      BY <1>5, <1>10
    <3>3. received' = Append(received, c)
      BY <1>1, <1>2, <2>3, InsideFrame
    <3> QED
      BY <1>8, <2>4, <3>1, <3>2, <3>3, Zenon
  <2> DEFINE m == MessageWith(data)
  <2>7. m.data = data
    BY <1>6, <2>5, SubSeqFull DEF MessageWith
  <2>8. m.frame_id = id /\ m.len = len /\ m.type = type
    BY DEF MessageWith
  <2> HIDE DEF m
  <2>9. FrameHead(m) = HeadDone
    <3>1. HeadBytes(m) = HeadSoFar
      BY <2>8 DEF HeadBytes, HeadSoFar
    <3> QED
      BY <3>1 DEF FrameHead, CksumField, HeadDone
  <2>10. FrameBody(m) = data \o ref_cksum'
    BY <2>4, <2>5, <2>7 DEF FrameBody, CksumField
  <2>11. Encode(m) = p \o ref_cksum'
    <3>1. ref_cksum' \in Seq(Byte)
      BY <1>4, RegisterIsSeq
    <3>2. HeadDone \o (data \o ref_cksum') = p \o ref_cksum'
      BY <1>6, <3>1, ConcatAssociative
    <3> QED
      BY <2>9, <2>10, <3>2, Zenon DEF Encode
  <2> QED
    BY <2>4, <2>5, <2>6, <2>7, <2>8, <2>11 DEF DeliveredAsSent, m
<1> QED
  BY <1>9, <1>10

-----------------------------------------------------------------------------
LEMMA ParserInvInit == Init => ParserInv
<1> SUFFICES ASSUME Init PROVE ParserInv
  OBVIOUS
<1>1. TypeInv
  BY InitType
<1>2. FrameInv
  BY DEF Init, ParserInit, FrameInv
<1>3. BufferInBounds
  BY EmptySeq, ParserAssumption DEF Init, ParserInit, BufferInBounds
<1> QED
  BY <1>1, <1>2, <1>3 DEF ParserInv

LEMMA ParserInvNext ==
  ASSUME ~TF_CKSUM_NONE, ParserInv, [Next]_vars
  PROVE  ParserInv' /\ (Next => DeliveredAsSent')
<1>1. TypeInv'
  BY NextType DEF ParserInv
<1>2. FrameInv /\ BufferInBounds
  BY DEF ParserInv
<1>3. ASSUME NEW c \in Byte, Accept(c)
      PROVE  FrameInv' /\ BufferInBounds' /\ DeliveredAsSent'
  <2>1. CASE AwaitSof(c)
    BY <1>3, <2>1, SofStep DEF AwaitSof, DeliveredAsSent
  <2>2. CASE CollectId(c)
    BY <1>3, <2>2, IdStep DEF CollectId, DeliveredAsSent
  <2>3. CASE CollectLen(c)
    BY <1>3, <2>3, LenStep DEF CollectLen, DeliveredAsSent
  <2>4. CASE CollectType(c)
    BY <1>3, <2>4, TypeStep DEF CollectType, DeliveredAsSent
  <2>5. CASE CollectHeadCksum(c)
    BY <1>3, <2>5, HeadCksumStep
  <2>6. CASE CollectData(c)
    BY <1>3, <2>6, DataStep
  <2>7. CASE CollectDataCksum(c)
    BY <1>3, <2>7, DataCksumStep
  <2> QED
    BY <1>3, <2>1, <2>2, <2>3, <2>4, <2>5, <2>6, <2>7 DEF Accept, TF_AcceptChar
<1>4. CASE Reset
  <2>1. /\ state' = "SOF" /\ handled' = NoMsg /\ data' = data
        /\ parser_timeout_ticks' = parser_timeout_ticks /\ idle' = idle
    BY <1>4 DEF Reset, TF_ResetParser, frameVars
  <2> QED
    BY <1>1, <1>2, <2>1 DEF ParserInv, FrameInv, BufferInBounds, DeliveredAsSent
<1>5. CASE Tick
  <2>1. /\ handled' = NoMsg /\ UNCHANGED <<state, frameVars>>
        /\ idle' = parser_timeout_ticks'
        /\ state # "SOF" => received' = received
    BY <1>2, <1>5 DEF Tick, ParserTick, TimedOut, Silence, FrameInv
  <2>2. FrameInv'
    BY <1>2, <2>1 DEF FrameInv, frameVars, InId, InLen, InType, InHeadCksum, InData,
                      InDataCksum, HeadSoFar, HeadDone
  <2> QED
    BY <1>1, <1>2, <2>1, <2>2 DEF ParserInv, BufferInBounds, DeliveredAsSent, frameVars
<1>6. CASE UNCHANGED vars
  <2>1. FrameInv'
    BY <1>2, <1>6 DEF vars, parserVars, frameVars, histVars, FrameInv, InId, InLen, InType,
                      InHeadCksum, InData, InDataCksum, HeadSoFar, HeadDone
  <2>2. Next => DeliveredAsSent'
    BY <1>3, <1>4, <1>5, <1>6 DEF Next, Reset, Tick, TF_ResetParser, ParserTick, DeliveredAsSent
  <2> QED
    BY <1>1, <1>2, <1>6, <2>1, <2>2
    DEF ParserInv, BufferInBounds, vars, parserVars, frameVars
<1> QED
  BY <1>1, <1>3, <1>4, <1>5, <1>6 DEF Next, ParserInv

(* With checksums, a message reaches the listeners only when the bytes       *)
(* received are exactly its frame, whatever else was on the line.            *)
THEOREM DeliverySound ==
  ASSUME ~TF_CKSUM_NONE
  PROVE  Spec => []DeliveredAsSent
<1>1. Init => ParserInv /\ DeliveredAsSent
  BY ParserInvInit DEF Init, ParserInit, DeliveredAsSent
<1>2. ParserInv /\ DeliveredAsSent /\ [Next]_vars => (ParserInv /\ DeliveredAsSent)'
  <2> SUFFICES ASSUME ParserInv, DeliveredAsSent, [Next]_vars
               PROVE  (ParserInv /\ DeliveredAsSent)'
    OBVIOUS
  <2>1. CASE Next
    BY <2>1, ParserInvNext
  <2>2. CASE UNCHANGED vars
    BY <2>2, ParserInvNext DEF DeliveredAsSent, vars, parserVars, histVars
  <2> QED
    BY <2>1, <2>2
<1> QED
  BY <1>1, <1>2, PTL DEF Spec

(* With checksums, the receive buffer is never written past its end.         *)
THEOREM BufferSafe ==
  ASSUME ~TF_CKSUM_NONE
  PROVE  Spec => []BufferInBounds
<1>1. ParserInv /\ [Next]_vars => ParserInv'
  BY ParserInvNext
<1>2. ParserInv => BufferInBounds
  BY DEF ParserInv
<1> QED
  BY <1>1, <1>2, ParserInvInit, PTL DEF Spec

-----------------------------------------------------------------------------
(* The bytes of a frame determine its message: the header has a fixed length *)
(* and says how much follows.                                               *)

LEMMA ConcatSecond ==
  ASSUME NEW a \in Seq(Byte), NEW b \in Seq(Byte), NEW i \in 1 .. Len(b)
  PROVE  (a \o b)[Len(a) + i] = b[i]
<1>1. Len(a) \in Nat /\ Len(b) \in Nat
  BY LenProperties
<1>2. PICK j : j = Len(a) + i
  OBVIOUS
<1>3. j \in 1 .. Len(a) + Len(b) /\ ~(j <= Len(a)) /\ j - Len(a) = i
  BY <1>1, <1>2
<1>4. (a \o b)[j] = b[j - Len(a)]
  BY <1>3, ConcatProperties, Zenon
<1> QED
  BY <1>2, <1>3, <1>4, Zenon

LEMMA ConcatCancel ==
  ASSUME NEW a \in Seq(Byte), NEW b \in Seq(Byte), NEW c \in Seq(Byte), NEW d \in Seq(Byte),
         Len(a) = Len(c), a \o b = c \o d
  PROVE  a = c /\ b = d
<1>1. /\ Len(a) \in Nat /\ Len(b) \in Nat /\ Len(d) \in Nat
      /\ Len(a \o b) = Len(a) + Len(b) /\ Len(c \o d) = Len(a) + Len(d)
  BY LenProperties, ConcatProperties
<1>2. Len(b) = Len(d)
  BY <1>1
<1>3. \A i \in 1 .. Len(a) : a[i] = c[i]
  <2> TAKE i \in 1 .. Len(a)
  <2>1. (a \o b)[i] = a[i] /\ (c \o d)[i] = c[i]
    BY ConcatProperties
  <2> QED
    BY <2>1
<1>4. \A i \in 1 .. Len(b) : b[i] = d[i]
  <2> TAKE i \in 1 .. Len(b)
  <2>1. (a \o b)[Len(a) + i] = b[i]
    BY ConcatSecond, Zenon
  <2>2. i \in 1 .. Len(d)
    BY <1>2
  <2>3. (c \o d)[Len(c) + i] = d[i]
    BY <2>2, ConcatSecond, Zenon
  <2> QED
    BY <2>1, <2>3, Zenon
<1> QED
  BY <1>2, <1>3, <1>4, SeqEqual

Header(i, l, t) == SofField \o i \o l \o t
HeaderLength == Len(SofField) + TF_ID_BYTES + TF_LEN_BYTES + TF_TYPE_BYTES
CheckedHeader(i, l, t) == Header(i, l, t) \o TF_CksumEnd(CksumOver(Header(i, l, t)))
HeadLength == HeaderLength + TF_CKSUM_BYTES

(* The three fields of a header.                                            *)
HeaderFields(i, l, t) ==
  i \in Register(TF_ID_BYTES) /\ l \in Register(TF_LEN_BYTES) /\ t \in Register(TF_TYPE_BYTES)

LEMMA LengthsNat ==
  /\ Len(SofField) \in Nat
  /\ HeaderLength \in Nat \ {0} /\ HeadLength \in Nat \ {0}
  /\ TF_CKSUM_BYTES \in Nat \ {0}
<1>1. SofField \in Seq(Byte)
  BY FormatAssumption, EmptySeq DEF SofField
<1>2. Len(SofField) \in Nat
  BY <1>1, LenProperties
<1> QED
  BY <1>2, Widths DEF HeaderLength, HeadLength

LEMMA HeaderType ==
  ASSUME NEW i, NEW l, NEW t, HeaderFields(i, l, t)
  PROVE  /\ SofField \in Seq(Byte)
         /\ i \in Seq(Byte) /\ Len(i) = TF_ID_BYTES
         /\ l \in Seq(Byte) /\ Len(l) = TF_LEN_BYTES
         /\ t \in Seq(Byte) /\ Len(t) = TF_TYPE_BYTES
         /\ SofField \o i \in Seq(Byte) /\ Len(SofField \o i) = Len(SofField) + TF_ID_BYTES
         /\ SofField \o i \o l \in Seq(Byte)
         /\ Len(SofField \o i \o l) = Len(SofField) + TF_ID_BYTES + TF_LEN_BYTES
         /\ Header(i, l, t) \in Seq(Byte) /\ Len(Header(i, l, t)) = HeaderLength
<1>1. SofField \in Seq(Byte)
  BY FormatAssumption, EmptySeq DEF SofField
<1>2. /\ i \in Seq(Byte) /\ Len(i) = TF_ID_BYTES
      /\ l \in Seq(Byte) /\ Len(l) = TF_LEN_BYTES
      /\ t \in Seq(Byte) /\ Len(t) = TF_TYPE_BYTES
  BY Widths, RegisterIsSeq DEF HeaderFields
<1>3. SofField \o i \in Seq(Byte) /\ Len(SofField \o i) = Len(SofField) + TF_ID_BYTES
  BY <1>1, <1>2, ConcatProperties
<1>4. /\ SofField \o i \o l \in Seq(Byte)
      /\ Len(SofField \o i \o l) = Len(SofField) + TF_ID_BYTES + TF_LEN_BYTES
  <2>1. PICK p : p = SofField \o i
    OBVIOUS
  <2>2. p \o l \in Seq(Byte) /\ Len(p \o l) = Len(p) + Len(l)
    BY <1>2, <1>3, <2>1, ConcatProperties, Zenon
  <2> QED
    BY <1>2, <1>3, <2>1, <2>2
<1>5. Header(i, l, t) \in Seq(Byte) /\ Len(Header(i, l, t)) = HeaderLength
  <2>1. PICK p : p = SofField \o i \o l
    OBVIOUS
  <2>2. p \o t \in Seq(Byte) /\ Len(p \o t) = Len(p) + Len(t)
    BY <1>2, <1>4, <2>1, ConcatProperties, Zenon
  <2> QED
    BY <1>2, <1>4, <2>1, <2>2 DEF Header, HeaderLength
<1> QED
  BY <1>1, <1>2, <1>3, <1>4, <1>5

LEMMA HeaderInjective ==
  ASSUME NEW i, NEW l, NEW t, HeaderFields(i, l, t),
         NEW j, NEW k, NEW u, HeaderFields(j, k, u),
         Header(i, l, t) = Header(j, k, u)
  PROVE  i = j /\ l = k /\ t = u
<1>1. PICK p1, p2, q1, q2 :
         p1 = SofField \o i /\ p2 = p1 \o l /\ q1 = SofField \o j /\ q2 = q1 \o k
  OBVIOUS
<1>2. /\ SofField \in Seq(Byte)
      /\ i \in Seq(Byte) /\ l \in Seq(Byte) /\ t \in Seq(Byte)
      /\ p1 \in Seq(Byte) /\ p2 \in Seq(Byte)
      /\ Len(p1) = Len(SofField) + TF_ID_BYTES
      /\ Len(p2) = Len(SofField) + TF_ID_BYTES + TF_LEN_BYTES
  BY <1>1, HeaderType, Zenon
<1>3. /\ j \in Seq(Byte) /\ k \in Seq(Byte) /\ u \in Seq(Byte)
      /\ q1 \in Seq(Byte) /\ q2 \in Seq(Byte)
      /\ Len(q1) = Len(SofField) + TF_ID_BYTES
      /\ Len(q2) = Len(SofField) + TF_ID_BYTES + TF_LEN_BYTES
  BY <1>1, HeaderType, Zenon
<1>4. p2 \o t = q2 \o u
  BY <1>1, Zenon DEF Header
<1>5. p2 = q2 /\ t = u
  BY <1>2, <1>3, <1>4, ConcatCancel, Zenon
<1>6. p1 \o l = q1 \o k
  BY <1>1, <1>5, Zenon
<1>7. p1 = q1 /\ l = k
  BY <1>2, <1>3, <1>6, ConcatCancel, Zenon
<1>8. SofField \o i = SofField \o j
  BY <1>1, <1>7, Zenon
<1>9. i = j
  BY <1>2, <1>3, <1>8, ConcatCancel, Zenon
<1> QED
  BY <1>5, <1>7, <1>9

LEMMA CheckedHeaderType ==
  ASSUME NEW i, NEW l, NEW t, HeaderFields(i, l, t)
  PROVE  /\ TF_CksumEnd(CksumOver(Header(i, l, t))) \in Cksum
         /\ CheckedHeader(i, l, t) \in Seq(Byte) /\ Len(CheckedHeader(i, l, t)) = HeadLength
<1> DEFINE e == TF_CksumEnd(CksumOver(Header(i, l, t)))
<1>1. Header(i, l, t) \in Seq(Byte) /\ Len(Header(i, l, t)) = HeaderLength
  BY HeaderType
<1>2. e \in Cksum
  BY <1>1, CksumOverType, FormatAssumption
<1>3. e \in Seq(Byte) /\ Len(e) = TF_CKSUM_BYTES
  BY <1>2, Widths, RegisterIsSeq DEF Cksum
<1> HIDE DEF e
<1>4. /\ Header(i, l, t) \o e \in Seq(Byte)
      /\ Len(Header(i, l, t) \o e) = HeadLength
  BY <1>1, <1>3, ConcatProperties DEF HeadLength
<1> QED
  BY <1>2, <1>4 DEF CheckedHeader, e

LEMMA CheckedHeaderInjective ==
  ASSUME NEW i, NEW l, NEW t, HeaderFields(i, l, t),
         NEW j, NEW k, NEW u, HeaderFields(j, k, u),
         CheckedHeader(i, l, t) = CheckedHeader(j, k, u)
  PROVE  i = j /\ l = k /\ t = u
<1>1. PICK h, g, e, f :
         /\ h = Header(i, l, t) /\ e = TF_CksumEnd(CksumOver(h))
         /\ g = Header(j, k, u) /\ f = TF_CksumEnd(CksumOver(g))
  OBVIOUS
<1>2. e \in Cksum /\ f \in Cksum
  BY <1>1, CheckedHeaderType, Zenon
<1>3. e \in Seq(Byte) /\ f \in Seq(Byte)
  BY <1>2, Widths, RegisterIsSeq DEF Cksum
<1>4. h \in Seq(Byte) /\ Len(h) = HeaderLength
  BY <1>1, HeaderType, Zenon
<1>5. g \in Seq(Byte) /\ Len(g) = HeaderLength
  BY <1>1, HeaderType, Zenon
<1>6. h \o e = g \o f
  BY <1>1, Zenon DEF CheckedHeader
<1>7. h = g
  BY <1>3, <1>4, <1>5, <1>6, ConcatCancel, Zenon
<1>8. Header(i, l, t) = Header(j, k, u)
  BY <1>1, <1>7, Zenon
<1> QED
  BY <1>8, HeaderInjective

-----------------------------------------------------------------------------
(* The frames a peer may put on the line, whole or with a damaged payload.   *)

LEMMA FrameHeadIs ==
  ASSUME ~TF_CKSUM_NONE, NEW m
  PROVE  FrameHead(m) = CheckedHeader(m.frame_id, m.len, m.type)
BY DEF FrameHead, HeadBytes, CksumField, CheckedHeader, Header

LEMMA HeadDoneIs == HeadDone = CheckedHeader(id, len, type)
BY DEF HeadDone, HeadSoFar, CheckedHeader, Header

LEMMA MessageFields ==
  ASSUME NEW m \in PeerMessages
  PROVE  /\ m \in Message
         /\ HeaderFields(m.frame_id, m.len, m.type)
         /\ m.data \in Seq(Byte) /\ Len(m.data) = Value(m.len)
         /\ m = [frame_id |-> m.frame_id, type |-> m.type, len |-> m.len, data |-> m.data]
<1>1. m \in Message
  BY PeerAssumption
<1> QED
  BY <1>1 DEF Message, HeaderFields

(* s carries the message m, its payload followed by the checksum k.          *)
Body(m, k) == IF m.data = << >> THEN << >> ELSE m.data \o k
Carries(s, m, k) ==
  /\ m \in PeerMessages /\ k \in Cksum
  /\ s = CheckedHeader(m.frame_id, m.len, m.type) \o Body(m, k)

(* s starts with the header of these fields, and x follows.                  *)
Opens(s, i, l, t, x) ==
  HeaderFields(i, l, t) /\ x \in Seq(Byte) /\ s = CheckedHeader(i, l, t) \o x

LEMMA FrameCarries ==
  ASSUME ~TF_CKSUM_NONE, NEW m \in PeerMessages
  PROVE  Carries(Encode(m), m, TF_CksumEnd(CksumOver(m.data)))
<1>1. TF_CksumEnd(CksumOver(m.data)) \in Cksum
  BY MessageFields, CksumOverType, FormatAssumption
<1>2. Encode(m) = FrameHead(m) \o FrameBody(m)
  BY DEF Encode
<1>3. FrameBody(m) = Body(m, TF_CksumEnd(CksumOver(m.data)))
  BY DEF FrameBody, CksumField, Body
<1> QED
  BY <1>1, <1>2, <1>3, FrameHeadIs DEF Carries

LEMMA WholeCarries ==
  ASSUME ~TF_CKSUM_NONE, NEW s \in Whole
  PROVE  \E m, k : Carries(s, m, k)
<1>1. CASE s \in Frames
  BY <1>1, FrameCarries DEF Frames
<1>2. CASE s \in Damaged
  <2>1. PICK m \in PeerMessages, k \in Cksum : m.data # << >> /\ s = FrameHead(m) \o m.data \o k
    BY <1>2 DEF Damaged
  <2>2. PICK h, d : h = FrameHead(m) /\ d = m.data
    OBVIOUS
  <2>3. h = CheckedHeader(m.frame_id, m.len, m.type)
    BY <2>2, FrameHeadIs
  <2>4. h \in Seq(Byte) /\ d \in Seq(Byte) /\ k \in Seq(Byte)
    BY <2>2, <2>3, MessageFields, CheckedHeaderType, RegisterIsSeq, Widths DEF Cksum
  <2>5. s = h \o d \o k
    BY <2>1, <2>2, Zenon
  <2>6. h \o d \o k = h \o (d \o k)
    BY <2>4, ConcatAssociative
  <2> QED
    BY <2>1, <2>2, <2>3, <2>5, <2>6, Zenon DEF Carries, Body
<1> QED
  BY <1>1, <1>2 DEF Whole

LEMMA CarriedType ==
  ASSUME NEW s, NEW m, NEW k, Carries(s, m, k)
  PROVE  /\ HeaderFields(m.frame_id, m.len, m.type)
         /\ m.data \in Seq(Byte) /\ Len(m.data) = Value(m.len)
         /\ k \in Seq(Byte) /\ Len(k) = TF_CKSUM_BYTES
         /\ Value(m.len) \in Nat
         /\ m.data = << >> <=> Value(m.len) = 0
         /\ m.data \o k \in Seq(Byte)
         /\ Len(m.data \o k) = Value(m.len) + TF_CKSUM_BYTES
         /\ Opens(s, m.frame_id, m.len, m.type, Body(m, k))
<1>1. /\ HeaderFields(m.frame_id, m.len, m.type)
      /\ m.data \in Seq(Byte) /\ Len(m.data) = Value(m.len)
      /\ k \in Cksum
  BY MessageFields DEF Carries
<1>2. k \in Seq(Byte) /\ Len(k) = TF_CKSUM_BYTES
  BY <1>1, RegisterIsSeq, Widths DEF Cksum
<1>3. Len(m.data) \in Nat /\ (m.data = << >> <=> Len(m.data) = 0)
  BY <1>1, EmptySeq, LenProperties
<1>4. m.data \o k \in Seq(Byte) /\ Len(m.data \o k) = Len(m.data) + Len(k)
  BY <1>1, <1>2, ConcatProperties
<1>5. Body(m, k) \in Seq(Byte)
  BY <1>4, EmptySeq DEF Body
<1>6. Opens(s, m.frame_id, m.len, m.type, Body(m, k))
  BY <1>1, <1>5 DEF Opens, Carries
<1> QED
  BY <1>1, <1>2, <1>3, <1>4, <1>6

(* A frame that starts with a complete header: the header is its message's,  *)
(* and what follows is the payload with its checksum.                       *)
LEMMA CarriedUnique ==
  ASSUME NEW s, NEW m, NEW k, Carries(s, m, k),
         NEW i, NEW l, NEW t, NEW x, Opens(s, i, l, t, x)
  PROVE  m.frame_id = i /\ m.len = l /\ m.type = t /\ x = Body(m, k)
<1>1. PICK j, n, u, y : j = m.frame_id /\ n = m.len /\ u = m.type /\ y = Body(m, k)
  OBVIOUS
<1>2. Opens(s, j, n, u, y)
  BY <1>1, CarriedType, Zenon
<1>3. /\ HeaderFields(i, l, t) /\ HeaderFields(j, n, u)
      /\ x \in Seq(Byte) /\ y \in Seq(Byte)
      /\ CheckedHeader(i, l, t) \o x = CheckedHeader(j, n, u) \o y
  BY <1>2, Zenon DEF Opens
<1>4. PICK g, h : g = CheckedHeader(i, l, t) /\ h = CheckedHeader(j, n, u)
  OBVIOUS
<1>5. g \in Seq(Byte) /\ Len(g) = HeadLength /\ h \in Seq(Byte) /\ Len(h) = HeadLength
  BY <1>3, <1>4, CheckedHeaderType, Zenon
<1>6. g \o x = h \o y
  BY <1>3, <1>4, Zenon
<1>7. g = h /\ x = y
  BY <1>3, <1>5, <1>6, ConcatCancel, Zenon
<1>8. CheckedHeader(i, l, t) = CheckedHeader(j, n, u)
  BY <1>4, <1>7, Zenon
<1>9. i = j /\ l = n /\ t = u
  BY <1>3, <1>8, CheckedHeaderInjective
<1> QED
  BY <1>1, <1>7, <1>9, Zenon

LEMMA CarriedLength ==
  ASSUME NEW s, NEW m, NEW k, Carries(s, m, k)
  PROVE  /\ s \in Seq(Byte)
         /\ Len(s) = HeadLength + IF m.data = << >> THEN 0 ELSE Value(m.len) + TF_CKSUM_BYTES
<1> DEFINE y == Body(m, k)
           h == CheckedHeader(m.frame_id, m.len, m.type)
<1>1. y \in Seq(Byte) /\ Len(y) = IF m.data = << >> THEN 0 ELSE Value(m.len) + TF_CKSUM_BYTES
  BY CarriedType, EmptySeq DEF Body
<1>2. h \in Seq(Byte) /\ Len(h) = HeadLength
  BY CarriedType, CheckedHeaderType
<1>3. s = h \o y
  BY DEF Carries
<1> HIDE DEF y, h
<1>4. h \o y \in Seq(Byte) /\ Len(h \o y) = Len(h) + Len(y)
  BY <1>1, <1>2, ConcatProperties
<1> QED
  BY <1>1, <1>2, <1>3, <1>4, Zenon

LEMMA EncodeInjective ==
  ASSUME ~TF_CKSUM_NONE, NEW m \in PeerMessages, NEW n \in PeerMessages, Encode(m) = Encode(n)
  PROVE  m = n
<1> DEFINE k(a) == TF_CksumEnd(CksumOver(a.data))
<1>1. Carries(Encode(m), m, k(m)) /\ Carries(Encode(m), n, k(n))
  BY FrameCarries
<1> HIDE DEF k
<1>2. Opens(Encode(m), n.frame_id, n.len, n.type, Body(n, k(n)))
  BY <1>1, CarriedType
<1>3. m.frame_id = n.frame_id /\ m.len = n.len /\ m.type = n.type /\ Body(n, k(n)) = Body(m, k(m))
  BY <1>1, <1>2, CarriedUnique
<1>4. m.data = n.data
  <2>1. m.data = << >> <=> n.data = << >>
    BY <1>1, <1>3, CarriedType
  <2>2. ASSUME n.data # << >>
        PROVE  m.data = n.data
    <3>1. m.data \o k(m) = n.data \o k(n)
      BY <1>3, <2>1, <2>2 DEF Body
    <3>2. Len(m.data) = Len(n.data)
      BY <1>1, <1>3, CarriedType
    <3>3. m.data \in Seq(Byte) /\ n.data \in Seq(Byte) /\ k(m) \in Seq(Byte) /\ k(n) \in Seq(Byte)
      BY <1>1, CarriedType
    <3> QED
      BY <3>1, <3>2, <3>3, ConcatCancel, Zenon
  <2> QED
    BY <2>1, <2>2
<1> QED
  BY <1>3, <1>4, MessageFields, Zenon

LEMMA OutcomeOfFrame ==
  ASSUME ~TF_CKSUM_NONE, NEW m \in PeerMessages
  PROVE  /\ Encode(m) \in Whole
         /\ Outcome[Encode(m)] = IF Len(m.data) <= TF_MAX_PAYLOAD_RX THEN m ELSE NoMsg
<1>1. Encode(m) \in Frames /\ Encode(m) \in Whole
  BY DEF Frames, Whole
<1>2. (CHOOSE p \in PeerMessages : Encode(p) = Encode(m)) = m
  BY EncodeInjective
<1> QED
  BY <1>1, <1>2 DEF Outcome

LEMMA OutcomeOfDamaged ==
  ASSUME NEW s \in Whole, s \notin Frames
  PROVE  Outcome[s] = NoMsg
BY DEF Outcome

(* What is shorter than a header, or than its header says, is not whole.     *)
LEMMA ShortNotWhole ==
  ASSUME ~TF_CKSUM_NONE, NEW s, Len(s) < HeadLength
  PROVE  s \notin Whole
<1> SUFFICES ASSUME s \in Whole PROVE FALSE
  OBVIOUS
<1>1. PICK m, k : Carries(s, m, k)
  BY WholeCarries
<1>2. PICK b \in Nat : Len(s) = HeadLength + b
  <2>1. (IF m.data = << >> THEN 0 ELSE Value(m.len) + TF_CKSUM_BYTES) \in Nat
    BY <1>1, CarriedType, LengthsNat
  <2> QED
    BY <1>1, <2>1, CarriedLength, Zenon
<1> QED
  BY <1>2, LengthsNat

LEMMA PartNotWhole ==
  ASSUME ~TF_CKSUM_NONE, NEW s, NEW i, NEW l, NEW t, NEW d, Opens(s, i, l, t, d),
         Value(l) # 0, Len(d) < Value(l) + TF_CKSUM_BYTES
  PROVE  s \notin Whole
<1> SUFFICES ASSUME s \in Whole PROVE FALSE
  OBVIOUS
<1>1. PICK m, k : Carries(s, m, k)
  BY WholeCarries
<1>2. m.len = l /\ d = Body(m, k)
  BY <1>1, CarriedUnique
<1>3. d = m.data \o k /\ Len(m.data \o k) = Value(l) + TF_CKSUM_BYTES /\ Value(l) \in Nat
  BY <1>1, <1>2, CarriedType DEF Body
<1> QED
  BY <1>3, LengthsNat

LEMMA EmptyNotWhole ==
  ASSUME ~TF_CKSUM_NONE
  PROVE  << >> \notin Whole
<1>1. Len(<< >>) < HeadLength
  BY LengthsNat
<1> QED
  BY <1>1, ShortNotWhole

(* What may be on the line is the beginning of some frame.                   *)
LEMMA PrefixContinues ==
  ASSUME ~TF_CKSUM_NONE, NEW b \in Prefixes
  PROVE  \E s \in Whole, r \in Seq(Byte) : s = b \o r
<1>0. PICK s \in Whole : \E n \in 0 .. Len(s) : b = SubSeq(s, 1, n)
  BY DEF Prefixes
<1>1. PICK n \in 0 .. Len(s) : b = SubSeq(s, 1, n)
  BY <1>0
<1>2. s \in Seq(Byte) /\ Len(s) \in Nat
  BY WholeCarries, CarriedLength, LenProperties
<1> DEFINE r == SubSeq(s, n + 1, Len(s))
<1>3. r \in Seq(Byte)
  <2>1. \A i \in n + 1 .. Len(s) : s[i] \in Byte
    BY <1>2, ElementOfSeq
  <2> QED
    BY <1>2, <2>1, SubSeqProperties
<1>4. SubSeq(s, 1, n) \o SubSeq(s, n + 1, Len(s)) = SubSeq(s, 1, Len(s))
  <2>1. 1 \in 1 .. Len(s) + 1 /\ n \in 1 - 1 .. Len(s) /\ Len(s) \in n .. Len(s)
    BY <1>2
  <2> QED
    BY <1>2, <2>1, ConcatAdjacentSubSeq, Zenon
<1>5. SubSeq(s, 1, Len(s)) = s
  BY <1>2, SubSeqFull
<1> QED
  BY <1>1, <1>3, <1>4, <1>5, Zenon

-----------------------------------------------------------------------------
(* Clean frames are delivered.  Located: also where a payload is not stored, *)
(* the parser knows where in the frame it is.  Synced: as long as the line   *)
(* carries frames, what the parser takes for the frame is the frame.         *)

Located ==
  state \in {"DATA", "DATA_CKSUM"} =>
    /\ Value(len) # 0
    /\ discard_data = (Value(len) > TF_MAX_PAYLOAD_RX)
    /\ \E d : /\ Opens(received, id, len, type, d)
              /\ Len(d) = rxi + IF state = "DATA" THEN 0 ELSE Value(len)

Synced ==
  sync /\ ~Silence =>
    IF burst = << >> \/ burst \in Whole THEN state = "SOF"
    ELSE state # "SOF" /\ received = burst

SyncInv == ParserInv /\ Located /\ Synced

LEMMA HeaderShort ==
  ASSUME TypeOK, FrameInv, state \in {"ID", "LEN", "TYPE", "HEAD_CKSUM"}
  PROVE  Len(received) < HeadLength
<1> DEFINE S == Len(SofField)
<1>1. HeaderFields(id, len, type) /\ ref_cksum \in Register(TF_CKSUM_BYTES)
  BY DEF TypeOK, HeaderFields, Cksum
<1>2. /\ S \in Nat /\ HeadLength = S + TF_ID_BYTES + TF_LEN_BYTES + TF_TYPE_BYTES + TF_CKSUM_BYTES
      /\ TF_ID_BYTES \in Nat \ {0} /\ TF_LEN_BYTES \in Nat \ {0}
      /\ TF_TYPE_BYTES \in Nat \ {0} /\ TF_CKSUM_BYTES \in Nat \ {0}
      /\ rxi \in Nat
  BY LengthsNat, Widths DEF HeadLength, HeaderLength, TypeOK
<1>3. ASSUME NEW n \in Nat \ {0}, NEW r \in Register(n), rxi < n, NEW p \in Seq(Byte)
      PROVE  Len(p \o Collected(r, rxi)) = Len(p) + rxi
  <2>1. rxi \in 0 .. n
    BY <1>2, <1>3
  <2>2. Collected(r, rxi) \in Seq(Byte) /\ Len(Collected(r, rxi)) = rxi
    BY <2>1, CollectedType
  <2> QED
    BY <2>2, ConcatProperties
<1> HIDE DEF S
<1>4. CASE state = "ID"
  <2>1. InId
    BY <1>4 DEF FrameInv
  <2>2. Len(SofField \o Collected(id, rxi)) = Len(SofField) + rxi
    BY <1>1, <1>2, <1>3, <2>1, HeaderType DEF InId, HeaderFields
  <2>3. Len(received) = S + rxi /\ rxi < TF_ID_BYTES
    BY <2>1, <2>2 DEF InId, S
  <2> QED
    BY <1>2, <2>3
<1>5. CASE state = "LEN"
  <2>1. InLen
    BY <1>5 DEF FrameInv
  <2>2. PICK p : p = SofField \o id
    OBVIOUS
  <2>3. p \in Seq(Byte) /\ Len(p) = S + TF_ID_BYTES
    BY <1>1, <2>2, HeaderType, Zenon DEF S
  <2>4. Len(p \o Collected(len, rxi)) = Len(p) + rxi
    BY <1>1, <1>2, <1>3, <2>1, <2>3, Zenon DEF InLen, HeaderFields
  <2>5. Len(received) = Len(p) + rxi /\ rxi < TF_LEN_BYTES
    BY <2>1, <2>2, <2>4, Zenon DEF InLen
  <2> QED
    BY <1>2, <2>3, <2>5
<1>6. CASE state = "TYPE"
  <2>1. InType
    BY <1>6 DEF FrameInv
  <2>2. PICK p : p = SofField \o id \o len
    OBVIOUS
  <2>3. p \in Seq(Byte) /\ Len(p) = S + TF_ID_BYTES + TF_LEN_BYTES
    BY <1>1, <2>2, HeaderType, Zenon DEF S
  <2>4. Len(p \o Collected(type, rxi)) = Len(p) + rxi
    BY <1>1, <1>2, <1>3, <2>1, <2>3, Zenon DEF InType, HeaderFields
  <2>5. Len(received) = Len(p) + rxi /\ rxi < TF_TYPE_BYTES
    BY <2>1, <2>2, <2>4, Zenon DEF InType
  <2> QED
    BY <1>2, <2>3, <2>5
<1>7. CASE state = "HEAD_CKSUM"
  <2>1. InHeadCksum
    BY <1>7 DEF FrameInv
  <2>2. PICK p : p = HeadSoFar
    OBVIOUS
  <2>3. p \in Seq(Byte) /\ Len(p) = HeaderLength
    BY <1>1, <2>2, HeaderType, Zenon DEF HeadSoFar, Header
  <2>4. Len(p \o Collected(ref_cksum, rxi)) = Len(p) + rxi
    BY <1>1, <1>2, <1>3, <2>1, <2>3, Zenon DEF InHeadCksum
  <2>5. Len(received) = Len(p) + rxi /\ rxi < TF_CKSUM_BYTES
    BY <2>1, <2>2, <2>4, Zenon DEF InHeadCksum
  <2> QED
    BY <1>2, <2>3, <2>5, LengthsNat DEF HeadLength
<1> QED
  BY <1>4, <1>5, <1>6, <1>7

(* As long as the parser is in a frame, what it received is no whole frame.  *)
LEMMA InsideNotWhole ==
  ~TF_CKSUM_NONE /\ TypeOK /\ FrameInv /\ Located /\ state # "SOF" => received \notin Whole
<1> SUFFICES ASSUME ~TF_CKSUM_NONE, TypeOK, FrameInv, Located, state # "SOF"
             PROVE  received \notin Whole
  OBVIOUS
<1>1. CASE state \in {"ID", "LEN", "TYPE", "HEAD_CKSUM"}
  BY <1>1, HeaderShort, ShortNotWhole
<1>2. CASE state \in {"DATA", "DATA_CKSUM"}
  <2>1. PICK d : /\ Opens(received, id, len, type, d)
                 /\ Len(d) = rxi + IF state = "DATA" THEN 0 ELSE Value(len)
    BY <1>2 DEF Located
  <2>2. Value(len) # 0 /\ Value(len) \in Nat /\ TF_CKSUM_BYTES \in Nat \ {0} /\ rxi \in Nat
    BY <1>2, LengthType, Widths, LengthsNat DEF Located, TypeOK
  <2>3. Len(d) < Value(len) + TF_CKSUM_BYTES
    <3>1. CASE state = "DATA"
      BY <2>1, <2>2, <3>1 DEF FrameInv, InData
    <3>2. CASE state = "DATA_CKSUM"
      BY <2>1, <2>2, <3>2 DEF FrameInv, InDataCksum
    <3> QED
      BY <1>2, <3>1, <3>2
  <2> QED
    BY <2>1, <2>2, <2>3, PartNotWhole
<1> QED
  BY <1>1, <1>2 DEF TypeOK, States

(* The bytes of a checksum that has come in full.                            *)
LEMMA HeadCksumBytes ==
  ASSUME ParserInv, NEW c \in Byte, Accept(c), CollectHeadCksum(c), Received = TF_CKSUM_BYTES
  PROVE  Append(received, c) = HeadSoFar \o ref_cksum'
<1>1. TypeOK /\ TypeInv /\ FrameInv
  BY DEF ParserInv, TypeInv
<1>2. ~Idle /\ state = "HEAD_CKSUM"
  BY DEF CollectHeadCksum, Phase, Idle
<1>3. InHeadCksum
  BY <1>1, <1>2 DEF FrameInv
<1>4. /\ ref_cksum \in Register(TF_CKSUM_BYTES) /\ ref_cksum' = ShiftIn(ref_cksum, c)
      /\ ref_cksum' \in Register(TF_CKSUM_BYTES)
      /\ TF_CKSUM_BYTES \in Nat \ {0}
      /\ rxi \in 0 .. TF_CKSUM_BYTES - 1
  BY <1>1, <1>3, Widths, ShiftInType DEF TypeOK, CollectHeadCksum, InHeadCksum, Cksum
<1>5. rxi + 1 = TF_CKSUM_BYTES
  BY <1>1, <1>2, <1>4, InsideFrame, Widths
<1>6. PICK p : p = HeadSoFar
  OBVIOUS
<1>7. p \in Seq(Byte) /\ received = p \o Collected(ref_cksum, rxi)
  BY <1>1, <1>3, <1>6, PiecesType DEF InHeadCksum
<1>8. Append(p \o Collected(ref_cksum, rxi), c) = p \o Collected(ref_cksum', rxi + 1)
  BY <1>4, <1>7, FieldExtended
<1>9. p \o Collected(ref_cksum', TF_CKSUM_BYTES) = p \o ref_cksum'
  BY <1>4, <1>7, FieldComplete
<1> QED
  BY <1>5, <1>6, <1>7, <1>8, <1>9, Zenon

LEMMA DataCksumBytes ==
  ASSUME ParserInv, NEW c \in Byte, Accept(c), CollectDataCksum(c), Received = TF_CKSUM_BYTES,
         ~discard_data
  PROVE  /\ Append(received, c) = HeadDone \o (data \o ref_cksum')
         /\ ref_cksum' \in Cksum
<1>1. TypeOK /\ TypeInv /\ FrameInv
  BY DEF ParserInv, TypeInv
<1>2. ~Idle /\ state = "DATA_CKSUM"
  BY DEF CollectDataCksum, Phase, Idle
<1>3. InDataCksum
  BY <1>1, <1>2 DEF FrameInv
<1>4. /\ ref_cksum \in Register(TF_CKSUM_BYTES) /\ ref_cksum' = ShiftIn(ref_cksum, c)
      /\ ref_cksum' \in Register(TF_CKSUM_BYTES)
      /\ TF_CKSUM_BYTES \in Nat \ {0}
      /\ rxi \in 0 .. TF_CKSUM_BYTES - 1
  BY <1>1, <1>3, Widths, ShiftInType DEF TypeOK, CollectDataCksum, InDataCksum, Cksum
<1>5. rxi + 1 = TF_CKSUM_BYTES
  BY <1>1, <1>2, <1>4, InsideFrame, Widths
<1>6. PICK p, h : p = h \o data /\ h = HeadDone
  OBVIOUS
<1>7. h \in Seq(Byte) /\ data \in Seq(Byte)
  BY <1>1, <1>6, HeadDoneType DEF TypeOK
<1>8. p \in Seq(Byte) /\ received = p \o Collected(ref_cksum, rxi)
  BY <1>3, <1>6, <1>7, ConcatProperties DEF InDataCksum
<1>9. Append(p \o Collected(ref_cksum, rxi), c) = p \o Collected(ref_cksum', rxi + 1)
  BY <1>4, <1>8, FieldExtended
<1>10. p \o Collected(ref_cksum', TF_CKSUM_BYTES) = p \o ref_cksum'
  BY <1>4, <1>8, FieldComplete
<1>11. ref_cksum' \in Seq(Byte) /\ ref_cksum' \in Cksum
  BY <1>4, RegisterIsSeq DEF Cksum
<1>12. (h \o data) \o ref_cksum' = h \o (data \o ref_cksum')
  BY <1>7, <1>11, ConcatAssociative
<1> QED
  BY <1>5, <1>6, <1>8, <1>9, <1>10, <1>11, <1>12, Zenon

LEMMA OpensAppend ==
  ASSUME NEW s, NEW i, NEW l, NEW t, NEW d, Opens(s, i, l, t, d), NEW c \in Byte
  PROVE  /\ Opens(Append(s, c), i, l, t, Append(d, c))
         /\ Len(Append(d, c)) = Len(d) + 1
<1>1. PICK h : h = CheckedHeader(i, l, t)
  OBVIOUS
<1>2. h \in Seq(Byte) /\ d \in Seq(Byte) /\ HeaderFields(i, l, t) /\ s = h \o d
  BY <1>1, CheckedHeaderType, Zenon DEF Opens
<1>3. Append(s, c) = h \o Append(d, c)
  BY <1>2, AppendConcat
<1>4. Append(d, c) \in Seq(Byte) /\ Len(Append(d, c)) = Len(d) + 1
  BY <1>2, AppendProperties
<1> QED
  BY <1>1, <1>2, <1>3, <1>4, Zenon DEF Opens

LEMMA LocatedStep ==
  ASSUME ~TF_CKSUM_NONE, ParserInv, Located, NEW c \in Byte, Accept(c)
  PROVE  Located'
<1> SUFFICES ASSUME state' \in {"DATA", "DATA_CKSUM"} PROVE Located'
  BY DEF Located
<1>1. TypeOK /\ TypeInv /\ FrameInv
  BY DEF ParserInv, TypeInv
<1>2. /\ Value(len) \in Nat /\ Value(len) < LenRange /\ rxi \in Nat
      /\ TF_CKSUM_BYTES < LenRange /\ TF_CKSUM_BYTES \in Nat /\ LenRange \in Nat
  BY <1>1, LengthType, Widths DEF TypeOK
<1>3. CASE CollectHeadCksum(c)
  <2>1. ~Idle /\ state = "HEAD_CKSUM"
    BY <1>3 DEF CollectHeadCksum, Phase, Idle
  <2>2. /\ Received = TF_CKSUM_BYTES /\ EnterData
        /\ id' = id /\ len' = len /\ type' = type
    BY <1>3 DEF CollectHeadCksum, HeadCksumWrong, HeadOnlyFrame
  <2>3. /\ state' = "DATA" /\ rxi' = 0 /\ Value(len) # 0
        /\ TF_CksumEnd(cksum) = ref_cksum'
        /\ discard_data' = (Value(len) > TF_MAX_PAYLOAD_RX)
    BY <1>1, <2>1, <2>2 DEF EnterData, FrameInv
  <2>4. cksum = CksumOver(HeadSoFar)
    BY <1>1, <2>1 DEF FrameInv, InHeadCksum
  <2>5. received' = HeadDone
    <3>1. received' = Append(received, c)
      BY <1>1, <2>1, <2>3, InsideFrame
    <3> QED
      BY <1>3, <2>2, <2>3, <2>4, <3>1, HeadCksumBytes DEF HeadDone
  <2>6. Opens(received', id', len', type', << >>) /\ Len(<< >>) = 0
    <3>1. HeaderFields(id, len, type)
      BY <1>1 DEF TypeOK, HeaderFields
    <3>2. PICK h : h = CheckedHeader(id, len, type)
      OBVIOUS
    <3>3. h \in Seq(Byte)
      BY <3>1, <3>2, CheckedHeaderType
    <3>4. h \o << >> = h /\ << >> \in Seq(Byte) /\ Len(<< >>) = 0
      BY <3>3, ConcatEmptySeq, EmptySeq
    <3> QED
      BY <2>2, <2>5, <3>1, <3>2, <3>4, HeadDoneIs, Zenon DEF Opens
  <2>7. \E d : Opens(received', id', len', type', d) /\ Len(d) = rxi' + 0
    BY <2>3, <2>6
  <2> QED
    BY <2>2, <2>3, <2>7 DEF Located
<1>4. CASE CollectData(c)
  <2>1. ~Idle /\ state = "DATA" /\ id' = id /\ len' = len /\ type' = type
        /\ discard_data' = discard_data
    BY <1>4 DEF CollectData, Phase, Idle
  <2>2. PICK d : Opens(received, id, len, type, d) /\ Len(d) = rxi + 0
    BY <2>1 DEF Located
  <2>3. /\ Opens(Append(received, c), id, len, type, Append(d, c))
        /\ Len(Append(d, c)) = rxi + 1
    BY <1>2, <2>2, OpensAppend
  <2>4. received' = Append(received, c)
    BY <1>1, <2>1, InsideFrame
  <2>5. Received = rxi + 1
    BY <1>1, <1>2, <2>1, InsideFrame DEF FrameInv, InData
  <2>6. \/ state' = "DATA" /\ rxi' = rxi + 1
        \/ state' = "DATA_CKSUM" /\ rxi' = 0 /\ rxi + 1 = Value(len)
    BY <1>4, <2>5 DEF CollectData
  <2>7. Len(Append(d, c)) = rxi' + IF state' = "DATA" THEN 0 ELSE Value(len')
    BY <1>2, <2>1, <2>3, <2>6
  <2>8. Opens(received', id', len', type', Append(d, c))
    BY <2>1, <2>3, <2>4
  <2>9. Value(len') # 0 /\ discard_data' = (Value(len') > TF_MAX_PAYLOAD_RX)
    BY <2>1 DEF Located
  <2> QED
    BY <2>7, <2>8, <2>9 DEF Located
<1>5. CASE CollectDataCksum(c)
  <2>1. ~Idle /\ state = "DATA_CKSUM" /\ id' = id /\ len' = len /\ type' = type
        /\ discard_data' = discard_data
    BY <1>5 DEF CollectDataCksum, Phase, Idle
  <2>2. PICK d : Opens(received, id, len, type, d) /\ Len(d) = rxi + Value(len)
    BY <2>1 DEF Located
  <2>3. /\ Opens(Append(received, c), id, len, type, Append(d, c))
        /\ Len(Append(d, c)) = rxi + Value(len) + 1
    BY <1>2, <2>2, OpensAppend
  <2>4. received' = Append(received, c)
    BY <1>1, <2>1, InsideFrame
  <2>5. rxi' = rxi + 1 /\ state' = "DATA_CKSUM"
    BY <1>1, <1>2, <1>5, <2>1, InsideFrame DEF CollectDataCksum, FrameInv, InDataCksum
  <2>6. Len(Append(d, c)) = rxi' + IF state' = "DATA" THEN 0 ELSE Value(len')
    BY <1>2, <2>1, <2>3, <2>5
  <2>7. Opens(received', id', len', type', Append(d, c))
    BY <2>1, <2>3, <2>4
  <2>8. Value(len') # 0 /\ discard_data' = (Value(len') > TF_MAX_PAYLOAD_RX)
    BY <2>1 DEF Located
  <2> QED
    BY <2>6, <2>7, <2>8 DEF Located
<1>6. CASE AwaitSof(c) \/ CollectId(c) \/ CollectLen(c) \/ CollectType(c)
  BY <1>6 DEF AwaitSof, CollectId, CollectLen, CollectType, FieldByte
<1> QED
  BY <1>3, <1>4, <1>5, <1>6 DEF Accept, TF_AcceptChar

(* The last byte of a frame that came through whole: one with no payload...  *)
LEMMA LastHeadByte ==
  ASSUME ~TF_CKSUM_NONE, ParserInv, NEW c \in Byte, Accept(c), CollectHeadCksum(c),
         state' = "SOF", NEW b, b = Append(received, c), b \in Prefixes
  PROVE  b \in Whole /\ handled' = Outcome[b]
<1>1. TypeOK /\ TypeInv /\ FrameInv
  BY DEF ParserInv, TypeInv
<1>2. state = "HEAD_CKSUM"
  BY DEF CollectHeadCksum, Phase
<1>3. Received = TF_CKSUM_BYTES
  BY DEF CollectHeadCksum
<1>4. PICK h, q : h = Header(id, len, type) /\ q = ref_cksum'
  OBVIOUS
<1>5. h = HeadSoFar /\ b = h \o q
  BY <1>3, <1>4, HeadCksumBytes, Zenon DEF HeadSoFar, Header
<1>6. cksum = CksumOver(h)
  BY <1>1, <1>2, <1>5 DEF FrameInv, InHeadCksum
<1>7. HeaderFields(id, len, type) /\ h \in Seq(Byte) /\ Len(h) = HeaderLength
  BY <1>1, <1>4, HeaderType DEF TypeOK, HeaderFields
<1>8. q \in Seq(Byte) /\ Len(q) = TF_CKSUM_BYTES
  <2>1. q \in Register(TF_CKSUM_BYTES) /\ TF_CKSUM_BYTES \in Nat \ {0}
    BY <1>1, <1>4, Widths, ShiftInType DEF TypeOK, Cksum, CollectHeadCksum
  <2> QED
    BY <2>1, RegisterIsSeq
<1>9. b \in Seq(Byte) /\ Len(b) = HeadLength
  BY <1>5, <1>7, <1>8, ConcatProperties DEF HeadLength
<1>10. PICK s \in Whole, r \in Seq(Byte) : s = b \o r
  BY PrefixContinues
<1>11. PICK m, k : Carries(s, m, k)
  BY WholeCarries
<1>12. PICK i, l, t, g, y :
          /\ i = m.frame_id /\ l = m.len /\ t = m.type
          /\ g = Header(i, l, t) /\ y = Body(m, k)
  OBVIOUS
<1>13. Opens(s, i, l, t, y)
  BY <1>11, <1>12, CarriedType, Zenon
<1>14. HeaderFields(i, l, t) /\ y \in Seq(Byte) /\ s = CheckedHeader(i, l, t) \o y
  BY <1>13 DEF Opens
<1>15. b = CheckedHeader(i, l, t) /\ r = y
  <2>1. CheckedHeader(i, l, t) \in Seq(Byte) /\ Len(CheckedHeader(i, l, t)) = Len(b)
    BY <1>9, <1>14, CheckedHeaderType
  <2> QED
    BY <1>9, <1>10, <1>14, <2>1, ConcatCancel, Zenon
<1>16. h = g /\ q = TF_CksumEnd(CksumOver(g))
  <2>1. g \in Seq(Byte) /\ Len(g) = Len(h) /\ TF_CksumEnd(CksumOver(g)) \in Cksum
    BY <1>7, <1>12, <1>14, HeaderType, CheckedHeaderType
  <2>2. TF_CksumEnd(CksumOver(g)) \in Seq(Byte)
    BY <2>1, RegisterIsSeq, Widths DEF Cksum
  <2>3. h \o q = g \o TF_CksumEnd(CksumOver(g))
    BY <1>5, <1>12, <1>15, Zenon DEF CheckedHeader
  <2> QED
    BY <1>7, <1>8, <2>1, <2>2, <2>3, ConcatCancel, Zenon
<1>17. id = i /\ len = l /\ type = t
  <2>1. Header(id, len, type) = Header(i, l, t)
    BY <1>4, <1>12, <1>16, Zenon
  <2> QED
    BY <1>7, <1>14, <2>1, HeaderInjective
<1>18. TF_CksumEnd(cksum) = ref_cksum'
  BY <1>4, <1>6, <1>16, Zenon
<1>19. Value(len) = 0 /\ handled' = MessageWith(data)
  BY <1>3, <1>18 DEF CollectHeadCksum, HeadCksumWrong, HeadOnlyFrame, EnterData
<1>20. m \in PeerMessages /\ m.data = << >>
  BY <1>11, <1>12, <1>17, <1>19, CarriedType DEF Carries
<1>21. b = Encode(m)
  <2>1. Carries(Encode(m), m, TF_CksumEnd(CksumOver(m.data)))
    BY <1>20, FrameCarries
  <2>2. Encode(m) = CheckedHeader(i, l, t) \o << >>
    BY <1>12, <1>20, <2>1, Zenon DEF Carries, Body
  <2>3. b \o << >> = b
    BY <1>9, ConcatEmptySeq
  <2> QED
    BY <1>15, <2>2, <2>3, Zenon
<1>22. handled' = m
  <2>1. MessageWith(data).data = << >>
    BY <1>19, SubSeqEmpty DEF MessageWith
  <2>2. handled' = [frame_id |-> id, type |-> type, len |-> len, data |-> << >>]
    BY <1>19, <2>1 DEF MessageWith
  <2>3. m = [frame_id |-> m.frame_id, type |-> m.type, len |-> m.len, data |-> m.data]
    BY <1>20, MessageFields
  <2> QED
    BY <1>12, <1>17, <1>20, <2>2, <2>3, Zenon
<1>23. Len(m.data) <= TF_MAX_PAYLOAD_RX
  BY <1>20, EmptySeq, ParserAssumption
<1> QED
  BY <1>20, <1>21, <1>22, <1>23, OutcomeOfFrame

(* ... and one with a payload, stored or too long, undamaged or not.         *)
LEMMA LastDataByte ==
  ASSUME ~TF_CKSUM_NONE, ParserInv, Located, NEW c \in Byte, Accept(c), CollectDataCksum(c),
         state' = "SOF", NEW b, b = Append(received, c), b \in Prefixes
  PROVE  b \in Whole /\ handled' = Outcome[b]
<1>1. TypeOK /\ TypeInv /\ FrameInv
  BY DEF ParserInv, TypeInv
<1>2. ~Idle /\ state = "DATA_CKSUM" /\ Received = TF_CKSUM_BYTES
  BY DEF CollectDataCksum, Phase, Idle
<1>3. /\ InDataCksum /\ Value(len) # 0 /\ Value(len) \in Nat
      /\ TF_CKSUM_BYTES \in Nat \ {0} /\ rxi + 1 = TF_CKSUM_BYTES
  <2>1. InDataCksum /\ Value(len) # 0 /\ Value(len) \in Nat
    BY <1>1, <1>2, LengthType, Widths DEF FrameInv, Located
  <2>2. Received = rxi + 1
    BY <1>1, <1>2, <2>1, InsideFrame, Widths DEF InDataCksum, TypeOK
  <2> QED
    BY <1>2, <2>1, <2>2, LengthsNat
<1>4. PICK e : Opens(b, id, len, type, e) /\ Len(e) = Value(len) + TF_CKSUM_BYTES
  <2>1. PICK d : Opens(received, id, len, type, d) /\ Len(d) = rxi + Value(len)
    BY <1>2 DEF Located
  <2>2. /\ Opens(Append(received, c), id, len, type, Append(d, c))
        /\ Len(Append(d, c)) = Len(d) + 1
    BY <2>1, OpensAppend
  <2>3. (rxi + Value(len)) + 1 = Value(len) + TF_CKSUM_BYTES
    <3>1. rxi \in Nat
      BY <1>1, Widths DEF TypeOK
    <3> QED
      BY <1>3, <3>1
  <2> QED
    BY <2>1, <2>2, <2>3, Zenon
<1>5. PICK s \in Whole, r \in Seq(Byte) : s = b \o r
  BY PrefixContinues
<1>6. PICK m, k : Carries(s, m, k)
  BY WholeCarries
<1>7. e \in Seq(Byte) /\ HeaderFields(id, len, type) /\ b \in Seq(Byte)
  <2>1. PICK h : h = CheckedHeader(id, len, type)
    OBVIOUS
  <2>2. h \in Seq(Byte) /\ e \in Seq(Byte) /\ HeaderFields(id, len, type) /\ b = h \o e
    BY <1>4, <2>1, CheckedHeaderType, Zenon DEF Opens
  <2> QED
    BY <2>2, ConcatProperties
<1>8. Opens(s, id, len, type, e \o r)
  <2>1. PICK h : h = CheckedHeader(id, len, type)
    OBVIOUS
  <2>2. h \in Seq(Byte) /\ b = h \o e
    BY <1>4, <2>1, CheckedHeaderType, Zenon DEF Opens
  <2>3. (h \o e) \o r = h \o (e \o r) /\ e \o r \in Seq(Byte)
    BY <1>7, <2>2, ConcatAssociative, ConcatProperties
  <2> QED
    BY <1>5, <1>7, <2>1, <2>2, <2>3, Zenon DEF Opens
<1>9. /\ m.frame_id = id /\ m.len = len /\ m.type = type /\ e \o r = Body(m, k)
  <2>1. PICK f : f = e \o r
    OBVIOUS
  <2>2. Opens(s, id, len, type, f)
    BY <1>8, <2>1, Zenon
  <2>3. m.frame_id = id /\ m.len = len /\ m.type = type /\ f = Body(m, k)
    BY <1>6, <2>2, CarriedUnique
  <2> QED
    BY <2>1, <2>3, Zenon
<1>10. /\ m \in PeerMessages /\ m.data # << >> /\ Body(m, k) = m.data \o k
       /\ m.data \in Seq(Byte) /\ k \in Seq(Byte) /\ Len(m.data) = Value(len)
       /\ Len(m.data \o k) = Value(len) + TF_CKSUM_BYTES
  BY <1>3, <1>6, <1>9, CarriedType DEF Carries, Body
<1>11. b = s /\ e = m.data \o k
  <2>1. Len(e \o r) = Len(e) + Len(r) /\ Len(r) \in Nat /\ Len(e) \in Nat
    BY <1>7, ConcatProperties, LenProperties
  <2>2. Len(e \o r) = Len(e)
    BY <1>4, <1>9, <1>10, Zenon
  <2>3. Len(r) = 0
    BY <2>1, <2>2
  <2>4. r = << >>
    BY <2>3, EmptySeq
  <2>5. e \o << >> = e /\ b \o << >> = b
    BY <1>7, ConcatEmptySeq
  <2> QED
    BY <1>5, <1>9, <1>10, <2>4, <2>5, Zenon
<1>12. b \in Whole
  BY <1>11
<1>13. ASSUME NEW n \in PeerMessages, Encode(n) = b
      PROVE  /\ n.data \in Seq(Byte) /\ Len(n.data) = Value(len)
             /\ TF_CksumEnd(CksumOver(n.data)) \in Seq(Byte)
             /\ e = n.data \o TF_CksumEnd(CksumOver(n.data))
  <2>1. PICK g : g = TF_CksumEnd(CksumOver(n.data))
    OBVIOUS
  <2>2. Carries(b, n, g)
    BY <1>13, <2>1, FrameCarries
  <2>3. n.len = len /\ e = Body(n, g)
    BY <1>4, <2>2, CarriedUnique
  <2>4. n.data \in Seq(Byte) /\ Len(n.data) = Value(len) /\ n.data # << >> /\ g \in Seq(Byte)
    BY <1>3, <2>2, <2>3, CarriedType
  <2> QED
    BY <2>1, <2>3, <2>4, Zenon DEF Body
<1>14. CASE discard_data
  <2>1. handled' = NoMsg
    BY <1>14 DEF CollectDataCksum
  <2>2. Value(len) > TF_MAX_PAYLOAD_RX
    BY <1>2, <1>14 DEF Located
  <2>3. ASSUME NEW n \in PeerMessages, Encode(n) = b
        PROVE  Outcome[b] = NoMsg
    <3>1. Len(n.data) = Value(len)
      BY <1>13, <2>3
    <3>2. ~(Len(n.data) <= TF_MAX_PAYLOAD_RX)
      BY <1>3, <2>2, <3>1, ParserAssumption
    <3> QED
      BY <2>3, <3>2, OutcomeOfFrame
  <2>4. b \in Frames => Outcome[b] = NoMsg
    BY <2>3, Zenon DEF Frames
  <2> QED
    BY <1>12, <2>1, <2>4, OutcomeOfDamaged
<1>15. CASE ~discard_data
  <2>1. PICK q : q = ref_cksum'
    OBVIOUS
  <2>2. /\ data \in Seq(Byte) /\ Len(data) = Value(len) /\ data # << >>
        /\ Value(len) <= TF_MAX_PAYLOAD_RX /\ cksum = CksumOver(data)
    BY <1>1, <1>3, <1>15 DEF InDataCksum, TypeOK
  <2>3. b = HeadDone \o (data \o q) /\ q \in Seq(Byte)
    BY <1>2, <1>15, <2>1, DataCksumBytes, RegisterIsSeq, Widths DEF Cksum
  <2>4. Opens(b, id, len, type, data \o q)
    <3>1. data \o q \in Seq(Byte)
      BY <2>2, <2>3, ConcatProperties
    <3> QED
      BY <1>7, <2>3, <3>1, HeadDoneIs, Zenon DEF Opens
  <2>5. m.data = data /\ k = q
    <3>1. PICK f : f = data \o q
      OBVIOUS
    <3>2. Opens(b, id, len, type, f) /\ Carries(b, m, k)
      BY <1>6, <1>11, <2>4, <3>1, Zenon
    <3>3. f = Body(m, k)
      BY <3>2, CarriedUnique
    <3>4. m.data \o k = data \o q
      BY <1>10, <3>1, <3>3, Zenon
    <3> QED
      BY <1>10, <2>2, <2>3, <3>4, ConcatCancel, Zenon
  <2>6. CASE TF_CksumEnd(cksum) = q
    <3>1. handled' = MessageWith(data)
      BY <1>2, <1>15, <2>1, <2>6 DEF CollectDataCksum
    <3>2. SubSeq(data, 1, Value(len)) = data
      BY <2>2, SubSeqFull
    <3>3. handled' = m
      <4>1. handled' = [frame_id |-> id, type |-> type, len |-> len, data |-> data]
        BY <3>1, <3>2, Zenon DEF MessageWith
      <4>2. m = [frame_id |-> m.frame_id, type |-> m.type, len |-> m.len, data |-> m.data]
        BY <1>10, MessageFields
      <4> QED
        BY <1>9, <2>5, <4>1, <4>2, Zenon
    <3>4. Encode(m) = b
      <4>1. Carries(Encode(m), m, TF_CksumEnd(CksumOver(m.data)))
        BY <1>10, FrameCarries
      <4>2. Carries(Encode(m), m, k) /\ Carries(b, m, k)
        BY <1>6, <1>11, <2>2, <2>5, <2>6, <4>1, Zenon
      <4> QED
        BY <4>2, Zenon DEF Carries
    <3>5. Len(m.data) <= TF_MAX_PAYLOAD_RX
      BY <1>10, <2>2
    <3> QED
      BY <1>10, <1>12, <3>3, <3>4, <3>5, OutcomeOfFrame
  <2>7. CASE TF_CksumEnd(cksum) # q
    <3>1. handled' = NoMsg
      BY <1>2, <1>15, <2>1, <2>7 DEF CollectDataCksum
    <3>2. b \notin Frames
      <4> SUFFICES ASSUME NEW n \in PeerMessages, Encode(n) = b PROVE FALSE
        BY DEF Frames
      <4>1. PICK g : g = TF_CksumEnd(CksumOver(n.data))
        OBVIOUS
      <4>2. /\ n.data \in Seq(Byte) /\ Len(n.data) = Len(data) /\ g \in Seq(Byte)
            /\ data \o q = n.data \o g
        BY <1>13, <1>11, <2>2, <2>5, <4>1, Zenon
      <4>3. n.data = data /\ g = q
        BY <2>2, <2>3, <4>2, ConcatCancel, Zenon
      <4> QED
        BY <2>2, <2>7, <4>1, <4>3, Zenon
    <3> QED
      BY <1>12, <3>1, <3>2, OutcomeOfDamaged
  <2> QED
    BY <2>6, <2>7
<1> QED
  BY <1>12, <1>14, <1>15

LEMMA HandledLast ==
  ASSUME ~TF_CKSUM_NONE, NEW c \in Byte, TF_AcceptChar(c), state' # "SOF"
  PROVE  handled' = NoMsg
BY DEF TF_AcceptChar, AwaitSof, CollectId, CollectLen, CollectType, CollectHeadCksum,
       HeadCksumWrong, HeadOnlyFrame, EnterData, CollectData, CollectDataCksum

(* A byte where a frame may begin.                                           *)
LEMMA FirstByte ==
  ASSUME ParserInv, NEW c \in Byte, Accept(c), Idle, Silence \/ burst = << >> \/ burst \in Whole
  PROVE  \/ /\ OnLine(c) = << >> /\ state' = "SOF" /\ handled' = NoMsg
         \/ /\ OnLine(c) = Append(<< >>, c) /\ state' # "SOF" /\ received' = OnLine(c)
<1>1. TF_AcceptChar(c)
  BY DEF Accept
<1>2. OnLine(c) = IF TF_USE_SOF_BYTE /\ c # TF_SOF_BYTE THEN << >> ELSE Append(<< >>, c)
  BY DEF OnLine
<1>3. Silence \/ state = "SOF"
  BY DEF Idle, TimedOut, Silence, ParserInv, FrameInv
<1>4. CASE TF_USE_SOF_BYTE
  <2>1. AwaitSof(c)
    BY <1>1, <1>4 DEF TF_AcceptChar, CollectId, CollectLen, CollectType, CollectHeadCksum,
                      CollectData, CollectDataCksum, Phase
  <2>2. CASE c # TF_SOF_BYTE
    BY <1>2, <1>4, <2>1, <2>2 DEF AwaitSof
  <2>3. CASE c = TF_SOF_BYTE
    <3>1. state' = "ID"
      BY <2>1, <2>3 DEF AwaitSof
    <3>2. received' = Append(<< >>, c)
      BY <1>3, <3>1, Zenon DEF Accept
    <3> QED
      BY <1>2, <2>3, <3>1, <3>2
  <2> QED
    BY <2>2, <2>3
<1>5. CASE ~TF_USE_SOF_BYTE
  <2>1. CollectId(c)
    BY <1>1, <1>5 DEF TF_AcceptChar, AwaitSof, CollectLen, CollectType, CollectHeadCksum,
                      CollectData, CollectDataCksum, Phase
  <2>2. state' # "SOF"
    BY <2>1 DEF CollectId, FieldByte
  <2>3. received' = Append(<< >>, c)
    BY <1>3, <2>2, Zenon DEF Accept
  <2> QED
    BY <1>2, <1>5, <2>2, <2>3
<1> QED
  BY <1>4, <1>5

LEMMA SyncAccept ==
  ASSUME ~TF_CKSUM_NONE, SyncInv, NEW c \in Byte, Accept(c)
  PROVE  SyncInv' /\ CleanFrameDelivered'
<1>1. ParserInv /\ Located /\ Synced /\ TypeOK /\ TypeInv /\ FrameInv
  BY DEF SyncInv, ParserInv, TypeInv
<1>2. ParserInv' /\ Located'
  <2>1. Next
    BY DEF Next
  <2> QED
    BY <1>1, <2>1, ParserInvNext, LocatedStep
<1>3. state' # "SOF" => received' \notin Whole /\ handled' = NoMsg
  <2>1. (~TF_CKSUM_NONE /\ TypeOK /\ FrameInv /\ Located /\ state # "SOF" => received \notin Whole)'
    BY InsideNotWhole, PTL
  <2>2. (TypeOK /\ FrameInv)'
    BY <1>2 DEF ParserInv, TypeInv
  <2> QED
    BY <1>2, <2>1, <2>2, HandledLast DEF Accept
<1>4. SUFFICES ASSUME sync' PROVE Synced' /\ CleanFrameDelivered'
  BY <1>2 DEF SyncInv, Synced, CleanFrameDelivered
<1>5. PICK b : b = OnLine(c)
  OBVIOUS
<1>6. (sync \/ Silence) /\ b \in Prefixes /\ burst' = b
  BY <1>4, <1>5 DEF Accept
<1>7. SUFFICES \/ b \notin Whole /\ state' # "SOF" /\ handled' = NoMsg /\ received' = b /\ b # << >>
               \/ b = << >> /\ b \notin Whole /\ state' = "SOF" /\ handled' = NoMsg
               \/ b \in Whole /\ state' = "SOF" /\ handled' = Outcome[b]
  BY <1>6, Zenon DEF Synced, CleanFrameDelivered
<1>8. CASE Silence \/ burst = << >> \/ burst \in Whole
  <2>1. Idle
    BY <1>1, <1>6, <1>8 DEF Synced, Idle, TimedOut, Silence, FrameInv
  <2>2. Append(<< >>, c) # << >>
    BY EmptySeq, AppendProperties
  <2> QED
    BY <1>1, <1>3, <1>5, <1>8, <2>1, <2>2, FirstByte, EmptyNotWhole
<1>9. CASE ~(Silence \/ burst = << >> \/ burst \in Whole)
  <2>1. state # "SOF" /\ received = burst /\ ~Idle
    BY <1>1, <1>6, <1>9 DEF Synced, Idle, TimedOut, Silence, FrameInv
  <2>2. b = Append(received, c)
    BY <1>5, <1>9, <2>1 DEF OnLine
  <2>3. b # << >>
    <3>1. received \in Seq(Byte)
      BY <1>1 DEF TypeOK
    <3> QED
      BY <2>2, <3>1, AppendProperties, Zenon
  <2>4. CASE state' # "SOF"
    <3>1. received' = Append(received, c)
      BY <1>1, <2>1, <2>4, InsideFrame
    <3> QED
      BY <1>3, <2>2, <2>3, <2>4, <3>1
  <2>5. CASE state' = "SOF"
    <3>1. Phase = state
      BY <2>1 DEF Phase
    <3>2. CollectHeadCksum(c) \/ CollectDataCksum(c)
      BY <2>1, <2>5, <3>1
      DEF Accept, TF_AcceptChar, AwaitSof, CollectId, CollectLen, CollectType, CollectData,
          FieldByte
    <3> QED
      BY <1>1, <1>6, <2>2, <2>5, <3>2, LastHeadByte, LastDataByte
  <2> QED
    BY <2>4, <2>5
<1> QED
  BY <1>8, <1>9

LEMMA SyncNext ==
  ASSUME ~TF_CKSUM_NONE, SyncInv, CleanFrameDelivered, [Next]_vars
  PROVE  SyncInv' /\ CleanFrameDelivered'
<1>1. ParserInv /\ Located /\ Synced /\ TypeOK
  BY DEF SyncInv, ParserInv, TypeInv
<1>2. ParserInv'
  BY <1>1, ParserInvNext
<1>3. CASE \E c \in Byte : Accept(c)
  BY <1>3, SyncAccept
<1>4. CASE Reset
  <2>1. state' = "SOF" /\ handled' = NoMsg /\ burst' = << >>
    BY <1>4 DEF Reset, TF_ResetParser
  <2> QED
    BY <1>2, <2>1, EmptyNotWhole DEF SyncInv, Located, Synced, CleanFrameDelivered
<1>5. CASE Tick
  <2>1. /\ UNCHANGED <<state, id, len, type, rxi, discard_data, sync, burst>>
        /\ state # "SOF" => received' = received
    BY <1>5 DEF Tick, ParserTick, frameVars
  <2>2. idle' # 0 /\ (Silence => Silence')
    BY <1>1, <1>5, ParserAssumption DEF Tick, Silence, TypeOK
  <2>3. Located'
    BY <1>1, <2>1 DEF Located
  <2>4. Synced'
    BY <1>1, <2>1, <2>2 DEF Synced
  <2> QED
    BY <1>2, <2>2, <2>3, <2>4 DEF SyncInv, CleanFrameDelivered
<1>6. CASE UNCHANGED vars
  BY <1>1, <1>2, <1>6
  DEF vars, parserVars, frameVars, histVars, SyncInv, Located, Synced, Silence, CleanFrameDelivered
<1> QED
  BY <1>3, <1>4, <1>5, <1>6 DEF Next

LEMMA SyncInit ==
  ASSUME ~TF_CKSUM_NONE, Init
  PROVE  SyncInv /\ CleanFrameDelivered
BY ParserInvInit, EmptyNotWhole
DEF SyncInv, Located, Synced, CleanFrameDelivered, Init, ParserInit

(* With checksums, a frame that arrives on a line that is between frames is  *)
(* delivered by its last byte and not earlier, and one that does not fit or  *)
(* whose payload is damaged costs only itself.                               *)
THEOREM CleanDelivered ==
  ASSUME ~TF_CKSUM_NONE
  PROVE  Spec => []CleanFrameDelivered
<1>1. Init => SyncInv /\ CleanFrameDelivered
  BY SyncInit
<1>2. SyncInv /\ CleanFrameDelivered /\ [Next]_vars => (SyncInv /\ CleanFrameDelivered)'
  BY SyncNext
<1> QED
  BY <1>1, <1>2, PTL DEF Spec
=============================================================================
