-------------------------- MODULE TFTransmit_proofs --------------------------
(****************************************************************************)
(* Proofs about the transmitter, for every format, checksum function,       *)
(* buffer size, set of users and of calls.                                  *)
(****************************************************************************)
EXTENDS TFTransmit, TFFrame_proofs

(* With the built-in lock, nobody makes the call that cannot report failure. *)
FailuresReported ==
  TF_USE_MUTEX \/ \A c \in Calls : ~(c.multipart /\ c.is_response)

-----------------------------------------------------------------------------
(* Cutting sequences of bytes in two.                                        *)

LEMMA Cut ==
  ASSUME NEW s \in Seq(Byte), NEW n \in 0 .. Len(s)
  PROVE  /\ SubSeq(s, 1, n) \in Seq(Byte) /\ Len(SubSeq(s, 1, n)) = n
         /\ SubSeq(s, n + 1, Len(s)) \in Seq(Byte)
         /\ Len(SubSeq(s, n + 1, Len(s))) = Len(s) - n
         /\ SubSeq(s, 1, n) \o SubSeq(s, n + 1, Len(s)) = s
<1>1. Len(s) \in Nat /\ n \in Int /\ 1 \in Int /\ n + 1 \in Int /\ Len(s) \in Int
  BY LenProperties
<1>2. \A i \in 1 .. Len(s) : s[i] \in Byte
  BY ElementOfSeq
<1>3. /\ SubSeq(s, 1, n) \in Seq(Byte)
      /\ Len(SubSeq(s, 1, n)) = IF 1 <= n THEN n - 1 + 1 ELSE 0
  <2>1. \A i \in 1 .. n : s[i] \in Byte
    BY <1>1, <1>2
  <2> QED
    BY <1>1, <2>1, SubSeqProperties
<1>4. /\ SubSeq(s, n + 1, Len(s)) \in Seq(Byte)
      /\ Len(SubSeq(s, n + 1, Len(s))) = IF n + 1 <= Len(s) THEN Len(s) - (n + 1) + 1 ELSE 0
  <2>1. \A i \in n + 1 .. Len(s) : s[i] \in Byte
    BY <1>1, <1>2
  <2> QED
    BY <1>1, <2>1, SubSeqProperties
<1>5. SubSeq(s, 1, n) \o SubSeq(s, n + 1, Len(s)) = SubSeq(s, 1, Len(s))
  <2>1. 1 \in 1 .. Len(s) + 1 /\ n \in 1 - 1 .. Len(s) /\ Len(s) \in n .. Len(s)
    BY <1>1
  <2> QED
    BY <2>1, ConcatAdjacentSubSeq
<1>6. SubSeq(s, 1, Len(s)) = s
  BY SubSeqFull
<1>7. Len(SubSeq(s, 1, n)) = n
  BY <1>1, <1>3
<1>8. Len(SubSeq(s, n + 1, Len(s))) = Len(s) - n
  BY <1>1, <1>4
<1> QED
  BY <1>3, <1>4, <1>5, <1>6, <1>7, <1>8

LEMMA PrefixOfConcat ==
  ASSUME NEW s \in Seq(Byte), NEW t \in Seq(Byte)
  PROVE  SubSeq(s \o t, 1, Len(s)) = s /\ Len(s) <= Len(s \o t)
<1>1. Len(s) \in Nat /\ Len(t) \in Nat /\ Len(s \o t) = Len(s) + Len(t)
  BY LenProperties, ConcatProperties
<1>2. CASE Len(s) = 0
  <2>1. s = << >>
    BY <1>2, EmptySeq
  <2>2. SubSeq(s \o t, 1, Len(s)) = << >>
    BY <1>2, SubSeqEmpty
  <2> QED
    BY <1>1, <2>1, <2>2
<1>3. CASE Len(s) # 0
  <2>1. SubSeq(s \o t, 1, Len(s)) = SubSeq(s, 1, Len(s))
    BY <1>1, <1>3, SubSeqOfConcat1
  <2> QED
    BY <1>1, <2>1, SubSeqFull
<1> QED
  BY <1>2, <1>3

(* Concatenation is associative, named so that an instance is easy to cite.  *)
Assoc(s, t, r) == (s \o t) \o r = s \o (t \o r)

LEMMA BytesAssociative == \A s, t, r \in Seq(Byte) : Assoc(s, t, r)
<1> TAKE s, t, r \in Seq(Byte)
<1> QED
  BY ConcatAssociative DEF Assoc

-----------------------------------------------------------------------------
(* The frame of a message.                                                   *)

LEMMA CksumFieldType ==
  ASSUME NEW s \in Seq(Byte)
  PROVE  /\ CksumField(s) \in Seq(Byte)
         /\ Len(CksumField(s)) = IF TF_CKSUM_NONE THEN 0 ELSE TF_CKSUM_BYTES
<1>1. CASE TF_CKSUM_NONE
  BY <1>1, EmptySeq DEF CksumField
<1>2. CASE ~TF_CKSUM_NONE
  <2>1. TF_CksumEnd(CksumOver(s)) \in Register(TF_CKSUM_BYTES) /\ TF_CKSUM_BYTES \in Nat
    BY CksumOverType, FormatAssumption DEF Cksum
  <2>2. /\ TF_CksumEnd(CksumOver(s)) \in Seq(Byte)
        /\ Len(TF_CksumEnd(CksumOver(s))) = TF_CKSUM_BYTES
    BY <2>1, RegisterIsSeq
  <2> QED
    BY <1>2, <2>2 DEF CksumField
<1> QED
  BY <1>1, <1>2, FormatAssumption

LEMMA FrameType ==
  ASSUME NEW m \in Message
  PROVE  /\ FrameHead(m) \in Seq(Byte) /\ Len(FrameHead(m)) = HeadLen
         /\ FrameBody(m) \in Seq(Byte)
<1>1. /\ m.frame_id \in Register(TF_ID_BYTES) /\ m.len \in Register(TF_LEN_BYTES)
      /\ m.type \in Register(TF_TYPE_BYTES) /\ m.data \in Seq(Byte)
  BY DEF Message
<1>2. TF_ID_BYTES \in Nat /\ TF_LEN_BYTES \in Nat /\ TF_TYPE_BYTES \in Nat
  BY FormatAssumption
<1>3. /\ m.frame_id \in Seq(Byte) /\ Len(m.frame_id) = TF_ID_BYTES
      /\ m.len \in Seq(Byte) /\ Len(m.len) = TF_LEN_BYTES
      /\ m.type \in Seq(Byte) /\ Len(m.type) = TF_TYPE_BYTES
  BY <1>1, <1>2, RegisterIsSeq
<1>4. SofField \in Seq(Byte) /\ Len(SofField) = IF TF_USE_SOF_BYTE THEN 1 ELSE 0
  BY FormatAssumption, EmptySeq DEF SofField
<1> DEFINE a == SofField \o m.frame_id
           b == a \o m.len
<1>5. a \in Seq(Byte) /\ Len(a) = Len(SofField) + TF_ID_BYTES
  BY <1>3, <1>4, ConcatProperties
<1>6. b \in Seq(Byte) /\ Len(b) = Len(a) + TF_LEN_BYTES
  <2> HIDE DEF a
  <2> QED
    BY <1>3, <1>5, ConcatProperties
<1>7. HeadBytes(m) \in Seq(Byte) /\ Len(HeadBytes(m)) = Len(b) + TF_TYPE_BYTES
  <2>1. HeadBytes(m) = b \o m.type
    BY DEF HeadBytes
  <2>2. b \in Seq(Byte)
    BY <1>6
  <2> HIDE DEF b
  <2>3. b \o m.type \in Seq(Byte) /\ Len(b \o m.type) = Len(b) + Len(m.type)
    BY <2>2, <1>3, ConcatProperties
  <2> QED
    BY <2>1, <2>3, <1>3
<1>8. /\ FrameHead(m) \in Seq(Byte)
      /\ Len(FrameHead(m)) = Len(HeadBytes(m)) + Len(CksumField(HeadBytes(m)))
  <2> DEFINE h == HeadBytes(m)
             k == CksumField(h)
  <2>1. h \in Seq(Byte) /\ k \in Seq(Byte)
    BY <1>7, CksumFieldType
  <2> HIDE DEF h, k
  <2>2. h \o k \in Seq(Byte) /\ Len(h \o k) = Len(h) + Len(k)
    BY <2>1, ConcatProperties
  <2> QED
    BY <2>2, Zenon DEF FrameHead, h, k
<1>9. Len(FrameHead(m)) = HeadLen
  <2> HIDE DEF a, b
  <2>1. Len(CksumField(HeadBytes(m))) = IF TF_CKSUM_NONE THEN 0 ELSE TF_CKSUM_BYTES
    BY <1>7, CksumFieldType
  <2>2. TF_CKSUM_BYTES \in Nat
    BY FormatAssumption
  <2> QED
    BY <1>2, <1>4, <1>5, <1>6, <1>7, <1>8, <2>1, <2>2 DEF HeadLen
<1>10. FrameBody(m) \in Seq(Byte)
  BY <1>1, CksumFieldType, ConcatProperties, EmptySeq DEF FrameBody
<1> QED
  BY <1>8, <1>9, <1>10

LEMMA HalfType ==
  ASSUME NEW n \in {1, 2, 4}
  PROVE  Values(n) \div 2 \in Nat \ {0}
<1>1. Values(n) \in Nat /\ Values(n) >= 2
  <2>1. ByteBase \in Nat /\ ByteBase >= 2
    BY FormatAssumption
  <2> DEFINE p == ByteBase * ByteBase
  <2>2. p \in Nat /\ p >= 2
    BY <2>1
  <2>3. p * ByteBase \in Nat /\ p * ByteBase >= 2
    <3> HIDE DEF p
    <3> QED
      BY <2>1, <2>2
  <2>4. p * ByteBase * ByteBase \in Nat /\ p * ByteBase * ByteBase >= 2
    <3> DEFINE q == p * ByteBase
    <3> HIDE DEF q
    <3> QED
      BY <2>1, <2>3
  <2> QED
    BY <2>1, <2>2, <2>4 DEF Values
<1> QED
  BY <1>1

LEMMA ResolvedType ==
  ASSUME TypeOK, NEW c \in Calls
  PROVE  /\ Resolved(c) \in Message
         /\ Resolved(c).data = c.msg.data /\ Resolved(c).len = c.msg.len
         /\ c.msg.data \in Seq(Byte) /\ c.msg.len \in Register(TF_LEN_BYTES)
<1>1. c \in CallType
  BY TransmitAssumption
<1>2. c.msg \in Message
  BY <1>1 DEF CallType
<1>3. /\ c.msg \in [frame_id : Register(TF_ID_BYTES), type : Register(TF_TYPE_BYTES),
                    len : Register(TF_LEN_BYTES), data : Seq(Byte)]
      /\ Len(c.msg.data) = Value(c.msg.len)
  BY <1>2 DEF Message
<1>4. NewId \in Register(TF_ID_BYTES)
  <2>1. TF_ID_BYTES \in {1, 2, 4} /\ TF_ID_BYTES \in {1, 2, 3, 4}
    BY FormatAssumption
  <2>2. Values(TF_ID_BYTES) \in Nat \ {0}
    BY <2>1, ValuesType
  <2>3. PeerBitValue \in Nat \ {0}
    BY <2>1, <2>2, TransmitAssumption, FormatAssumption, HalfType DEF PeerBitValue
  <2>4. next_id % PeerBitValue \in Nat
    BY <2>2, <2>3, ModRange DEF TypeOK
  <2> QED
    BY <2>1, <2>3, <2>4, BigEndianType DEF NewId
<1>5. ASSUME ~c.is_response PROVE Resolved(c) = [c.msg EXCEPT !.frame_id = NewId]
  BY <1>5 DEF Resolved
<1>6. [c.msg EXCEPT !.frame_id = NewId] \in Message
  BY <1>3, <1>4 DEF Message
<1> QED
  BY <1>2, <1>3, <1>5, <1>6 DEF Resolved

-----------------------------------------------------------------------------
(* What is common to the steps of a user that is sending.                    *)

IInv == TypeOK /\ SendBufferInBounds /\ LineInv

LEMMA NoneSending ==
  ASSUME LineInv, ~soft_lock
  PROVE  /\ \A v \in Users : job[v] = NoJob
         /\ wire = promised
BY DEF LineInv, LockedByOne, Sending

LEMMA OneSending ==
  ASSUME LineInv, NEW u \in Users, job[u] # NoJob
  PROVE  /\ soft_lock
         /\ \A v \in Users : v # u => job[v] = NoJob
         /\ OnTheWay(job[u])
BY DEF LineInv, LockedByOne, Sending, JobInv

(* The user u has, or goes on with, the job j; nobody else is sending.       *)
LEMMA GoesOn ==
  ASSUME TypeOK, NEW u \in Users, NEW j \in Job,
         \A v \in Users : v # u => job[v] = NoJob,
         job' = [job EXCEPT ![u] = j]
  PROVE  /\ job' \in [Users -> Job \cup {NoJob}]
         /\ job'[u] = j
         /\ Sending' = {u}
<1>1. job \in [Users -> Job \cup {NoJob}] /\ NoJob \notin Job
  BY TransmitAssumption DEF TypeOK
<1>2. job' \in [Users -> Job \cup {NoJob}] /\ job'[u] = j
  BY <1>1
<1>3. \A v \in Users : job'[v] # NoJob <=> v = u
  BY <1>1
<1> QED
  BY <1>2, <1>3 DEF Sending

LEMMA Finishes ==
  ASSUME TypeOK, NEW u \in Users,
         \A v \in Users : v # u => job[v] = NoJob,
         job' = [job EXCEPT ![u] = NoJob]
  PROVE  job' \in [Users -> Job \cup {NoJob}] /\ Sending' = {}
BY DEF TypeOK, Sending

LEMMA InvWhileSending ==
  ASSUME TypeOK', Len(sendbuf') <= TF_SENDBUF_LEN, soft_lock',
         NEW u \in Users, Sending' = {u}, OnTheWay(job[u])'
  PROVE  IInv'
<1>1. SendBufferInBounds'
  BY DEF SendBufferInBounds, tx_pos
<1>2. LockedByOne'
  BY DEF LockedByOne
<1>3. JobInv'
  BY Zenon DEF JobInv
<1>4. Sending' # {}
  OBVIOUS
<1> QED
  BY <1>1, <1>2, <1>3, <1>4, Zenon DEF IInv, LineInv

LEMMA InvWhenIdle ==
  ASSUME TypeOK', Len(sendbuf') <= TF_SENDBUF_LEN, ~soft_lock', Sending' = {},
         wire' = promised'
  PROVE  IInv'
<1>1. SendBufferInBounds'
  BY DEF SendBufferInBounds, tx_pos
<1>2. LockedByOne'
  BY DEF LockedByOne
<1>3. JobInv'
  BY Zenon DEF JobInv
<1> QED
  BY <1>1, <1>2, <1>3, Zenon DEF IInv, LineInv

(* What has been sent of a job is what precedes the rest of its payload.     *)
LEMMA SentIs ==
  ASSUME NEW j \in Job, NEW x \in Seq(Byte), j.msg.data = x \o j.left \o j.rest
  PROVE  Sent(j) = x
<1> DEFINE l == j.left
           r == j.rest
           y == l \o r
<1>1. l \in Seq(Byte) /\ r \in Seq(Byte) /\ Len(l) \in Nat /\ Len(r) \in Nat
  BY LenProperties DEF Job
<1> HIDE DEF l, r
<1>2. y \in Seq(Byte) /\ Len(y) = Len(l) + Len(r)
  BY <1>1, ConcatProperties
<1>3. (x \o l) \o r = x \o y
  <2>1. Assoc(x, l, r)
    BY <1>1, BytesAssociative
  <2> QED
    BY <2>1, Zenon DEF Assoc
<1> HIDE DEF y
<1>4. Len(x \o y) = Len(x) + Len(y)
  BY <1>2, ConcatProperties
<1>5. SubSeq(x \o y, 1, Len(x)) = x
  BY <1>2, PrefixOfConcat
<1>6. Len(x) \in Nat
  BY LenProperties
<1>7. Len(x \o y) - Len(l) - Len(r) = Len(x)
  BY <1>1, <1>2, <1>4, <1>6
<1>8. Sent(j) = SubSeq(x \o y, 1, Len(x \o y) - Len(l) - Len(r))
  BY <1>3, Zenon DEF Sent, l, r
<1> QED
  BY <1>5, <1>7, <1>8

(* Moving the bytes p from what is pending to what is written.               *)
Moves(w, p, l, r, t) == w \o (p \o l \o r \o t) = (w \o p) \o (l \o r \o t)

LEMMA MovePiece == \A w, p, l, r, t \in Seq(Byte) : Moves(w, p, l, r, t)
<1> TAKE w, p, l, r, t \in Seq(Byte)
<1> DEFINE a == l \o r
           b == a \o t
<1>1. a \in Seq(Byte)
  BY ConcatProperties
<1>2. Assoc(p, l, r)
  BY BytesAssociative
<1> HIDE DEF a
<1>3. b \in Seq(Byte)
  BY <1>1, ConcatProperties
<1>4. Assoc(p, a, t)
  BY <1>1, BytesAssociative
<1> HIDE DEF b
<1>5. Assoc(w, p, b)
  BY <1>3, BytesAssociative
<1> QED
  BY <1>2, <1>4, <1>5, Zenon DEF a, b, Assoc, Moves

-----------------------------------------------------------------------------
(* The steps: each keeps the invariant.                                      *)

(* Whoever begins a frame finds nobody sending and writes its header.        *)
LEMMA ComposeHeadType ==
  ASSUME TypeOK, NEW c \in Calls, ComposeHead(c)
  PROVE  /\ sendbuf' = FrameHead(Resolved(c))
         /\ sendbuf' \in Seq(Byte) /\ Len(sendbuf') <= TF_SENDBUF_LEN
         /\ next_id' \in 0 .. Values(TF_ID_BYTES) - 1
         /\ tx_len' = Resolved(c).len /\ tx_len' \in Register(TF_LEN_BYTES)
<1>1. sendbuf' = FrameHead(Resolved(c)) /\ tx_len' = c.msg.len
  BY DEF ComposeHead
<1>2. sendbuf' \in Seq(Byte) /\ Len(sendbuf') = HeadLen
  BY <1>1, ResolvedType, FrameType
<1>3. Len(sendbuf') <= TF_SENDBUF_LEN
  BY <1>2, TransmitAssumption
<1>4. next_id' \in 0 .. Values(TF_ID_BYTES) - 1
  <2>1. Values(TF_ID_BYTES) \in Nat \ {0}
    BY FormatAssumption, ValuesType
  <2>2. (next_id + 1) % Values(TF_ID_BYTES) \in 0 .. Values(TF_ID_BYTES) - 1
    <3>1. next_id + 1 \in Nat
      BY <2>1 DEF TypeOK
    <3> QED
      BY <2>1, <3>1, ModRange
  <2> QED
    BY <2>2 DEF ComposeHead, TypeOK
<1> QED
  BY <1>1, <1>2, <1>3, <1>4, ResolvedType

(* A fresh job: all of its frame but the header is pending.                  *)
LEMMA JobOfType ==
  ASSUME TypeOK, NEW c \in Calls
  PROVE  /\ JobOf(c) \in Job
         /\ JobOf(c).msg = Resolved(c)
         /\ Pending(JobOf(c)) = FrameBody(Resolved(c))
         /\ Sent(JobOf(c)) = << >>
         /\ Resolved(c).data = << >> \o JobOf(c).left \o JobOf(c).rest
         /\ JobOf(c).stage = "sending" => JobOf(c).rest = << >>
         /\ JobOf(c).stage = "open" => JobOf(c).left = << >>
         /\ JobOf(c).stage # "sending" => Resolved(c).data # << >>
<1> DEFINE j == JobOf(c)
           d == c.msg.data
<1>1. /\ Resolved(c) \in Message /\ Resolved(c).data = d /\ d \in Seq(Byte)
      /\ << >> \in Seq(Byte)
  BY ResolvedType, EmptySeq
<1>2. /\ j.msg = Resolved(c)
      /\ j.left = IF c.multipart THEN << >> ELSE d
      /\ j.rest = IF c.multipart THEN d ELSE << >>
      /\ j.stage = IF c.multipart THEN "open" ELSE "sending"
  BY DEF JobOf
<1>3. j \in Job
  BY <1>1 DEF JobOf, Job
<1>4. c.multipart => d # << >>
  BY TransmitAssumption
<1> HIDE DEF j, d
<1>5. j.left \o j.rest = d
  <2>1. d \o << >> = d /\ << >> \o d = d
    BY <1>1, ConcatEmptySeq
  <2> QED
    BY <1>2, <2>1
<1>6. << >> \o j.left \o j.rest = d
  <2>1. << >> \o j.left = j.left
    BY <1>1, <1>2, ConcatEmptySeq
  <2> QED
    BY <1>5, <2>1
<1>7. Pending(j) = FrameBody(Resolved(c))
  <2>1. Pending(j) = d \o (IF d = << >> THEN << >> ELSE CksumField(d))
    BY <1>1, <1>2, <1>5 DEF Pending
  <2>2. CASE d = << >>
    <3>1. << >> \o << >> = << >>
      BY <1>1, ConcatEmptySeq
    <3> QED
      BY <1>1, <2>1, <2>2, <3>1 DEF FrameBody
  <2>3. CASE d # << >>
    BY <1>1, <2>1, <2>3 DEF FrameBody
  <2> QED
    BY <2>2, <2>3
<1>8. Sent(j) = << >>
  BY <1>1, <1>2, <1>3, <1>6, SentIs
<1> QED
  BY <1>1, <1>2, <1>3, <1>4, <1>6, <1>7, <1>8 DEF j

LEMMA BeginFrameStep ==
  ASSUME IInv, NEW u \in Users, NEW c \in Calls, BeginFrame(u, c),
         calls' \in 0 .. MaxCalls
  PROVE  IInv'
<1> DEFINE m == Resolved(c)
           j == JobOf(c)
<1> USE DEF IInv
<1>1. /\ ComposeHead(c) /\ soft_lock' = TRUE /\ tx_cksum' = TF_CksumStart
      /\ job' = [job EXCEPT ![u] = j]
      /\ promised' = promised \o Encode(m) /\ wire' = wire
      /\ ~soft_lock
  BY DEF BeginFrame
<1>2. wire = promised /\ \A v \in Users : job[v] = NoJob
  BY <1>1, NoneSending
<1>3. /\ m \in Message /\ FrameHead(m) \in Seq(Byte) /\ FrameBody(m) \in Seq(Byte)
  BY ResolvedType, FrameType
<1>4. /\ sendbuf' = FrameHead(m)
      /\ sendbuf' \in Seq(Byte) /\ Len(sendbuf') <= TF_SENDBUF_LEN
      /\ next_id' \in 0 .. Values(TF_ID_BYTES) - 1
      /\ tx_len' = m.len /\ tx_len' \in Register(TF_LEN_BYTES)
  BY <1>1, ComposeHeadType
<1>5. /\ j \in Job /\ j.msg = m /\ Pending(j) = FrameBody(m) /\ Sent(j) = << >>
      /\ m.data = << >> \o j.left \o j.rest
      /\ j.stage = "sending" => j.rest = << >>
      /\ j.stage = "open" => j.left = << >>
      /\ j.stage # "sending" => m.data # << >>
  BY JobOfType
<1>6. job' \in [Users -> Job \cup {NoJob}] /\ job'[u] = j /\ Sending' = {u}
  BY <1>1, <1>2, <1>5, GoesOn
<1> HIDE DEF m, j
<1>7. promised' = wire' \o sendbuf' \o FrameBody(m) /\ promised' \in Seq(Byte)
  <2>1. wire \in Seq(Byte)
    BY DEF TypeOK
  <2>2. Assoc(wire, FrameHead(m), FrameBody(m))
    BY <1>3, <2>1, BytesAssociative
  <2>3. wire \o FrameHead(m) \in Seq(Byte)
    BY <1>3, <2>1, ConcatProperties
  <2>4. (wire \o FrameHead(m)) \o FrameBody(m) \in Seq(Byte)
    BY <1>3, <2>3, ConcatProperties
  <2>5. promised' = wire \o (FrameHead(m) \o FrameBody(m))
    BY <1>1, <1>2, Zenon DEF Encode
  <2> QED
    BY <1>1, <1>4, <2>2, <2>4, <2>5, Zenon DEF Assoc
<1>8. TypeOK'
  <2>1. tx_cksum' \in Cksum
    BY <1>1, FormatAssumption
  <2> QED
    BY <1>1, <1>4, <1>6, <1>7, <2>1 DEF TypeOK
<1>9. OnTheWay(job[u])'
  <2>1. tx_cksum' = CksumOver(Sent(j))
    BY <1>1, <1>5, CksumOverEmpty
  <2>2. promised' = wire' \o sendbuf' \o Pending(j)
    BY <1>5, <1>7
  <2>3. j.msg.data = Sent(j) \o j.left \o j.rest
    BY <1>5
  <2> QED
    BY <1>4, <1>5, <1>6, <2>1, <2>2, <2>3 DEF OnTheWay, Sent, Pending
<1> QED
  BY <1>1, <1>4, <1>6, <1>8, <1>9, InvWhileSending

LEMMA NoListenerSlotStep ==
  ASSUME IInv, NEW c \in Calls, NoListenerSlot(c), calls' \in 0 .. MaxCalls
  PROVE  IInv'
<1> USE DEF IInv
<1>1. ComposeHead(c) /\ ~soft_lock /\ UNCHANGED <<soft_lock, tx_cksum, wire, job, promised>>
  BY DEF NoListenerSlot
<1>2. wire = promised /\ \A v \in Users : job[v] = NoJob
  BY <1>1, NoneSending
<1>3. /\ sendbuf' \in Seq(Byte) /\ Len(sendbuf') <= TF_SENDBUF_LEN
      /\ next_id' \in 0 .. Values(TF_ID_BYTES) - 1
      /\ tx_len' \in Register(TF_LEN_BYTES)
  BY <1>1, ComposeHeadType
<1>4. TypeOK'
  BY <1>1, <1>3 DEF TypeOK
<1>5. Sending' = {}
  BY <1>1, <1>2 DEF Sending
<1> QED
  BY <1>1, <1>2, <1>3, <1>4, <1>5, InvWhenIdle

(* What a job that is not finished consists of.                              *)
LEMMA JobParts ==
  ASSUME IInv, NEW u \in Users, job[u] # NoJob
  PROVE  /\ job[u] \in Job
         /\ job[u].left \in Seq(Byte) /\ job[u].rest \in Seq(Byte)
         /\ job[u].msg \in Message /\ job[u].msg.data \in Seq(Byte)
         /\ Sent(job[u]) \in Seq(Byte)
<1>1. job[u] \in Job
  BY DEF IInv, TypeOK
<1>2. /\ job[u].left \in Seq(Byte) /\ job[u].rest \in Seq(Byte)
      /\ job[u].msg \in Message /\ job[u].msg.data \in Seq(Byte)
  BY <1>1 DEF Job, Message
<1> DEFINE d == job[u].msg.data
           a == Len(job[u].left)
           b == Len(job[u].rest)
           n == Len(d) - a - b
<1>3. n \in Int /\ n <= Len(d) /\ Len(d) \in Nat
  <2>1. Len(d) \in Nat /\ a \in Nat /\ b \in Nat
    BY <1>2, LenProperties
  <2> HIDE DEF d, a, b
  <2> QED
    BY <2>1
<1>4. Sent(job[u]) = SubSeq(d, 1, n) /\ \A i \in 1 .. Len(d) : d[i] \in Byte
  BY <1>2, ElementOfSeq DEF Sent
<1> HIDE DEF d, a, b, n
<1>5. SubSeq(d, 1, n) \in Seq(Byte)
  <2>1. \A i \in 1 .. n : d[i] \in Byte
    BY <1>3, <1>4
  <2> QED
    BY <1>3, <2>1, SubSeqProperties
<1> QED
  BY <1>1, <1>2, <1>4, <1>5

(* A piece of the payload moves from the job to the buffer, and possibly on. *)
LEMMA ChunkStep ==
  ASSUME IInv, NEW u \in Users, SendFrame_Chunk(u)
  PROVE  IInv'
<1> DEFINE j == job[u]
           left == j.left
           room == TF_SENDBUF_LEN - tx_pos
           chunk == IF room < Len(left) THEN room ELSE Len(left)
           piece == SubSeq(left, 1, chunk)
           more == SubSeq(left, chunk + 1, Len(left))
           k == [j EXCEPT !.left = more]
           tail == IF j.msg.data = << >> THEN << >> ELSE CksumField(j.msg.data)
           x == Sent(j)
<1>1. /\ j # NoJob /\ left # << >>
      /\ tx_cksum' = CksumFrom(tx_cksum, piece)
      /\ job' = [job EXCEPT ![u] = k]
      /\ IF tx_pos + chunk = TF_SENDBUF_LEN
           THEN wire' = wire \o sendbuf \o piece /\ sendbuf' = << >>
           ELSE sendbuf' = sendbuf \o piece /\ wire' = wire
      /\ UNCHANGED <<next_id, soft_lock, tx_len, calls, promised>>
  BY DEF SendFrame_Chunk
<1>2. soft_lock /\ (\A v \in Users : v # u => job[v] = NoJob) /\ OnTheWay(j)
  BY <1>1, OneSending DEF IInv
<1>3. /\ j \in Job /\ left \in Seq(Byte) /\ j.rest \in Seq(Byte) /\ x \in Seq(Byte)
      /\ j.msg.data \in Seq(Byte) /\ tail \in Seq(Byte)
  BY <1>1, JobParts, CksumFieldType, EmptySeq
<1>4. /\ wire \in Seq(Byte) /\ sendbuf \in Seq(Byte) /\ promised \in Seq(Byte)
      /\ tx_pos \in Nat /\ room \in Nat /\ Len(left) \in Nat
  BY <1>3, LenProperties, TransmitAssumption DEF IInv, TypeOK, SendBufferInBounds, tx_pos
<1>5. chunk \in 0 .. Len(left) /\ chunk <= room
  BY <1>4
<1>6. /\ piece \in Seq(Byte) /\ Len(piece) = chunk /\ more \in Seq(Byte)
      /\ left = piece \o more
  <2> HIDE DEF chunk
  <2> QED
    BY <1>3, <1>5, Cut
<1>7. k \in Job /\ k.left = more /\ k.rest = j.rest /\ k.msg = j.msg /\ k.stage = j.stage
  <2> HIDE DEF more
  <2> QED
    BY <1>3, <1>6 DEF Job
<1>8. job' \in [Users -> Job \cup {NoJob}] /\ job'[u] = k /\ Sending' = {u}
  <2> HIDE DEF k
  <2> QED
    BY <1>1, <1>2, <1>7, GoesOn DEF IInv
<1> DEFINE y == x \o piece
<1> HIDE DEF k, more, piece, chunk
<1>9. y \in Seq(Byte)
  BY <1>3, <1>6, ConcatProperties
<1>10. j.msg.data = y \o k.left \o k.rest
  <2>1. j.msg.data = x \o left \o j.rest
    BY <1>2 DEF OnTheWay
  <2>2. Assoc(x, piece, more)
    <3> HIDE DEF x
    <3> QED
      BY <1>3, <1>6, BytesAssociative
  <2> QED
    BY <1>6, <1>7, <2>1, <2>2, Zenon DEF Assoc
<1> HIDE DEF x
<1>11. Sent(k) = y
  <2> HIDE DEF y, j
  <2> QED
    BY <1>7, <1>9, <1>10, SentIs
<1>12. tx_cksum' = CksumOver(y)
  <2>1. tx_cksum = CksumOver(x)
    BY <1>2, Zenon DEF OnTheWay, x
  <2>2. CksumOver(x \o piece) = CksumFrom(CksumOver(x), piece)
    BY <1>3, <1>6, CksumOverConcat
  <2> QED
    BY <1>1, <2>1, <2>2
<1> HIDE DEF y
<1>13. sendbuf' \in Seq(Byte) /\ wire' \in Seq(Byte) /\ Len(sendbuf') <= TF_SENDBUF_LEN
  <2>1. CASE tx_pos + chunk = TF_SENDBUF_LEN
    <3>1. wire' = (wire \o sendbuf) \o piece /\ sendbuf' = << >>
      BY <1>1, <2>1
    <3>2. wire \o sendbuf \in Seq(Byte)
      BY <1>4, ConcatProperties
    <3>3. wire' \in Seq(Byte)
      BY <1>6, <3>1, <3>2, ConcatProperties
    <3>4. << >> \in Seq(Byte) /\ Len(<< >>) = 0 /\ 0 <= TF_SENDBUF_LEN
      BY EmptySeq, TransmitAssumption
    <3> QED
      BY <3>1, <3>3, <3>4
  <2>2. CASE tx_pos + chunk # TF_SENDBUF_LEN
    <3>1. sendbuf' = sendbuf \o piece /\ wire' = wire
      BY <1>1, <2>2
    <3>2. sendbuf' \in Seq(Byte) /\ Len(sendbuf') = tx_pos + chunk
      BY <1>4, <1>6, <3>1, ConcatProperties DEF tx_pos
    <3>3. TF_SENDBUF_LEN \in Nat
      BY TransmitAssumption
    <3> QED
      BY <1>4, <1>5, <3>1, <3>2, <3>3
  <2> QED
    BY <2>1, <2>2
<1>14. promised' = wire' \o sendbuf' \o Pending(k)
  <2> DEFINE w == wire \o sendbuf
  <2>1. w \in Seq(Byte)
    BY <1>4, ConcatProperties
  <2>2. wire' \o sendbuf' = w \o piece
    <3>1. CASE tx_pos + chunk = TF_SENDBUF_LEN
      <4>1. wire' = w \o piece /\ sendbuf' = << >>
        BY <1>1, <3>1
      <4> HIDE DEF w
      <4> QED
        BY <1>13, <4>1, ConcatEmptySeq
    <3>2. CASE tx_pos + chunk # TF_SENDBUF_LEN
      <4>1. wire' = wire /\ sendbuf' = sendbuf \o piece
        BY <1>1, <3>2
      <4>2. Assoc(wire, sendbuf, piece)
        BY <1>4, <1>6, BytesAssociative
      <4> QED
        BY <4>1, <4>2, Zenon DEF Assoc
    <3> QED
      BY <3>1, <3>2
  <2> HIDE DEF w, tail, j
  <2>3. w \o (piece \o more \o j.rest \o tail) = (w \o piece) \o (more \o j.rest \o tail)
    <3>1. Moves(w, piece, more, j.rest, tail)
      BY <1>3, <1>6, <2>1, MovePiece
    <3> QED
      BY <3>1, Zenon DEF Moves
  <2>4. promised = w \o (left \o j.rest \o tail)
    BY <1>2, Zenon DEF OnTheWay, Pending, w, tail
  <2>5. Pending(k) = more \o j.rest \o tail
    BY <1>7, Zenon DEF Pending, tail
  <2> QED
    BY <1>1, <1>6, <2>2, <2>3, <2>4, <2>5, Zenon
<1>15. TypeOK'
  <2>1. tx_cksum' \in Cksum
    BY <1>9, <1>12, CksumOverType
  <2> QED
    BY <1>1, <1>8, <1>13, <2>1 DEF IInv, TypeOK
<1>16. OnTheWay(job[u])'
  <2>1. /\ tx_len' = k.msg.len
        /\ k.stage = "sending" => k.rest = << >>
        /\ k.stage # "sending" => k.msg.data # << >>
    BY <1>1, <1>2, <1>7 DEF OnTheWay
  <2>2. k.stage # "open"
    BY <1>1, <1>2, <1>7 DEF OnTheWay
  <2>3. k.msg.data = Sent(k) \o k.left \o k.rest /\ tx_cksum' = CksumOver(Sent(k))
    BY <1>7, <1>10, <1>11, <1>12
  <2> QED
    BY <1>8, <1>14, <2>1, <2>2, <2>3 DEF OnTheWay, Sent, Pending
<1> QED
  BY <1>1, <1>2, <1>8, <1>13, <1>15, <1>16, InvWhileSending

LEMMA LengthZero ==
  ASSUME NEW m \in Message
  PROVE  Value(m.len) = 0 <=> m.data = << >>
BY EmptySeq DEF Message

(* The end of a frame whose payload has been passed: its checksum is sent.   *)
LEMMA EndStep ==
  ASSUME IInv, NEW u \in Users, job[u] # NoJob,
         job[u].left = << >>, job[u].rest = << >>,
         SendFrame_End, job' = [job EXCEPT ![u] = NoJob]
  PROVE  IInv'
<1> DEFINE j == job[u]
           d == j.msg.data
<1>1. UNCHANGED <<next_id, tx_len, calls, promised>> /\ soft_lock' = FALSE
  BY DEF SendFrame_End
<1>2. (\A v \in Users : v # u => job[v] = NoJob) /\ OnTheWay(j)
  BY OneSending DEF IInv
<1>3. /\ j \in Job /\ j.msg \in Message /\ d \in Seq(Byte) /\ Sent(j) \in Seq(Byte)
      /\ << >> \in Seq(Byte)
  BY JobParts, EmptySeq
<1>4. /\ wire \in Seq(Byte) /\ sendbuf \in Seq(Byte) /\ promised \in Seq(Byte)
      /\ wire \o sendbuf \in Seq(Byte) /\ Len(sendbuf) <= TF_SENDBUF_LEN
      /\ tx_cksum \in Cksum
  BY ConcatProperties DEF IInv, TypeOK, SendBufferInBounds, tx_pos
<1>5. Sending' = {} /\ job' \in [Users -> Job \cup {NoJob}]
  BY <1>2, Finishes DEF IInv
<1>6. Value(tx_len) = 0 <=> d = << >>
  BY <1>2, <1>3, LengthZero DEF OnTheWay
<1>7. << >> \o << >> = << >> /\ (wire \o sendbuf) \o << >> = wire \o sendbuf
  BY <1>3, <1>4, ConcatEmptySeq
<1>8. /\ wire' \in Seq(Byte) /\ wire' = promised'
      /\ sendbuf' \in Seq(Byte) /\ Len(sendbuf') <= TF_SENDBUF_LEN
      /\ tx_cksum' \in Cksum
  <2>1. CASE d = << >>
    <3>1. wire' = wire \o sendbuf /\ sendbuf' = sendbuf /\ tx_cksum' = tx_cksum
      BY <1>6, <2>1 DEF SendFrame_End
    <3>2. Pending(j) = << >>
      BY <1>7, <2>1 DEF Pending
    <3>3. promised = wire \o sendbuf \o << >>
      BY <1>2, <3>2 DEF OnTheWay
    <3> QED
      BY <1>1, <1>4, <1>7, <3>1, <3>3
  <2>2. CASE d # << >>
    <3> DEFINE tail == IF TF_CKSUM_NONE THEN << >> ELSE TF_CksumEnd(tx_cksum)
    <3>1. /\ wire' = wire \o sendbuf \o tail
          /\ sendbuf' = (IF TF_SENDBUF_LEN - Len(sendbuf) < TF_CKSUM_BYTES
                           THEN << >> ELSE sendbuf) \o tail
          /\ tx_cksum' = IF TF_CKSUM_NONE THEN tx_cksum ELSE tail
      BY <1>6, <2>2 DEF SendFrame_End, tx_pos
    <3>2. Sent(j) = d
      <4>1. d = Sent(j) \o << >> \o << >>
        BY <1>2 DEF OnTheWay
      <4>2. Sent(j) \o << >> = Sent(j)
        BY <1>3, ConcatEmptySeq
      <4> QED
        BY <4>1, <4>2
    <3>3. tail = CksumField(d)
      BY <1>2, <3>2 DEF OnTheWay, CksumField
    <3>4. tail \in Seq(Byte) /\ Len(tail) = IF TF_CKSUM_NONE THEN 0 ELSE TF_CKSUM_BYTES
      BY <1>3, <3>3, CksumFieldType
    <3>5. Pending(j) = tail
      <4>1. Pending(j) = (<< >> \o << >>) \o tail
        BY <2>2, <3>3 DEF Pending
      <4> HIDE DEF tail
      <4>2. << >> \o tail = tail
        BY <3>4, ConcatEmptySeq
      <4> QED
        BY <1>7, <4>1, <4>2
    <3>6. promised = wire \o sendbuf \o tail
      BY <1>2, <3>5, Zenon DEF OnTheWay
    <3>7. tx_cksum' \in Cksum
      BY <1>4, <3>1, FormatAssumption
    <3> HIDE DEF tail
    <3>8. wire' \in Seq(Byte)
      BY <1>4, <3>1, <3>4, ConcatProperties
    <3>9. sendbuf' \in Seq(Byte) /\ Len(sendbuf') <= TF_SENDBUF_LEN
      <4>1. /\ TF_CKSUM_BYTES \in Nat /\ TF_SENDBUF_LEN \in Nat
            /\ ~TF_CKSUM_NONE => TF_CKSUM_BYTES <= TF_SENDBUF_LEN
        BY FormatAssumption, TransmitAssumption DEF HeadLen
      <4>2. CASE TF_SENDBUF_LEN - Len(sendbuf) < TF_CKSUM_BYTES
        <5>1. sendbuf' = tail
          BY <3>1, <3>4, <4>2, ConcatEmptySeq
        <5> QED
          BY <3>4, <4>1, <5>1
      <4>3. CASE ~(TF_SENDBUF_LEN - Len(sendbuf) < TF_CKSUM_BYTES)
        <5>1. sendbuf' = sendbuf \o tail
          BY <3>1, <4>3
        <5>2. sendbuf' \in Seq(Byte) /\ Len(sendbuf') = Len(sendbuf) + Len(tail)
          BY <1>4, <3>4, <5>1, ConcatProperties
        <5>3. Len(sendbuf) \in Nat
          BY <1>4, LenProperties
        <5> QED
          BY <1>4, <3>4, <4>1, <4>3, <5>2, <5>3
      <4> QED
        BY <4>2, <4>3
    <3> QED
      BY <1>1, <3>1, <3>6, <3>7, <3>8, <3>9
  <2> QED
    BY <2>1, <2>2
<1>9. TypeOK'
  BY <1>1, <1>4, <1>5, <1>8 DEF IInv, TypeOK
<1> QED
  BY <1>1, <1>5, <1>8, <1>9, InvWhenIdle

LEMMA PayloadStep ==
  ASSUME IInv, NEW u \in Users, Multipart_Payload(u)
  PROVE  IInv'
<1> DEFINE j == job[u]
           rest == j.rest
<1>1. /\ j # NoJob /\ j.stage = "open"
      /\ UNCHANGED <<next_id, soft_lock, sendbuf, tx_len, tx_cksum, wire, calls, promised>>
  BY DEF Multipart_Payload
<1>2. soft_lock /\ (\A v \in Users : v # u => job[v] = NoJob) /\ OnTheWay(j)
  BY <1>1, OneSending DEF IInv
<1>3. j \in Job /\ rest \in Seq(Byte) /\ j.left = << >> /\ Sent(j) \in Seq(Byte)
  BY <1>1, <1>2, JobParts DEF OnTheWay
<1>4. Len(rest) \in Nat
  BY <1>3, LenProperties
<1>5. PICK n \in 1 .. Len(rest) :
        job' = [job EXCEPT ![u].left = SubSeq(rest, 1, n),
                           ![u].rest = SubSeq(rest, n + 1, Len(rest)),
                           ![u].stage = "payload"]
  BY DEF Multipart_Payload
<1> DEFINE p == SubSeq(rest, 1, n)
           more == SubSeq(rest, n + 1, Len(rest))
           k == [j EXCEPT !.left = p, !.rest = more, !.stage = "payload"]
<1>6. p \in Seq(Byte) /\ more \in Seq(Byte) /\ rest = p \o more
  <2>1. n \in 0 .. Len(rest)
    BY <1>4
  <2> QED
    BY <1>3, <2>1, Cut
<1>7. job' = [job EXCEPT ![u] = k]
  BY <1>3, <1>5 DEF IInv, TypeOK, Job
<1>8. /\ k \in Job /\ k.left = p /\ k.rest = more /\ k.msg = j.msg
      /\ k.stage = "payload"
  <2> HIDE DEF p, more
  <2> QED
    BY <1>3, <1>6 DEF Job
<1> HIDE DEF k, p, more
<1>9. job' \in [Users -> Job \cup {NoJob}] /\ job'[u] = k /\ Sending' = {u}
  BY <1>2, <1>7, <1>8, GoesOn DEF IInv
<1>10. j.left \o rest = k.left \o k.rest
  <2>1. << >> \o rest = rest
    BY <1>3, ConcatEmptySeq
  <2> QED
    BY <1>3, <1>6, <1>8, <2>1
<1> DEFINE x == Sent(j)
<1>11. j.msg.data = x \o k.left \o k.rest
  <2>1. j.msg.data = x \o j.left \o rest /\ x \o << >> = x
    BY <1>2, <1>3, ConcatEmptySeq DEF OnTheWay
  <2> HIDE DEF x
  <2>2. Assoc(x, p, more)
    BY <1>3, <1>6, BytesAssociative DEF x
  <2> QED
    BY <1>3, <1>6, <1>8, <2>1, <2>2, Zenon DEF Assoc
<1>12. Sent(k) = x
  <2> HIDE DEF x, j
  <2> QED
    BY <1>3, <1>8, <1>11, SentIs DEF x
<1>13. Pending(k) = Pending(j)
  BY <1>8, <1>10, Zenon DEF Pending
<1>14. TypeOK'
  BY <1>1, <1>9 DEF IInv, TypeOK
<1>15. OnTheWay(job[u])'
  <2>1. promised' = wire' \o sendbuf' \o Pending(k)
    BY <1>1, <1>2, <1>13 DEF OnTheWay
  <2>2. tx_cksum' = CksumOver(Sent(k)) /\ k.msg.data = Sent(k) \o k.left \o k.rest
    BY <1>1, <1>2, <1>8, <1>11, <1>12 DEF OnTheWay
  <2>3. tx_len' = k.msg.len /\ k.msg.data # << >>
    BY <1>1, <1>2, <1>8 DEF OnTheWay
  <2> QED
    BY <1>8, <1>9, <2>1, <2>2, <2>3 DEF OnTheWay, Sent, Pending
<1> QED
  BY <1>1, <1>2, <1>9, <1>14, <1>15, InvWhileSending DEF IInv, SendBufferInBounds, tx_pos

LEMMA PayloadReturnStep ==
  ASSUME IInv, NEW u \in Users, PayloadReturn(u)
  PROVE  IInv'
<1> DEFINE j == job[u]
           k == [j EXCEPT !.stage = "open"]
<1>1. /\ j # NoJob /\ j.stage = "payload" /\ j.left = << >>
      /\ job' = [job EXCEPT ![u].stage = "open"]
      /\ UNCHANGED <<next_id, soft_lock, sendbuf, tx_len, tx_cksum, wire, calls, promised>>
  BY DEF PayloadReturn
<1>2. soft_lock /\ (\A v \in Users : v # u => job[v] = NoJob) /\ OnTheWay(j)
  BY <1>1, OneSending DEF IInv
<1>3. j \in Job
  BY <1>1, JobParts
<1>4. /\ k \in Job /\ k.left = j.left /\ k.rest = j.rest /\ k.msg = j.msg
      /\ k.stage = "open"
  BY <1>3 DEF Job
<1>5. job' = [job EXCEPT ![u] = k]
  BY <1>1
<1> HIDE DEF k
<1>6. job' \in [Users -> Job \cup {NoJob}] /\ job'[u] = k /\ Sending' = {u}
  BY <1>2, <1>4, <1>5, GoesOn DEF IInv
<1>7. Sent(k) = Sent(j) /\ Pending(k) = Pending(j)
  BY <1>4, Zenon DEF Sent, Pending
<1>8. TypeOK'
  BY <1>1, <1>6 DEF IInv, TypeOK
<1>9. OnTheWay(job[u])'
  <2>1. promised' = wire' \o sendbuf' \o Pending(k)
    BY <1>1, <1>2, <1>7 DEF OnTheWay
  <2>2. tx_cksum' = CksumOver(Sent(k)) /\ k.msg.data = Sent(k) \o k.left \o k.rest
    BY <1>1, <1>2, <1>4, <1>7 DEF OnTheWay
  <2>3. tx_len' = k.msg.len /\ k.msg.data # << >> /\ k.left = << >>
    BY <1>1, <1>2, <1>4 DEF OnTheWay
  <2> QED
    BY <1>4, <1>6, <2>1, <2>2, <2>3 DEF OnTheWay, Sent, Pending
<1> QED
  BY <1>1, <1>2, <1>6, <1>8, <1>9, InvWhileSending DEF IInv, SendBufferInBounds, tx_pos

-----------------------------------------------------------------------------
(* The invariant and what follows from it.                                   *)

LEMMA InvInit == Init => IInv
<1> SUFFICES ASSUME Init PROVE IInv
  OBVIOUS
<1>1. << >> \in Seq(Byte) /\ Len(<< >>) = 0 /\ << >> \o << >> = << >>
  BY EmptySeq, ConcatEmptySeq
<1>2. TypeOK
  <2>1. Zero(TF_LEN_BYTES) \in Register(TF_LEN_BYTES) /\ Zero(TF_CKSUM_BYTES) \in Cksum
    BY ZeroType, FormatAssumption DEF Cksum
  <2>2. 0 \in 0 .. Values(TF_ID_BYTES) - 1
    <3>1. Values(TF_ID_BYTES) \in Nat \ {0}
      BY FormatAssumption, ValuesType
    <3> QED
      BY <3>1
  <2>3. 0 \in 0 .. MaxCalls
    BY TransmitAssumption
  <2> QED
    BY <1>1, <2>1, <2>2, <2>3 DEF Init, TypeOK
<1>3. SendBufferInBounds
  BY <1>1, TransmitAssumption DEF Init, SendBufferInBounds, tx_pos
<1>4. Sending = {}
  BY DEF Init, Sending
<1> QED
  BY <1>2, <1>3, <1>4 DEF Init, IInv, LineInv, LockedByOne, JobInv

LEMMA CallStep ==
  ASSUME FailuresReported, IInv, NEW u \in Users, Call(u)
  PROVE  IInv'
<1>1. calls' \in 0 .. MaxCalls
  BY TransmitAssumption DEF Call, IInv, TypeOK
<1>2. PICK c \in Calls : BeginFrame(u, c) \/ NoListenerSlot(c) \/ Locked(u, c)
  BY DEF Call
<1>3. CASE BeginFrame(u, c)
  BY <1>1, <1>3, BeginFrameStep
<1>4. CASE NoListenerSlot(c)
  BY <1>1, <1>4, NoListenerSlotStep
<1>5. CASE Locked(u, c)
  <2>1. UNCHANGED <<next_id, soft_lock, sendbuf, tx_len, tx_cksum, wire, job, promised>>
    BY <1>5 DEF Locked, FailuresReported
  <2>2. TypeOK'
    BY <1>1, <2>1 DEF IInv, TypeOK
  <2>3. UNCHANGED <<SendBufferInBounds, LineInv>>
    BY <2>1 DEF SendBufferInBounds, tx_pos, LineInv, LockedByOne, JobInv, Sending,
                OnTheWay, Pending, Sent
  <2> QED
    BY <2>2, <2>3 DEF IInv
<1> QED
  BY <1>2, <1>3, <1>4, <1>5

LEMMA ProceedStep ==
  ASSUME IInv, NEW u \in Users, Proceed(u)
  PROVE  IInv'
<1>1. CASE SendFrame_Chunk(u)
  BY <1>1, ChunkStep
<1>2. CASE FinishSend(u)
  <2>1. job[u].rest = << >>
    BY <1>2, OneSending DEF FinishSend, IInv, OnTheWay
  <2> QED
    BY <1>2, <2>1, EndStep DEF FinishSend
<1>3. CASE Multipart_Payload(u)
  BY <1>3, PayloadStep
<1>4. CASE PayloadReturn(u)
  BY <1>4, PayloadReturnStep
<1>5. CASE Multipart_Close(u)
  <2>1. job[u].left = << >>
    BY <1>5, OneSending DEF Multipart_Close, IInv, OnTheWay
  <2> QED
    BY <1>5, <2>1, EndStep DEF Multipart_Close
<1> QED
  BY <1>1, <1>2, <1>3, <1>4, <1>5 DEF Proceed

LEMMA InvNext ==
  ASSUME FailuresReported, IInv, [Next]_vars
  PROVE  IInv'
<1>1. CASE Next
  <2>1. PICK u \in Users : Call(u) \/ Proceed(u)
    BY <1>1 DEF Next
  <2> QED
    BY <2>1, CallStep, ProceedStep
<1>2. CASE UNCHANGED vars
  <2>1. UNCHANGED <<TypeOK, SendBufferInBounds, LineInv>>
    BY <1>2 DEF vars, TypeOK, SendBufferInBounds, tx_pos, LineInv, LockedByOne, JobInv,
                Sending, OnTheWay, Pending, Sent
  <2> QED
    BY <2>1 DEF IInv
<1> QED
  BY <1>1, <1>2

LEMMA InvAlways ==
  ASSUME FailuresReported
  PROVE  Spec => []IInv
<1>1. Init => IInv
  BY InvInit
<1>2. IInv /\ [Next]_vars => IInv'
  BY InvNext
<1> QED
  BY <1>1, <1>2, PTL DEF Spec

(* What is on the line is a prefix of the promised frames.                   *)
LEMMA InvGivesLine == IInv => LineIsFrames
<1> SUFFICES ASSUME IInv PROVE LineIsFrames
  OBVIOUS
<1>1. /\ wire \in Seq(Byte) /\ sendbuf \in Seq(Byte) /\ promised \in Seq(Byte)
  BY DEF IInv, TypeOK
<1>2. CASE Sending = {}
  <2>1. wire = promised
    BY <1>2 DEF IInv, LineInv
  <2>2. SubSeq(wire, 1, Len(wire)) = wire /\ Len(wire) \in Nat
    BY <1>1, SubSeqFull, LenProperties
  <2> QED
    BY <2>1, <2>2 DEF LineIsFrames
<1>3. CASE Sending # {}
  <2>1. PICK u \in Users : job[u] # NoJob
    BY <1>3 DEF Sending
  <2>2. OnTheWay(job[u])
    BY <2>1, OneSending DEF IInv
  <2> DEFINE t == Pending(job[u])
  <2>3. promised = wire \o sendbuf \o t
    BY <2>2 DEF OnTheWay
  <2>4. t \in Seq(Byte)
    BY <2>1, JobParts, CksumFieldType, ConcatProperties, EmptySeq DEF Pending
  <2> HIDE DEF t
  <2>5. (wire \o sendbuf) \o t = wire \o (sendbuf \o t)
    <3>1. Assoc(wire, sendbuf, t)
      BY <1>1, <2>4, BytesAssociative
    <3> QED
      BY <3>1, Zenon DEF Assoc
  <2>6. sendbuf \o t \in Seq(Byte)
    BY <1>1, <2>4, ConcatProperties
  <2>7. /\ SubSeq(wire \o (sendbuf \o t), 1, Len(wire)) = wire
        /\ Len(wire) <= Len(wire \o (sendbuf \o t))
    BY <1>1, <2>6, PrefixOfConcat
  <2> QED
    BY <1>3, <2>3, <2>5, <2>7 DEF LineIsFrames
<1> QED
  BY <1>2, <1>3

(* TF_SendFrame_Begin, TF_SendFrame_Chunk, TF_SendFrame_End: for any users,  *)
(* calls, buffer and format, what reaches TF_WriteImpl is the frames of the  *)
(* accepted calls, whole and one after the other, provided every refused     *)
(* call says so to its user.                                                 *)
THEOREM LineCorrect ==
  ASSUME FailuresReported
  PROVE  Spec => []LineIsFrames
BY InvAlways, InvGivesLine, PTL

(* TF_ClaimTx and TF_ReleaseTx: the lock is held by the one user with an     *)
(* open frame, under the same proviso.                                       *)
THEOREM LockExclusive ==
  ASSUME FailuresReported
  PROVE  Spec => []LockedByOne
<1>1. IInv => LockedByOne
  BY DEF IInv, LineInv
<1> QED
  BY <1>1, InvAlways, PTL

(* TF_SendFrame_Chunk and the flush of TF_SendFrame_End never write past the *)
(* end of sendbuf, whatever its length beyond that of a header.              *)
THEOREM BufferBounded ==
  ASSUME FailuresReported
  PROVE  Spec => []SendBufferInBounds
<1>1. IInv => SendBufferInBounds
  BY DEF IInv
<1> QED
  BY <1>1, InvAlways, PTL

(* The type of the transmitter's state.                                      *)
THEOREM TransmitTypes ==
  ASSUME FailuresReported
  PROVE  Spec => []TypeOK
<1>1. IInv => TypeOK
  BY DEF IInv
<1> QED
  BY <1>1, InvAlways, PTL
=============================================================================
