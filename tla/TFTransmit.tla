----------------------------- MODULE TFTransmit ------------------------------
(****************************************************************************)
(* The sending half of TinyFrame: the Tx lock, the composition of frames in *)
(* the transmit buffer and the buffer's flushes to TF_WriteImpl, shared by  *)
(* the users of one instance.  A user is a flow of control that calls the   *)
(* sending functions: a thread, a main loop, an interrupt.  A call is not   *)
(* one step: it gives way to the others after claiming the lock and         *)
(* composing the header, after every piece of payload copied or flushed,    *)
(* and, in a multi-part frame, between the calls.                           *)
(*                                                                          *)
(* Claiming the lock is atomic: TF_USE_MUTEX with a mutex, or users that    *)
(* only give way inside TF_WriteImpl and between calls.                     *)
(****************************************************************************)
EXTENDS TFFrame

CONSTANTS
  Users,           \* who calls the sending functions
  Calls,           \* the calls they make
  NoJob,           \* "this user is not sending"
  TF_SENDBUF_LEN,  \* size of the transmit buffer
  TF_PeerBit,      \* TRUE for TF_MASTER
  TF_USE_MUTEX,    \* TRUE: TF_ClaimTx waits for the lock; FALSE: it fails
  MaxCalls         \* bound on the number of calls

HeadLen ==
  (IF TF_USE_SOF_BYTE THEN 1 ELSE 0) + TF_ID_BYTES + TF_LEN_BYTES + TF_TYPE_BYTES
    + (IF TF_CKSUM_NONE THEN 0 ELSE TF_CKSUM_BYTES)

\* TF_Send, TF_Query, TF_Respond, their Simple and their Multipart variants: a
\* message to send or to respond with, and whether a listener awaits its answer.
\* The payload of a multi-part message is what the user will pass in later calls.
CallType ==
  [msg : Message, is_response : BOOLEAN, listener : BOOLEAN, multipart : BOOLEAN]

\* A job: its message, the payload still to be copied by the current call and by
\* later ones, and where the user is: in TF_SendFrame, which will end the frame,
\* in TF_Multipart_Payload, or between the calls of a multi-part frame.
Job ==
  [msg : Message, left : Seq(Byte), rest : Seq(Byte),
   stage : {"sending", "payload", "open"}]

ASSUME TransmitAssumption ==
  /\ TF_SENDBUF_LEN \in Nat /\ HeadLen <= TF_SENDBUF_LEN
  /\ {TF_PeerBit, TF_USE_MUTEX} \subseteq BOOLEAN
  /\ MaxCalls \in Nat
  /\ ByteBase % 2 = 0
  /\ NoJob \notin Job
  /\ Calls \subseteq CallType
  /\ \A c \in Calls : c.multipart => c.msg.data # << >>

VARIABLES
  next_id,    \* counter that frame IDs are made from, of the width of an ID
  soft_lock,  \* the Tx lock is taken
  sendbuf,    \* the first tx_pos bytes of the transmit buffer
  tx_len,     \* payload length of the frame being sent
  tx_cksum,   \* checksum of the payload so far
  wire,       \* bytes given to TF_WriteImpl
  job,        \* what each user is sending
  calls,      \* calls made so far
  promised    \* history: the frames of the calls that were accepted

vars == <<next_id, soft_lock, sendbuf, tx_len, tx_cksum, wire, job, calls, promised>>

tx_pos == Len(sendbuf)

Init ==
  /\ next_id = 0
  /\ soft_lock = FALSE
  /\ sendbuf = << >>
  /\ tx_len = Zero(TF_LEN_BYTES)
  /\ tx_cksum = Zero(TF_CKSUM_BYTES)
  /\ wire = << >>
  /\ job = [u \in Users |-> NoJob]
  /\ calls = 0
  /\ promised = << >>

-----------------------------------------------------------------------------
\* The ID of a new frame: the counter without its top bit, which is the peer's.
PeerBitValue == Values(TF_ID_BYTES) \div 2
NewId ==
  BigEndian(TF_ID_BYTES,
            (next_id % PeerBitValue) + (IF TF_PeerBit THEN PeerBitValue ELSE 0))

\* The message with its resolved ID; a response keeps the ID it was given.
Resolved(c) == IF c.is_response THEN c.msg ELSE [c.msg EXCEPT !.frame_id = NewId]

\* Broken variant of ComposeHead: the ID counter does not wrap.
ComposeHead_NoWrap(c) ==
  /\ sendbuf' = FrameHead(Resolved(c))
  /\ next_id' = IF c.is_response THEN next_id ELSE next_id + 1
  /\ tx_len' = c.msg.len

\* TF_ComposeHead, into the start of the buffer.
ComposeHead(c) ==
  /\ sendbuf' = FrameHead(Resolved(c))
  /\ next_id' = IF c.is_response THEN next_id ELSE (next_id + 1) % Values(TF_ID_BYTES)
  /\ tx_len' = c.msg.len

JobOf(c) ==
  [msg   |-> Resolved(c),
   left  |-> IF c.multipart THEN << >> ELSE c.msg.data,
   rest  |-> IF c.multipart THEN c.msg.data ELSE << >>,
   stage |-> IF c.multipart THEN "open" ELSE "sending"]

\* Broken variant of BeginFrame: the lock is taken without a look at it.
BeginFrame_Unchecked(u, c) ==
  /\ soft_lock' = TRUE
  /\ ComposeHead(c)
  /\ tx_cksum' = TF_CksumStart
  /\ job' = [job EXCEPT ![u] = JobOf(c)]
  /\ promised' = promised \o Encode(Resolved(c))
  /\ UNCHANGED wire

\* TF_SendFrame_Begin with the lock claimed; without payload pieces to wait for,
\* TF_SendFrame goes on to copy the payload and end the frame.
BeginFrame(u, c) ==
  /\ ~soft_lock
  /\ soft_lock' = TRUE
  /\ ComposeHead(c)
  /\ tx_cksum' = TF_CksumStart
  /\ job' = [job EXCEPT ![u] = JobOf(c)]
  /\ promised' = promised \o Encode(Resolved(c))
  /\ UNCHANGED wire

\* Broken variant of NoListenerSlot: the failed call keeps the lock.
NoListenerSlot_LockKept(c) ==
  /\ ~soft_lock
  /\ c.listener
  /\ ComposeHead(c)
  /\ soft_lock' = TRUE
  /\ UNCHANGED <<tx_cksum, wire, job, promised>>

\* There is no slot for the listener: the call fails after the header was composed.
NoListenerSlot(c) ==
  /\ ~soft_lock
  /\ c.listener
  /\ ComposeHead(c)
  /\ UNCHANGED <<soft_lock, tx_cksum, wire, job, promised>>

\* TF_ClaimTx fails.  The call returns false, except that TF_Respond_Multipart
\* returns nothing and its user goes on with the payload.
Locked(u, c) ==
  /\ soft_lock /\ ~TF_USE_MUTEX
  /\ job' = IF c.multipart /\ c.is_response THEN [job EXCEPT ![u] = JobOf(c)] ELSE job
  /\ UNCHANGED <<next_id, soft_lock, sendbuf, tx_len, tx_cksum, wire, promised>>

Call(u) ==
  /\ job[u] = NoJob
  /\ calls < MaxCalls
  /\ calls' = calls + 1
  /\ \E c \in Calls : BeginFrame(u, c) \/ NoListenerSlot(c) \/ Locked(u, c)

-----------------------------------------------------------------------------
\* One round of the loop of TF_SendFrame_Chunk: copy what fits, flush when full.
SendFrame_Chunk(u) ==
  /\ job[u] # NoJob
  /\ job[u].left # << >>
  /\ LET left == job[u].left
         room == TF_SENDBUF_LEN - tx_pos
         chunk == IF room < Len(left) THEN room ELSE Len(left)
         piece == SubSeq(left, 1, chunk)
     IN  /\ tx_cksum' = CksumFrom(tx_cksum, piece)
         /\ job' = [job EXCEPT ![u].left = SubSeq(left, chunk + 1, Len(left))]
         /\ IF tx_pos + chunk = TF_SENDBUF_LEN
              THEN wire' = wire \o sendbuf \o piece /\ sendbuf' = << >>
              ELSE sendbuf' = sendbuf \o piece /\ UNCHANGED wire
  /\ UNCHANGED <<next_id, soft_lock, tx_len, calls, promised>>

\* Broken variant of SendFrame_End: a frame without payload gets its checksum too.
SendFrame_End_AlwaysTail ==
  LET tail == TF_CksumEnd(tx_cksum)
      flush == TF_SENDBUF_LEN - tx_pos < TF_CKSUM_BYTES
  IN  /\ sendbuf' = (IF flush THEN << >> ELSE sendbuf) \o tail
      /\ wire' = wire \o sendbuf \o tail
      /\ tx_cksum' = tail
      /\ soft_lock' = FALSE
      /\ UNCHANGED <<next_id, tx_len, calls, promised>>

\* Broken variant of SendFrame_End: the checksum is added without looking for room.
SendFrame_End_NoFlush ==
  LET tail == IF Value(tx_len) = 0 THEN << >> ELSE TF_CksumEnd(tx_cksum)
  IN  /\ sendbuf' = sendbuf \o tail
      /\ wire' = wire \o sendbuf \o tail
      /\ soft_lock' = FALSE
      /\ UNCHANGED <<next_id, tx_len, tx_cksum, calls, promised>>

\* TF_SendFrame_End: flush if the checksum does not fit, add it, flush the rest.
\* tx_pos keeps its value; the next frame starts the buffer over.
SendFrame_End ==
  /\ IF Value(tx_len) = 0
       THEN /\ wire' = wire \o sendbuf
            /\ UNCHANGED <<sendbuf, tx_cksum>>
       ELSE LET tail == IF TF_CKSUM_NONE THEN << >> ELSE TF_CksumEnd(tx_cksum)
                flush == TF_SENDBUF_LEN - tx_pos < TF_CKSUM_BYTES
            IN  /\ sendbuf' = (IF flush THEN << >> ELSE sendbuf) \o tail
                /\ wire' = wire \o sendbuf \o tail
                /\ tx_cksum' = IF TF_CKSUM_NONE THEN tx_cksum ELSE tail
  /\ soft_lock' = FALSE
  /\ UNCHANGED <<next_id, tx_len, calls, promised>>

\* The end of TF_SendFrame for a frame sent in one call.
FinishSend(u) ==
  /\ job[u] # NoJob
  /\ job[u].stage = "sending" /\ job[u].left = << >>
  /\ SendFrame_End
  /\ job' = [job EXCEPT ![u] = NoJob]

\* TF_Multipart_Payload takes a piece of the payload, and returns.
Multipart_Payload(u) ==
  /\ job[u] # NoJob
  /\ job[u].stage = "open"
  /\ \E n \in 1 .. Len(job[u].rest) :
       job' = [job EXCEPT ![u].left = SubSeq(job[u].rest, 1, n),
                          ![u].rest = SubSeq(job[u].rest, n + 1, Len(job[u].rest)),
                          ![u].stage = "payload"]
  /\ UNCHANGED <<next_id, soft_lock, sendbuf, tx_len, tx_cksum, wire, calls, promised>>

PayloadReturn(u) ==
  /\ job[u] # NoJob
  /\ job[u].stage = "payload" /\ job[u].left = << >>
  /\ job' = [job EXCEPT ![u].stage = "open"]
  /\ UNCHANGED <<next_id, soft_lock, sendbuf, tx_len, tx_cksum, wire, calls, promised>>

\* The user closes the frame once it has passed the whole payload.
Multipart_Close(u) ==
  /\ job[u] # NoJob
  /\ job[u].stage = "open" /\ job[u].rest = << >>
  /\ SendFrame_End
  /\ job' = [job EXCEPT ![u] = NoJob]

-----------------------------------------------------------------------------
\* What a user that has begun a frame does until it is sent.
Proceed(u) ==
  \/ SendFrame_Chunk(u)
  \/ FinishSend(u)
  \/ Multipart_Payload(u)
  \/ PayloadReturn(u)
  \/ Multipart_Close(u)

Next == \E u \in Users : Call(u) \/ Proceed(u)

Spec == Init /\ [][Next]_vars

\* Users go on with what they began: a running call returns, and a multi-part
\* frame is fully sent and closed, as the README asks.
FairSpec == Spec /\ \A u \in Users : WF_vars(Proceed(u))

-----------------------------------------------------------------------------
Sending == {u \in Users : job[u] # NoJob}

TypeOK ==
  /\ next_id \in 0 .. Values(TF_ID_BYTES) - 1
  /\ soft_lock \in BOOLEAN
  /\ sendbuf \in Seq(Byte) /\ wire \in Seq(Byte) /\ promised \in Seq(Byte)
  /\ tx_len \in Register(TF_LEN_BYTES)
  /\ tx_cksum \in Cksum
  /\ job \in [Users -> Job \cup {NoJob}]
  /\ calls \in 0 .. MaxCalls

(* What the users of one instance put on the line is the frames of the calls *)
(* that were accepted, whole, in order and none twice: never two interleaved,*)
(* no piece of a frame that was refused; once nobody is sending, all of them.*)
LineIsFrames ==
  /\ Len(wire) <= Len(promised)
  /\ wire = SubSeq(promised, 1, Len(wire))
  /\ Sending = {} => wire = promised

(* The transmit buffer is never written past its end, and a flush that finds *)
(* no room for the checksum empties it first.                                *)
SendBufferInBounds == tx_pos <= TF_SENDBUF_LEN

(* The Tx lock is held exactly while a frame is open, by one user only.      *)
LockedByOne ==
  /\ \A u, v \in Sending : u = v
  /\ soft_lock <=> Sending # {}

(* Whoever takes the Tx lock gives it back, whether the frame is sent in one *)
(* call, in pieces or not at all.                                            *)
LockReleased == soft_lock ~> ~soft_lock

-----------------------------------------------------------------------------
(* Why LineIsFrames holds: the line, the buffer and what the user has yet to *)
(* pass always make up the promised frames.                                  *)
Pending(j) ==
  j.left \o j.rest \o
    (IF j.msg.data = << >> THEN << >> ELSE CksumField(j.msg.data))

Sent(j) == SubSeq(j.msg.data, 1, Len(j.msg.data) - Len(j.left) - Len(j.rest))

OnTheWay(j) ==
  /\ promised = wire \o sendbuf \o Pending(j)
  /\ j.msg.data = Sent(j) \o j.left \o j.rest
  /\ tx_cksum = CksumOver(Sent(j))
  /\ tx_len = j.msg.len
  /\ j.stage = "sending" => j.rest = << >>
  /\ j.stage = "open" => j.left = << >>
  /\ j.stage # "sending" => j.msg.data # << >>

JobInv == \A u \in Sending : OnTheWay(job[u])

LineInv == LockedByOne /\ JobInv /\ (Sending = {} => wire = promised)
=============================================================================
