-------------------------------- MODULE TFLink -------------------------------
(****************************************************************************)
(* A sending instance, a line and a receiving instance: the frames that     *)
(* TFTransmit writes piece by piece are taken byte by byte by TFParser, at  *)
(* any time after they were written, while the receiver's ticks go on.      *)
(*                                                                          *)
(* The line loses nothing, and carries what is not a start of frame between *)
(* frames only.  Within a frame it is never silent for the receiver's       *)
(* timeout: whoever sends in parts passes the next part in time.  The       *)
(* sender may crash at any time, in the middle of a frame too, and starts   *)
(* again; that takes longer than the receiver's timeout.                    *)
(****************************************************************************)
EXTENDS TFTransmit, TFParser

CONSTANT MaxRestarts  \* bound on the sender's restarts

ASSUME LinkAssumption == MaxRestarts \in Nat

VARIABLES
  taken,      \* bytes of the line that the receiver has accepted
  booting,    \* the sender has crashed and is not back yet
  restarts,   \* its restarts so far
  accepted,   \* history: messages of the calls that were accepted
  delivered   \* history: messages given to the receiver's listeners

linkVars == <<vars, parserVars, taken, booting, restarts, accepted, delivered>>

LinkInit ==
  /\ Init /\ ParserInit
  /\ taken = 0
  /\ booting = FALSE /\ restarts = 0
  /\ accepted = << >> /\ delivered = << >>

-----------------------------------------------------------------------------
\* A user of the sender makes a call, or goes on with one.
SenderCalls(u) ==
  /\ ~booting
  /\ Call(u)
  /\ accepted' = IF promised' = promised THEN accepted ELSE Append(accepted, job'[u].msg)
  /\ UNCHANGED <<parserVars, taken, booting, restarts, delivered>>

SenderProceeds(u) ==
  /\ Proceed(u)
  /\ UNCHANGED <<parserVars, taken, booting, restarts, accepted, delivered>>

\* The sender crashes: what it had not written is gone, and the line ends within
\* the frame it was sending.
SenderCrashes ==
  /\ restarts < MaxRestarts
  /\ restarts' = restarts + 1
  /\ booting' = TRUE
  /\ accepted' = IF Sending = {} THEN accepted ELSE SubSeq(accepted, 1, Len(accepted) - 1)
  /\ promised' = wire
  /\ job' = [u \in Users |-> NoJob]
  /\ UNCHANGED <<next_id, soft_lock, sendbuf, tx_len, tx_cksum, wire, calls>>
  /\ UNCHANGED <<parserVars, taken, delivered>>

\* A frame that was cut off has been followed by the receiver's timeout of silence.
CutOffTimedOut == taken = Len(wire) /\ (state # "SOF" => TimedOut)

\* The sender starts again and calls TF_InitStatic.
SenderRestarts ==
  /\ booting /\ CutOffTimedOut
  /\ booting' = FALSE
  /\ next_id' = 0
  /\ soft_lock' = FALSE
  /\ sendbuf' = << >> /\ tx_len' = Zero(TF_LEN_BYTES) /\ tx_cksum' = Zero(TF_CKSUM_BYTES)
  /\ UNCHANGED <<wire, job, calls, promised>>
  /\ UNCHANGED <<parserVars, taken, restarts, accepted, delivered>>

-----------------------------------------------------------------------------
\* What the receiver's listeners are given by a step of its parser.
Handed == delivered' = IF handled' = NoMsg THEN delivered ELSE Append(delivered, handled')

\* The receiver calls TF_Accept with what has come in.
Receive ==
  /\ taken < Len(wire)
  /\ TF_AcceptChar(wire[taken + 1])
  /\ taken' = taken + 1
  /\ Handed
  /\ UNCHANGED <<vars, booting, restarts, accepted>>

\* Between frames the line may carry other bytes.
Noise ==
  /\ state = "SOF" /\ TF_USE_SOF_BYTE
  /\ \E c \in Byte \ {TF_SOF_BYTE} : TF_AcceptChar(c)
  /\ Handed
  /\ UNCHANGED <<vars, taken, booting, restarts, accepted>>

\* TF_Tick of the receiver.  In a frame the next byte comes before the timeout,
\* unless the sender has crashed.
ReceiverTick ==
  /\ \/ state = "SOF"
     \/ parser_timeout_ticks + 1 < TF_PARSER_TIMEOUT_TICKS
     \/ booting /\ taken = Len(wire)
  /\ ParserTick
  /\ UNCHANGED <<vars, taken, booting, restarts, accepted, delivered>>

\* TF_ResetParser, by a user, between frames.
ReceiverReset ==
  /\ state = "SOF"
  /\ TF_ResetParser
  /\ UNCHANGED <<vars, taken, booting, restarts, accepted, delivered>>

-----------------------------------------------------------------------------
LinkNext ==
  \/ \E u \in Users : SenderCalls(u) \/ SenderProceeds(u)
  \/ SenderCrashes \/ SenderRestarts
  \/ Receive \/ Noise \/ ReceiverTick \/ ReceiverReset

\* Users go on with what they began, and the receiver reads what arrives.
LinkSpec ==
  /\ LinkInit /\ [][LinkNext]_linkVars
  /\ \A u \in Users : WF_linkVars(SenderProceeds(u))
  /\ WF_linkVars(Receive)
  /\ WF_linkVars(ReceiverTick) /\ WF_linkVars(SenderRestarts)

-----------------------------------------------------------------------------
FitsReceiver(m) == Len(m.data) <= TF_MAX_PAYLOAD_RX

(* The two instances and the line implement a channel of messages: every     *)
(* message that was accepted and fits is delivered once, in order and as it  *)
(* was sent, however it was cut into pieces, whatever was sent before it and *)
(* wherever the sender crashed before.                                       *)
Channel == INSTANCE TFChannel WITH Messages <- Message, Fits <- FitsReceiver, sent <- accepted
IsChannel == Channel!Spec
=============================================================================
