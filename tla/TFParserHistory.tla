--------------------------- MODULE TFParserHistory ---------------------------
(****************************************************************************)
(* The parser observed from the line: what was received since when, kept in *)
(* history variables that the parser cannot see, so that its deliveries can *)
(* be compared with the bytes that caused them.                             *)
(****************************************************************************)
EXTENDS TFParser

CONSTANT PeerMessages  \* the messages the peer's frames carry

ASSUME PeerAssumption == PeerMessages \subseteq Message

VARIABLES
  received,  \* bytes of the frame the parser is in, or has just left by delivering
  idle,      \* ticks since the last byte, up to the timeout
  sync,      \* since the line was last between frames it carried only whole frames...
  burst      \* ...and these bytes of the one that is being sent

histVars == <<received, idle, sync, burst>>
vars == <<parserVars, histVars>>

\* What a conforming peer may put on the line, and what must come of it: a frame
\* is delivered if it fits the buffer; one whose payload was damaged is dropped.
Frames == {Encode(m) : m \in PeerMessages}
Damaged == UNION {{FrameHead(m) \o m.data \o k : k \in Cksum} :
                  m \in {p \in PeerMessages : p.data # << >> /\ ~TF_CKSUM_NONE}}
Whole == Frames \cup Damaged
Outcome ==
  [s \in Whole |->
     IF s \in Frames
       THEN LET m == CHOOSE p \in PeerMessages : Encode(p) = s
            IN  IF Len(m.data) <= TF_MAX_PAYLOAD_RX THEN m ELSE NoMsg
       ELSE NoMsg]
Prefixes == UNION {{SubSeq(s, 1, n) : n \in 0 .. Len(s)} : s \in Whole}

Silence == idle >= TF_PARSER_TIMEOUT_TICKS

\* The bytes of the frame on the line after c, if they are still those of a
\* frame: it starts after silence or after a whole frame, with SOF if used.
OnLine(c) ==
  LET b == IF Silence \/ burst \in Whole THEN << >> ELSE burst
  IN  IF b = << >> /\ TF_USE_SOF_BYTE /\ c # TF_SOF_BYTE THEN << >> ELSE Append(b, c)

Init ==
  /\ ParserInit
  /\ received = << >>
  /\ idle = 0
  /\ sync = TRUE
  /\ burst = << >>

Accept(c) ==
  /\ TF_AcceptChar(c)
  /\ received' = IF state' = "SOF" /\ handled' = NoMsg THEN << >>
                 ELSE Append(IF Silence \/ state = "SOF" THEN << >> ELSE received, c)
  /\ idle' = 0
  /\ sync' = ((sync \/ Silence) /\ OnLine(c) \in Prefixes)
  /\ burst' = IF sync' THEN OnLine(c) ELSE << >>

\* A reset between frames changes nothing; one in a frame makes the rest of it noise.
Reset ==
  /\ TF_ResetParser
  /\ sync' = (sync /\ (burst = << >> \/ burst \in Whole))
  /\ burst' = << >>
  /\ received' = << >>
  /\ UNCHANGED idle

Tick ==
  /\ ParserTick
  /\ idle' = IF Silence THEN idle ELSE idle + 1
  /\ received' = IF state = "SOF" THEN << >> ELSE received
  /\ UNCHANGED <<sync, burst>>

Next == (\E c \in Byte : Accept(c)) \/ Reset \/ Tick

Spec == Init /\ [][Next]_vars

-----------------------------------------------------------------------------
(* Type correctness of the parser: every field keeps its width, the field   *)
(* counter its range, and a message handed on is a message.                 *)
TypeOK ==
  /\ state \in States
  /\ parser_timeout_ticks \in 0 .. TF_PARSER_TIMEOUT_TICKS
  /\ id \in Register(TF_ID_BYTES)
  /\ len \in Register(TF_LEN_BYTES)
  /\ type \in Register(TF_TYPE_BYTES)
  /\ data \in Seq(Byte)
  /\ rxi \in 0 .. LenRange - 1
  /\ cksum \in Cksum /\ ref_cksum \in Cksum
  /\ discard_data \in BOOLEAN
  /\ handled \in Message \cup {NoMsg}
  /\ received \in Seq(Byte) /\ burst \in Seq(Byte)
  /\ idle \in 0 .. TF_PARSER_TIMEOUT_TICKS
  /\ sync \in BOOLEAN

(* A message is handed to the listeners only when the bytes received since  *)
(* the frame began, with no silence of the timeout's length between any two *)
(* of them, are exactly that message's frame: both checksums included and   *)
(* every field where it belongs, and its payload fitted the buffer.         *)
DeliveredAsSent ==
  handled # NoMsg =>
    /\ received = Encode(handled)
    /\ Len(handled.data) = Value(handled.len)
    /\ Len(handled.data) <= TF_MAX_PAYLOAD_RX

(* The receive buffer is never written past its end, whatever length the    *)
(* header announced and whatever was left over from earlier frames.         *)
BufferInBounds == Len(data) <= TF_MAX_PAYLOAD_RX

(* A frame that arrives on a line that is between frames (at start, after a *)
(* whole frame, after the timeout's silence however garbled the line was    *)
(* before) is delivered by its last byte and not earlier, and one that does *)
(* not fit or whose payload is damaged costs only itself.                   *)
CleanFrameDelivered ==
  sync /\ idle = 0 => handled = IF burst \in Whole THEN Outcome[burst] ELSE NoMsg

-----------------------------------------------------------------------------
(* Why DeliveredAsSent holds: in every state the bytes received so far are   *)
(* those of a frame up to the field being collected, and the accumulator is  *)
(* the checksum of the part that is complete.  Collected is the part of a    *)
(* register that has been shifted in.                                        *)

Collected(r, n) == SubSeq(r, Len(r) - n + 1, Len(r))

HeadSoFar == SofField \o id \o len \o type
HeadDone == HeadSoFar \o TF_CksumEnd(CksumOver(HeadSoFar))

InId ==
  /\ rxi < TF_ID_BYTES
  /\ received = SofField \o Collected(id, rxi)
  /\ cksum = CksumOver(received)
InLen ==
  /\ rxi < TF_LEN_BYTES
  /\ received = SofField \o id \o Collected(len, rxi)
  /\ cksum = CksumOver(received)
InType ==
  /\ rxi < TF_TYPE_BYTES
  /\ received = SofField \o id \o len \o Collected(type, rxi)
  /\ cksum = CksumOver(received)
InHeadCksum ==
  /\ rxi < TF_CKSUM_BYTES
  /\ received = HeadSoFar \o Collected(ref_cksum, rxi)
  /\ cksum = CksumOver(HeadSoFar)
InData ==
  /\ rxi < Value(len)
  /\ ~discard_data =>
       /\ Value(len) <= TF_MAX_PAYLOAD_RX
       /\ received = HeadDone \o SubSeq(data, 1, rxi)
       /\ cksum = CksumOver(SubSeq(data, 1, rxi))
InDataCksum ==
  /\ rxi < TF_CKSUM_BYTES
  /\ ~discard_data =>
       /\ Value(len) <= TF_MAX_PAYLOAD_RX
       /\ Len(data) = Value(len) /\ data # << >>
       /\ received = HeadDone \o data \o Collected(ref_cksum, rxi)
       /\ cksum = CksumOver(data)

FrameInv ==
  /\ idle = parser_timeout_ticks
  /\ state \in {"ID", "LEN", "TYPE", "HEAD_CKSUM"} => ~discard_data
  /\ state = "ID" => InId
  /\ state = "LEN" => InLen
  /\ state = "TYPE" => InType
  /\ state = "HEAD_CKSUM" => InHeadCksum
  /\ state = "DATA" => InData
  /\ state = "DATA_CKSUM" => InDataCksum
=============================================================================
