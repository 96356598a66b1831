------------------------------ MODULE TFParser -------------------------------
(****************************************************************************)
(* The receiving state machine: TF_AcceptChar, TF_ResetParser and the part  *)
(* of TF_Tick that times the parser out.  One action per operation; the     *)
(* cases of TF_AcceptChar are one operator each.  Handing a message to the  *)
(* listeners is recorded in `handled`: the message TF_HandleReceivedMessage *)
(* was called with in the last step, or NoMsg.  What the listeners then do  *)
(* is module TFListeners.                                                   *)
(****************************************************************************)
EXTENDS TFFrame

CONSTANTS
  TF_MAX_PAYLOAD_RX,        \* size of the receive buffer
  TF_PARSER_TIMEOUT_TICKS,  \* silence, in ticks, that abandons a frame
  NoMsg                     \* "no message was handled"

ASSUME ParserAssumption ==
  /\ TF_MAX_PAYLOAD_RX \in Nat
  /\ TF_PARSER_TIMEOUT_TICKS \in Nat \ {0}
  /\ NoMsg \notin Message

VARIABLES
  state,                 \* which field the next byte belongs to
  parser_timeout_ticks,  \* ticks since the last byte, saturating at the timeout
  id, len, type,         \* fields of the frame being received
  data,                  \* bytes stored in the receive buffer, in buffer order
  rxi,                   \* bytes of the current field received so far
  cksum, ref_cksum,      \* checksum computed, and collected from the frame
  discard_data,          \* the payload is consumed but not stored
  handled                \* message handed to the listeners by the last step

frameVars == <<id, len, type, data, rxi, cksum, ref_cksum, discard_data>>
parserVars == <<state, parser_timeout_ticks, frameVars, handled>>

States == {"SOF", "ID", "LEN", "TYPE", "HEAD_CKSUM", "DATA", "DATA_CKSUM"}

\* TF_InitStatic zeroes the structure; the zero of the state is SOF.
ParserInit ==
  /\ state = "SOF"
  /\ parser_timeout_ticks = 0
  /\ id = Zero(TF_ID_BYTES) /\ len = Zero(TF_LEN_BYTES) /\ type = Zero(TF_TYPE_BYTES)
  /\ data = << >>
  /\ rxi = 0
  /\ cksum = Zero(TF_CKSUM_BYTES) /\ ref_cksum = Zero(TF_CKSUM_BYTES)
  /\ discard_data = FALSE
  /\ handled = NoMsg

-----------------------------------------------------------------------------
(* The prologue of TF_AcceptChar: a timed out frame is abandoned, and       *)
(* without a SOF byte any byte that finds the parser idle begins a frame    *)
(* whose first ID byte it is.  The operators below are the values the       *)
(* switch statement starts from.                                            *)

\* Broken variant of TimedOut: off by one, at a value the counter stops short of.
TimedOut_Late == parser_timeout_ticks > TF_PARSER_TIMEOUT_TICKS

TimedOut == parser_timeout_ticks >= TF_PARSER_TIMEOUT_TICKS

Idle == state = "SOF" \/ TimedOut

BeginsUnmarked == ~TF_USE_SOF_BYTE /\ Idle

Phase == IF ~Idle THEN state ELSE IF TF_USE_SOF_BYTE THEN "SOF" ELSE "ID"

\* The bytes of the current field with the one being accepted; rxi is a TF_LEN.
Received == ((IF BeginsUnmarked THEN 0 ELSE rxi) + 1) % LenRange

\* A byte of a field of `width` bytes: its last one enters state `next`.
FieldByte(width, next) ==
  IF Received = width
    THEN state' = next /\ rxi' = 0
    ELSE state' = Phase /\ rxi' = Received

\* The message object given to the listeners, with buffer contents d.
MessageWith(d) ==
  [frame_id |-> id, type |-> type, len |-> len, data |-> SubSeq(d, 1, Value(len))]

-----------------------------------------------------------------------------
\* Broken variant of AwaitSof: a discarded payload leaves discard_data behind.
AwaitSof_DiscardKept(c) ==
  /\ Phase = "SOF"
  /\ IF c = TF_SOF_BYTE
       THEN state' = "ID" /\ rxi' = 0 /\ cksum' = TF_CksumAdd(TF_CksumStart, TF_SOF_BYTE)
       ELSE state' = "SOF" /\ UNCHANGED <<rxi, cksum>>
  /\ handled' = NoMsg
  /\ UNCHANGED <<id, len, type, data, ref_cksum, discard_data>>

\* Waiting for SOF: anything else is skipped.
AwaitSof(c) ==
  /\ Phase = "SOF"
  /\ \/ /\ c = TF_SOF_BYTE
        /\ state' = "ID"
        /\ rxi' = 0
        /\ cksum' = TF_CksumAdd(TF_CksumStart, TF_SOF_BYTE)
        /\ discard_data' = FALSE
     \/ /\ c # TF_SOF_BYTE
        /\ state' = "SOF"
        /\ UNCHANGED <<rxi, cksum, discard_data>>
  /\ handled' = NoMsg
  /\ UNCHANGED <<id, len, type, data, ref_cksum>>

\* Broken variant of CollectId: a frame without SOF does not restart the checksum.
CollectId_CksumKept(c) ==
  /\ Phase = "ID"
  /\ id' = ShiftIn(id, c)
  /\ cksum' = TF_CksumAdd(cksum, c)
  /\ discard_data' = (discard_data /\ ~BeginsUnmarked)
  /\ FieldByte(TF_ID_BYTES, "LEN")
  /\ handled' = NoMsg
  /\ UNCHANGED <<len, type, data, ref_cksum>>

CollectId(c) ==
  /\ Phase = "ID"
  /\ id' = ShiftIn(id, c)
  /\ cksum' = TF_CksumAdd(IF BeginsUnmarked THEN TF_CksumStart ELSE cksum, c)
  /\ discard_data' = (discard_data /\ ~BeginsUnmarked)
  /\ FieldByte(TF_ID_BYTES, "LEN")
  /\ handled' = NoMsg
  /\ UNCHANGED <<len, type, data, ref_cksum>>

CollectLen(c) ==
  /\ Phase = "LEN"
  /\ len' = ShiftIn(len, c)
  /\ cksum' = TF_CksumAdd(cksum, c)
  /\ FieldByte(TF_LEN_BYTES, "TYPE")
  /\ handled' = NoMsg
  /\ UNCHANGED <<id, type, data, ref_cksum, discard_data>>

CollectType(c) ==
  /\ Phase = "TYPE"
  /\ type' = ShiftIn(type, c)
  /\ cksum' = TF_CksumAdd(cksum, c)
  /\ FieldByte(TF_TYPE_BYTES, IF TF_CKSUM_NONE THEN "DATA" ELSE "HEAD_CKSUM")
  /\ ref_cksum' = IF state' = "HEAD_CKSUM" THEN Zero(TF_CKSUM_BYTES) ELSE ref_cksum
  /\ handled' = NoMsg
  /\ UNCHANGED <<id, len, data, discard_data>>

\* Broken variant of EnterData: the payload's checksum goes on from the header's.
EnterData_CksumKept ==
  /\ TF_CksumEnd(cksum) = ref_cksum'
  /\ Value(len) # 0
  /\ state' = "DATA"
  /\ cksum' = TF_CksumEnd(cksum)
  /\ rxi' = 0
  /\ handled' = NoMsg
  /\ discard_data' = (discard_data \/ Value(len) > TF_MAX_PAYLOAD_RX)

\* Broken variant of EnterData: an oversized payload is not discarded.
EnterData_NoLimit ==
  /\ TF_CksumEnd(cksum) = ref_cksum'
  /\ Value(len) # 0
  /\ state' = "DATA"
  /\ cksum' = TF_CksumStart
  /\ rxi' = 0
  /\ handled' = NoMsg
  /\ UNCHANGED discard_data

\* The last byte of the header checksum: a wrong header resets the parser, a
\* frame with no payload is complete, an oversized payload will be discarded.
HeadCksumWrong ==
  /\ TF_CksumEnd(cksum) # ref_cksum'
  /\ state' = "SOF"
  /\ cksum' = TF_CksumEnd(cksum)
  /\ rxi' = Received
  /\ handled' = NoMsg
  /\ UNCHANGED discard_data

HeadOnlyFrame ==
  /\ TF_CksumEnd(cksum) = ref_cksum'
  /\ Value(len) = 0
  /\ state' = "SOF"
  /\ cksum' = TF_CksumEnd(cksum)
  /\ rxi' = Received
  /\ handled' = MessageWith(data)
  /\ UNCHANGED discard_data

EnterData ==
  /\ TF_CksumEnd(cksum) = ref_cksum'
  /\ Value(len) # 0
  /\ state' = "DATA"
  /\ cksum' = TF_CksumStart
  /\ rxi' = 0
  /\ handled' = NoMsg
  /\ discard_data' = (discard_data \/ Value(len) > TF_MAX_PAYLOAD_RX)

CollectHeadCksum(c) ==
  /\ Phase = "HEAD_CKSUM"
  /\ ref_cksum' = ShiftIn(ref_cksum, c)
  /\ IF Received = TF_CKSUM_BYTES
       THEN HeadCksumWrong \/ HeadOnlyFrame \/ EnterData
       ELSE /\ state' = "HEAD_CKSUM"
            /\ rxi' = Received
            /\ handled' = NoMsg
            /\ UNCHANGED <<cksum, discard_data>>
  /\ UNCHANGED <<id, len, type, data>>

\* A payload byte goes to data[rxi]; what the buffer holds beyond is never read.
\* A store past the buffer shows as Len(data) > TF_MAX_PAYLOAD_RX.
CollectData(c) ==
  /\ Phase = "DATA"
  /\ IF discard_data
       THEN UNCHANGED <<data, cksum>>
       ELSE /\ data' = Append(SubSeq(data, 1, rxi), c)
            /\ cksum' = TF_CksumAdd(cksum, c)
  /\ \/ /\ Received # Value(len)
        /\ state' = "DATA"
        /\ rxi' = Received
        /\ handled' = NoMsg
        /\ UNCHANGED ref_cksum
     \/ /\ Received = Value(len)
        /\ IF TF_CKSUM_NONE
             THEN /\ state' = "SOF"
                  /\ rxi' = Received
                  /\ handled' = MessageWith(data')
                  /\ UNCHANGED ref_cksum
             ELSE /\ state' = "DATA_CKSUM"
                  /\ rxi' = 0
                  /\ ref_cksum' = Zero(TF_CKSUM_BYTES)
                  /\ handled' = NoMsg
  /\ UNCHANGED <<id, len, type, discard_data>>

CollectDataCksum(c) ==
  /\ Phase = "DATA_CKSUM"
  /\ ref_cksum' = ShiftIn(ref_cksum, c)
  /\ rxi' = Received
  /\ IF Received = TF_CKSUM_BYTES
       THEN /\ state' = "SOF"
            /\ cksum' = TF_CksumEnd(cksum)
            /\ handled' = IF ~discard_data /\ TF_CksumEnd(cksum) = ref_cksum'
                            THEN MessageWith(data) ELSE NoMsg
       ELSE /\ state' = "DATA_CKSUM"
            /\ handled' = NoMsg
            /\ UNCHANGED cksum
  /\ UNCHANGED <<id, len, type, data, discard_data>>

-----------------------------------------------------------------------------
TF_AcceptChar(c) ==
  /\ parser_timeout_ticks' = 0
  /\ \/ AwaitSof(c)
     \/ CollectId(c)
     \/ CollectLen(c)
     \/ CollectType(c)
     \/ CollectHeadCksum(c)
     \/ CollectData(c)
     \/ CollectDataCksum(c)

\* The user may reset the parser at any time; the other fields keep their values.
TF_ResetParser ==
  /\ state' = "SOF"
  /\ handled' = NoMsg
  /\ UNCHANGED <<parser_timeout_ticks, frameVars>>

\* Broken variant of ParserTick: the counter runs on.
ParserTick_NoLimit ==
  /\ parser_timeout_ticks' = parser_timeout_ticks + 1
  /\ handled' = NoMsg
  /\ UNCHANGED <<state, frameVars>>

\* The parser's share of TF_Tick: the timeout itself takes effect when a byte comes.
ParserTick ==
  /\ parser_timeout_ticks' = IF TimedOut THEN parser_timeout_ticks
                             ELSE parser_timeout_ticks + 1
  /\ handled' = NoMsg
  /\ UNCHANGED <<state, frameVars>>

ParserNext ==
  \/ \E c \in Byte : TF_AcceptChar(c)
  \/ TF_ResetParser
  \/ ParserTick

ParserSpec == ParserInit /\ [][ParserNext]_parserVars
=============================================================================
