------------------------------ MODULE MCParser -------------------------------
(* Bits for bytes, a payload buffer of two of them and a two-byte length     *)
(* field, so that payloads of 0, 1, 2 and an oversized 3 bytes exist.        *)
EXTENDS TFParserHistory, TFChecksum

McEnd(k) == XorEnd(ByteBase, k)
McStart == XorStart

\* Every message the length field can announce.
McPeerMessages ==
  {[frame_id |-> i, type |-> t, len |-> BigEndian(TF_LEN_BYTES, n), data |-> d] :
     i \in Register(TF_ID_BYTES), t \in Register(TF_TYPE_BYTES),
     <<n, d>> \in UNION {{n} \X [1 .. n -> Byte] : n \in 0 .. LenRange - 1}}
=============================================================================
