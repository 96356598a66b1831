------------------------------ MODULE MCTransmit -----------------------------
(* Bits for bytes; a header of 8 bytes and a transmit buffer of 10, so that a *)
(* payload of one byte leaves no room for the two bytes of its checksum, one  *)
(* of two fills the buffer and one of three is flushed on the way.  The       *)
(* checksum depends on the order of the bytes.                                *)
EXTENDS TFTransmit

McStart == <<0, 0>>
McAdd(k, b) == <<k[2], (k[1] + b) % 2>>
McEnd(k) == <<1 - k[1], k[2]>>

McCall(data, is_response, listener, multipart) ==
  [msg |-> [frame_id |-> <<1, 1>>, type |-> <<1>>,
            len |-> BigEndian(TF_LEN_BYTES, Len(data)), data |-> data],
   is_response |-> is_response, listener |-> listener, multipart |-> multipart]

\* Sends, queries and responses, in one call or in parts, of 0 to 3 bytes.
McCalls ==
  {McCall(<< >>, FALSE, TRUE, FALSE),
   McCall(<<1>>, TRUE, FALSE, FALSE),
   McCall(<<0, 1>>, FALSE, TRUE, TRUE),
   McCall(<<1, 0, 0>>, FALSE, FALSE, TRUE),
   McCall(<<0, 1, 1>>, FALSE, FALSE, FALSE)}

\* ... and a response in parts, which cannot report that the lock was taken.
McAllCalls == McCalls \cup {McCall(<<1, 1>>, TRUE, FALSE, TRUE)}

=============================================================================
