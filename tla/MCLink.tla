-------------------------------- MODULE MCLink -------------------------------
(* Bits for bytes, a transmit buffer of 10 for a header of 8, and a receive    *)
(* buffer of two bytes: a payload of three is flushed on the way and does not  *)
(* fit the receiver.  The checksum depends on the order of the bytes.          *)
EXTENDS TFLink

McStart == <<0, 0>>
McAdd(k, b) == <<k[2], (k[1] + b) % 2>>
McEnd(k) == <<1 - k[1], k[2]>>

McCall(payload, is_response, listener, multipart) ==
  [msg |-> [frame_id |-> <<1, 1>>, type |-> <<1>>,
            len |-> BigEndian(TF_LEN_BYTES, Len(payload)), data |-> payload],
   is_response |-> is_response, listener |-> listener, multipart |-> multipart]

McCalls ==
  {McCall(<< >>, FALSE, TRUE, FALSE),
   McCall(<<1>>, TRUE, FALSE, FALSE),
   McCall(<<0, 1>>, FALSE, TRUE, TRUE),
   McCall(<<1, 0, 0>>, FALSE, FALSE, TRUE)}
=============================================================================
