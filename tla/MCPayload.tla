------------------------------ MODULE MCPayload ------------------------------
(* Bytes of two bits, a buffer of five, and fields of every width: numbers    *)
(* whose bytes differ, a negative one, a string, and buffers with and without  *)
(* bytes.                                                                      *)
EXTENDS PayloadParser

McFields == {
  [kind |-> "u8", value |-> 2],
  [kind |-> "i16", value |-> -3],
  [kind |-> "u32", value |-> 27],
  [kind |-> "bool", value |-> TRUE],
  [kind |-> "string", value |-> <<1, 2>>],
  [kind |-> "buf", value |-> <<0, 3>>],
  [kind |-> "buf", value |-> << >>]}

McLengths == 0 .. 4
=============================================================================
