----------------------------- MODULE MCListeners -----------------------------
(* Two ID slots, one type slot, one generic slot; three registrations, so that *)
(* a slot is used again and a table is full.                                   *)
EXTENDS TFListeners

McRequest(table, timeout, fn_timeout, userdata) ==
  [table |-> table, key |-> 1, timeout |-> timeout, fn_timeout |-> fn_timeout,
   userdata |-> userdata]

McRequests ==
  {McRequest("id", 1, TRUE, FALSE), McRequest("id", 2, TRUE, TRUE),
   McRequest("id", 0, FALSE, TRUE),
   McRequest("type", 0, FALSE, FALSE), McRequest("generic", 0, FALSE, FALSE)}

\* For the runs about one hazard: listeners without userdata, and one whose
\* userdata is released when it times out.
McPlainRequests == {McRequest("id", 0, FALSE, FALSE), McRequest("type", 0, FALSE, FALSE)}
McTimedRequests == {McRequest("id", 1, TRUE, TRUE)}

McMessages == {[id |-> 1, type |-> 1], [id |-> 2, type |-> 2]}
=============================================================================
