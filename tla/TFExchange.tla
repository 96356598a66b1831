----------------------------- MODULE TFExchange ------------------------------
(****************************************************************************)
(* What TinyFrame promises to those who ask questions with it, whatever the *)
(* line does: a query is served at most once, by the other peer; it is      *)
(* answered at most once, only after it was served; and it always ends,     *)
(* answered, expired, refused at once, or forgotten when its peer is reset. *)
(* What it does not promise: a query made after a reset may be given the    *)
(* answer to one made before, and ends with it.  A query is known by its    *)
(* peer and its number, never by the ID of its frame.                       *)
(****************************************************************************)
EXTENDS Integers, Sequences

CONSTANTS
  Peers,      \* the two ends of the line
  MaxQueries  \* bound on the queries a peer makes, by peer

VARIABLES
  result,  \* for each peer, what became of its queries, in the order they were made
  served,  \* the queries the other peer has handled
  before   \* for each peer, how many queries it made before its last reset

vars == <<result, served, before>>

Result == {"open", "refused", "answered", "expired", "forgotten", "misled"}

Open(p, q) == q \in DOMAIN result[p] /\ result[p][q] = "open"

Init ==
  /\ result = [p \in Peers |-> << >>]
  /\ served = {}
  /\ before = [p \in Peers |-> 0]

Ask(p) ==
  /\ \E r \in {"open", "refused"} : result' = [result EXCEPT ![p] = Append(@, r)]
  /\ UNCHANGED <<served, before>>

Serve(p, q) ==
  /\ q \in DOMAIN result[p] /\ result[p][q] # "refused"
  /\ <<p, q>> \notin served
  /\ served' = served \cup {<<p, q>>}
  /\ UNCHANGED <<result, before>>

Answer(p, q) ==
  /\ Open(p, q)
  /\ <<p, q>> \in served
  /\ result' = [result EXCEPT ![p][q] = "answered"]
  /\ UNCHANGED <<served, before>>

\* Query q, made since the reset, ends with the answer to one made before.
Mislead(p, q) ==
  /\ Open(p, q) /\ q > before[p]
  /\ \E r \in 1 .. before[p] : <<p, r>> \in served
  /\ result' = [result EXCEPT ![p][q] = "misled"]
  /\ UNCHANGED <<served, before>>

\* Any open queries run out of time; all others stay as they are.
Expire ==
  /\ \A p \in Peers : DOMAIN result'[p] = DOMAIN result[p]
  /\ result' \in [Peers -> Seq(Result)]
  /\ \A p \in Peers : \A q \in DOMAIN result[p] :
       \/ result'[p][q] = result[p][q]
       \/ Open(p, q) /\ result'[p][q] = "expired"
  /\ UNCHANGED <<served, before>>

Reset(p) ==
  /\ result' = [result EXCEPT ![p] = [q \in DOMAIN @ |-> IF Open(p, q) THEN "forgotten" ELSE @[q]]]
  /\ before' = [before EXCEPT ![p] = Len(result[p])]
  /\ UNCHANGED served

Next ==
  \/ \E p \in Peers : Ask(p) \/ Reset(p)
  \/ \E p \in Peers : \E q \in DOMAIN result[p] : Serve(p, q) \/ Answer(p, q) \/ Mislead(p, q)
  \/ Expire

Ends == \A p \in Peers : \A q \in 1 .. MaxQueries[p] : Open(p, q) ~> ~Open(p, q)

Safety == Init /\ [][Next]_vars
Spec == Safety /\ Ends
=============================================================================
