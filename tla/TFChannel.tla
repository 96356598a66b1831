------------------------------ MODULE TFChannel ------------------------------
(****************************************************************************)
(* What a sender and a receiver of TinyFrame promise to their users: a      *)
(* channel of messages.  Those that fit the receiver's buffer come out once *)
(* each, in the order they were sent and as they were sent; the others are  *)
(* lost, and cost nothing but themselves.  When the sender crashes the last *)
(* message may be lost, and no other.                                       *)
(****************************************************************************)
EXTENDS Naturals, Sequences

CONSTANTS
  Messages,  \* what can be sent
  Fits(_)    \* a message fits the receiver's buffer

VARIABLES
  sent,       \* messages that senders were told are accepted, in order
  delivered   \* messages handed to the receiver's listeners

vars == <<sent, delivered>>

Deliverable == SelectSeq(sent, Fits)

Init == sent = << >> /\ delivered = << >>

Send ==
  /\ Len(sent') = Len(sent) + 1
  /\ \E m \in {sent'[Len(sent')]} \cap Messages : sent' = Append(sent, m)
  /\ UNCHANGED delivered

Deliver ==
  /\ Len(delivered) < Len(Deliverable)
  /\ delivered' = Append(delivered, Deliverable[Len(delivered) + 1])
  /\ UNCHANGED sent

\* The last message is lost, unless it was delivered.
Lose ==
  /\ sent # << >>
  /\ sent' = SubSeq(sent, 1, Len(sent) - 1)
  /\ Len(delivered) <= Len(Deliverable')
  /\ UNCHANGED delivered

Next == Send \/ Deliver \/ Lose

Spec == Init /\ [][Next]_vars /\ WF_vars(Deliver)
=============================================================================
