------------------------------- MODULE MCPeers -------------------------------
(* An ID of two bits, so two numbers for each peer: a master whose queries    *)
(* use both twice, and a slave that asks as well.  One query a tick and       *)
(* exchanges that last a tick at most: the IDs just suffice.                  *)
EXTENDS TFPeers

CONSTANTS master, slave

McPeers == {master, slave}
McPeerBit == [p \in McPeers |-> IF p = master THEN 1 ELSE 0]
McMaxQueries == [p \in McPeers |-> IF p = master THEN 4 ELSE 1]
McTimeouts == {1, 2}
=============================================================================
