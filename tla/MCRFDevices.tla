----------------------------- MODULE MCRFDevices -----------------------------
(* A server and a client in normal mode, and a sender of the client's board   *)
(* that runs twice and sends two messages each time, into queues that hold    *)
(* two: messages wait behind others, and some find the queue full.            *)
EXTENDS RFDevices

CONSTANTS server, client, imu

McNodes == {server, client}
McSenders == {imu}
McBoard == [p \in Processes |-> IF p = server THEN "server" ELSE "client"]
McMaxStarts == [p \in Processes |-> IF p = imu THEN 2 ELSE 1]
=============================================================================
