---------------------------- MODULE MCUdpServer ----------------------------
(* UdpServer for TLC: one datagram arrives, one answer fails to be sent.   *)
EXTENDS UdpServer
MCFailure == {[e \in Events |-> IF e \in {"data", "send", "fail"} THEN 1 ELSE 0]}
=============================================================================
