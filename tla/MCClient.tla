------------------------------ MODULE MCClient ------------------------------
(* Client for TLC: one connection, in the middle of whose attempt Stop() is *)
(* called, and which its peer ends.                                        *)
EXTENDS Client
MCEarly == {[e \in Events |-> IF e \in {"start", "async", "early", "eof"} THEN 1 ELSE 0]}
=============================================================================
