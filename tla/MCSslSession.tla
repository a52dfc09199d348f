---------------------------- MODULE MCSslSession ----------------------------
(* SslSession for TLC: a client that is started with SetSSLAutoHandShake() *)
(* off, and whose application calls StartSSLHandShake() by itself.         *)
EXTENDS SslSession
MCByHand == {[kind |-> "client", auto |-> FALSE, send |-> 0, data |-> 0, bad |-> 0, eof |-> 0]}
=============================================================================
