---------------------------- MODULE MCWebSocket ----------------------------
(* WebSocket for TLC: a client that upgrades and sends a frame with a      *)
(* body, whose listener may refuse it.                                     *)
EXTENDS WebSocket
MCFrames == {
  [request |-> TRUE,
   items |-> <<[kind |-> "upgrade", head |-> 2, size |-> 2],
               [kind |-> "frame", mask |-> TRUE, ext |-> 2, body |-> 1],
               [kind |-> "frame", mask |-> TRUE, ext |-> 0, body |-> 2]>>]}
=============================================================================
