---------------------------- MODULE SslSession ----------------------------
(***************************************************************************)
(* One connection of the SSL components (SSLServer.cpp, SSLAgent.cpp,      *)
(* SSLClient.cpp) and its CSSLSession (SSLHelper.h): a worker feeds what   *)
(* it reads to OpenSSL, applications send through OpenSSL, and both carry  *)
(* what OpenSSL writes to the connection.  OpenSSL is external: its        *)
(* handshake is four flights, odd ones of the client, even ones of the     *)
(* server, each the answer to the one before, and a record is one step.    *)
(*                                                                         *)
(* csIo lets one worker at a time handle the connection (TcpServer shows   *)
(* it), so there is one here.  A session goes to another connection only   *)
(* when it is not used any more (m_dwSessionLockTime), so it belongs to    *)
(* one.                                                                    *)
(***************************************************************************)
EXTENDS Integers, Sequences
LOCAL Seqs == INSTANCE SequencesExt

CONSTANTS Apps,      (* threads of the application                         *)
          W,         (* the worker that holds csIo                         *)
          None,
          Stories    (* bound: [kind, auto, send, data, bad, eof], see Init *)

VARIABLES
  kind,      (* "server", "agent" or "client"                              *)
  auto,      (* m_bSSLAutoHandShake                                        *)
  opened,    (* OnAccept or OnConnect was called                           *)
  valid,     (* the connection is not closed                               *)
  status,    (* m_enStatus; "init" also before there is a session          *)
  step,      (* the flights of the handshake OpenSSL has seen and made     *)
  in, out,   (* m_bioRecv and m_bioSend: sequences of records              *)
  buf,       (* m_bufSend                                                  *)
  lock,      (* who holds the session's m_csSend, a mutex                  *)
  csSend,    (* who holds the connection's csSend beyond one step          *)
  wire,      (* what DoSendPackets() took, in its order                    *)
  net,       (* the records that arrived and were not read                 *)
  flights,   (* the flights the peer has sent                              *)
  budget,    (* what may still happen                                      *)
  th,        (* [Threads -> [pc, was, back]]                               *)
  made,      (* history: the records OpenSSL made                          *)
  fired      (* history: the notifications                                 *)

sslVars == <<kind, auto, opened, valid, status, step, in, out, buf, lock, csSend, wire, net,
             flights, budget, th, made, fired>>
conn == <<kind, auto, opened, valid>>
peer == <<net, flights, budget>>
ssl  == <<status, step, in, out, made>>

Threads == Apps \cup {W}
Last == 4
Flight(n)  == [type |-> "flight", n |-> n]
Data(n)    == [type |-> "data", n |-> n]
Bad        == [type |-> "bad", n |-> 0]
Note(e, n) == [event |-> e, n |-> n]
Ours(n)    == n <= Last /\ (n % 2 = 0 <=> kind = "server")
Spend(e)   == budget[e] > 0 /\ budget' = [budget EXCEPT ![e] = @ - 1]
At(t, p)   == th[t].pc = p
Goto(t, p) == th' = [th EXCEPT ![t].pc = p]
Idle == [pc |-> "idle", was |-> "init", back |-> "idle"]

-----------------------------------------------------------------------------
(* CSSLSession and OpenSSL.                                                *)

\* Renew(): SSL_connect() makes the first flight, SSL_accept() waits for it.
Renew ==
  /\ status' = "proc"
  /\ out'  = IF Ours(1) THEN <<Flight(1)>> ELSE <<>>
  /\ made' = made \o out'
  /\ step' = IF Ours(1) THEN 1 ELSE 0
  /\ in' = <<>>

\* SSL_read(): the flight that is due, with its answer, then a record of data.
FlightDue == in # <<>> /\ Head(in) = Flight(step + 1)
Rest      == IF FlightDue THEN Tail(in) ELSE in
StepAfter == IF ~FlightDue THEN step
             ELSE IF Ours(step + 2) THEN step + 2 ELSE step + 1
Answer    == IF FlightDue /\ Ours(step + 2) THEN <<Flight(step + 2)>> ELSE <<>>
Fatal     == Rest # <<>> /\ Head(Rest).type = "bad"
Got       == Rest # <<>> /\ Head(Rest).type = "data"
StatusAfter == IF status = "proc" /\ StepAfter = Last THEN "succ" ELSE status

-----------------------------------------------------------------------------
(* The worker.                                                             *)

\* FireAccept() or FireConnect(): DoSSLHandShake() when it is automatic.
Open ==
  /\ At(W, "idle") /\ ~opened
  /\ opened' = TRUE
  /\ IF auto
     THEN /\ Renew
          /\ th' = [th EXCEPT ![W] = [Idle EXCEPT !.pc = "hs_lock"]]
     ELSE UNCHANGED <<ssl, th>>
  /\ UNCHANGED <<kind, auto, valid, buf, lock, csSend, wire, peer, fired>>

\* read() and FireReceive(): any part of what arrived.
Receive ==
  /\ At(W, "idle") /\ opened /\ valid
  /\ \E n \in 1 .. Len(net) :
       /\ net' = SubSeq(net, n + 1, Len(net))
       /\ IF status = "init"
          THEN fired' = Append(fired, Note("plain", 0)) /\ UNCHANGED <<in, th>>
          ELSE /\ in' = in \o SubSeq(net, 1, n)
               /\ th' = [th EXCEPT ![W] = [pc |-> "read", was |-> status, back |-> "idle"]]
               /\ fired' = fired
  /\ UNCHANGED <<conn, status, step, out, made, buf, lock, csSend, wire, flights, budget>>

\* Where the loop of ProcessReceive() goes after SSL_read(), and what it does
\* first when the handshake has just been finished.
NextPlace(next, finish) ==
  IF next = "succ" /\ th[W].was = "proc" THEN finish
  ELSE IF Got           THEN [th[W] EXCEPT !.pc = "on_receive"]
  ELSE IF next = "proc" THEN [Idle EXCEPT !.pc = "hs_lock"]
  ELSE Idle

\* A bug to be caught: what the handshake answers is not sent at its end.
AfterReadSilent(next) == NextPlace(next, [th[W] EXCEPT !.pc = "on_handshake"])

AfterRead(next) ==
  NextPlace(next, [pc |-> "hs_lock", was |-> "succ", back |-> "on_handshake"])

\* ReadRecvChannel() in that loop.
ReadRecvChannel ==
  /\ At(W, "read")
  /\ in'   = IF Got THEN Rest ELSE IF Fatal THEN Tail(Rest) ELSE Rest
  /\ step' = StepAfter
  /\ out'  = out \o Answer
  /\ made' = made \o Answer
  /\ IF Fatal
     THEN status' = status /\ Goto(W, "invalid")
     ELSE /\ status' = StatusAfter
          /\ th' = [th EXCEPT ![W] = AfterRead(StatusAfter)]
  /\ UNCHANGED <<conn, buf, lock, csSend, wire, peer, fired>>

\* DoFireHandShake(); then the data the same SSL_read() returned.
OnHandShake ==
  /\ At(W, "on_handshake")
  /\ fired' = Append(fired, Note("handshake", 0))
  /\ \/ Goto(W, IF Got THEN "on_receive" ELSE "idle")
     \/ Goto(W, "invalid")                              \* HR_ERROR
  /\ UNCHANGED <<conn, ssl, buf, lock, csSend, wire, peer>>

OnReceive ==
  /\ At(W, "on_receive")
  /\ fired' = Append(fired, Note("receive", Head(in).n))
  /\ in' = Tail(in)
  /\ \/ Goto(W, "read")
     \/ Goto(W, "invalid")                              \* HR_ERROR
  /\ UNCHANGED <<conn, status, step, out, made, buf, lock, csSend, wire, peer>>

\* The peer closed: AddFreeSocketObj(), which waits for csSend.
Ended ==
  /\ At(W, "idle") /\ opened /\ valid /\ net = <<>> /\ budget["eof"] < 0
  /\ Goto(W, "invalid")
  /\ UNCHANGED <<conn, ssl, buf, lock, csSend, wire, peer, fired>>

Invalid ==
  /\ At(W, "invalid") /\ csSend = None
  /\ valid' = FALSE
  /\ IF valid
     THEN fired' = Append(fired, Note("close", 0)) /\ Goto(W, "reset")
     ELSE fired' = fired /\ Goto(W, "idle")
  /\ UNCHANGED <<kind, auto, opened, ssl, buf, lock, csSend, wire, peer>>

\* Reset(), which PutFreeSession() calls.
Reset ==
  /\ At(W, "reset") /\ lock = None
  /\ status' = "init" /\ in' = <<>> /\ out' = <<>>
  /\ Goto(W, "idle")
  /\ UNCHANGED <<conn, step, made, buf, lock, csSend, wire, peer, fired>>

-----------------------------------------------------------------------------
(* ProcessHandShake() and the end of ProcessSend(), of any thread.         *)

Lock(t) ==
  /\ At(t, "hs_lock") /\ lock = None
  /\ lock' = t
  /\ Goto(t, "drain")
  /\ UNCHANGED <<conn, ssl, buf, csSend, wire, peer, fired>>

\* ReadSendChannel(): into m_bufSend; nothing more is the end.
Drain(t) ==
  /\ At(t, "drain")
  /\ IF out = <<>>
     THEN /\ lock' = None
          /\ Goto(t, th[t].back)
          /\ UNCHANGED <<out, buf>>
     ELSE /\ buf' = Head(out)
          /\ out' = Tail(out)
          /\ Goto(t, "put")
          /\ lock' = lock
  /\ UNCHANGED <<conn, status, step, in, made, csSend, wire, peer, fired>>

\* DoSendPackets(), under csSend; it fails once the connection is closed.
Put(t) ==
  /\ At(t, "put") /\ csSend \in {None, t}
  /\ IF valid
     THEN wire' = Append(wire, buf) /\ Goto(t, "drain") /\ lock' = lock
     ELSE wire' = wire /\ Goto(t, th[t].back) /\ lock' = None
  /\ UNCHANGED <<conn, ssl, buf, csSend, peer, fired>>

-----------------------------------------------------------------------------
(* The application.                                                        *)

\* ProcessSend(): only a session that is ready sends.
Send(t) ==
  /\ t \in Apps /\ At(t, "idle") /\ status = "succ" /\ Spend("send")
  /\ Goto(t, "send_lock")
  /\ UNCHANGED <<conn, ssl, buf, lock, csSend, wire, net, flights, fired>>

\* A bug to be caught: SSL_write() and what follows are not under m_csSend.
WriteUnlocked(t) ==
  /\ At(t, "send_lock")
  /\ IF status = "succ"
     THEN /\ LET n == Len(SelectSeq(made, LAMBDA r : r.type = "data"))
             IN  out' = Append(out, Data(n + 1)) /\ made' = Append(made, Data(n + 1))
          /\ th' = [th EXCEPT ![t] = [Idle EXCEPT !.pc = "drain"]]
     ELSE th' = [th EXCEPT ![t] = Idle] /\ UNCHANGED <<out, made>>
  /\ lock' = lock
  /\ UNCHANGED <<conn, status, step, in, buf, csSend, wire, peer, fired>>

\* WriteSendChannel(), after the test under m_csSend.
Write(t) ==
  /\ At(t, "send_lock") /\ lock = None
  /\ IF status = "succ"
     THEN /\ LET n == Len(SelectSeq(made, LAMBDA r : r.type = "data"))
             IN  out' = Append(out, Data(n + 1)) /\ made' = Append(made, Data(n + 1))
          /\ lock' = t
          /\ th' = [th EXCEPT ![t] = [Idle EXCEPT !.pc = "drain"]]
     ELSE th' = [th EXCEPT ![t] = Idle] /\ UNCHANGED <<out, made, lock>>
  /\ UNCHANGED <<conn, status, step, in, buf, csSend, wire, peer, fired>>

\* StartSSLHandShake(): of a server or agent under csSend, which is recursive,
\* of a client under the session's m_csSend, which is not.
Start(t) ==
  /\ t \in Apps /\ At(t, "idle") /\ ~auto /\ opened /\ valid /\ status = "init"
  /\ IF kind = "client"
     THEN lock = None /\ lock' = t /\ csSend' = csSend
     ELSE csSend = None /\ csSend' = t /\ lock' = lock
  /\ Renew
  /\ th' = [th EXCEPT ![t] = [pc |-> "hs_lock", was |-> "init", back |-> "started"]]
  /\ UNCHANGED <<conn, buf, wire, peer, fired>>

Started(t) ==
  /\ At(t, "started")
  /\ csSend' = None
  /\ Goto(t, "idle")
  /\ UNCHANGED <<conn, ssl, buf, lock, wire, peer, fired>>

-----------------------------------------------------------------------------
(* The peer.                                                               *)

\* It answers what it was sent; a client of ours that starts by hand is not
\* greeted before it does.
PeerFlight ==
  /\ \E n \in 1 .. Last :
       /\ ~Ours(n) /\ n > flights
       /\ IF n = 1 THEN status # "init" ELSE Flight(n - 1) \in Seqs!ToSet(wire)
       /\ flights' = n
       /\ net' = Append(net, Flight(n))
  /\ UNCHANGED <<conn, ssl, buf, lock, csSend, wire, budget, th, made, fired>>

Through == IF Ours(Last) THEN flights = Last - 1 ELSE flights = Last

PeerData ==
  /\ Through /\ Spend("data")
  /\ net' = Append(net, Data(budget["data"]))
  /\ UNCHANGED <<conn, ssl, buf, lock, csSend, wire, flights, th, fired>>

PeerBad ==
  /\ flights > 0 /\ Spend("bad")
  /\ net' = Append(net, Bad)
  /\ UNCHANGED <<conn, ssl, buf, lock, csSend, wire, flights, th, fired>>

PeerEnds ==
  /\ opened /\ budget["eof"] = 1
  /\ budget' = [budget EXCEPT !["eof"] = -1, !["data"] = 0, !["bad"] = 0]
  /\ flights' = Last
  /\ UNCHANGED <<conn, ssl, buf, lock, csSend, wire, net, th, fired>>

-----------------------------------------------------------------------------
Init ==
  /\ \E s \in Stories :
       /\ kind = s.kind /\ auto = s.auto
       /\ budget = [e \in {"send", "data", "bad", "eof"} |-> s[e]]
  /\ opened = FALSE /\ valid = TRUE
  /\ status = "init" /\ step = 0 /\ in = <<>> /\ out = <<>> /\ buf = None
  /\ lock = None /\ csSend = None
  /\ wire = <<>> /\ net = <<>> /\ flights = 0
  /\ th = [t \in Threads |-> Idle]
  /\ made = <<>> /\ fired = <<>>

Works == Open \/ Receive \/ ReadRecvChannel \/ OnHandShake \/ OnReceive \/ Ended \/ Invalid \/ Reset
Carry(t) == Lock(t) \/ Drain(t) \/ Put(t) \/ Write(t) \/ Started(t)
Peer == PeerFlight \/ PeerData \/ PeerBad \/ PeerEnds

Next ==
  \/ Works \/ Peer
  \/ \E t \in Threads : Carry(t)
  \/ \E t \in Apps : Send(t) \/ Start(t)

\* Threads run, an application that has to start the handshake does, and the
\* peer answers.
Fairness ==
  /\ WF_sslVars(Works) /\ WF_sslVars(PeerFlight)
  /\ \A t \in Threads : WF_sslVars(Carry(t))
  /\ WF_sslVars(\E t \in Apps : Start(t))

Spec == Init /\ [][Next]_sslVars /\ Fairness

-----------------------------------------------------------------------------
(* What the components promise.                                            *)

\* Type invariant.
SslTypeOK ==
  /\ status \in {"init", "proc", "succ"} /\ step \in 0 .. Last /\ flights \in 0 .. Last
  /\ lock \in Threads \cup {None} /\ csSend \in Apps \cup {None}
  /\ valid \in BOOLEAN /\ opened \in BOOLEAN

\* What OpenSSL made reaches the connection in the order it was made: a record
\* that overtakes another one breaks the stream, however many threads send
\* while the worker finishes the handshake.
WireInOrder == Seqs!IsPrefix(wire, made)

\* OnHandShake comes once and before what is received, which is whole and in
\* order, and nothing comes after OnClose.
HandshakeFirst ==
  \A n \in DOMAIN fired :
    /\ fired[n].event = "handshake" => \A m \in 1 .. n - 1 : fired[m].event = "plain"
    /\ fired[n].event = "receive" =>
         /\ \E m \in 1 .. n - 1 : fired[m].event = "handshake"
         /\ \A m \in 1 .. n - 1 : fired[m].event = "receive" => fired[m].n = fired[n].n + (n - m)
    /\ fired[n].event = "close" => n = Len(fired)

\* The handshake comes to its end, and what OpenSSL made is sent.
Settled == ~valid \/ (status = "succ" /\ out = <<>>)
Settles == []<>Settled
=============================================================================
