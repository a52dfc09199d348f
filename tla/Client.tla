------------------------------- MODULE Client -------------------------------
(***************************************************************************)
(* CTcpClient, CUdpClient and CUdpCast: one connection, one worker thread  *)
(* that poll()s the socket and the events m_evSend, m_evRecv and m_evStop, *)
(* and application threads that start, stop, pause and send.  The three    *)
(* share their skeleton; where they differ there is an operator for each.  *)
(*                                                                         *)
(* A client is started again after it stopped; "session" numbers its       *)
(* connections.  Stop() from within a callback is not modelled.            *)
(***************************************************************************)
EXTENDS Integers, Sequences, FiniteSets

CONSTANTS
  Apps,       (* application threads                                       *)
  W,          (* the worker thread                                         *)
  Budgets,    (* bound: how often things happen, see budget                *)
  Kinds,      (* subset of {"tcp", "udp", "cast"}                          *)
  Attempts    (* m_dwDetectAttempts                                        *)

VARIABLES
  kind,       (* which of the three this is                                *)
  state,      (* m_enState                                                 *)
  connected,  (* m_bConnected                                              *)
  paused,     (* m_bPaused                                                 *)
  lsSend,     (* m_lsSend: packets, [n, zero]; only CUdpCast sends empty   *)
              (* ones, which its Length() counts as one byte               *)
  ev,         (* which of m_evSend, m_evRecv, m_evStop are set             *)
  armed,      (* m_nEvents                                                 *)
  ctx,        (* m_ccContext: [fire, notify]                               *)
  running,    (* m_thWorker.m_bRunning                                     *)
  fails,      (* m_dwDetectFails                                           *)
  sock,       (* the socket: [st, in, full]                                *)
  th,         (* [Apps \cup {W} -> [pc, ...]]                              *)
  budget,     (* what may still happen                                     *)
  session,    (* history: connections attempted                            *)
  fired,      (* history: notifications of the present connection          *)
  sent,       (* history: packets accepted for it                          *)
  wire        (* history: packets written to its socket                    *)

conn  == <<connected, paused, lsSend, ev, armed, ctx, running, fails>>
hist  == <<session, fired, sent, wire>>
vars  == <<kind, state, conn, sock, th, budget, hist>>

Threads == Apps \cup {W}
Events  == {"start", "async", "stop", "early", "send", "zero", "pause", "data", "eof",
            "notify", "tick", "block", "refuse", "error"}
Spend(e) == budget[e] > 0 /\ budget' = [budget EXCEPT ![e] = @ - 1]

NoPacket == [n |-> 0, zero |-> FALSE]
Idle == [pc |-> "idle", async |-> FALSE, todo |-> <<>>, rev |-> {}, item |-> NoPacket,
         call |-> TRUE]
At(t, p)   == th[t].pc = p
Goto(t, p) == th' = [th EXCEPT ![t].pc = p]
Fire(e)    == fired' = Append(fired, e)
HasStarted == state \in {"STARTED", "STARTING"}

-----------------------------------------------------------------------------
(* Start().                                                                *)

CheckStarting(a, async) ==
  /\ At(a, "idle") /\ state = "STOPPED" /\ Spend("start")
  /\ async => kind # "cast" /\ budget["async"] > 0
  /\ state' = "STARTING"
  /\ ctx' = [fire |-> TRUE, notify |-> TRUE]
  /\ th' = [th EXCEPT ![a] = [Idle EXCEPT !.pc = "prepare", !.async = async]]
  /\ session' = session + 1
  /\ fired' = <<>> /\ sent' = <<>> /\ wire' = <<>>
  /\ UNCHANGED <<kind, connected, paused, lsSend, ev, armed, running, fails, sock>>

\* CreateClientSocket(), BindClientSocket(), OnPrepareConnect.
Prepare(a) ==
  /\ At(a, "prepare")
  /\ \/ /\ sock' = [st |-> "new", in |-> <<>>, full |-> FALSE]
        /\ Goto(a, "connect") /\ budget' = budget
     \/ Spend("error") /\ Goto(a, "failed") /\ sock' = sock
  /\ UNCHANGED <<kind, state, conn, hist>>

\* SetConnected(TRUE) does not ask for m_csState.
SetConnected == connected' = TRUE /\ state' = "STARTED"

\* ConnectToServer() with bAsyncConnect: the worker will hear of it.
ConnectAsync(a) ==
  /\ At(a, "connect") /\ th[a].async
  /\ sock' = IF sock.st = "new" THEN [sock EXCEPT !.st = "connecting"] ELSE sock
  /\ armed' = {"out"}
  /\ Goto(a, IF sock.st = "new" THEN "thread" ELSE "failed")
  /\ UNCHANGED <<kind, state, connected, paused, lsSend, ev, ctx, running, fails, budget, hist>>

\* ConnectToServer() without; ConnectToGroup() of CUdpCast cannot fail later.
ConnectSync(a) ==
  /\ At(a, "connect") /\ ~th[a].async
  /\ \/ /\ sock.st = "new"
        /\ sock' = [sock EXCEPT !.st = "open"]
        /\ SetConnected /\ Fire("connect")
        /\ Goto(a, "on_connect") /\ budget' = budget
     \/ /\ sock.st = "new" => Spend("error")
        /\ sock.st # "new" => budget' = budget
        /\ Goto(a, "failed")
        /\ UNCHANGED <<sock, connected, state, fired>>
  /\ UNCHANGED <<kind, paused, lsSend, ev, armed, ctx, running, fails, session, sent, wire>>

Wanted == (IF lsSend # <<>> THEN {"out"} ELSE {}) \cup (IF paused THEN {} ELSE {"in"})

OnConnectSync(a) ==
  /\ At(a, "on_connect")
  /\ \/ /\ armed' = Wanted /\ Goto(a, "thread")
        /\ Fire("connected") /\ budget' = budget
     \/ /\ Spend("refuse") /\ Goto(a, "failed")
        /\ Fire("refused") /\ armed' = armed
  /\ UNCHANGED <<kind, state, connected, paused, lsSend, ev, ctx, running, fails,
                 sock, session, sent, wire>>

CreateWorkerThread(a) ==
  /\ At(a, "thread")
  /\ IF running
     THEN Goto(a, "failed") /\ running' = running
     ELSE /\ running' = TRUE
          /\ th' = [th EXCEPT ![a] = Idle, ![W] = [Idle EXCEPT !.pc = "loop"]]
  /\ UNCHANGED <<kind, state, connected, paused, lsSend, ev, armed, ctx, fails,
                 sock, budget, hist>>

\* Start() failed: no OnClose, and Stop().
StartFailed(a) ==
  /\ At(a, "failed")
  /\ ctx' = [ctx EXCEPT !.fire = FALSE]
  /\ Goto(a, "stop")
  /\ UNCHANGED <<kind, state, connected, paused, lsSend, ev, armed, running, fails,
                 sock, budget, hist>>

-----------------------------------------------------------------------------
(* Stop(), by an application thread or the worker.                         *)

\* A Start() that failed ends with its own Stop().
Starting(a) ==
  th[a].pc \in {"prepare", "connect", "on_connect", "thread", "failed", "stop"}

\* A bug to be caught: HasStarted() is not asked for again under m_csState.
CheckStopingLate(t) ==
  IF state # "STOPPED"
  THEN state' = "STOPPING" /\ Goto(t, "wait_worker")
  ELSE state' = state /\ th' = [th EXCEPT ![t] = Idle]

\* CheckStoping() under m_csState: one caller gets through.
CheckStoping(t) ==
  IF HasStarted
  THEN state' = "STOPPING" /\ Goto(t, "wait_worker")
  ELSE state' = state /\ th' = [th EXCEPT ![t] = Idle]

\* An application that waits for OnConnect and the end of Start() first, or
\* that does not wait ("early").
CallStop(a) ==
  /\ At(a, "idle")
  /\ \/ connected /\ (\A b \in Apps : ~Starting(b)) /\ Spend("stop")
     \/ Spend("early")
  /\ CheckStoping(a)
  /\ UNCHANGED <<kind, conn, sock, hist>>

\* The worker on its way out, and Start() that failed.
OwnStop(t) ==
  /\ At(t, "stop")
  /\ CheckStoping(t)
  /\ UNCHANGED <<kind, conn, sock, budget, hist>>

\* A bug to be caught: the worker does not tell itself from others.
WaitForSelf(t) ==
  /\ At(t, "wait_worker")
  /\ running' = running
  /\ IF ~running THEN Goto(t, "close") /\ ev' = ev
                 ELSE ev' = ev \cup {"stop"} /\ Goto(t, "join")
  /\ UNCHANGED <<kind, state, connected, paused, lsSend, armed, ctx, fails, sock, budget, hist>>

\* WaitForWorkerThreadEnd(): the worker detaches itself, others wait for it.
WaitForWorkerThreadEnd(t) ==
  /\ At(t, "wait_worker")
  /\ running' = (running /\ t # W)
  /\ IF ~running \/ t = W
     THEN Goto(t, "close") /\ ev' = ev
     ELSE Goto(t, "join") /\ ev' = ev \cup {"stop"}
  /\ UNCHANGED <<kind, state, connected, paused, lsSend, armed, ctx, fails, sock, budget, hist>>

Join(t) ==
  /\ At(t, "join") /\ (At(W, "idle") \/ ~running)
  /\ running' = FALSE
  /\ Goto(t, "close")
  /\ UNCHANGED <<kind, state, connected, paused, lsSend, ev, armed, ctx, fails, sock, budget, hist>>

\* SetConnected(FALSE), for CUdpClient with SendUdpCloseNotify(), and OnClose.
Close(t) ==
  /\ At(t, "close")
  /\ connected' = FALSE
  /\ IF ctx.fire THEN Fire("close") ELSE fired' = fired
  /\ wire' = IF kind = "udp" /\ connected /\ ctx.notify THEN Append(wire, 0) ELSE wire
  /\ Goto(t, "reset")
  /\ UNCHANGED <<kind, state, paused, lsSend, ev, armed, ctx, running, fails, sock, budget,
                 session, sent>>

\* A bug to be caught: the events stay as they are.
ResetKeepEvents(t) ==
  /\ At(t, "reset")
  /\ sock' = [sock EXCEPT !.st = "closed", !.in = <<>>]
  /\ lsSend' = <<>> /\ armed' = {} /\ paused' = FALSE /\ fails' = 0
  /\ state' = "STOPPED"
  /\ th' = [th EXCEPT ![t] = Idle]
  /\ UNCHANGED <<kind, connected, ctx, running, ev, budget, hist>>

\* closesocket() and Reset().
Reset(t) ==
  /\ At(t, "reset")
  /\ sock' = [sock EXCEPT !.st = "closed", !.in = <<>>]
  /\ ev' = {} /\ lsSend' = <<>> /\ armed' = {} /\ paused' = FALSE /\ fails' = 0
  /\ state' = "STOPPED"
  /\ th' = [th EXCEPT ![t] = Idle]
  /\ UNCHANGED <<kind, connected, ctx, running, budget, hist>>

-----------------------------------------------------------------------------
(* The worker.                                                             *)

Loop ==
  /\ At(W, "loop")
  /\ Goto(W, IF HasStarted THEN "poll" ELSE "exit")
  /\ UNCHANGED <<kind, state, conn, sock, budget, hist>>

\* What poll() says of the socket.  Errors need not be asked for; whether the
\* end of the stream is one (POLLHUP) is up to the system.
Revents(hup) ==
  (IF sock.in # <<>> \/ sock.st \in {"hung", "refused"} THEN armed \cap {"in"} ELSE {})
    \cup (IF sock.st \in {"open", "hung"} /\ ~sock.full THEN armed \cap {"out"} ELSE {})
    \cup (IF sock.st = "hung" /\ hup THEN {"hup"} ELSE {})
    \cup (IF sock.st = "refused" THEN {"err"} ELSE {})

\* The descriptors that are ready are handled in their order.
Poll ==
  /\ At(W, "poll")
  /\ \E hup \in BOOLEAN :
       LET rev == Revents(hup)
           Ask(e) == IF e \in ev THEN <<e>> ELSE <<>>
           ready == (IF rev # {} THEN <<"net">> ELSE <<>>)
                      \o Ask("send") \o Ask("recv") \o Ask("stop")
       IN  /\ ready # <<>>
           /\ th' = [th EXCEPT ![W].pc = "next", ![W].todo = ready, ![W].rev = rev]
  /\ UNCHANGED <<kind, state, conn, sock, budget, hist>>

\* The timer of CUdpClient: CheckConnection().
CheckConnection ==
  /\ At(W, "poll") /\ kind = "udp" /\ connected /\ Spend("tick")
  /\ fails' = fails + 1
  /\ IF fails >= Attempts
     THEN ctx' = [fire |-> TRUE, notify |-> FALSE] /\ Goto(W, "exit")
     ELSE ctx' = ctx /\ Goto(W, "again")
  /\ UNCHANGED <<kind, state, connected, paused, lsSend, ev, armed, running, sock, hist>>

\* The next descriptor.  An event is reset before its work is done.
NextReady ==
  /\ At(W, "next")
  /\ IF th[W].todo = <<>>
     THEN Goto(W, "again") /\ ev' = ev
     ELSE LET e == Head(th[W].todo)
              to == IF e = "net" THEN "connect" ELSE IF e = "send" THEN "write"
                    ELSE IF e = "recv" THEN "read" ELSE "exit"
          IN  /\ ev' = ev \ {e}
              /\ th' = [th EXCEPT ![W].pc = to, ![W].todo = Tail(@), ![W].call = e # "stop"]
  /\ UNCHANGED <<kind, state, connected, paused, lsSend, armed, ctx, running, fails,
                 sock, budget, hist>>

Again ==
  /\ At(W, "again")
  /\ armed' = Wanted
  /\ Goto(W, "loop")
  /\ UNCHANGED <<kind, state, connected, paused, lsSend, ev, ctx, running, fails,
                 sock, budget, hist>>

\* ProcessNetworkEvent(): POLLERR, HandleConnect(), and on to reading.
HandleConnect ==
  LET rev == th[W].rev
  IN  /\ At(W, "connect")
      /\ IF "err" \in rev \/ (~connected /\ "hup" \in rev)
         THEN /\ ctx' = [fire |-> TRUE, notify |-> TRUE]
              /\ Goto(W, "exit")
              /\ UNCHANGED <<connected, state, fired>>
         ELSE /\ ctx' = ctx
              /\ IF connected
                 THEN Goto(W, "read_net") /\ UNCHANGED <<connected, state, fired>>
                 ELSE SetConnected /\ Fire("connect") /\ Goto(W, "on_connect")
      /\ UNCHANGED <<kind, paused, lsSend, ev, armed, running, fails, sock, budget,
                     session, sent, wire>>

OnConnect ==
  /\ At(W, "on_connect")
  /\ \/ Goto(W, "read_net") /\ Fire("connected") /\ UNCHANGED <<ctx, budget>>
     \/ /\ Spend("refuse") /\ Fire("refused")
        /\ ctx' = [fire |-> FALSE, notify |-> FALSE]
        /\ Goto(W, "exit")
  /\ UNCHANGED <<kind, state, connected, paused, lsSend, ev, armed, running, fails, sock,
                 session, sent, wire>>

\* ReadData(), one read(), on POLLIN ("read_net") or m_evRecv ("read").
Reads == At(W, "read") \/ (At(W, "read_net") /\ "in" \in th[W].rev)
ReadNothing ==
  /\ th[W].pc \in {"read", "read_net"}
  /\ ~Reads \/ paused \/ (sock.in = <<>> /\ sock.st = "open")
  /\ Goto(W, IF At(W, "read") THEN "next" ELSE "write_net")
  /\ UNCHANGED <<kind, state, conn, sock, budget, hist>>

\* The end of the stream, an error, the peer's notification.
ReadEnd ==
  /\ Reads /\ ~paused
  /\ \/ sock.in = <<>> /\ sock.st # "open" /\ ctx' = [fire |-> TRUE, notify |-> TRUE]
     \/ /\ sock.in # <<>> /\ Head(sock.in) = "notify"
        /\ ctx' = [fire |-> TRUE, notify |-> FALSE]
  /\ Goto(W, "exit")
  /\ UNCHANGED <<kind, state, connected, paused, lsSend, ev, armed, running, fails,
                 sock, budget, hist>>

\* OnReceive, which may return HR_ERROR; CUdpClient keeps empty datagrams to
\* itself.
ReadSome ==
  /\ Reads /\ ~paused
  /\ sock.in # <<>> /\ Head(sock.in) # "notify"
  /\ sock' = [sock EXCEPT !.in = Tail(@)]
  /\ fails' = 0
  /\ IF kind = "udp" /\ Head(sock.in) = "zero"
     THEN UNCHANGED <<fired, th, ctx, budget>>
     ELSE /\ Fire("receive")
          /\ \/ UNCHANGED <<th, ctx, budget>>
             \/ /\ Spend("refuse") /\ Goto(W, "exit")
                /\ ctx' = [fire |-> TRUE, notify |-> TRUE]
  /\ UNCHANGED <<kind, state, connected, paused, lsSend, ev, armed, running,
                 session, sent, wire>>

\* SendData(), on POLLOUT ("write_net") or m_evSend ("write"): a packet is
\* popped under m_csSend ...
Writes == At(W, "write") \/ (At(W, "write_net") /\ "out" \in th[W].rev)
Pop ==
  /\ th[W].pc \in {"write", "write_net"}
  /\ IF ~Writes \/ lsSend = <<>>
     THEN Goto(W, IF At(W, "write") THEN "next" ELSE "hup") /\ lsSend' = lsSend
     ELSE /\ lsSend' = Tail(lsSend)
          /\ th' = [th EXCEPT ![W].pc = IF @ = "write" THEN "send" ELSE "send_net",
                              ![W].item = Head(lsSend)]
  /\ UNCHANGED <<kind, state, connected, paused, ev, armed, ctx, running, fails,
                 sock, budget, hist>>

\* ... written, unless the socket is full or broken, and OnSend called ...
DoSendData ==
  /\ th[W].pc \in {"send", "send_net"}
  /\ \/ /\ sock.st # "refused" /\ ~sock.full
        /\ wire' = Append(wire, th[W].item.n) /\ Fire("send")
        /\ th' = [th EXCEPT ![W].pc = IF @ = "send" THEN "write" ELSE "write_net",
                            ![W].item = NoPacket]
        /\ UNCHANGED <<sock, ctx, budget>>
     \/ /\ sock.full \/ Spend("block")
        /\ sock.full => budget' = budget
        /\ sock' = [sock EXCEPT !.full = TRUE]
        /\ th' = [th EXCEPT ![W].pc = IF @ = "send" THEN "back" ELSE "back_net"]
        /\ UNCHANGED <<wire, fired, ctx>>
     \/ /\ sock.st # "open"
        /\ ctx' = [fire |-> TRUE, notify |-> TRUE]
        /\ Goto(W, "exit")
        /\ UNCHANGED <<wire, fired, sock, budget>>
  /\ UNCHANGED <<kind, state, connected, paused, lsSend, ev, armed, running, fails,
                 session, sent>>

\* ... or put back under m_csSend.
PushFront ==
  /\ th[W].pc \in {"back", "back_net"}
  /\ lsSend' = <<th[W].item>> \o lsSend
  /\ th' = [th EXCEPT ![W].pc = IF @ = "back" THEN "next" ELSE "hup",
                      ![W].item = NoPacket]
  /\ UNCHANGED <<kind, state, connected, paused, ev, armed, ctx, running, fails,
                 sock, budget, hist>>

\* The end of ProcessNetworkEvent(): POLLHUP, after the last data.
HungUp ==
  /\ At(W, "hup")
  /\ IF "hup" \in th[W].rev
     THEN ctx' = [fire |-> TRUE, notify |-> TRUE] /\ Goto(W, "exit")
     ELSE ctx' = ctx /\ Goto(W, "next")
  /\ UNCHANGED <<kind, state, connected, paused, lsSend, ev, armed, running, fails,
                 sock, budget, hist>>

\* EXIT_WORKER_THREAD
Exit ==
  /\ At(W, "exit")
  /\ th' = [th EXCEPT ![W] = IF th[W].call /\ HasStarted
                             THEN [Idle EXCEPT !.pc = "stop"] ELSE Idle]
  /\ UNCHANGED <<kind, state, conn, sock, budget, hist>>

-----------------------------------------------------------------------------
(* The application.                                                        *)

\* A packet popped that counts on: CUdpCast corrects its length later.
Pending == lsSend # <<>> \/ th[W].item.zero

\* DoSendPackets() and SendInternal() of CTcpClient: all under m_csSend.
SendTcp(a) ==
  /\ At(a, "idle") /\ connected /\ kind = "tcp" /\ Spend("send")
  /\ lsSend' = Append(lsSend, [n |-> Len(sent) + 1, zero |-> FALSE])
  /\ sent' = Append(sent, Len(sent) + 1)
  /\ ev' = IF lsSend = <<>> THEN ev \cup {"send"} ELSE ev
  /\ UNCHANGED <<kind, state, connected, paused, armed, ctx, running, fails, sock, th,
                 session, fired, wire>>

\* SendInternal() of CUdpClient and CUdpCast: m_csSend is left before the
\* length is asked for again and m_evSend is set.
SendUdp(a, zero) ==
  /\ At(a, "idle") /\ connected /\ kind # "tcp" /\ (zero => kind = "cast")
  /\ Spend("send")
  /\ lsSend' = Append(lsSend, [n |-> Len(sent) + 1, zero |-> zero])
  /\ sent' = Append(sent, Len(sent) + 1)
  /\ Goto(a, IF Pending THEN "idle" ELSE "signal")
  /\ UNCHANGED <<kind, state, connected, paused, ev, armed, ctx, running, fails, sock,
                 session, fired, wire>>

SignalSend(a) ==
  /\ At(a, "signal")
  /\ ev' = IF Pending THEN ev \cup {"send"} ELSE ev
  /\ Goto(a, "idle")
  /\ UNCHANGED <<kind, state, connected, paused, lsSend, armed, ctx, running, fails, sock,
                 budget, hist>>

\* PauseReceive(), and m_evRecv when it is over.
PauseReceive(a) ==
  /\ At(a, "idle") /\ connected /\ Spend("pause")
  /\ paused' = ~paused
  /\ Goto(a, IF paused THEN "resume" ELSE "idle")
  /\ UNCHANGED <<kind, state, connected, lsSend, ev, armed, ctx, running, fails, sock, hist>>

SignalRecv(a) ==
  /\ At(a, "resume")
  /\ ev' = ev \cup {"recv"}
  /\ Goto(a, "idle")
  /\ UNCHANGED <<kind, state, connected, paused, lsSend, armed, ctx, running, fails, sock,
                 budget, hist>>

-----------------------------------------------------------------------------
(* The peer and the network.                                               *)

Connected ==
  /\ sock.st = "connecting"
  /\ \/ sock' = [sock EXCEPT !.st = "open"] /\ budget' = budget
     \/ kind = "tcp" /\ Spend("error") /\ sock' = [sock EXCEPT !.st = "refused"]
  /\ UNCHANGED <<kind, state, conn, th, hist>>

\* Data, and the empty datagram or notification of another CUdpServer.
PeerSends(d) ==
  /\ sock.st = "open" /\ Spend(d)
  /\ d \in {"zero", "notify"} => kind = "udp"
  /\ sock' = [sock EXCEPT !.in = Append(@, d)]
  /\ UNCHANGED <<kind, state, conn, th, hist>>

\* The end of a stream; a datagram the peer did not want.
PeerEnds ==
  /\ sock.st = "open" /\ kind # "cast" /\ Spend("eof")
  /\ sock' = [sock EXCEPT !.st = IF kind = "tcp" THEN "hung" ELSE "refused"]
  /\ UNCHANGED <<kind, state, conn, th, hist>>

PeerReads ==
  /\ sock.full
  /\ sock' = [sock EXCEPT !.full = FALSE]
  /\ UNCHANGED <<kind, state, conn, th, budget, hist>>

-----------------------------------------------------------------------------
Init ==
  /\ kind \in Kinds
  /\ state = "STOPPED"
  /\ connected = FALSE /\ paused = FALSE
  /\ lsSend = <<>> /\ ev = {} /\ armed = {}
  /\ ctx = [fire |-> TRUE, notify |-> TRUE]
  /\ running = FALSE /\ fails = 0
  /\ sock = [st |-> "closed", in |-> <<>>, full |-> FALSE]
  /\ th = [t \in Threads |-> Idle]
  /\ budget \in Budgets
  /\ session = 0 /\ fired = <<>> /\ sent = <<>> /\ wire = <<>>

Stopping(t) ==
  OwnStop(t) \/ WaitForWorkerThreadEnd(t) \/ Join(t) \/ Close(t) \/ Reset(t)
Starts(a) ==
  \/ Prepare(a) \/ ConnectAsync(a) \/ ConnectSync(a) \/ OnConnectSync(a)
  \/ CreateWorkerThread(a) \/ StartFailed(a)
Worker ==
  \/ Loop \/ Poll \/ NextReady \/ Again
  \/ HandleConnect \/ OnConnect \/ ReadNothing \/ ReadEnd \/ ReadSome
  \/ Pop \/ DoSendData \/ PushFront \/ HungUp \/ Exit
Signals(a) == SignalSend(a) \/ SignalRecv(a)

Next ==
  \/ \E a \in Apps :
       \/ \E async \in BOOLEAN : CheckStarting(a, async)
       \/ Starts(a) \/ CallStop(a) \/ Signals(a) \/ PauseReceive(a)
       \/ SendTcp(a) \/ \E zero \in BOOLEAN : SendUdp(a, zero)
  \/ \E t \in Threads : Stopping(t)
  \/ Worker \/ CheckConnection
  \/ Connected \/ PeerEnds \/ PeerReads
  \/ \E d \in {"data", "zero", "notify"} : PeerSends(d)

\* Threads run; connect() comes to an end; a peer reads what it is sent.
Fairness ==
  /\ \A a \in Apps : WF_vars(Starts(a)) /\ WF_vars(Signals(a))
  /\ \A t \in Threads : WF_vars(Stopping(t))
  /\ WF_vars(Worker) /\ WF_vars(Connected) /\ WF_vars(PeerReads)

Spec == Init /\ [][Next]_vars /\ Fairness

-----------------------------------------------------------------------------
(* What a client promises.                                                 *)

Came(e) == \E n \in DOMAIN fired : fired[n] = e

\* Type invariant; an application thread is never where the worker is, and the
\* worker runs as long as no one has ended it.
TypeOK ==
  /\ state \in {"STOPPED", "STARTING", "STARTED", "STOPPING"}
  /\ ev \subseteq {"send", "recv", "stop"} /\ armed \subseteq {"in", "out"}
  /\ fails \in 0 .. Attempts + 1
  /\ sock.st \in {"closed", "new", "connecting", "open", "hung", "refused"}
  /\ \A a \in Apps :
       th[a].pc \in {"idle", "prepare", "connect", "on_connect", "thread", "failed", "stop",
                     "wait_worker", "join", "close", "reset", "signal", "resume"}
  /\ th[W].pc \notin {"idle", "join", "close", "reset"} => running

\* The listener hears of one connection in order: OnConnect before data, data
\* not for a connection it refused, OnClose once and last, whoever calls
\* Stop(), the worker or one of several threads.
CloseIsLast ==
  \A n \in DOMAIN fired :
    /\ fired[n] = "connect" => n = 1
    /\ fired[n] \in {"receive", "send"} => n > 2 /\ fired[2] = "connected"
    /\ fired[n] = "close" => n = Len(fired) /\ ~Came("refused")

\* A worker that sleeps has not been asked for anything: data to send, or a
\* pause that is over, have armed the socket, set an event, or are about to.
\* And when Start() prepares the next connection nothing waits to be sent and
\* m_evStop is not set: what the last one left of these was reset.  (m_evRecv
\* may still be set then, by a PauseReceive() that Stop() has overtaken.)
NothingForgotten ==
  /\ At(W, "poll") /\ HasStarted /\ connected =>
       /\ lsSend # <<>> => "out" \in armed \/ "send" \in ev \/ \E a \in Apps : At(a, "signal")
       /\ ~paused => "in" \in armed \/ "recv" \in ev \/ \E a \in Apps : At(a, "resume")
  /\ \A a \in Apps : At(a, "prepare") => lsSend = <<>> /\ ~("stop" \in ev)

\* What is written is what was sent on this connection, in order and without a
\* gap, though packets are popped, put back and followed by others meanwhile; the
\* notification of its end (0) comes after all of it.
SentInOrder ==
  \A n \in DOMAIN wire : \/ n <= Len(sent) /\ wire[n] = sent[n]
                         \/ n = Len(wire) /\ wire[n] = 0

\* Stop() returns, and a connection that has ended is stopped by the worker
\* unless it may not read.
EndReached ==
  /\ []<>(\A t \in Threads : th[t].pc \notin {"wait_worker", "join", "close", "reset"})
  /\ []<>(sock.st \in {"hung", "refused"} => state = "STOPPED" \/ paused)
=============================================================================
