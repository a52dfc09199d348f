------------------------------ MODULE TcpAgent ------------------------------
(***************************************************************************)
(* CTcpAgent (TcpAgent.cpp): connections the application opens.  Connect() *)
(* runs on a thread of the application, publishes the connection and       *)
(* connects it under csIo, waiting (m_bAsyncConnect FALSE) or leaving the  *)
(* outcome to the first event of the socket, which a worker handles.  In   *)
(* between the connection can be found, disconnected and stopped like any  *)
(* other.  After OnConnect it lives as the connections of TcpServer do;    *)
(* order and completeness of its data are shown there and not again here.  *)
(* A connection, its ID (RingCache) and its object are one.                *)
(***************************************************************************)
EXTENDS Integers, Sequences, FiniteSets
LOCAL Seqs == INSTANCE SequencesExt

CONSTANTS
  Conns, None, Workers, Apps,
  Budgets     (* bound: how often things happen, see budget                *)

VARIABLES
  async,      (* m_bAsyncConnect                                           *)
  sock,       (* the kernel's side of each connection: [st, in, eof, full] *)
  obj,        (* [Conns -> TAgentSocketObj]                                *)
  active,     (* m_bfActiveSockets: the IDs that resolve                   *)
  cmds,       (* the dispatcher's commands: [type, c]                      *)
  th,         (* each thread: [pc, c, ev, flag, back]                      *)
  stop,       (* where Stop() is                                           *)
  budget,     (* [Events -> Nat]: what may still happen                    *)
  told,       (* history: what Connect() returned                          *)
  fired       (* history: the notifications of each connection             *)

vars == <<async, sock, obj, active, cmds, th, stop, budget, told, fired>>

Threads == Workers \cup Apps
Events  == {"connect", "data", "eof", "send", "disconnect", "pause", "stop"}
Spend(e) == budget[e] > 0 /\ budget' = [budget EXCEPT ![e] = @ - 1]

NewSock == [st |-> "new", in |-> 0, eof |-> FALSE, full |-> FALSE]
NewObj  == [valid |-> FALSE, connected |-> FALSE, paused |-> FALSE, io |-> None,
            buf |-> 0, armed |-> {}]
Idle    == [pc |-> "idle", c |-> None, ev |-> "none", flag |-> "none", back |-> "idle"]

At(t, p)    == th[t].pc = p
Goto(t, p)  == th' = [th EXCEPT ![t].pc = p]
Leave(t)    == th' = [th EXCEPT ![t] = Idle]
Fire(c, e)  == fired' = [fired EXCEPT ![c] = Append(@, e)]
Valid(c)    == c \in active /\ obj[c].valid
Command(type, c) == cmds' = Append(cmds, [type |-> type, c |-> c])

\* (IsPending() ? EVFILT_WRITE : 0) | (IsPaused() ? 0 : EVFILT_READ), where the
\* OR of -2 and -1 is -1, EVFILT_READ.
Filter(o) == IF ~o.paused THEN {"read"} ELSE IF o.buf > 0 THEN {"write"} ELSE {}

\* AddFreeSocketObj(c, flag), then go on at back; all its callers hold csIo.
AddFree(t, flag, back) ==
  th' = [th EXCEPT ![t].pc = "invalid", ![t].flag = flag, ![t].back = back]

-----------------------------------------------------------------------------
(* The kernel and the peers.                                               *)

Kernel(c) ==
  /\ sock[c].st = "connecting"
  /\ \E st \in {"open", "failed"} : sock' = [sock EXCEPT ![c].st = st]
  /\ UNCHANGED <<async, obj, active, cmds, th, stop, budget, told, fired>>

PeerSends(c) ==
  /\ sock[c].st = "open" /\ ~sock[c].eof
  /\ \/ Spend("data") /\ sock' = [sock EXCEPT ![c].in = @ + 1]
     \/ Spend("eof") /\ sock' = [sock EXCEPT ![c].eof = TRUE]
  /\ UNCHANGED <<async, obj, active, cmds, th, stop, told, fired>>

PeerReads(c) ==
  /\ sock[c].st = "open" /\ sock[c].full
  /\ sock' = [sock EXCEPT ![c].full = FALSE]
  /\ UNCHANGED <<async, obj, active, cmds, th, stop, budget, told, fired>>

Ready(c, e) ==
  \/ sock[c].st = "failed"
  \/ /\ sock[c].st = "open"
     /\ \/ e = "read" /\ (sock[c].in > 0 \/ sock[c].eof)
        \/ e = "write" /\ (~sock[c].full \/ sock[c].eof)

-----------------------------------------------------------------------------
(* Connect(), on a thread of the application.                              *)

Connect(a, c) ==
  /\ At(a, "idle") /\ stop = "running" /\ Spend("connect")
  /\ sock[c].st = "new" /\ \A t \in Threads : th[t].c # c
  /\ told[c] = "none"
  /\ th' = [th EXCEPT ![a] = [Idle EXCEPT !.pc = "prepare", !.c = c]]
  /\ UNCHANGED <<async, sock, obj, active, cmds, stop, told, fired>>

\* PrepareConnect(): OnPrepareConnect may refuse.
Prepare(a) ==
  /\ At(a, "prepare")
  /\ \/ Goto(a, "publish") /\ told' = told
     \/ Leave(a) /\ told' = [told EXCEPT ![th[a].c] = "false"]
  /\ UNCHANGED <<async, sock, obj, active, cmds, stop, budget, fired>>

\* ConnectToServer(): csIo, then AddClientSocketObj().
Publish(a) ==
  /\ At(a, "publish")
  /\ obj' = [obj EXCEPT ![th[a].c] = [NewObj EXCEPT !.valid = TRUE, !.io = a]]
  /\ active' = active \cup {th[a].c}
  /\ Goto(a, "connect")
  /\ UNCHANGED <<async, sock, cmds, stop, budget, told, fired>>

\* connect() of a socket that does not block: the outcome is an event.
ConnectAsync(a) ==
  LET c == th[a].c
  IN  /\ At(a, "connect") /\ async
      /\ \/ /\ \E st \in {"connecting", "open"} : sock' = [sock EXCEPT ![c].st = st]
            /\ obj' = [obj EXCEPT ![c].armed = {"write"}, ![c].io = None]
            /\ told' = [told EXCEPT ![c] = "true"]
            /\ Leave(a)
         \/ /\ AddFree(a, "none", "failed")
            /\ UNCHANGED <<sock, obj, told>>
      /\ UNCHANGED <<async, active, cmds, stop, budget, fired>>

ConnectSync(a) ==
  LET c == th[a].c
  IN  /\ At(a, "connect") /\ ~async
      /\ \/ /\ sock' = [sock EXCEPT ![c].st = "open"]
            /\ obj' = [obj EXCEPT ![c].connected = TRUE]
            /\ Fire(c, "connect") /\ Goto(a, "on_connect")
         \/ /\ AddFree(a, "none", "failed")
            /\ UNCHANGED <<sock, obj, fired>>
      /\ UNCHANGED <<async, active, cmds, stop, budget, told>>

\* OnConnect returns in Connect().  CtlFD() of no filter fails: a connection
\* paused in OnConnect with nothing to send is closed though it was accepted.
OnConnectSync(a) ==
  LET c    == th[a].c
      evts == Filter(obj[c])
  IN  /\ At(a, "on_connect") /\ a \in Apps
      /\ \/ /\ evts # {}
            /\ obj' = [obj EXCEPT ![c].armed = evts, ![c].io = None]
            /\ told' = [told EXCEPT ![c] = "true"]
            /\ Fire(c, "connected") /\ Leave(a)
         \/ /\ evts = {}
            /\ AddFree(a, "none", "failed") /\ Fire(c, "connected")
            /\ UNCHANGED <<obj, told>>
         \/ /\ AddFree(a, "none", "failed") /\ Fire(c, "refused")
            /\ UNCHANGED <<obj, told>>
      /\ UNCHANGED <<async, sock, active, cmds, stop, budget>>

ConnectFailed(a) ==
  /\ At(a, "failed")
  /\ obj' = [obj EXCEPT ![th[a].c].io = None]
  /\ told' = [told EXCEPT ![th[a].c] = "false"]
  /\ Leave(a)
  /\ UNCHANGED <<async, sock, active, cmds, stop, budget, fired>>

-----------------------------------------------------------------------------
(* Events and commands, on the workers.                                    *)

TakeEvent(w) ==
  /\ At(w, "idle")
  /\ \E c \in active : \E e \in obj[c].armed :
       /\ Ready(c, e)
       /\ obj' = [obj EXCEPT ![c].armed = @ \ {e}]                \* EV_ONESHOT
       /\ th' = [th EXCEPT ![w] = [Idle EXCEPT !.pc = "lock", !.c = c, !.ev = e]]
  /\ UNCHANGED <<async, sock, active, cmds, stop, budget, told, fired>>

EventOf(type) ==
  IF type = "send" THEN "write" ELSE IF type = "unpause" THEN "read" ELSE "user"

TakeCommand(w) ==
  /\ At(w, "idle") /\ cmds # <<>>
  /\ LET cmd == Head(cmds) IN
     IF Valid(cmd.c) /\ (cmd.type = "send" => obj[cmd.c].buf > 0)
     THEN th' = [th EXCEPT ![w] = [Idle EXCEPT !.pc = "lock", !.c = cmd.c,
                                               !.ev = EventOf(cmd.type)]]
     ELSE th' = th
  /\ cmds' = Tail(cmds)
  /\ UNCHANGED <<async, sock, obj, active, stop, budget, told, fired>>

\* A bug to be caught: csIo is not asked for before OnConnect.
LockIoLate(w) ==
  LET c == th[w].c
  IN  /\ At(w, "lock")
      /\ IF ~obj[c].valid THEN Leave(w) /\ obj' = obj
         ELSE /\ obj' = [obj EXCEPT ![c].io = w]
              /\ Goto(w, IF obj[c].connected THEN th[w].ev ELSE "handle_connect")
      /\ UNCHANGED <<async, sock, active, cmds, stop, budget, told, fired>>

\* OnBeforeProcessIo(): csIo; the first event is the outcome of connect().
LockIo(w) ==
  LET c == th[w].c
  IN  /\ At(w, "lock")
      /\ IF ~obj[c].valid THEN Leave(w) /\ obj' = obj
         ELSE /\ obj[c].io = None
              /\ obj' = [obj EXCEPT ![c].io = w]
              /\ Goto(w, IF obj[c].connected THEN th[w].ev ELSE "handle_connect")
      /\ UNCHANGED <<async, sock, active, cmds, stop, budget, told, fired>>

HandleConnect(w) ==
  LET c == th[w].c
  IN  /\ At(w, "handle_connect")
      /\ IF sock[c].st = "failed" \/ th[w].ev = "user"
         THEN /\ AddFree(w, "close", "unlock")
              /\ UNCHANGED <<obj, fired>>
         ELSE /\ obj' = [obj EXCEPT ![c].connected = TRUE]
              /\ Fire(c, "connect") /\ Goto(w, "on_connect")
      /\ UNCHANGED <<async, sock, active, cmds, stop, budget, told>>

OnConnect(w) ==
  LET c == th[w].c
  IN  /\ At(w, "on_connect") /\ w \in Workers
      /\ \/ /\ obj' = [obj EXCEPT ![c].armed = Filter(obj[c])]
            /\ Fire(c, "connected") /\ Goto(w, "unlock")
         \/ /\ AddFree(w, "none", "unlock") /\ Fire(c, "refused")
            /\ obj' = obj
      /\ UNCHANGED <<async, sock, active, cmds, stop, budget, told>>

\* HandleReceive(): a pass of the loop; OnReceive may answer HR_ERROR.
Receive(w) ==
  LET c == th[w].c
  IN  /\ At(w, "read")
      /\ \/ /\ obj[c].paused \/ (sock[c].in = 0 /\ ~sock[c].eof)
            /\ Goto(w, "after") /\ UNCHANGED <<sock, fired>>
         \/ /\ ~obj[c].paused /\ sock[c].in > 0
            /\ sock' = [sock EXCEPT ![c].in = @ - 1]
            /\ Fire(c, "receive")
            /\ Goto(w, "read") \/ Goto(w, "after") \/ AddFree(w, "close", "after")
         \/ /\ ~obj[c].paused /\ sock[c].in = 0 /\ sock[c].eof
            /\ AddFree(w, "close", "after") /\ UNCHANGED <<sock, fired>>
      /\ UNCHANGED <<async, obj, active, cmds, stop, budget, told>>

\* HandleSend(): write() takes an item, would block or fails.
SendItem(w) ==
  LET c == th[w].c
  IN  /\ At(w, "write")
      /\ \/ /\ obj[c].buf = 0 \/ sock[c].full
            /\ Goto(w, "after") /\ UNCHANGED <<sock, obj, fired>>
         \/ /\ obj[c].buf > 0 /\ ~sock[c].full
            /\ obj' = [obj EXCEPT ![c].buf = @ - 1]
            /\ \E full \in BOOLEAN : sock' = [sock EXCEPT ![c].full = full]
            /\ Fire(c, "send") /\ th' = th
         \/ /\ obj[c].buf > 0 /\ sock[c].eof
            /\ AddFree(w, "close", "after") /\ UNCHANGED <<sock, obj, fired>>
      /\ UNCHANGED <<async, active, cmds, stop, budget, told>>

HungUp(w) ==
  /\ At(w, "user")
  /\ AddFree(w, "close", "after")
  /\ UNCHANGED <<async, sock, obj, active, cmds, stop, budget, told, fired>>

\* OnAfterProcessIo(); an event HandleConnect() took ends without it.
After(w) ==
  LET c == th[w].c
  IN  /\ At(w, "after") \/ At(w, "unlock")
      /\ obj' = [obj EXCEPT ![c].io = None,
                   ![c].armed = IF obj[c].valid /\ At(w, "after") THEN @ \cup Filter(obj[c])
                                ELSE @]
      /\ Leave(w)
      /\ UNCHANGED <<async, sock, active, cmds, stop, budget, told, fired>>

-----------------------------------------------------------------------------
(* AddFreeSocketObj(), by a thread that holds csIo.                        *)

Invalid(t) ==
  LET c == th[t].c
  IN  /\ At(t, "invalid")
      /\ IF obj[c].valid
         THEN /\ obj[c].io \in {None, t}
              /\ obj' = [obj EXCEPT ![c].valid = FALSE, ![c].connected = FALSE]
              /\ Goto(t, "close")
         ELSE obj' = obj /\ Goto(t, th[t].back)
      /\ UNCHANGED <<async, sock, active, cmds, stop, budget, told, fired>>

\* CloseClientSocketObj(): OnClose unless SCF_NONE, then the socket.
Close(t) ==
  LET c == th[t].c
  IN  /\ At(t, "close")
      /\ IF th[t].flag = "none" THEN fired' = fired ELSE Fire(c, "close")
      /\ sock' = [sock EXCEPT ![c].st = "closed"]
      /\ obj' = [obj EXCEPT ![c].armed = {}]
      /\ Goto(t, "remove")
      /\ UNCHANGED <<async, active, cmds, stop, budget, told>>

Remove(t) ==
  /\ At(t, "remove")
  /\ active' = active \ {th[t].c}
  /\ obj' = [obj EXCEPT ![th[t].c].buf = 0]
  /\ Goto(t, th[t].back)
  /\ UNCHANGED <<async, sock, cmds, stop, budget, told, fired>>

-----------------------------------------------------------------------------
(* The other calls of the application.                                     *)

Send(c) ==
  /\ Valid(c) /\ obj[c].connected /\ Spend("send")
  /\ obj' = [obj EXCEPT ![c].buf = @ + 1]
  /\ IF obj[c].buf = 0 THEN Command("send", c) ELSE cmds' = cmds
  /\ UNCHANGED <<async, sock, active, th, stop, told, fired>>

PauseReceive(c) ==
  /\ Valid(c) /\ obj[c].connected /\ Spend("pause")
  /\ obj' = [obj EXCEPT ![c].paused = ~@]
  /\ IF obj[c].paused THEN Command("unpause", c) ELSE cmds' = cmds
  /\ UNCHANGED <<async, sock, active, th, stop, told, fired>>

Disconnect(c) ==
  /\ Valid(c) /\ Spend("disconnect")
  /\ Command("disconnect", c)
  /\ UNCHANGED <<async, sock, obj, active, th, stop, told, fired>>

StopBegin ==
  /\ stop = "running" /\ Spend("stop")
  /\ stop' = "closing"
  /\ UNCHANGED <<async, sock, obj, active, cmds, th, told, fired>>

\* DisconnectClientSocket(): WaitFor(100) is taken to outlast OnPrepareConnect
\* of a Connect() that has seen the agent started.
Disconnects(S) == Seqs!SetToSeq({[type |-> "disconnect", c |-> c] : c \in S})

\* A bug to be caught: the agent does not wait before it looks.
StopAtOnce ==
  /\ stop = "closing"
  /\ stop' = "waiting"
  /\ cmds' = cmds \o Disconnects({c \in active : obj[c].valid})
  /\ UNCHANGED <<async, sock, obj, active, th, budget, told, fired>>

StopDisconnect ==
  /\ stop = "closing" /\ \A a \in Apps : th[a].pc \notin {"prepare", "publish"}
  /\ stop' = "waiting"
  /\ cmds' = cmds \o Disconnects({c \in active : obj[c].valid})
  /\ UNCHANGED <<async, sock, obj, active, th, budget, told, fired>>

\* WaitForClientSocketClose() and m_ioDispatcher.Stop(), which may join a worker
\* for ever (IODispatcher): the step is possible and not promised.
StopEnd ==
  /\ stop = "waiting" /\ active = {} /\ \A w \in Workers : At(w, "idle")
  /\ stop' = "stopped" /\ cmds' = <<>>
  /\ UNCHANGED <<async, sock, obj, active, th, budget, told, fired>>

-----------------------------------------------------------------------------
Init ==
  /\ async \in BOOLEAN
  /\ sock = [c \in Conns |-> NewSock]
  /\ obj = [c \in Conns |-> NewObj]
  /\ active = {}
  /\ cmds = <<>>
  /\ th = [t \in Threads |-> Idle]
  /\ stop = "running"
  /\ budget \in Budgets
  /\ told = [c \in Conns |-> "none"]
  /\ fired = [c \in Conns |-> <<>>]

Take(w) == stop # "stopped" /\ (TakeEvent(w) \/ TakeCommand(w))
Work(w) ==
  \/ LockIo(w) \/ HandleConnect(w) \/ OnConnect(w)
  \/ Receive(w) \/ SendItem(w) \/ HungUp(w) \/ After(w)
Call(a) ==
  \/ Prepare(a) \/ Publish(a) \/ ConnectAsync(a) \/ ConnectSync(a)
  \/ OnConnectSync(a) \/ ConnectFailed(a)
Free(t) == Invalid(t) \/ Close(t) \/ Remove(t)

Next ==
  \/ \E w \in Workers : Take(w) \/ Work(w)
  \/ \E a \in Apps : Call(a) \/ \E c \in Conns : Connect(a, c)
  \/ \E t \in Threads : Free(t)
  \/ \E c \in Conns : \/ Kernel(c) \/ PeerSends(c) \/ PeerReads(c)
                      \/ Send(c) \/ PauseReceive(c) \/ Disconnect(c)
  \/ StopBegin \/ StopDisconnect \/ StopEnd

\* Threads run, kevent() hands what there is to some idle worker, and the
\* kernel ends every attempt to connect.  Nothing is asked of StopEnd.
Fairness ==
  /\ \A w \in Workers : WF_vars(Work(w))
  /\ WF_vars(\E w \in Workers : Take(w))
  /\ \A a \in Apps : WF_vars(Call(a))
  /\ \A t \in Threads : WF_vars(Free(t))
  /\ \A c \in Conns : WF_vars(Kernel(c))
  /\ WF_vars(StopDisconnect)

Spec == Init /\ [][Next]_vars /\ Fairness

-----------------------------------------------------------------------------
(* What the agent promises.                                                *)

\* Type invariant.
TypeOK ==
  /\ sock \in [Conns -> [st : {"new", "connecting", "open", "failed", "closed"},
                         in : Nat, eof : BOOLEAN, full : BOOLEAN]]
  /\ obj \in [Conns -> [valid : BOOLEAN, connected : BOOLEAN, paused : BOOLEAN,
                        io : Threads \cup {None}, buf : Nat,
                        armed : SUBSET {"read", "write"}]]
  /\ active \subseteq Conns
  /\ budget \in [Events -> Nat]
  /\ told \in [Conns -> {"none", "true", "false"}]

Came(c, e) == \E n \in DOMAIN fired[c] : fired[c][n] = e

\* The listener hears of a connection in order, whether Connect() or a worker
\* makes it: OnConnect once and first, data only after OnConnect returned and
\* for no connection it refused, OnClose once and last.
ConnectIsFirst ==
  \A c \in Conns : \A n \in DOMAIN fired[c] :
    /\ fired[c][n] = "connect" => n = 1
    /\ fired[c][n] \in {"receive", "send"} => fired[c][2] = "connected" /\ n > 2
    /\ fired[c][n] = "close" => n = Len(fired[c]) /\ ~Came(c, "refused")

\* The application always learns what became of a connection, and never twice:
\* one that is gone was reported by OnClose unless Connect() returned FALSE, be
\* it after an accepted OnConnect, or OnConnect refused it.
Accounted ==
  \A c \in Conns :
    (sock[c].st = "closed" /\ \A t \in Threads : th[t].c # c)
      => (Came(c, "close") <=> told[c] = "true" /\ ~Came(c, "refused"))

\* Every attempt to connect ends, and Stop() returns, connecting or not, but for
\* the join of m_ioDispatcher.Stop(): it may end there for good, with nothing
\* else left, no connection, no command and no worker in a handler.
InDispatcherStop == /\ stop = "waiting" /\ active = {} /\ cmds = <<>>
                    /\ \A w \in Workers : At(w, "idle")
ConnectResolved ==
  /\ []<>(\A c \in active : obj[c].connected)
  /\ []<>(stop \in {"running", "stopped"} \/ InDispatcherStop)
=============================================================================
