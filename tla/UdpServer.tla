----------------------------- MODULE UdpServer -----------------------------
(***************************************************************************)
(* CUdpServer (UdpServer.cpp): connections that are made of the datagrams  *)
(* one socket receives.  Several workers run HandleReceive() at once, the  *)
(* datagrams of a connection pass through its receive queue to whichever   *)
(* worker takes the command for it, and a connection is closed by a peer,  *)
(* the application, the detection timer or an error, each on a worker of   *)
(* its own.  lcIo and lcSend are CSEMRWLocks: SemRWLock shows that they    *)
(* exclude; here is what the server does with them.                        *)
(*                                                                         *)
(* A connection ID is used once (RingCache), and its TUdpSocketObj is not  *)
(* reused while a thread may hold a pointer to it (m_dwFreeSocketObj-      *)
(* LockTime), so a connection, its ID and its object are one here.         *)
(***************************************************************************)
EXTENDS Integers, Sequences, FiniteSets
LOCAL Seqs == INSTANCE SequencesExt

CONSTANTS
  Addrs,      (* the addresses peers send from                             *)
  Ids,        (* the connection IDs                                        *)
  None,
  Workers,
  Budgets,    (* bound: how often things happen, see budget                *)
  Attempts,   (* m_dwDetectAttempts                                        *)
  MaxReads    (* MAX_CONTINUE_READS; MAX_CONTINUE_WRITES is never reached  *)

VARIABLES
  inbox,      (* the datagrams in the socket: [addr, kind]                 *)
  lsn,        (* the socket and its read filter: [open, event, armed, once]*)
  obj,        (* [Ids -> TUdpSocketObj]                                    *)
  active,     (* m_bfActiveSockets: the IDs that resolve                   *)
  addrMap,    (* m_mpClientAddr                                            *)
  accepting,  (* who holds m_csAccept                                      *)
  cmds,       (* the dispatcher's commands: [type, i]                      *)
  wk,         (* [Workers -> [pc, d, i, n, flag, back]]                    *)
  stop,       (* where Stop() is                                           *)
  budget,     (* what may still happen: datagrams of each kind, calls of   *)
              (* the application, ticks of the timers, blocked and failed  *)
              (* sendto()s                                                 *)
  fired,      (* history: the notifications of each connection             *)
  failed      (* history: the connections with a failed sendto             *)

vars == <<inbox, lsn, obj, active, addrMap, accepting, cmds, wk, stop, budget, fired, failed>>

Kinds == {"data", "zero", "close", "long"}
Datagram == [addr : Addrs, kind : Kinds]
Events == Kinds \cup {"send", "disconnect", "stop", "tick", "block", "fail"}
Spend(e) == budget[e] > 0 /\ budget' = [budget EXCEPT ![e] = @ - 1]

\* wr, rd, waits: who writes, reads and waits to write, of lcIo and lcSend.
Free == [wr |-> None, rd |-> {}, waits |-> {}]
NewObj == [addr |-> None, valid |-> FALSE, recvQueue |-> 0, sndBuff |-> 0,
           fails |-> 0, lcIo |-> Free, lcSend |-> Free]
Idle == [pc |-> "idle", d |-> None, i |-> None, n |-> 0, flag |-> "none", back |-> "idle"]

CanRead(l)     == l.wr = None /\ l.waits = {}
CanWrite(l, w) == l.wr = w \/ (l.wr = None /\ l.rd = {})

At(w, p)   == wk[w].pc = p
Goto(w, p) == wk' = [wk EXCEPT ![w].pc = p]
Valid(i)   == i # None /\ i \in active /\ obj[i].valid
Fire(i, e) == fired' = [fired EXCEPT ![i] = Append(@, e)]
Command(type, i) == cmds' = Append(cmds, [type |-> type, i |-> i])

-----------------------------------------------------------------------------
(* Peers, and the timers of the connections.                               *)

\* The read filter of the socket is EV_CLEAR: it reports what arrives.
Arrive(d) ==
  /\ lsn.open /\ Spend(d.kind)
  /\ inbox' = Append(inbox, d)
  /\ lsn' = [lsn EXCEPT !.event = TRUE]
  /\ UNCHANGED <<obj, active, addrMap, accepting, cmds, wk, stop, fired, failed>>

DetectConnection(i) ==
  /\ Valid(i) /\ Spend("tick")
  /\ IF obj[i].fails >= Attempts
     THEN Command("timeout", i) /\ obj' = obj
     ELSE obj' = [obj EXCEPT ![i].fails = @ + 1] /\ cmds' = cmds
  /\ UNCHANGED <<inbox, lsn, active, addrMap, accepting, wk, stop, fired, failed>>

-----------------------------------------------------------------------------
(* HandleReceive(), on a read event of the socket.                         *)

OnReadyRead(w) ==
  /\ At(w, "idle") /\ lsn.event /\ lsn.armed
  /\ lsn' = [lsn EXCEPT !.event = FALSE, !.armed = ~lsn.once]
  /\ Goto(w, "recv")
  /\ UNCHANGED <<inbox, obj, active, addrMap, accepting, cmds, stop, budget, fired, failed>>

\* recvfrom() and FindConnectionID(); a longer datagram opens no connection.
RecvFrom(w) ==
  /\ At(w, "recv")
  /\ IF lsn.open /\ inbox # <<>>
     THEN LET d == Head(inbox) IN
          /\ inbox' = Tail(inbox)
          /\ wk' = [wk EXCEPT ![w] =
                      [Idle EXCEPT !.d = d, !.i = addrMap[d.addr],
                        !.pc = CASE addrMap[d.addr] # None -> "find"
                                 [] addrMap[d.addr] = None /\ d.kind = "long" -> "recv"
                                 [] OTHER -> "accept"]]
     ELSE inbox' = inbox /\ wk' = [wk EXCEPT ![w] = Idle]
  /\ UNCHANGED <<lsn, obj, active, addrMap, accepting, cmds, stop, budget, fired, failed>>

\* HandleAccept() under m_csAccept: look the address up again, take an ID and
\* an object, whose lcIo is locked, and publish it.
NewIds == {i \in Ids : obj[i].addr = None}

Accept(w) ==
  /\ At(w, "accept") /\ accepting = None
  /\ LET a == wk[w].d.addr IN
     IF addrMap[a] # None
     THEN /\ wk' = [wk EXCEPT ![w].i = addrMap[a], ![w].pc = "find"]
          /\ UNCHANGED <<obj, active, accepting>>
     ELSE IF NewIds = {}                             \* AcquireLock() fails
     THEN Goto(w, "recv") /\ UNCHANGED <<obj, active, accepting>>
     ELSE \E i \in NewIds :
          /\ obj' = [obj EXCEPT ![i] = [addr |-> a, valid |-> TRUE, recvQueue |-> 0,
                sndBuff |-> 0, fails |-> 0, lcIo |-> [Free EXCEPT !.wr = w], lcSend |-> Free]]
          /\ active' = active \cup {i}
          /\ accepting' = w
          /\ wk' = [wk EXCEPT ![w].i = i, ![w].pc = "map"]
  /\ UNCHANGED <<inbox, lsn, addrMap, cmds, stop, budget, fired, failed>>

MapAddress(w) ==
  /\ At(w, "map")
  /\ addrMap' = [addrMap EXCEPT ![wk[w].d.addr] = wk[w].i]
  /\ accepting' = None
  /\ Goto(w, "on_accept")
  /\ Fire(wk[w].i, "accept")
  /\ UNCHANGED <<inbox, lsn, obj, active, cmds, stop, budget, failed>>

\* AddFreeSocketObj(i, flag), then go on at back.
AddFree(w, flag, back) ==
  wk' = [wk EXCEPT ![w].pc = "invalid", ![w].flag = flag, ![w].back = back]

\* OnAccept returns, with HR_ERROR or without.
OnAccept(w) ==
  /\ At(w, "on_accept")
  /\ \/ /\ obj' = [obj EXCEPT ![wk[w].i].lcIo.wr = None]
        /\ Goto(w, "find")
        /\ Fire(wk[w].i, "accepted")
     \/ /\ AddFree(w, "none", "refused")
        /\ Fire(wk[w].i, "refused")
        /\ obj' = obj
  /\ UNCHANGED <<inbox, lsn, active, addrMap, accepting, cmds, stop, budget, failed>>

\* The end of HandleAccept() of a refused connection.
Refused(w) ==
  /\ At(w, "refused")
  /\ obj' = [obj EXCEPT ![wk[w].i].lcIo.wr = None]
  /\ Goto(w, "recv")
  /\ UNCHANGED <<inbox, lsn, active, addrMap, accepting, cmds, stop, budget, fired, failed>>

\* What a datagram of a known connection is.
Examine(w) ==
  LET i == wk[w].i
      k == wk[w].d.kind
  IN  /\ At(w, "find")
      /\ IF ~Valid(i) \/ k = "zero" THEN Goto(w, "recv")
         ELSE CASE k = "data"  -> Goto(w, "push")
                [] k = "close" -> AddFree(w, "close", "recv")
                [] k = "long"  -> AddFree(w, "error", "recv")
      /\ obj' = IF Valid(i) /\ k = "zero" THEN [obj EXCEPT ![i].fails = 0] ELSE obj
      /\ UNCHANGED <<inbox, lsn, active, addrMap, accepting, cmds, stop, budget, fired, failed>>

\* recvQueue.PushBack(), under lcIo.
Push(w) ==
  LET i == wk[w].i
  IN  /\ At(w, "push") /\ CanRead(obj[i].lcIo)
      /\ IF obj[i].valid
         THEN obj' = [obj EXCEPT ![i].recvQueue = @ + 1] /\ Goto(w, "tell")
         ELSE obj' = obj /\ Goto(w, "recv")
      /\ UNCHANGED <<inbox, lsn, active, addrMap, accepting, cmds, stop, budget, fired, failed>>

\* A bug to be caught: only the first datagram in the queue asks for a worker.
TellFirst(w) ==
  /\ At(w, "tell")
  /\ IF obj[wk[w].i].recvQueue = 1 THEN Command("receive", wk[w].i) ELSE cmds' = cmds
  /\ Goto(w, "recv")
  /\ UNCHANGED <<inbox, lsn, obj, active, addrMap, accepting, stop, budget, fired, failed>>

Tell(w) ==
  /\ At(w, "tell")
  /\ Command("receive", wk[w].i)
  /\ Goto(w, "recv")
  /\ UNCHANGED <<inbox, lsn, obj, active, addrMap, accepting, stop, budget, fired, failed>>

-----------------------------------------------------------------------------
(* OnCommand().                                                            *)

TakeCommand(w) ==
  /\ At(w, "idle") /\ cmds # <<>>
  /\ LET c == Head(cmds)
         go(p) == [Idle EXCEPT !.pc = p, !.i = c.i]
     IN  wk' = [wk EXCEPT ![w] =
           IF ~Valid(c.i) THEN Idle
           ELSE CASE c.type = "receive" /\ obj[c.i].recvQueue > 0 -> go("lock_io")
                  [] c.type = "send" /\ obj[c.i].sndBuff > 0 -> go("lock_send")
                  [] c.type \in {"disconnect", "timeout"} ->
                       [go("invalid") EXCEPT !.flag = "close"]
                  [] OTHER -> Idle]
  /\ cmds' = Tail(cmds)
  /\ UNCHANGED <<inbox, lsn, obj, active, addrMap, accepting, stop, budget, fired, failed>>

\* HandleCmdReceive() under lcIo: any number of workers may be here.
LockIo(w) ==
  LET i == wk[w].i
  IN  /\ At(w, "lock_io") /\ CanRead(obj[i].lcIo)
      /\ IF obj[i].valid /\ obj[i].recvQueue > 0
         THEN /\ obj' = [obj EXCEPT ![i].lcIo.rd = @ \cup {w}, ![i].fails = 0]
              /\ wk' = [wk EXCEPT ![w].pc = "pop", ![w].n = MaxReads]
         ELSE obj' = obj /\ wk' = [wk EXCEPT ![w] = Idle]
      /\ UNCHANGED <<inbox, lsn, active, addrMap, accepting, cmds, stop, budget, fired, failed>>

Pop(w) ==
  LET i == wk[w].i
  IN  /\ At(w, "pop")
      /\ IF wk[w].n > 0 /\ obj[i].recvQueue > 0
         THEN /\ obj' = [obj EXCEPT ![i].recvQueue = @ - 1]
              /\ wk' = [wk EXCEPT ![w].pc = "on_receive", ![w].n = @ - 1]
              /\ Fire(i, "receive")
         ELSE /\ obj' = [obj EXCEPT ![i].lcIo.rd = @ \ {w}]
              /\ Goto(w, "more") /\ fired' = fired
      /\ UNCHANGED <<inbox, lsn, active, addrMap, accepting, cmds, stop, budget, failed>>

OnReceive(w) ==
  /\ At(w, "on_receive")
  /\ \/ Goto(w, "pop") /\ obj' = obj
     \/ /\ AddFree(w, "error", "idle")                       \* HR_ERROR
        /\ obj' = [obj EXCEPT ![wk[w].i].lcIo.rd = @ \ {w}]
  /\ UNCHANGED <<inbox, lsn, active, addrMap, accepting, cmds, stop, budget, fired, failed>>

More(w) ==
  LET i == wk[w].i
  IN  /\ At(w, "more")
      /\ IF obj[i].valid /\ obj[i].recvQueue > 0
         THEN Command("receive", i) ELSE cmds' = cmds
      /\ wk' = [wk EXCEPT ![w] = Idle]
      /\ UNCHANGED <<inbox, lsn, obj, active, addrMap, accepting, stop, budget, fired, failed>>

\* HandleCmdSend() under lcSend.
LockSend(w) ==
  LET i == wk[w].i
  IN  /\ At(w, "lock_send") /\ CanRead(obj[i].lcSend)
      /\ IF obj[i].valid /\ obj[i].sndBuff > 0
         THEN obj' = [obj EXCEPT ![i].lcSend.rd = @ \cup {w}] /\ Goto(w, "sendto")
         ELSE obj' = obj /\ wk' = [wk EXCEPT ![w] = Idle]
      /\ UNCHANGED <<inbox, lsn, active, addrMap, accepting, cmds, stop, budget, fired, failed>>

\* SendItem() of the item popped.  What blocks goes back; the filters asked for,
\* EVFILT_WRITE | EVFILT_READ, are -2 | -1 = -1 = EVFILT_READ, now EV_DISPATCH.
\* HandleClose() does nothing once Stop() has begun; before that it asks for
\* lcSend to write while this worker reads under it, and never comes back.
SendTo(w) ==
  LET i == wk[w].i
      unlock == [obj EXCEPT ![i].lcSend.rd = @ \ {w}]
  IN  /\ At(w, "sendto")
      /\ \/ /\ obj[i].sndBuff = 0
            /\ obj' = unlock /\ Goto(w, "send_more")
            /\ UNCHANGED <<lsn, budget, fired, failed>>
         \/ /\ obj[i].sndBuff > 0
            /\ obj' = [obj EXCEPT ![i].sndBuff = @ - 1]
            /\ Goto(w, "on_send") /\ Fire(i, "send")
            /\ UNCHANGED <<lsn, budget, failed>>
         \/ /\ obj[i].sndBuff > 0 /\ Spend("block")
            /\ obj' = unlock /\ wk' = [wk EXCEPT ![w] = Idle]
            /\ lsn' = [lsn EXCEPT !.once = TRUE, !.armed = TRUE,
                                  !.event = @ \/ inbox # <<>>]
            /\ UNCHANGED <<fired, failed>>
         \/ /\ obj[i].sndBuff > 0 /\ Spend("fail")
            /\ failed' = failed \cup {i}
            /\ IF stop = "running"
               THEN /\ obj' = [obj EXCEPT ![i].sndBuff = @ - 1]
                    /\ AddFree(w, "error", "never")
               ELSE /\ obj' = [unlock EXCEPT ![i].sndBuff = @ - 1]
                    /\ wk' = [wk EXCEPT ![w] = Idle]
            /\ UNCHANGED <<lsn, fired>>
      /\ UNCHANGED <<inbox, active, addrMap, accepting, cmds, stop>>

OnSend(w) ==
  /\ At(w, "on_send")
  /\ Goto(w, "sendto")
  /\ UNCHANGED <<inbox, lsn, obj, active, addrMap, accepting, cmds, stop, budget, fired, failed>>

\* The end of HandleCmdSend(), without the lock.
SendMore(w) ==
  /\ At(w, "send_more")
  /\ IF obj[wk[w].i].sndBuff > 0 THEN Command("send", wk[w].i) ELSE cmds' = cmds
  /\ wk' = [wk EXCEPT ![w] = Idle]
  /\ UNCHANGED <<inbox, lsn, obj, active, addrMap, accepting, stop, budget, fired, failed>>

-----------------------------------------------------------------------------
(* AddFreeSocketObj().                                                     *)

\* InvalidSocketObj(): ask for lcIo, then for lcSend, then test valid again.
Invalid(w) ==
  LET i == wk[w].i
  IN  /\ At(w, "invalid")
      /\ IF obj[i].valid
         THEN obj' = [obj EXCEPT ![i].lcIo.waits = @ \cup {w}] /\ Goto(w, "want_io")
         ELSE obj' = obj /\ Goto(w, wk[w].back)
      /\ UNCHANGED <<inbox, lsn, active, addrMap, accepting, cmds, stop, budget, fired, failed>>

\* A bug to be caught: lcIo is not taken.
WantIoNot(w) ==
  /\ At(w, "want_io")
  /\ obj' = [obj EXCEPT ![wk[w].i].lcIo.waits = @ \ {w},
                        ![wk[w].i].lcSend.waits = @ \cup {w}]
  /\ Goto(w, "want_send")
  /\ UNCHANGED <<inbox, lsn, active, addrMap, accepting, cmds, stop, budget, fired, failed>>

WantIo(w) ==
  LET i == wk[w].i
  IN  /\ At(w, "want_io") /\ CanWrite(obj[i].lcIo, w)
      /\ obj' = [obj EXCEPT ![i].lcSend.waits = @ \cup {w},
                            ![i].lcIo = [obj[i].lcIo EXCEPT !.waits = @ \ {w}, !.wr = w]]
      /\ Goto(w, "want_send")
      /\ UNCHANGED <<inbox, lsn, active, addrMap, accepting, cmds, stop, budget, fired, failed>>

\* Invalidate once, and leave the locks; lcIo stays locked by HandleAccept().
WantSend(w) ==
  LET i == wk[w].i
      writer == IF wk[w].back = "refused" THEN w ELSE None
  IN  /\ At(w, "want_send") /\ CanWrite(obj[i].lcSend, w)
      /\ obj' = [obj EXCEPT ![i].lcSend.waits = @ \ {w}, ![i].lcIo.wr = writer,
                            ![i].valid = FALSE]
      /\ IF obj[i].valid
         THEN IF wk[w].flag = "none"
              THEN Goto(w, "remove") /\ fired' = fired
              ELSE Goto(w, "on_close") /\ Fire(i, "close")
         ELSE Goto(w, wk[w].back) /\ fired' = fired
      /\ UNCHANGED <<inbox, lsn, active, addrMap, accepting, cmds, stop, budget, failed>>

OnClose(w) ==
  /\ At(w, "on_close")
  /\ Goto(w, "remove")
  /\ UNCHANGED <<inbox, lsn, obj, active, addrMap, accepting, cmds, stop, budget, fired, failed>>

Remove(w) ==
  /\ At(w, "remove")
  /\ active' = active \ {wk[w].i}
  /\ Goto(w, "erase")
  /\ UNCHANGED <<inbox, lsn, obj, addrMap, accepting, cmds, stop, budget, fired, failed>>

\* The map entry goes by address; Release() clears both queues.
Erase(w) ==
  LET i == wk[w].i
  IN  /\ At(w, "erase")
      /\ addrMap' = [addrMap EXCEPT ![obj[i].addr] = None]
      /\ obj' = [obj EXCEPT ![i].recvQueue = 0, ![i].sndBuff = 0]
      /\ Goto(w, wk[w].back)
      /\ UNCHANGED <<inbox, lsn, active, accepting, cmds, stop, budget, fired, failed>>

-----------------------------------------------------------------------------
(* The application.                                                        *)

\* SendInternal(): a command only if nothing was pending.
Send(i) ==
  /\ Valid(i) /\ Spend("send")
  /\ obj' = [obj EXCEPT ![i].sndBuff = @ + 1]
  /\ IF obj[i].sndBuff = 0 THEN Command("send", i) ELSE cmds' = cmds
  /\ UNCHANGED <<inbox, lsn, active, addrMap, accepting, wk, stop, fired, failed>>

Disconnect(i) ==
  /\ Valid(i) /\ Spend("disconnect")
  /\ Command("disconnect", i)
  /\ UNCHANGED <<inbox, lsn, obj, active, addrMap, accepting, wk, stop, fired, failed>>

\* Stop(): SS_STOPPING, and the socket is closed.
StopListen ==
  /\ stop = "running" /\ Spend("stop")
  /\ stop' = "closed"
  /\ lsn' = [lsn EXCEPT !.open = FALSE]
  /\ UNCHANGED <<inbox, obj, active, addrMap, accepting, cmds, wk, fired, failed>>

\* DisconnectClientSocket(), after WaitFor(70): a worker that had a datagram of
\* a new address in hand has published the connection by then.
Disconnects(S) == Seqs!SetToSeq({[type |-> "disconnect", i |-> i] : i \in S})

\* A bug to be caught: without the WaitFor(70).
StopDisconnectAtOnce ==
  /\ stop = "closed"
  /\ stop' = "waiting"
  /\ cmds' = cmds \o Disconnects({i \in active : obj[i].valid})
  /\ UNCHANGED <<inbox, lsn, obj, active, addrMap, accepting, wk, budget, fired, failed>>

StopDisconnect ==
  /\ stop = "closed"
  /\ \A w \in Workers : ~At(w, "accept")
  /\ stop' = "waiting"
  /\ cmds' = cmds \o Disconnects({i \in active : obj[i].valid})
  /\ UNCHANGED <<inbox, lsn, obj, active, addrMap, accepting, wk, budget, fired, failed>>

\* WaitForClientSocketClose(), then m_ioDispatcher.Stop(), which may join a worker
\* for ever (IODispatcher): the step is possible and not promised.
StopEnd ==
  /\ stop = "waiting"
  /\ active = {} /\ \A w \in Workers : At(w, "idle")
  /\ stop' = "stopped"
  /\ cmds' = <<>>
  /\ UNCHANGED <<inbox, lsn, obj, active, addrMap, accepting, wk, budget, fired, failed>>

-----------------------------------------------------------------------------
Init ==
  /\ inbox = <<>>
  /\ lsn = [open |-> TRUE, event |-> FALSE, armed |-> TRUE, once |-> FALSE]
  /\ obj = [i \in Ids |-> NewObj]
  /\ active = {}
  /\ addrMap = [a \in Addrs |-> None]
  /\ accepting = None
  /\ cmds = <<>>
  /\ wk = [w \in Workers |-> Idle]
  /\ stop = "running"
  /\ budget \in Budgets
  /\ fired = [i \in Ids |-> <<>>]
  /\ failed = {}

\* The events and commands a worker may take, and what it goes on with.
Take(w) == stop # "stopped" /\ (OnReadyRead(w) \/ TakeCommand(w))
Work(w) ==
  \/ RecvFrom(w) \/ Accept(w) \/ MapAddress(w) \/ OnAccept(w) \/ Refused(w)
  \/ Examine(w) \/ Push(w) \/ Tell(w)
  \/ LockIo(w) \/ Pop(w) \/ OnReceive(w) \/ More(w)
  \/ LockSend(w) \/ SendTo(w) \/ OnSend(w) \/ SendMore(w)
  \/ Invalid(w) \/ WantIo(w) \/ WantSend(w) \/ OnClose(w) \/ Remove(w) \/ Erase(w)

Next ==
  \/ \E d \in Datagram : Arrive(d)
  \/ \E i \in Ids : DetectConnection(i) \/ Send(i) \/ Disconnect(i)
  \/ \E w \in Workers : Take(w) \/ Work(w)
  \/ StopListen \/ StopDisconnect \/ StopEnd

\* Threads run; kevent() hands an event or a command to some idle worker.
\* Nothing is asked of StopEnd.
Fairness ==
  /\ \A w \in Workers : WF_vars(Work(w))
  /\ WF_vars(\E w \in Workers : Take(w))
  /\ WF_vars(StopDisconnect)

Spec == Init /\ [][Next]_vars /\ Fairness

-----------------------------------------------------------------------------
(* What the server promises.                                               *)

LockState == [wr : Workers \cup {None}, rd : SUBSET Workers, waits : SUBSET Workers]

\* Type invariant.
TypeOK ==
  /\ obj \in [Ids -> [addr : Addrs \cup {None}, valid : BOOLEAN, recvQueue : Nat,
                      sndBuff : Nat, fails : 0 .. Attempts,
                      lcIo : LockState, lcSend : LockState]]
  /\ active \subseteq Ids
  /\ addrMap \in [Addrs -> Ids \cup {None}]
  /\ accepting \in Workers \cup {None}
  /\ budget \in [Events -> Nat]
  /\ \A i \in Ids : \A l \in {obj[i].lcIo, obj[i].lcSend} : l.wr # None => l.rd = {}

\* One address is one connection: of two workers that receive its first
\* datagrams only one makes it, and the map leads to it, not to one that is
\* closed by a third, until it is closed itself.
OneConnection ==
  /\ \A i, j \in active : obj[i].addr = obj[j].addr => i = j
  /\ \A i \in active : \/ addrMap[obj[i].addr] = i
                       \/ \E w \in Workers : At(w, "map") /\ wk[w].i = i
  /\ \A a \in Addrs : addrMap[a] # None => obj[addrMap[a]].addr = a

Callbacks == {"on_accept", "on_receive", "on_send", "on_close"}

\* A connection is accepted before it receives, a refused one receives and
\* closes never, OnClose comes once and last, and no other callback of the
\* connection is still running when it comes.
CloseIsLast ==
  \A i \in Ids :
    /\ \A n \in DOMAIN fired[i] :
         /\ fired[i][n] \in {"receive", "close"} => \E m \in 1 .. n - 1 : fired[i][m] = "accepted"
         /\ fired[i][n] = "close" => n = Len(fired[i])
    /\ \A w, v \in Workers :
         At(w, "on_close") /\ wk[w].i = i /\ v # w => ~(wk[v].pc \in Callbacks /\ wk[v].i = i)

\* What is in the receive queue of a connection is handled, however many
\* workers share it, or the connection is closed.  (A failed sendto locks its
\* worker up, see ErrorIsTold.)
ReceivedIsHandled ==
  []<>(failed # {} \/ \A i \in Ids : obj[i].recvQueue = 0 \/ ~obj[i].valid)

\* Stop() returns, whatever the workers were about when it was called, but for
\* the join of m_ioDispatcher.Stop(): it may end there for good, with nothing
\* else left, no connection, no command and no worker in a handler.  (A failed
\* sendto locks its worker up, see ErrorIsTold.)
InDispatcherStop == /\ stop = "waiting" /\ active = {} /\ cmds = <<>>
                    /\ \A w \in Workers : At(w, "idle")
StopReturns == []<>(stop \in {"running", "stopped"} \/ failed # {} \/ InDispatcherStop)

\* "After a communication error the listener gets this notification, and the
\* connection is closed": a sendto that fails is followed by OnClose.
ErrorIsTold ==
  \A i \in Ids :
    i \in failed /\ stop = "running" ~> stop # "running" \/ ~obj[i].valid
=============================================================================
