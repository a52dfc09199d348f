------------------------------ MODULE UdpNode ------------------------------
(***************************************************************************)
(* CUdpNode (UdpNode.cpp): one socket that sends to and receives from      *)
(* anybody.  There are no connections: application threads put datagrams   *)
(* into m_sndBuff, workers take them out and send them, workers put what   *)
(* arrives into m_recvQueue and workers hand it to the application.        *)
(* Whether a worker is asked to send is decided by the length of m_sndBuff *)
(* before and after a datagram was put into it; an empty datagram, which   *)
(* has no length, is counted as one while it is on its way.                *)
(***************************************************************************)
EXTENDS Integers, Sequences, FiniteSets

CONSTANTS
  Out,        (* the datagrams the application sends, each by a thread     *)
  Empty,      (* those of length zero                                      *)
  None,
  Workers,
  Budgets,    (* bound: how often things happen, see budget                *)
  MaxReads    (* MAX_CONTINUE_READS                                        *)

VARIABLES
  state,      (* m_enState                                                 *)
  sock,       (* the socket and its read filter: [open, event, armed, once]*)
  inbox,      (* what is in the socket                                     *)
  recvQueue,  (* m_recvQueue, how many                                     *)
  sndBuff,    (* m_sndBuff                                                 *)
  extra,      (* what IncreaseLength() added to its length                 *)
  cmds,       (* the dispatcher's commands                                 *)
  wk,         (* [Workers -> [pc, d, n]]                                   *)
  sending,    (* [Out -> where its Send() is]                              *)
  stop,       (* where Stop() is                                           *)
  budget,     (* what may still happen: calls, datagrams of each kind,     *)
              (* blocked and failed sendto()s                              *)
  told        (* history: what the listener was told since Start()         *)

vars == <<state, sock, inbox, recvQueue, sndBuff, extra, cmds, wk, sending, stop, budget,
          told>>

Kinds == {"data", "long", "error"}
Events == Kinds \cup {"start", "send", "stop", "block", "fail"}
Spend(e) == budget[e] > 0 /\ budget' = [budget EXCEPT ![e] = @ - 1]

HasStarted == state \in {"starting", "started"}
Length     == Cardinality({n \in DOMAIN sndBuff : sndBuff[n] \notin Empty}) + extra
IsPending  == Length > 0

Idle == [pc |-> "idle", d |-> None, n |-> 0]
NextCommand == [Idle EXCEPT !.pc = "next"]
At(w, p)   == wk[w].pc = p
Goto(w, p) == wk' = [wk EXCEPT ![w].pc = p]
Fire(e, d) == told' = Append(told, [event |-> e, d |-> d])
Command(type) == cmds' = Append(cmds, type)

Closed == [open |-> FALSE, event |-> FALSE, armed |-> FALSE, once |-> FALSE]

-----------------------------------------------------------------------------
(* Start() and what arrives.                                               *)

\* Up to StartAccept(); OnPrepareListen or the system may refuse, Start() then
\* calls Stop(), with no socket open.
Start ==
  /\ state = "stopped" /\ stop = "none" /\ Spend("start")
  /\ told' = <<>>
  /\ wk' = [w \in Workers |-> Idle]
  /\ \/ /\ state' = "starting" /\ stop' = stop
        /\ sock' = [Closed EXCEPT !.open = TRUE, !.armed = TRUE]
     \/ state' = "stopping" /\ stop' = "close" /\ sock' = Closed
  /\ sending' = [o \in Out |-> IF sending[o] = "taken" THEN "past" ELSE sending[o]]
  /\ UNCHANGED <<inbox, recvQueue, sndBuff, extra, cmds>>

SetStarted ==
  /\ state = "starting"
  /\ state' = "started"
  /\ UNCHANGED <<sock, inbox, recvQueue, sndBuff, extra, cmds, wk, sending, stop, budget, told>>

\* The read filter is EV_CLEAR: it reports what arrives.
Arrive(k) ==
  /\ sock.open /\ Spend(k)
  /\ inbox' = Append(inbox, k)
  /\ sock' = [sock EXCEPT !.event = TRUE]
  /\ UNCHANGED <<state, recvQueue, sndBuff, extra, cmds, wk, sending, stop, told>>

-----------------------------------------------------------------------------
(* HandleReceive() and HandleCmdReceive().                                 *)

OnReadyRead(w) ==
  /\ At(w, "idle") /\ sock.event /\ sock.armed
  /\ sock' = [sock EXCEPT !.event = FALSE, !.armed = ~sock.once]
  /\ Goto(w, "recv")
  /\ UNCHANGED <<state, inbox, recvQueue, sndBuff, extra, cmds, sending, stop, budget, told>>

\* recvfrom(); a closed socket fails, and HandleClose() ends the handler then.
RecvFrom(w) ==
  /\ At(w, "recv")
  /\ IF ~sock.open \/ inbox = <<>> \/ (Head(inbox) = "error" /\ ~HasStarted)
     THEN /\ wk' = [wk EXCEPT ![w] = Idle]
          /\ UNCHANGED <<inbox, recvQueue, told>>
     ELSE /\ inbox' = Tail(inbox)
          /\ IF Head(inbox) = "data"
             THEN recvQueue' = recvQueue + 1 /\ Goto(w, "tell") /\ told' = told
             ELSE recvQueue' = recvQueue /\ wk' = wk /\ Fire("error", None)
  /\ UNCHANGED <<state, sock, sndBuff, extra, cmds, sending, stop, budget>>

Tell(w) ==
  /\ At(w, "tell")
  /\ Command("receive")
  /\ Goto(w, "recv")
  /\ UNCHANGED <<state, sock, inbox, recvQueue, sndBuff, extra, sending, stop, budget, told>>

\* OnCommand(), for the first command that is left.
OnCommand(w) ==
  /\ cmds # <<>>
  /\ cmds' = Tail(cmds)
  /\ wk' = [wk EXCEPT ![w] =
       IF Head(cmds) = "send" THEN [Idle EXCEPT !.pc = "pending"]
       ELSE IF recvQueue > 0  THEN [pc |-> "pop", d |-> None, n |-> MaxReads]
       ELSE NextCommand]
  /\ UNCHANGED <<state, sock, inbox, recvQueue, sndBuff, extra, sending, stop, budget, told>>

\* ProcessCommand() of the dispatcher: a worker that is told of a command goes on
\* until none is left, also with those that it has sent itself.
TakeCommand(w) == At(w, "idle") /\ OnCommand(w)
MoreCommands(w) == At(w, "next") /\ OnCommand(w)
NoCommand(w) ==
  /\ At(w, "next") /\ cmds = <<>>
  /\ wk' = [wk EXCEPT ![w] = Idle]
  /\ UNCHANGED <<state, sock, inbox, recvQueue, sndBuff, extra, cmds, sending, stop, budget, told>>

Pop(w) ==
  /\ At(w, "pop")
  /\ IF wk[w].n > 0 /\ recvQueue > 0
     THEN /\ recvQueue' = recvQueue - 1
          /\ wk' = [wk EXCEPT ![w].n = @ - 1]
          /\ Fire("receive", None)
     ELSE Goto(w, "more") /\ UNCHANGED <<recvQueue, told>>
  /\ UNCHANGED <<state, sock, inbox, sndBuff, extra, cmds, sending, stop, budget>>

More(w) ==
  /\ At(w, "more")
  /\ IF recvQueue > 0 THEN Command("receive") ELSE cmds' = cmds
  /\ wk' = [wk EXCEPT ![w] = NextCommand]
  /\ UNCHANGED <<state, sock, inbox, recvQueue, sndBuff, extra, sending, stop, budget, told>>

-----------------------------------------------------------------------------
(* SendInternal() and HandleCmdSend().                                     *)

\* Under m_csState: the state, whether anything is pending, and the push.
Send(o) ==
  /\ sending[o] = "new" /\ Spend("send")
  /\ IF state = "started"
     THEN /\ sndBuff' = Append(sndBuff, o)
          /\ extra' = IF o \in Empty THEN extra + 1 ELSE extra
          /\ sending' = [sending EXCEPT ![o] = IF IsPending THEN "taken" ELSE "asks"]
     ELSE sending' = [sending EXCEPT ![o] = "refused"] /\ UNCHANGED <<sndBuff, extra>>
  /\ UNCHANGED <<state, sock, inbox, recvQueue, cmds, wk, stop, told>>

\* Without the lock: if nothing was pending and something is.
AskToSend(o) ==
  /\ sending[o] = "asks"
  /\ sending' = [sending EXCEPT ![o] = "taken"]
  /\ IF IsPending THEN Command("send") ELSE cmds' = cmds
  /\ UNCHANGED <<state, sock, inbox, recvQueue, sndBuff, extra, wk, stop, budget, told>>

Pending(w) ==
  /\ At(w, "pending")
  /\ Goto(w, IF IsPending THEN "take" ELSE "rest")
  /\ UNCHANGED <<state, sock, inbox, recvQueue, sndBuff, extra, cmds, sending, stop, budget, told>>

PopSend(w) ==
  /\ At(w, "take")
  /\ IF sndBuff = <<>>
     THEN Goto(w, "rest") /\ sndBuff' = sndBuff
     ELSE /\ sndBuff' = Tail(sndBuff)
          /\ wk' = [wk EXCEPT ![w].pc = "sendto", ![w].d = Head(sndBuff)]
  /\ UNCHANGED <<state, sock, inbox, recvQueue, extra, cmds, sending, stop, budget, told>>

\* SendItem().  Only a sendto() that succeeds takes back what an empty datagram
\* was counted as.  A failure that HandleClose() does not report ends the handler.
SendItem(w) ==
  LET again == wk' = [wk EXCEPT ![w] = [Idle EXCEPT !.pc = "pending"]]
  IN  /\ At(w, "sendto")
      /\ \/ /\ sock.open
            /\ extra' = IF wk[w].d \in Empty THEN extra - 1 ELSE extra
            /\ again /\ Fire("send", wk[w].d)
            /\ budget' = budget
         \/ /\ sock.open /\ Spend("block")
            /\ Goto(w, "blocked")
            /\ UNCHANGED <<extra, told>>
         \/ /\ IF sock.open THEN Spend("fail") ELSE budget' = budget
            /\ IF HasStarted
               THEN again /\ Fire("error", wk[w].d)
               ELSE wk' = [wk EXCEPT ![w] = NextCommand] /\ told' = told
            /\ extra' = extra
      /\ UNCHANGED <<state, sock, inbox, recvQueue, sndBuff, cmds, sending, stop>>

PutBack(w) ==
  /\ At(w, "blocked")
  /\ sndBuff' = <<wk[w].d>> \o sndBuff
  /\ wk' = [wk EXCEPT ![w] = [Idle EXCEPT !.pc = "arm"]]
  /\ UNCHANGED <<state, sock, inbox, recvQueue, extra, cmds, sending, stop, budget, told>>

\* EVFILT_WRITE | EVFILT_READ is -2 | -1 = -1 = EVFILT_READ, which EV_DISPATCH
\* disables after one report; OnReadyWrite() is never called.
Arm(w) ==
  /\ At(w, "arm")
  /\ sock' = IF sock.open THEN [sock EXCEPT !.once = TRUE, !.armed = TRUE,
                                            !.event = @ \/ inbox # <<>>]
                          ELSE sock
  /\ wk' = [wk EXCEPT ![w] = NextCommand]
  /\ UNCHANGED <<state, inbox, recvQueue, sndBuff, extra, cmds, sending, stop, budget, told>>

Rest(w) ==
  /\ At(w, "rest")
  /\ IF IsPending THEN Command("send") ELSE cmds' = cmds
  /\ wk' = [wk EXCEPT ![w] = NextCommand]
  /\ UNCHANGED <<state, sock, inbox, recvQueue, sndBuff, extra, sending, stop, budget, told>>

-----------------------------------------------------------------------------
(* Stop(), which the application calls when Start() has returned.          *)

CheckStoping ==
  /\ state = "started" /\ Spend("stop")
  /\ state' = "stopping" /\ stop' = "close"
  /\ UNCHANGED <<sock, inbox, recvQueue, sndBuff, extra, cmds, wk, sending, told>>

CloseListenSocket ==
  /\ stop = "close"
  /\ sock' = Closed /\ inbox' = <<>> /\ stop' = "wait"
  /\ UNCHANGED <<state, recvQueue, sndBuff, extra, cmds, wk, sending, budget, told>>

\* A worker hears of m_evExit between two handlers.  Another may never hear of it
\* (IODispatcher): that each leaves is possible and not promised.
Leave(w) ==
  /\ stop = "wait" /\ At(w, "idle")
  /\ Goto(w, "left")
  /\ UNCHANGED <<state, sock, inbox, recvQueue, sndBuff, extra, cmds, sending, stop, budget, told>>

\* m_ioDispatcher.Stop() has joined them.  The WaitFor(100) of CloseListenSocket()
\* lets a Send() that was taken post its command before the pipe is deleted.
WaitForWorkerThreadEnd ==
  /\ stop = "wait"
  /\ \A w \in Workers : At(w, "left")
  /\ \A o \in Out : sending[o] # "asks"
  /\ cmds' = <<>> /\ stop' = "shutdown"
  /\ UNCHANGED <<state, sock, inbox, recvQueue, sndBuff, extra, wk, sending, budget, told>>

FireShutdown ==
  /\ stop = "shutdown"
  /\ Fire("shutdown", None) /\ stop' = "release"
  /\ UNCHANGED <<state, sock, inbox, recvQueue, sndBuff, extra, cmds, wk, sending, budget>>

ReleaseFreeBuffer ==
  /\ stop = "release"
  /\ recvQueue' = 0 /\ sndBuff' = <<>> /\ extra' = 0
  /\ stop' = "reset"
  /\ UNCHANGED <<state, sock, inbox, cmds, wk, sending, budget, told>>

Reset ==
  /\ stop = "reset"
  /\ state' = "stopped" /\ stop' = "none"
  /\ UNCHANGED <<sock, inbox, recvQueue, sndBuff, extra, cmds, wk, sending, budget, told>>

-----------------------------------------------------------------------------
Init ==
  /\ state = "stopped"
  /\ sock = Closed
  /\ inbox = <<>>
  /\ recvQueue = 0
  /\ sndBuff = <<>> /\ extra = 0
  /\ cmds = <<>>
  /\ wk = [w \in Workers |-> [Idle EXCEPT !.pc = "left"]]
  /\ sending = [o \in Out |-> "new"]
  /\ stop = "none"
  /\ budget \in Budgets
  /\ told = <<>>

Take(w) == OnReadyRead(w) \/ TakeCommand(w)
Work(w) ==
  \/ RecvFrom(w) \/ Tell(w) \/ MoreCommands(w) \/ NoCommand(w) \/ Pop(w) \/ More(w)
  \/ Pending(w) \/ PopSend(w) \/ SendItem(w) \/ PutBack(w) \/ Arm(w) \/ Rest(w)
StopSteps ==
  \/ CloseListenSocket \/ WaitForWorkerThreadEnd \/ FireShutdown \/ ReleaseFreeBuffer
  \/ Reset

Next ==
  \/ Start \/ SetStarted \/ CheckStoping \/ StopSteps
  \/ \E k \in Kinds : Arrive(k)
  \/ \E o \in Out : Send(o) \/ AskToSend(o)
  \/ \E w \in Workers : Take(w) \/ Work(w) \/ Leave(w)

\* Threads run; kevent() hands an event or a command to some idle worker.
\* Nothing is asked of Leave.
Fairness ==
  /\ \A w \in Workers : WF_vars(Work(w))
  /\ WF_vars(\E w \in Workers : Take(w))
  /\ \A o \in Out : WF_vars(AskToSend(o))
  /\ WF_vars(SetStarted) /\ WF_vars(StopSteps)

Spec == Init /\ [][Next]_vars /\ Fairness

-----------------------------------------------------------------------------
(* What the node promises.                                                 *)

\* Type invariant.
TypeOK ==
  /\ state \in {"stopped", "starting", "started", "stopping"}
  /\ recvQueue \in Nat /\ extra \in Nat
  /\ sndBuff \in Seq(Out)
  /\ wk \in [Workers -> [d : Out \cup {None}, n : 0 .. MaxReads,
                          pc : {"idle", "next", "recv", "tell", "pop", "more", "pending",
                                "take", "rest", "sendto", "blocked", "arm", "left"}]]
  /\ sending \in [Out -> {"new", "asks", "taken", "refused", "past"}]
  /\ budget \in [Events -> Nat]

\* Where a datagram is: in the list, in a worker's hands, or told of.
Places(o) ==
    Cardinality({n \in DOMAIN sndBuff : sndBuff[n] = o})
  + Cardinality({w \in Workers : wk[w].d = o})
  + Cardinality({n \in DOMAIN told : told[n].d = o})

\* A datagram that Send() took is sent and told of once, whoever pops it and
\* puts it back, and none is lost before Stop().  One in the list, empty or not,
\* makes the list pending.
SentOnce ==
  /\ \A o \in Out : Places(o) <= 1
  /\ state = "started" => \A o \in Out : sending[o] \in {"asks", "taken"} => Places(o) = 1
  /\ sndBuff # <<>> => IsPending

\* OnShutdown is last; Stop() leaves nothing that the next Start() would find,
\* neither a datagram nor a length that makes it look pending.
StopIsClean ==
  /\ \A n \in DOMAIN told : told[n].event = "shutdown" => n = Len(told)
  /\ state = "stopped" => recvQueue = 0 /\ sndBuff = <<>> /\ extra = 0 /\ cmds = <<>>

\* What was received is handed on, however many workers share it.
ReceivedIsHandled == []<>(recvQueue = 0)

\* In m_ioDispatcher.Stop(), with nothing left to do for the workers it joins.
InDispatcherStop == /\ stop = "wait" /\ cmds = <<>>
                    /\ \A w \in Workers : wk[w].pc \in {"idle", "left"}

\* What Send() took is sent, although it asks for a worker only if it found
\* nothing pending.  (A sendto that blocked ends it, see Arm; what Stop() finds
\* may stay in the list while it waits for the workers.)
SentIsHandled == []<>(sndBuff = <<>> \/ sock.once \/ InDispatcherStop)

\* Stop() returns but for the join of m_ioDispatcher.Stop(), which may last for
\* ever: no worker is kept from hearing of m_evExit, whatever commands it finds.
\* But when the sendto() of an empty datagram fails, what was counted for it is
\* never taken back, and a worker sends itself commands for ever.
Overcounted == extra > Cardinality({o \in Empty : \/ \E n \in DOMAIN sndBuff : sndBuff[n] = o
                                                 \/ \E w \in Workers : wk[w].d = o})
StopReturns == []<>(stop = "none" \/ Overcounted \/ InDispatcherStop)
=============================================================================
