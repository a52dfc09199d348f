----------------------------- MODULE TcpServer -----------------------------
(***************************************************************************)
(* CTcpServer (TcpServer.cpp): the life of accepted connections.  Worker   *)
(* threads run the dispatcher's callbacks on accept, read and write events *)
(* and on commands; application threads send, pause and disconnect; peers  *)
(* and the kernel do what they like.  An event of a socket is one-shot     *)
(* (EV_DISPATCH) and processed under csIo of its socket object; csSend is  *)
(* held inside single steps only.  The dispatcher is what IODispatcher     *)
(* shows of it: each command reaches some worker, taken in queue order.    *)
(* m_bfActiveSockets gives each connection an ID of its own (RingCache),   *)
(* so a connection and its ID are one here.                                *)
(***************************************************************************)
EXTENDS Integers, Sequences, FiniteSets

CONSTANTS
  Conns,      (* the connections peers make                                *)
  Objs,       (* the cells a TSocketObj may live in                        *)
  None,
  Workers, Apps,
  AppOps,     (* which calls the application makes                         *)
  MaxOps,     (* bound: how many                                           *)
  MaxIn,      (* bound: chunks a peer sends on one connection              *)
  Room,       (* packets the kernel's send buffer of a connection takes    *)
  MaxWrites,  (* MAX_CONTINUE_WRITES                                       *)
  PoolCap,    (* capacity of m_lsFreeSocket                                *)
  Stops       (* whether Stop() is called                                  *)

ASSUME OpsAssumption  == AppOps \subseteq {"send", "pause", "resume", "disconnect"}
ASSUME NoneAssumption == None \notin Objs \cup Conns \cup Workers
ASSUME BoundAssumption == MaxIn \in Nat /\ Room \in Nat

VARIABLES
  net,        (* per connection: [st, in, sent, eof, room, wire]           *)
  lsn,        (* the listening socket: [open, event]                       *)
  active,     (* m_bfActiveSockets: the object of each published ID        *)
  obj,        (* the TSocketObjs, with [at]: "new", "used", "pool", "gc"   *)
  cmds,       (* the dispatcher's commands: [type, c]                      *)
  wk,         (* each worker: [pc, o, c, ev, item, n, flag, back]          *)
  ap,         (* each application thread: [pc, o, c]                       *)
  ops,        (* calls made so far                                         *)
  stop,       (* [pc, ids]                                                 *)
  fired,      (* the notifications of each connection, in order            *)
  queued      (* how many packets Send accepted for each connection        *)

vars == <<net, lsn, active, obj, cmds, wk, ap, ops, stop, fired, queued>>

FreshObj == [valid |-> FALSE, conn |-> None, io |-> None, buf |-> <<>>,
             paused |-> FALSE, armed |-> {}, at |-> "new"]
IdleWk   == [pc |-> "idle", o |-> None, c |-> None, ev |-> "none",
             item |-> 0, n |-> 0, flag |-> "none", back |-> "idle"]
IdleAp   == [pc |-> "idle", o |-> None, c |-> None]

Init ==
  /\ net = [c \in Conns |-> [st |-> "new", in |-> 0, sent |-> 0, eof |-> FALSE,
                             room |-> Room, wire |-> <<>>]]
  /\ lsn = [open |-> TRUE, event |-> FALSE]
  /\ active = [c \in Conns |-> None]
  /\ obj  = [o \in Objs |-> FreshObj]
  /\ cmds = <<>>
  /\ wk = [w \in Workers |-> IdleWk] /\ ap = [a \in Apps |-> IdleAp]
  /\ ops = 0
  /\ stop = [pc |-> "running", ids |-> {}]
  /\ fired  = [c \in Conns |-> <<>>]
  /\ queued = [c \in Conns |-> 0]

WAt(w, p) == wk[w].pc = p
WGoto(w, p) == wk' = [wk EXCEPT ![w].pc = p]
Fire(c, e)  == fired' = [fired EXCEPT ![c] = Append(@, e)]
Pending(o)  == obj[o].buf # <<>>
IsOpen(c)   == c # None /\ net[c].st = "open"

(* AddFreeSocketObj(o, flag), then continue at back.                       *)
CloseObj(w, flag, back) ==
  wk' = [wk EXCEPT ![w].pc = "invalid", ![w].flag = flag, ![w].back = back]

(* (IsPending() ? EVFILT_WRITE : 0) | (IsPaused() ? 0 : EVFILT_READ) where *)
(* EVFILT_READ is -1 and EVFILT_WRITE is -2: the OR of both is -1.         *)
Filter(o) == IF ~obj[o].paused THEN {"read"}
             ELSE IF Pending(o) THEN {"write"} ELSE {}
Rearm(o) == IF IsOpen(obj[o].conn) THEN obj[o].armed \cup Filter(o)
                                   ELSE obj[o].armed

-----------------------------------------------------------------------------
(* The peers and the kernel.                                               *)
Connect(c) ==
  /\ net[c].st = "new" /\ lsn.open
  /\ net' = [net EXCEPT ![c].st = "backlog"]
  /\ lsn' = [lsn EXCEPT !.event = TRUE]
  /\ UNCHANGED <<active, obj, cmds, wk, ap, ops, stop, fired, queued>>

PeerSend(c) ==
  /\ net[c].st = "open" /\ net[c].sent < MaxIn /\ ~net[c].eof
  /\ net' = [net EXCEPT ![c].in = @ + 1, ![c].sent = @ + 1]
  /\ UNCHANGED <<lsn, active, obj, cmds, wk, ap, ops, stop, fired, queued>>

PeerClose(c) ==
  /\ net[c].st = "open" /\ ~net[c].eof
  /\ net' = [net EXCEPT ![c].eof = TRUE]
  /\ UNCHANGED <<lsn, active, obj, cmds, wk, ap, ops, stop, fired, queued>>

PeerRead(c) ==
  /\ net[c].st = "open" /\ net[c].room < Room
  /\ net' = [net EXCEPT ![c].room = @ + 1]
  /\ UNCHANGED <<lsn, active, obj, cmds, wk, ap, ops, stop, fired, queued>>

Ready(c, e) == \/ e = "read"  /\ (net[c].in > 0 \/ net[c].eof)
               \/ e = "write" /\ (net[c].room > 0 \/ net[c].eof)

-----------------------------------------------------------------------------
(* HandleAccept: the listening socket is EV_CLEAR, its worker accepts      *)
(* until nothing is left.                                                  *)
TakeListen(w) ==
  /\ WAt(w, "idle") /\ lsn.event
  /\ lsn' = [lsn EXCEPT !.event = FALSE]
  /\ WGoto(w, "accept")
  /\ UNCHANGED <<net, active, obj, cmds, ap, ops, stop, fired, queued>>

(* An object released before m_dwFreeSocketObjLockTime is one no thread    *)
(* still has a pointer to.                                                 *)
Settled(o) == /\ \A w \in Workers : wk[w].o # o
              /\ \A a \in Apps : ap[a].o # o

(* accept, AcquireLock, GetFreeSocketObj: a pooled object that is old      *)
(* enough, else a new one; TSocketObj::Reset.                              *)
Usable(o) == \/ obj[o].at = "pool" /\ Settled(o)
             \/ obj[o].at = "new"

Accept(w) ==
  /\ WAt(w, "accept")
  /\ IF lsn.open /\ \E c \in Conns : net[c].st = "backlog"
     THEN \E c \in {d \in Conns : net[d].st = "backlog"}, o \in {p \in Objs : Usable(p)} :
            /\ net' = [net EXCEPT ![c].st = "open"]
            /\ obj' = [obj EXCEPT ![o] = [@ EXCEPT !.conn = c, !.valid = TRUE,
                                          !.paused = FALSE, !.at = "used"]]
            /\ wk'  = [wk EXCEPT ![w].pc = "publish", ![w].o = o, ![w].c = c]
     ELSE wk' = [wk EXCEPT ![w] = IdleWk] /\ UNCHANGED <<net, obj>>
  /\ UNCHANGED <<lsn, active, cmds, ap, ops, stop, fired, queued>>

(* AddClientSocketObj: from here on every thread may find the connection.  *)
Publish(w) ==
  /\ WAt(w, "publish")
  /\ active' = [active EXCEPT ![wk[w].c] = wk[w].o]
  /\ WGoto(w, "on_accept")
  /\ UNCHANGED <<net, lsn, obj, cmds, ap, ops, stop, fired, queued>>

(* FireAccept: OnAccept, and unless it refuses OnHandShake; either may     *)
(* answer HR_ERROR.                                                        *)
OnAccept(w) ==
  /\ WAt(w, "on_accept")
  /\ \/ Fire(wk[w].c, "accept") /\ WGoto(w, "on_shake")
     \/ Fire(wk[w].c, "refuse") /\ CloseObj(w, "none", "accept")
  /\ UNCHANGED <<net, lsn, active, obj, cmds, ap, ops, stop, queued>>

OnHandShake(w) ==
  /\ WAt(w, "on_shake")
  /\ \/ Fire(wk[w].c, "shake") /\ WGoto(w, "arm")
     \/ Fire(wk[w].c, "shake_error") /\ CloseObj(w, "none", "accept")
  /\ UNCHANGED <<net, lsn, active, obj, cmds, ap, ops, stop, queued>>

Arm(w) ==
  /\ WAt(w, "arm")
  /\ LET o == wk[w].o IN
       obj' = [obj EXCEPT ![o].armed = Rearm(o)]
  /\ wk' = [wk EXCEPT ![w].pc = "accept", ![w].o = None, ![w].c = None]
  /\ UNCHANGED <<net, lsn, active, cmds, ap, ops, stop, fired, queued>>

-----------------------------------------------------------------------------
(* An event of a socket; a command.                                        *)
TakeEvent(w) ==
  /\ WAt(w, "idle")
  /\ \E o \in Objs : \E e \in obj[o].armed :
       /\ IsOpen(obj[o].conn) /\ Ready(obj[o].conn, e)
       /\ obj' = [obj EXCEPT ![o].armed = @ \ {e}]
       /\ wk'  = [wk EXCEPT ![w].pc = "lock", ![w].o = o, ![w].ev = e]
  /\ UNCHANGED <<net, lsn, active, cmds, ap, ops, stop, fired, queued>>

(* OnCommand: find the object of the ID, test it, process it as an event.  *)
EventOf(type) == CASE type = "send" -> "write" [] type = "unpause" -> "read"
                   [] type = "disconnect" -> "user"

TakeCmd(w) ==
  /\ WAt(w, "idle") /\ cmds # <<>>
  /\ LET cmd == Head(cmds)
         o   == active[cmd.c] IN
     IF o # None /\ obj[o].valid /\ (cmd.type = "send" => Pending(o))
     THEN wk' = [wk EXCEPT ![w].pc = "lock", ![w].o = o, ![w].ev = EventOf(cmd.type)]
     ELSE UNCHANGED wk
  /\ cmds' = Tail(cmds)
  /\ UNCHANGED <<net, lsn, active, obj, ap, ops, stop, fired, queued>>

(* A bug to be caught: IsValid not asked again under csIo.                 *)
LockIoUnchecked(w) ==
  /\ WAt(w, "lock")
  /\ obj[wk[w].o].io = None
  /\ obj' = [obj EXCEPT ![wk[w].o].io = w]
  /\ WGoto(w, wk[w].ev)
  /\ UNCHANGED <<net, lsn, active, cmds, ap, ops, stop, fired, queued>>

(* OnBeforeProcessIo: take csIo of a valid object.                         *)
LockIo(w) ==
  /\ WAt(w, "lock")
  /\ LET o == wk[w].o IN
     IF obj[o].valid
     THEN /\ obj[o].io = None
          /\ obj' = [obj EXCEPT ![o].io = w]
          /\ WGoto(w, wk[w].ev)
     ELSE wk' = [wk EXCEPT ![w] = IdleWk] /\ UNCHANGED obj
  /\ UNCHANGED <<net, lsn, active, cmds, ap, ops, stop, fired, queued>>

(* HandleReceive: a pass of the loop; MAX_CONTINUE_READS may end it.       *)
Read(w) ==
  /\ WAt(w, "read")
  /\ LET o == wk[w].o
         c == obj[o].conn IN
     \/ /\ obj[o].paused \/ (net[c].in = 0 /\ ~net[c].eof)
        /\ WGoto(w, "after") /\ UNCHANGED <<net, fired>>
     \/ /\ ~obj[o].paused /\ net[c].in > 0
        /\ net' = [net EXCEPT ![c].in = @ - 1]
        /\ Fire(c, "receive")
        /\ WGoto(w, "read") \/ WGoto(w, "after") \/ CloseObj(w, "error", "after")
     \/ /\ ~obj[o].paused /\ net[c].in = 0 /\ net[c].eof
        /\ CloseObj(w, "close", "after") /\ UNCHANGED <<net, fired>>
  /\ UNCHANGED <<lsn, active, obj, cmds, ap, ops, stop, queued>>

(* HandleSend: at most MAX_CONTINUE_WRITES times pop a packet under csSend *)
(* and write it; put it back in front when the socket would block.         *)
PopItem(w) ==
  /\ WAt(w, "write")
  /\ LET o == wk[w].o IN
     IF Pending(o) /\ wk[w].n < MaxWrites
     THEN /\ obj' = [obj EXCEPT ![o].buf = Tail(@)]
          /\ wk'  = [wk EXCEPT ![w].pc = "send_item", ![w].item = Head(obj[o].buf)]
     ELSE WGoto(w, "after") /\ UNCHANGED obj
  /\ UNCHANGED <<net, lsn, active, cmds, ap, ops, stop, fired, queued>>

SendItem(w) ==
  /\ WAt(w, "send_item")
  /\ LET c == obj[wk[w].o].conn IN
     \/ /\ net[c].room > 0
        /\ net' = [net EXCEPT ![c].room = @ - 1, ![c].wire = Append(@, wk[w].item)]
        /\ wk'  = [wk EXCEPT ![w].pc = "write", ![w].item = 0, ![w].n = @ + 1]
     \/ /\ net[c].room = 0
        /\ WGoto(w, "push_front") /\ UNCHANGED net
     \/ /\ net[c].eof
        /\ CloseObj(w, "error", "after") /\ UNCHANGED net
  /\ UNCHANGED <<lsn, active, obj, cmds, ap, ops, stop, fired, queued>>

(* A bug to be caught: the blocked packet put back at the end.             *)
PushBack(w) ==
  /\ WAt(w, "push_front")
  /\ obj' = [obj EXCEPT ![wk[w].o].buf = Append(@, wk[w].item)]
  /\ wk'  = [wk EXCEPT ![w].pc = "after", ![w].item = 0]
  /\ UNCHANGED <<net, lsn, active, cmds, ap, ops, stop, fired, queued>>

PushFront(w) ==
  /\ WAt(w, "push_front")
  /\ obj' = [obj EXCEPT ![wk[w].o].buf = <<wk[w].item>> \o @]
  /\ wk'  = [wk EXCEPT ![w].pc = "after", ![w].item = 0]
  /\ UNCHANGED <<net, lsn, active, cmds, ap, ops, stop, fired, queued>>

(* OnHungUp, for a disconnect command.                                     *)
HungUp(w) ==
  /\ WAt(w, "user")
  /\ CloseObj(w, "close", "after")
  /\ UNCHANGED <<net, lsn, active, obj, cmds, ap, ops, stop, fired, queued>>

(* OnAfterProcessIo: arm the next event, release csIo.                     *)
After(w) ==
  /\ WAt(w, "after")
  /\ LET o == wk[w].o IN
       obj' = [obj EXCEPT ![o].armed = IF obj[o].valid THEN Rearm(o) ELSE @,
                          ![o].io = None]
  /\ wk' = [wk EXCEPT ![w] = IdleWk]
  /\ UNCHANGED <<net, lsn, active, cmds, ap, ops, stop, fired, queued>>

-----------------------------------------------------------------------------
(* AddFreeSocketObj.  InvalidSocketObj lets one caller through.            *)
Invalid(w) ==
  /\ WAt(w, "invalid")
  /\ LET o == wk[w].o IN
     IF obj[o].valid
     THEN /\ obj[o].io \in {None, w}
          /\ obj' = [obj EXCEPT ![o].valid = FALSE]
          /\ WGoto(w, "on_close")
     ELSE WGoto(w, wk[w].back) /\ UNCHANGED obj
  /\ UNCHANGED <<net, lsn, active, cmds, ap, ops, stop, fired, queued>>

(* CloseClientSocketObj: OnClose unless the flag is SCF_NONE, close().     *)
OnClose(w) ==
  /\ WAt(w, "on_close")
  /\ IF wk[w].flag = "none" THEN UNCHANGED fired ELSE Fire(obj[wk[w].o].conn, "close")
  /\ WGoto(w, "close")
  /\ UNCHANGED <<net, lsn, active, obj, cmds, ap, ops, stop, queued>>

(* A bug to be caught: the object pooled before its ID is removed.         *)
CloseSocketKeepId(w) ==
  /\ WAt(w, "close")
  /\ LET o == wk[w].o IN
       /\ net' = [net EXCEPT ![obj[o].conn].st = "closed"]
       /\ obj' = [obj EXCEPT ![o].armed = {}]
  /\ WGoto(w, "release")
  /\ UNCHANGED <<lsn, active, cmds, ap, ops, stop, fired, queued>>

CloseSocket(w) ==
  /\ WAt(w, "close")
  /\ LET o == wk[w].o IN
       /\ net' = [net EXCEPT ![obj[o].conn].st = "closed"]
       /\ obj' = [obj EXCEPT ![o].armed = {}]
  /\ WGoto(w, "remove")
  /\ UNCHANGED <<lsn, active, cmds, ap, ops, stop, fired, queued>>

Remove(w) ==
  /\ WAt(w, "remove")
  /\ active' = [active EXCEPT ![obj[wk[w].o].conn] = None]
  /\ WGoto(w, "release")
  /\ UNCHANGED <<net, lsn, obj, cmds, ap, ops, stop, fired, queued>>

(* Release the packets, destruct garbage that is old enough, and park the  *)
(* object in the pool or, when that is full, with the garbage.             *)
Release(w) ==
  /\ WAt(w, "release")
  /\ LET o == wk[w].o
         pooled == Cardinality({p \in Objs : obj[p].at = "pool"}) IN
     \E old \in SUBSET {p \in Objs : obj[p].at = "gc" /\ Settled(p)} :
       obj' = [p \in Objs |->
                 IF p = o THEN [obj[o] EXCEPT !.buf = <<>>,
                                  !.at = IF pooled < PoolCap THEN "pool" ELSE "gc"]
                 ELSE IF p \in old THEN FreshObj ELSE obj[p]]
  /\ wk' = [wk EXCEPT ![w].pc = wk[w].back, ![w].item = 0,
                      ![w].o = IF wk[w].back = "accept" THEN None ELSE @,
                      ![w].c = None]
  /\ UNCHANGED <<net, lsn, active, cmds, ap, ops, stop, fired, queued>>

-----------------------------------------------------------------------------
(* Calls of the application: FindSocketObj, then the call's own test.      *)
Find(a, op) ==
  /\ ap[a].pc = "idle" /\ ops < MaxOps /\ op \in AppOps
  /\ \E c \in Conns :
       /\ active[c] # None
       /\ ap' = [ap EXCEPT ![a] = [pc |-> op, o |-> active[c], c |-> c]]
  /\ ops' = ops + 1
  /\ UNCHANGED <<net, lsn, active, obj, cmds, wk, stop, fired, queued>>

Post(type, o) == cmds' = Append(cmds, [type |-> type, c |-> obj[o].conn])
Done(a)       == ap' = [ap EXCEPT ![a] = IdleAp]

(* A bug to be caught: Pending() asked after the packet was added.         *)
SendAskedLate(a) ==
  /\ ap[a].pc = "send"
  /\ LET o == ap[a].o
         c == obj[o].conn IN
     IF obj[o].valid
     THEN /\ queued' = [queued EXCEPT ![c] = @ + 1]
          /\ obj' = [obj EXCEPT ![o].buf = Append(@, queued[c] + 1)]
     ELSE UNCHANGED <<queued, obj>>
  /\ Done(a)
  /\ UNCHANGED <<net, lsn, active, cmds, wk, ops, stop, fired>>

(* DoSendPackets, SendInternal: under csSend.  Only a send that finds      *)
(* nothing pending posts a command.                                        *)
Send(a) ==
  /\ ap[a].pc = "send"
  /\ LET o == ap[a].o
         c == obj[o].conn IN
     IF obj[o].valid
     THEN /\ queued' = [queued EXCEPT ![c] = @ + 1]
          /\ obj' = [obj EXCEPT ![o].buf = Append(@, queued[c] + 1)]
          /\ IF Pending(o) THEN UNCHANGED cmds ELSE Post("send", o)
     ELSE UNCHANGED <<queued, obj, cmds>>
  /\ Done(a)
  /\ UNCHANGED <<net, lsn, active, wk, ops, stop, fired>>

Disconnect(a) ==
  /\ ap[a].pc = "disconnect"
  /\ IF obj[ap[a].o].valid
     THEN cmds' = Append(cmds, [type |-> "disconnect", c |-> ap[a].c])
     ELSE UNCHANGED cmds
  /\ Done(a)
  /\ UNCHANGED <<net, lsn, active, obj, wk, ops, stop, fired, queued>>

(* A bug to be caught: the end of a pause not announced.                   *)
PauseOnly(a) ==
  /\ ap[a].pc \in {"pause", "resume"}
  /\ LET o == ap[a].o IN
       obj' = IF obj[o].valid THEN [obj EXCEPT ![o].paused = ap[a].pc = "pause"] ELSE obj
  /\ Done(a)
  /\ UNCHANGED <<net, lsn, active, cmds, wk, ops, stop, fired, queued>>

PauseReceive(a) ==
  /\ ap[a].pc \in {"pause", "resume"}
  /\ LET o == ap[a].o
         p == ap[a].pc = "pause" IN
     IF obj[o].valid /\ obj[o].paused # p
     THEN /\ obj' = [obj EXCEPT ![o].paused = p]
          /\ IF p THEN Done(a) ELSE ap' = [ap EXCEPT ![a].pc = "post"]
     ELSE Done(a) /\ UNCHANGED obj
  /\ UNCHANGED <<net, lsn, active, cmds, wk, ops, stop, fired, queued>>

PostUnpause(a) ==
  /\ ap[a].pc = "post"
  /\ Post("unpause", ap[a].o)
  /\ Done(a)
  /\ UNCHANGED <<net, lsn, active, obj, wk, ops, stop, fired, queued>>

-----------------------------------------------------------------------------
(* Stop(): close the listening socket and sleep 100 ms, disconnect the     *)
(* connections there are, wait until none is left, end the workers.        *)
CloseListen ==
  /\ Stops /\ stop.pc = "running"
  /\ stop' = [stop EXCEPT !.pc = "snapshot"]
  /\ lsn'  = [open |-> FALSE, event |-> FALSE]
  /\ UNCHANGED <<net, active, obj, cmds, wk, ap, ops, fired, queued>>

(* A bug to be caught: no pause after the listening socket is closed.      *)
SnapshotAtOnce ==
  /\ stop.pc = "snapshot"
  /\ stop' = [pc |-> "disconnect", ids |-> {c \in Conns : active[c] # None}]
  /\ UNCHANGED <<net, lsn, active, obj, cmds, wk, ap, ops, fired, queued>>

(* The sleep is taken to outlast the steps from accept() to Publish.       *)
Snapshot ==
  /\ stop.pc = "snapshot"
  /\ \A w \in Workers : ~WAt(w, "publish")
  /\ stop' = [pc |-> "disconnect", ids |-> {c \in Conns : active[c] # None}]
  /\ UNCHANGED <<net, lsn, active, obj, cmds, wk, ap, ops, fired, queued>>

DisconnectOne ==
  /\ stop.pc = "disconnect"
  /\ IF stop.ids = {}
     THEN stop' = [stop EXCEPT !.pc = "wait"] /\ UNCHANGED cmds
     ELSE \E c \in stop.ids :
            /\ stop' = [stop EXCEPT !.ids = @ \ {c}]
            /\ IF active[c] # None /\ obj[active[c]].valid
               THEN cmds' = Append(cmds, [type |-> "disconnect", c |-> c])
               ELSE UNCHANGED cmds
  /\ UNCHANGED <<net, lsn, active, obj, wk, ap, ops, fired, queued>>

WaitClosed ==
  /\ stop.pc = "wait"
  /\ \A c \in Conns : active[c] = None
  /\ stop' = [stop EXCEPT !.pc = "join"]
  /\ UNCHANGED <<net, lsn, active, obj, cmds, wk, ap, ops, fired, queued>>

(* m_ioDispatcher.Stop(), which may join a worker for ever (IODispatcher): *)
(* the step is possible and not promised.                                  *)
WaitWorkers ==
  /\ stop.pc = "join"
  /\ \A w \in Workers : WAt(w, "idle")
  /\ stop' = [stop EXCEPT !.pc = "stopped"] /\ cmds' = <<>>
  /\ UNCHANGED <<net, lsn, active, obj, wk, ap, ops, fired, queued>>

StopSteps == Snapshot \/ DisconnectOne \/ WaitClosed \/ WaitWorkers

-----------------------------------------------------------------------------
Work(w) ==
  \/ TakeListen(w) \/ Accept(w) \/ Publish(w) \/ OnAccept(w) \/ OnHandShake(w)
  \/ Arm(w) \/ TakeEvent(w) \/ TakeCmd(w) \/ LockIo(w) \/ Read(w) \/ PopItem(w)
  \/ SendItem(w) \/ PushFront(w) \/ HungUp(w) \/ After(w)
  \/ Invalid(w) \/ OnClose(w) \/ CloseSocket(w) \/ Remove(w) \/ Release(w)

Call(a) == Send(a) \/ Disconnect(a) \/ PauseReceive(a) \/ PostUnpause(a)

Peer(c) == Connect(c) \/ PeerSend(c) \/ PeerClose(c) \/ PeerRead(c)

Next ==
  \/ stop.pc # "stopped" /\ \E w \in Workers : Work(w)
  \/ \E a \in Apps : Call(a) \/ \E op \in AppOps : Find(a, op)
  \/ \E c \in Conns : Peer(c)
  \/ CloseListen \/ StopSteps

(* Threads inside a call and workers with something to do are scheduled,   *)
(* handlers return, peers read what they are sent.  Nothing is asked of    *)
(* WaitWorkers.                                                            *)
Fairness ==
  /\ \A w \in Workers : WF_vars(stop.pc # "stopped" /\ Work(w))
  /\ \A a \in Apps : WF_vars(Call(a))
  /\ \A c \in Conns : WF_vars(PeerRead(c))
  /\ WF_vars(Snapshot \/ DisconnectOne \/ WaitClosed)

Spec == Init /\ [][Next]_vars /\ Fairness

-----------------------------------------------------------------------------
(* The types of the connections, the objects and the threads' locals.      *)
WPc == {"idle", "accept", "publish", "on_accept", "on_shake", "arm", "lock",
        "read", "write", "send_item", "push_front", "user", "after", "invalid",
        "on_close", "close", "remove", "release"}
TypeOK ==
  /\ \A c \in Conns : /\ net[c].st \in {"new", "backlog", "open", "closed"}
                      /\ net[c].in \in 0 .. MaxIn /\ net[c].room \in 0 .. Room
  /\ active \in [Conns -> Objs \cup {None}]
  /\ \A o \in Objs : /\ obj[o].conn \in Conns \cup {None}
                     /\ obj[o].io \in Workers \cup {None}
                     /\ obj[o].armed \subseteq {"read", "write"}
                     /\ obj[o].at \in {"new", "used", "pool", "gc"}
  /\ \A w \in Workers : wk[w].pc \in WPc /\ wk[w].o \in Objs \cup {None}
  /\ \A i \in DOMAIN cmds : cmds[i].c \in Conns

Count(c, e) == Cardinality({i \in DOMAIN fired[c] : fired[c][i] = e})

(* A published connection has an object of its own, which no pool holds    *)
(* and whose socket is still its own until the closer closed it.           *)
OwnObject ==
  \A c \in Conns : active[c] # None =>
    /\ obj[active[c]].conn = c /\ obj[active[c]].at = "used"
    /\ obj[active[c]].valid => net[c].st = "open"

(* OnClose comes at most once, and no OnReceive of the connection after    *)
(* it, whichever threads close it and read from it at the same time.       *)
CloseIsLast ==
  \A c \in Conns :
    /\ Count(c, "close") <= 1
    /\ \A i, j \in DOMAIN fired[c] :
         fired[c][i] = "close" /\ fired[c][j] = "receive" => j < i

(* A connection that the application accepted and that is gone has had its *)
(* OnClose, unless OnHandShake failed.                                     *)
GoneWasClosed ==
  \A c \in Conns :
    net[c].st = "closed" /\ Count(c, "shake") = 1 => Count(c, "close") = 1

(* Reading never stops by itself: a valid connection nobody processes and  *)
(* that is not paused has its read event armed, or a command that will arm *)
(* it.                                                                     *)
Handled(o)  == \/ \E w \in Workers : wk[w].o = o
               \/ \E a \in Apps : ap[a].o = o
               \/ \E i \in DOMAIN cmds : active[cmds[i].c] = o
ReadIsArmed ==
  \A o \in Objs :
    obj[o].valid /\ ~obj[o].paused /\ ~Handled(o) => "read" \in obj[o].armed

(* What reaches the socket is what Send accepted, in that order, without a *)
(* gap, whoever writes it and however often the socket blocks.             *)
SentInOrder ==
  \A c \in Conns :
    /\ Len(net[c].wire) <= queued[c]
    /\ \A i \in DOMAIN net[c].wire : net[c].wire[i] = i

(* What Send accepted is sent, unless the connection is closed.            *)
SentReachesWire ==
  []<>(\A c \in Conns : queued[c] = Len(net[c].wire) \/ net[c].st = "closed")

(* Stop() closes every connection and returns, but for the join of         *)
(* m_ioDispatcher.Stop(): it may end there for good, with nothing else     *)
(* left, no connection, no command and no worker in a handler.             *)
InDispatcherStop == /\ stop.pc = "join" /\ cmds = <<>>
                    /\ \A c \in Conns : active[c] = None
                    /\ \A w \in Workers : WAt(w, "idle")
StopReturns == []<>(stop.pc \in {"running", "stopped"} \/ InDispatcherStop)

(* OnHandShake: only when the listener got it may data be received.        *)
HandShakeFirst ==
  \A c \in Conns : \A i \in DOMAIN fired[c] :
    fired[c][i] = "receive" =>
      \E j \in 1 .. i : fired[c][j] \in {"shake", "shake_error"}

(* OnHandShake answering HR_ERROR causes OnClose.                          *)
HandShakeErrorCloses ==
  \A c \in Conns :
    net[c].st = "closed" /\ Count(c, "shake_error") = 1 => Count(c, "close") = 1
=============================================================================
