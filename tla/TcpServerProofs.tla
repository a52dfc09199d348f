--------------------------- MODULE TcpServerProofs ---------------------------
(***************************************************************************)
(* Proofs about TcpServer, for every number of workers, application        *)
(* threads, connections and objects: a published connection has an object  *)
(* of its own, its OnClose comes once and last, what Send accepted goes    *)
(* out in order, reading stays armed.  The invariant has seven layers, from*)
(* the types to the state of Stop(); for every action there is a lemma that*)
(* it preserves them all.                                                  *)
(***************************************************************************)
EXTENDS TcpServer, FiniteSetTheorems, SequenceTheorems, TLAPS

(* The invariant, layer by layer.                                          *)
NetStates == {"new", "backlog", "open", "closed"}
Events    == {"accept", "refuse", "shake", "shake_error", "receive", "close"}
Accepting == {"publish", "on_accept", "on_shake", "arm"}
Closing   == {"on_close", "close", "remove", "release"}
Working   == {"read", "write", "send_item", "push_front", "user"}

(* 1. Types.                                                               *)
NetType == [st : NetStates, in : Nat, sent : Nat, eof : BOOLEAN, room : Nat, wire : Seq(Nat)]
ObjType == [valid : BOOLEAN, conn : Conns \cup {None}, io : Workers \cup {None},
            buf : Seq(Nat), paused : BOOLEAN, armed : SUBSET {"read", "write"},
            at : {"new", "used", "pool", "gc"}]
WkType  == [pc : WPc, o : Objs \cup {None}, c : Conns \cup {None},
            ev : {"none", "read", "write", "user"}, item : Nat, n : Nat,
            flag : {"none", "error", "close"}, back : {"idle", "accept", "after"}]
ApType  == [pc : AppOps \cup {"idle", "post"}, o : Objs \cup {None}, c : Conns \cup {None}]
CmdType == [type : {"send", "unpause", "disconnect"}, c : Conns]
StopType == [pc : {"running", "snapshot", "disconnect", "wait", "join", "stopped"}, ids : SUBSET Conns]
Types ==
  /\ net \in [Conns -> NetType] /\ lsn \in [open : BOOLEAN, event : BOOLEAN]
  /\ active \in [Conns -> Objs \cup {None}] /\ obj \in [Objs -> ObjType]
  /\ cmds \in Seq(CmdType)
  /\ wk \in [Workers -> WkType] /\ ap \in [Apps -> ApType]
  /\ stop \in StopType
  /\ fired \in [Conns -> Seq(Events)] /\ queued \in [Conns -> Nat]

(* 2. Who holds which object.  A thread's object keeps its connection: an  *)
(* object is used again only when no thread has a pointer to it.           *)
InAccept(w) == \/ wk[w].pc \in Accepting
               \/ wk[w].pc \in Closing \cup {"invalid"} /\ wk[w].back = "accept"
WorkersHold ==
  \A w \in Workers :
    /\ WAt(w, "idle") => wk[w].o = None /\ wk[w].n = 0
    /\ wk[w].pc \notin {"idle", "accept"} => wk[w].o \in Objs
    /\ WAt(w, "lock") => wk[w].ev # "none"
    /\ wk[w].pc \in Closing \cup {"invalid"} => wk[w].back # "idle"
    /\ InAccept(w) => wk[w].c \in Conns /\ obj[wk[w].o].conn = wk[w].c
AppsHold ==
  \A a \in Apps :
    ap[a].pc # "idle" => ap[a].o \in Objs /\ ap[a].c \in Conns /\ obj[ap[a].o].conn = ap[a].c
ConnsApart ==
  /\ \A o \in Objs : obj[o].conn # None => net[obj[o].conn].st \in {"open", "closed"}
  /\ \A o, p \in Objs : obj[o].conn # None /\ obj[o].conn = obj[p].conn => o = p
NewIsFresh == \A o \in Objs : obj[o].at = "new" => obj[o] = FreshObj /\ Settled(o)
Held == WorkersHold /\ AppsHold /\ ConnsApart /\ NewIsFresh

(* 3. The life of an object.                                               *)
Publishing ==
  \A w \in Workers : WAt(w, "publish") =>
    /\ obj[wk[w].o].valid /\ active[wk[w].c] = None
    /\ \A v \in Workers : v # w => wk[v].o # wk[w].o
    /\ \A a \in Apps : ap[a].o # wk[w].o
Valid ==
  \A o \in Objs : obj[o].valid =>
    /\ obj[o].at = "used" /\ obj[o].conn \in Conns /\ net[obj[o].conn].st = "open"
    /\ active[obj[o].conn] = o \/ \E w \in Workers : WAt(w, "publish") /\ wk[w].o = o
Unarmed ==
  /\ \A o \in Objs : obj[o].conn # None /\ net[obj[o].conn].st = "closed" => obj[o].armed = {}
  /\ \A w \in Workers : WAt(w, "publish") => obj[wk[w].o].armed = {}
Parked ==
  \A o \in Objs : obj[o].at \in {"pool", "gc"} =>
    /\ ~obj[o].valid /\ obj[o].conn \in Conns /\ net[obj[o].conn].st = "closed"
    /\ obj[o].buf = <<>>
Published ==
  \A c \in Conns : active[c] # None => obj[active[c]].conn = c /\ obj[active[c]].at = "used"
ClosingOne ==
  /\ \A w \in Workers : wk[w].pc \in Closing =>
       LET o == wk[w].o IN
       /\ ~obj[o].valid /\ obj[o].at = "used" /\ obj[o].conn \in Conns
       /\ wk[w].pc \in {"on_close", "close"} => net[obj[o].conn].st = "open"
       /\ wk[w].pc \in {"remove", "release"} => net[obj[o].conn].st = "closed"
       /\ active[obj[o].conn] = IF WAt(w, "release") THEN None ELSE o
  /\ \A v, w \in Workers :
       wk[v].pc \in Closing /\ wk[w].pc \in Closing /\ wk[v].o = wk[w].o => v = w
UnderIo ==
  \A w \in Workers :
    /\ wk[w].pc \in Working => obj[wk[w].o].valid /\ obj[wk[w].o].io = w
    /\ WAt(w, "invalid") /\ wk[w].back = "after" => obj[wk[w].o].valid /\ obj[wk[w].o].io = w
    /\ wk[w].pc \in Closing /\ wk[w].back = "after" => obj[wk[w].o].io = w
    /\ WAt(w, "after") => obj[wk[w].o].io = w
Life == Publishing /\ Valid /\ Unarmed /\ Parked /\ Published /\ ClosingOne /\ UnderIo

(* 4. The notifications.                                                   *)
Has(c, e) == \E i \in 1 .. Len(fired[c]) : fired[c][i] = e
NotBegun ==
  \A c \in Conns : net[c].st \in {"new", "backlog"} =>
    fired[c] = <<>> /\ queued[c] = 0 /\ net[c].wire = <<>>
CloseOnce ==
  \A c \in Conns :
    \A i, j \in 1 .. Len(fired[c]) :
      fired[c][i] = "close" => /\ fired[c][j] = "close" => i = j
                               /\ fired[c][j] = "receive" => j < i
CloseToCome ==
  /\ \A o \in Objs : obj[o].valid => ~Has(obj[o].conn, "close")
  /\ \A w \in Workers : WAt(w, "on_close") => ~Has(obj[wk[w].o].conn, "close")
Unaccepted(c) ==
  /\ ~Has(c, "shake")
  /\ \A w \in Workers : wk[w].c = c => wk[w].pc \notin {"publish", "on_accept", "on_shake"}
OneAccepts ==
  \A v, w \in Workers : InAccept(v) /\ InAccept(w) /\ wk[v].c = wk[w].c => v = w
ToldOrUnaccepted ==
  /\ \A w \in Workers :
       /\ wk[w].pc \in {"publish", "on_accept", "on_shake"} => ~Has(wk[w].c, "shake")
       /\ wk[w].pc \in Closing \cup {"invalid"} =>
            IF wk[w].flag = "none" THEN wk[w].back = "accept" /\ Unaccepted(wk[w].c)
            ELSE WAt(w, "close") => Has(obj[wk[w].o].conn, "close")
  /\ \A c \in Conns : net[c].st = "closed" => Has(c, "close") \/ Unaccepted(c)
Told == NotBegun /\ CloseOnce /\ CloseToCome /\ OneAccepts /\ ToldOrUnaccepted

(* 5. The packets: on the wire, in a worker's hands, in the buffer.        *)
Holds(w, o) == wk[w].item # 0 /\ wk[w].o = o
InHand(o)   == IF \E w \in Workers : Holds(w, o) THEN 1 ELSE 0
Out(o)      == Len(net[obj[o].conn].wire) + InHand(o)
OnWire ==
  \A c \in Conns : /\ Len(net[c].wire) <= queued[c]
                   /\ \A i \in 1 .. Len(net[c].wire) : net[c].wire[i] = i
BufferedAt(o) ==
  /\ obj[o].at = "new" => obj[o].buf = <<>>
  /\ obj[o].valid =>
       /\ queued[obj[o].conn] = Out(o) + Len(obj[o].buf)
       /\ \A i \in 1 .. Len(obj[o].buf) : obj[o].buf[i] = Out(o) + i
Buffered == \A o \in Objs : BufferedAt(o)
ItemNext ==
  \A w \in Workers :
    /\ wk[w].pc \in {"send_item", "push_front"} =>
         wk[w].item = Len(net[obj[wk[w].o].conn].wire) + 1
    /\ wk[w].item # 0 => \/ wk[w].pc \in {"send_item", "push_front"}
                         \/ wk[w].pc \in Closing \cup {"invalid"} /\ wk[w].back = "after"
Ordered == OnWire /\ Buffered /\ ItemNext

(* 6. Reading: somebody who will arm the event, or it is armed.            *)
Arming(o) ==
  \/ \E w \in Workers : wk[w].o = o
  \/ \E a \in Apps : ap[a].pc = "post" /\ ap[a].o = o
  \/ \E i \in 1 .. Len(cmds) : cmds[i].type = "unpause" /\ cmds[i].c = obj[o].conn
StaysArmed ==
  /\ \A o \in Objs : obj[o].valid /\ ~obj[o].paused /\ ~Arming(o) => "read" \in obj[o].armed
  /\ \A w \in Workers : WAt(w, "accept") /\ wk[w].o # None => ~obj[wk[w].o].valid

InBounds ==
  \A c \in Conns : net[c].in <= net[c].sent /\ net[c].sent <= MaxIn /\ net[c].room <= Room

(* 7. Stop(): nothing is published once the listening socket is closed and *)
(* the pause is over, nothing is left when the workers are waited for.     *)
StopOrder ==
  /\ stop.pc # "running" => ~lsn.open
  /\ stop.pc \notin {"running", "snapshot"} => \A w \in Workers : ~WAt(w, "publish")
  /\ stop.pc \in {"join", "stopped"} => \A c \in Conns : active[c] = None

IInv == Types /\ InBounds /\ Held /\ Life /\ Told /\ Ordered /\ StaysArmed

-----------------------------------------------------------------------------
(* What an assignment to a field leaves as it was.                         *)
WkOthers(w) == wk' \in [Workers -> WkType] /\ \A v \in Workers : v # w => wk'[v] = wk[v]
WkKeeps(w)  == /\ wk'[w].o = wk[w].o /\ wk'[w].c = wk[w].c /\ wk'[w].ev = wk[w].ev
               /\ wk'[w].item = wk[w].item /\ wk'[w].n = wk[w].n

(* A worker goes on.                                                       *)
LEMMA WkPc ==
  ASSUME Types, NEW w \in Workers, NEW p \in WPc, wk' = [wk EXCEPT ![w].pc = p]
  PROVE  /\ WkOthers(w) /\ WkKeeps(w) /\ wk'[w].pc = p
         /\ wk'[w].flag = wk[w].flag /\ wk'[w].back = wk[w].back
<1>1. wk[w] \in WkType
  BY DEF Types
<1>2. [wk[w] EXCEPT !.pc = p] \in WkType
  BY <1>1 DEF WkType
<1>3. wk'[w] = [wk[w] EXCEPT !.pc = p] /\ \A v \in Workers : v # w => wk'[v] = wk[v]
  BY DEF Types
<1>4. wk' \in [Workers -> WkType]
  BY <1>2 DEF Types
<1> QED BY <1>1, <1>3, <1>4 DEF WkType, WkOthers, WkKeeps

(* A worker goes on to close its object.                                   *)
LEMMA WkCloses ==
  ASSUME Types, NEW w \in Workers, NEW flag \in {"none", "error", "close"},
         NEW back \in {"accept", "after"}, CloseObj(w, flag, back)
  PROVE  /\ WkOthers(w) /\ WkKeeps(w) /\ wk'[w].pc = "invalid"
         /\ wk'[w].flag = flag /\ wk'[w].back = back
<1>1. wk[w] \in WkType
  BY DEF Types
<1>2. [wk[w] EXCEPT !.pc = "invalid", !.flag = flag, !.back = back] \in WkType
  BY ZenonT(30), <1>1 DEF WkType, WPc
<1>3. /\ wk'[w] = [wk[w] EXCEPT !.pc = "invalid", !.flag = flag, !.back = back]
      /\ \A v \in Workers : v # w => wk'[v] = wk[v]
  BY DEF Types, CloseObj
<1>4. wk' \in [Workers -> WkType]
  BY <1>2 DEF Types, CloseObj
<1> QED BY <1>1, <1>3, <1>4 DEF WkType, WkOthers, WkKeeps

(* A worker returns to the dispatcher.                                     *)
LEMMA WkIdle ==
  ASSUME Types, NEW w \in Workers, wk' = [wk EXCEPT ![w] = IdleWk]
  PROVE  /\ WkOthers(w) /\ wk'[w] = IdleWk
         /\ wk'[w].pc = "idle" /\ wk'[w].o = None /\ wk'[w].c = None /\ wk'[w].n = 0
         /\ wk'[w].item = 0
<1>1. IdleWk \in WkType
  BY DEF WkType, IdleWk, WPc
<1>2. wk' \in [Workers -> WkType]
  BY <1>1 DEF Types
<1> QED BY <1>2 DEF Types, WkOthers, IdleWk

(* A worker takes a packet in hand, or gives it away, and goes on.         *)
LEMMA WkItem ==
  ASSUME Types, NEW w \in Workers, NEW p \in WPc, NEW x \in Nat,
         wk' = [wk EXCEPT ![w].pc = p, ![w].item = x]
  PROVE  /\ WkOthers(w) /\ wk'[w].pc = p /\ wk'[w].item = x
         /\ wk'[w].o = wk[w].o /\ wk'[w].c = wk[w].c
<1>1. wk[w] \in WkType
  BY DEF Types
<1>2. [wk[w] EXCEPT !.pc = p, !.item = x] \in WkType
  BY Zenon, <1>1 DEF WkType
<1>3. /\ wk'[w] = [wk[w] EXCEPT !.pc = p, !.item = x]
      /\ \A v \in Workers : v # w => wk'[v] = wk[v]
  BY DEF Types
<1>4. wk' \in [Workers -> WkType]
  BY <1>2 DEF Types
<1> QED BY <1>1, <1>3, <1>4 DEF WkType, WkOthers

LEMMA WkSent ==
  ASSUME Types, NEW w \in Workers,
         wk' = [wk EXCEPT ![w].pc = "write", ![w].item = 0, ![w].n = @ + 1]
  PROVE  /\ WkOthers(w) /\ wk'[w].pc = "write" /\ wk'[w].item = 0
         /\ wk'[w].o = wk[w].o /\ wk'[w].c = wk[w].c
<1>1. wk[w] \in WkType
  BY DEF Types
<1>2. [wk[w] EXCEPT !.pc = "write", !.item = 0, !.n = @ + 1] \in WkType
  <2>1. wk[w].n + 1 \in Nat /\ "write" \in WPc
    BY <1>1 DEF WkType, WPc
  <2> QED BY Zenon, <1>1, <2>1 DEF WkType
<1>3. /\ wk'[w] = [wk[w] EXCEPT !.pc = "write", !.item = 0, !.n = @ + 1]
      /\ \A v \in Workers : v # w => wk'[v] = wk[v]
  BY DEF Types
<1>4. wk' \in [Workers -> WkType]
  BY <1>2 DEF Types
<1> QED BY <1>1, <1>3, <1>4 DEF WkType, WkOthers

(* A worker lets go of the connection it accepted.                         *)
LEMMA WkLeaves ==
  ASSUME Types, NEW w \in Workers,
         wk' = [wk EXCEPT ![w].pc = "accept", ![w].o = None, ![w].c = None]
  PROVE  /\ WkOthers(w) /\ wk'[w].pc = "accept" /\ wk'[w].o = None /\ wk'[w].c = None
         /\ wk'[w].item = wk[w].item
<1>1. wk[w] \in WkType
  BY DEF Types
<1>2. [wk[w] EXCEPT !.pc = "accept", !.o = None, !.c = None] \in WkType
  BY Zenon, <1>1 DEF WkType, WPc
<1>3. /\ wk'[w] = [wk[w] EXCEPT !.pc = "accept", !.o = None, !.c = None]
      /\ \A v \in Workers : v # w => wk'[v] = wk[v]
  BY DEF Types
<1>4. wk' \in [Workers -> WkType]
  BY <1>2 DEF Types
<1> QED BY <1>1, <1>3, <1>4 DEF WkType, WkOthers

(* A field of an object is written, under a lock or by the dispatcher.     *)
ObjOthers(o) == obj' \in [Objs -> ObjType] /\ \A p \in Objs : p # o => obj'[p] = obj[p]

LEMMA ObjValid ==
  ASSUME Types, NEW o \in Objs, NEW x \in BOOLEAN, obj' = [obj EXCEPT ![o].valid = x]
  PROVE  /\ ObjOthers(o) /\ obj'[o].valid = x
         /\ obj'[o].conn = obj[o].conn /\ obj'[o].io = obj[o].io /\ obj'[o].buf = obj[o].buf
         /\ obj'[o].paused = obj[o].paused /\ obj'[o].armed = obj[o].armed /\ obj'[o].at = obj[o].at
<1>1. obj[o] \in ObjType
  BY DEF Types
<1>2. [obj[o] EXCEPT !.valid = x] \in ObjType
  BY Zenon, <1>1 DEF ObjType
<1>3. obj'[o] = [obj[o] EXCEPT !.valid = x] /\ \A p \in Objs : p # o => obj'[p] = obj[p]
  BY DEF Types
<1>4. obj' \in [Objs -> ObjType]
  BY <1>2 DEF Types
<1> QED BY Zenon, <1>1, <1>3, <1>4 DEF ObjType, ObjOthers

LEMMA ObjIo ==
  ASSUME Types, NEW o \in Objs, NEW x \in Workers \cup {None}, obj' = [obj EXCEPT ![o].io = x]
  PROVE  /\ ObjOthers(o) /\ obj'[o].io = x
         /\ obj'[o].valid = obj[o].valid /\ obj'[o].conn = obj[o].conn /\ obj'[o].buf = obj[o].buf
         /\ obj'[o].paused = obj[o].paused /\ obj'[o].armed = obj[o].armed /\ obj'[o].at = obj[o].at
<1>1. obj[o] \in ObjType
  BY DEF Types
<1>2. [obj[o] EXCEPT !.io = x] \in ObjType
  BY <1>1 DEF ObjType
<1>3. obj'[o] = [obj[o] EXCEPT !.io = x] /\ \A p \in Objs : p # o => obj'[p] = obj[p]
  BY DEF Types
<1>4. obj' \in [Objs -> ObjType]
  BY <1>2 DEF Types
<1> QED BY Zenon, <1>1, <1>3, <1>4 DEF ObjType, ObjOthers

LEMMA ObjBuf ==
  ASSUME Types, NEW o \in Objs, NEW x \in Seq(Nat), obj' = [obj EXCEPT ![o].buf = x]
  PROVE  /\ ObjOthers(o) /\ obj'[o].buf = x
         /\ obj'[o].valid = obj[o].valid /\ obj'[o].conn = obj[o].conn /\ obj'[o].io = obj[o].io
         /\ obj'[o].paused = obj[o].paused /\ obj'[o].armed = obj[o].armed /\ obj'[o].at = obj[o].at
<1>1. obj[o] \in ObjType
  BY DEF Types
<1>2. [obj[o] EXCEPT !.buf = x] \in ObjType
  BY Zenon, <1>1 DEF ObjType
<1>3. obj'[o] = [obj[o] EXCEPT !.buf = x] /\ \A p \in Objs : p # o => obj'[p] = obj[p]
  BY DEF Types
<1>4. obj' \in [Objs -> ObjType]
  BY <1>2 DEF Types
<1> QED BY Zenon, <1>1, <1>3, <1>4 DEF ObjType, ObjOthers

LEMMA ObjPaused ==
  ASSUME Types, NEW o \in Objs, NEW x \in BOOLEAN, obj' = [obj EXCEPT ![o].paused = x]
  PROVE  /\ ObjOthers(o) /\ obj'[o].paused = x
         /\ obj'[o].valid = obj[o].valid /\ obj'[o].conn = obj[o].conn /\ obj'[o].io = obj[o].io
         /\ obj'[o].buf = obj[o].buf /\ obj'[o].armed = obj[o].armed /\ obj'[o].at = obj[o].at
<1>1. obj[o] \in ObjType
  BY DEF Types
<1>2. [obj[o] EXCEPT !.paused = x] \in ObjType
  BY Zenon, <1>1 DEF ObjType
<1>3. obj'[o] = [obj[o] EXCEPT !.paused = x] /\ \A p \in Objs : p # o => obj'[p] = obj[p]
  BY DEF Types
<1>4. obj' \in [Objs -> ObjType]
  BY <1>2 DEF Types
<1> QED BY Zenon, <1>1, <1>3, <1>4 DEF ObjType, ObjOthers

LEMMA ObjArmed ==
  ASSUME Types, NEW o \in Objs, NEW x \in SUBSET {"read", "write"}, obj' = [obj EXCEPT ![o].armed = x]
  PROVE  /\ ObjOthers(o) /\ obj'[o].armed = x
         /\ obj'[o].valid = obj[o].valid /\ obj'[o].conn = obj[o].conn /\ obj'[o].io = obj[o].io
         /\ obj'[o].buf = obj[o].buf /\ obj'[o].paused = obj[o].paused /\ obj'[o].at = obj[o].at
<1>1. obj[o] \in ObjType
  BY DEF Types
<1>2. [obj[o] EXCEPT !.armed = x] \in ObjType
  BY Zenon, <1>1 DEF ObjType
<1>3. obj'[o] = [obj[o] EXCEPT !.armed = x] /\ \A p \in Objs : p # o => obj'[p] = obj[p]
  BY DEF Types
<1>4. obj' \in [Objs -> ObjType]
  BY <1>2 DEF Types
<1> QED BY <1>1, <1>3, <1>4 DEF ObjType, ObjOthers

(* The kernel's state of a connection changes.                             *)
LEMMA NetSt ==
  ASSUME Types, NEW c \in Conns, NEW x \in NetStates, net' = [net EXCEPT ![c].st = x]
  PROVE  /\ net' \in [Conns -> NetType] /\ net'[c].st = x
         /\ \A d \in Conns : /\ d # c => net'[d] = net[d]
                             /\ net'[d].wire = net[d].wire /\ net'[d].in = net[d].in
                             /\ net'[d].sent = net[d].sent /\ net'[d].room = net[d].room
<1>1. net[c] \in NetType
  BY DEF Types
<1>2. [net[c] EXCEPT !.st = x] \in NetType
  BY Zenon, <1>1 DEF NetType
<1>3. net'[c] = [net[c] EXCEPT !.st = x] /\ \A d \in Conns : d # c => net'[d] = net[d]
  BY DEF Types
<1>4. net' \in [Conns -> NetType]
  BY <1>2 DEF Types
<1> QED BY Zenon, <1>1, <1>3, <1>4 DEF NetType

(* A notification: what has been notified before stays, one comes after it. *)
LEMMA Notified ==
  ASSUME Types, NEW c0 \in Conns, NEW e0 \in Events, Fire(c0, e0)
  PROVE  /\ fired' \in [Conns -> Seq(Events)]
         /\ \A c \in Conns : c # c0 => fired'[c] = fired[c]
         /\ Len(fired'[c0]) = Len(fired[c0]) + 1 /\ fired'[c0][Len(fired[c0]) + 1] = e0
         /\ \A i \in 1 .. Len(fired[c0]) : fired'[c0][i] = fired[c0][i]
         /\ \A c \in Conns, e \in Events : Has(c, e)' <=> Has(c, e) \/ (c = c0 /\ e = e0)
<1>1. fired[c0] \in Seq(Events) /\ fired'[c0] = Append(fired[c0], e0)
  BY DEF Types, Fire
<1>2. /\ Len(fired'[c0]) = Len(fired[c0]) + 1 /\ fired'[c0][Len(fired[c0]) + 1] = e0
      /\ \A i \in 1 .. Len(fired[c0]) : fired'[c0][i] = fired[c0][i]
  BY <1>1
<1>3. fired' \in [Conns -> Seq(Events)] /\ \A c \in Conns : c # c0 => fired'[c] = fired[c]
  BY <1>1 DEF Types, Fire
<1>4. ASSUME NEW e \in Events PROVE Has(c0, e)' <=> Has(c0, e) \/ e = e0
  BY <1>1, <1>2 DEF Has
<1>5. ASSUME NEW e \in Events, NEW c \in Conns, c # c0 PROVE Has(c, e)' <=> Has(c, e)
  BY <1>3, <1>5 DEF Has
<1> QED BY <1>2, <1>3, <1>4, <1>5

(* OnClose comes once, and no OnReceive after it.                          *)
LEMMA NotifiedInOrder ==
  ASSUME IInv, NEW c0 \in Conns, NEW e0 \in Events, Fire(c0, e0),
         net[c0].st \in {"open", "closed"}, e0 \in {"close", "receive"} => ~Has(c0, "close"),
         UNCHANGED queued,
         \A c \in Conns : net'[c].st = net[c].st /\ (net[c].st = "open" \/ net'[c].wire = net[c].wire)
  PROVE  NotBegun' /\ CloseOnce'
<1>1. /\ \A c \in Conns : c # c0 => fired'[c] = fired[c]
      /\ Len(fired'[c0]) = Len(fired[c0]) + 1 /\ fired'[c0][Len(fired[c0]) + 1] = e0
      /\ \A i \in 1 .. Len(fired[c0]) : fired'[c0][i] = fired[c0][i]
  BY Notified DEF IInv
<1>2. PICK n \in Nat : n = Len(fired[c0])
  BY DEF IInv, Types
<1>3. NotBegun'
  BY <1>1 DEF IInv, Told, NotBegun
<1>4. ASSUME NEW i \in 1 .. n + 1, NEW j \in 1 .. n + 1, fired'[c0][i] = "close"
      PROVE  (fired'[c0][j] = "close" => i = j) /\ (fired'[c0][j] = "receive" => j < i)
  <2>1. \A k \in 1 .. n : fired'[c0][k] = fired[c0][k]
    BY <1>1, <1>2
  <2>2. fired'[c0][n + 1] = e0
    BY <1>1, <1>2
  <2>3. e0 \in {"close", "receive"} => \A k \in 1 .. n : fired[c0][k] # "close"
    BY <1>2 DEF Has
  <2>4. \A k, m \in 1 .. n : fired[c0][k] = "close" =>
          (fired[c0][m] = "close" => k = m) /\ (fired[c0][m] = "receive" => m < k)
    BY <1>2 DEF IInv, Told, CloseOnce
  <2>5. CASE i \in 1 .. n /\ j \in 1 .. n
    BY <1>4, <2>1, <2>4, <2>5
  <2>6. CASE i \in 1 .. n /\ j = n + 1
    BY <1>4, <2>1, <2>2, <2>3, <2>6
  <2>7. CASE i = n + 1 /\ j \in 1 .. n
    BY <1>4, <2>1, <2>2, <2>3, <2>7
  <2>8. CASE i = n + 1 /\ j = n + 1
    BY <1>4, <2>2, <2>8
  <2> QED BY <1>2, <2>5, <2>6, <2>7, <2>8
<1>5. CloseOnce'
  <2>1. \A c \in Conns : c # c0 => \A i, j \in 1 .. Len(fired'[c]) :
          fired'[c][i] = "close" => /\ fired'[c][j] = "close" => i = j
                                    /\ fired'[c][j] = "receive" => j < i
    BY <1>1 DEF IInv, Told, CloseOnce
  <2>2. Len(fired'[c0]) = n + 1
    BY <1>1, <1>2
  <2> QED BY <1>4, <2>1, <2>2 DEF CloseOnce
<1> QED BY <1>3, <1>5

-----------------------------------------------------------------------------
(* Steps that move no packet.                                              *)
LEMMA PacketsKept ==
  ASSUME IInv, \A c \in Conns : net'[c].wire = net[c].wire, queued' = queued,
         \A o \in Objs : /\ obj'[o].at = "new" => obj'[o].buf = <<>>
                         /\ obj'[o].valid => /\ obj[o].valid /\ obj'[o].conn = obj[o].conn
                                             /\ obj'[o].buf = obj[o].buf
                                             /\ \A v \in Workers : Holds(v, o)' <=> Holds(v, o)
  PROVE  OnWire' /\ Buffered'
<1>1. OnWire'
  BY DEF IInv, Ordered, OnWire
<1>2. ASSUME NEW o \in Objs, obj'[o].valid
      PROVE  /\ queued'[obj'[o].conn] = Out(o)' + Len(obj'[o].buf)
             /\ \A i \in 1 .. Len(obj'[o].buf) : obj'[o].buf[i] = Out(o)' + i
  <2>1. InHand(o)' = InHand(o)
    BY <1>2 DEF InHand
  <2>2. obj[o].conn \in Conns
    BY <1>2 DEF IInv, Life, Valid
  <2>3. Out(o)' = Out(o)
    BY <1>2, <2>1, <2>2 DEF Out
  <2> QED BY <1>2, <2>3 DEF IInv, Ordered, Buffered, BufferedAt
<1>3. Buffered'
  BY <1>2 DEF Buffered, BufferedAt
<1> QED BY <1>1, <1>3

(* An object none of whose packets moves.                                  *)
LEMMA BufferedStays ==
  ASSUME IInv, NEW p \in Objs, obj'[p] = obj[p], UNCHANGED queued,
         obj[p].valid => net'[obj[p].conn].wire = net[obj[p].conn].wire,
         \A v \in Workers : Holds(v, p)' <=> Holds(v, p)
  PROVE  BufferedAt(p)'
<1>1. InHand(p)' = InHand(p)
  BY DEF InHand
<1>2. obj[p].valid => Out(p)' = Out(p)
  BY <1>1 DEF Out
<1> QED BY <1>2 DEF IInv, Ordered, Buffered, BufferedAt

(* Steps of the peers and of Stop(): of the threads and the objects they   *)
(* change nothing; a command that would arm an object is not lost.         *)
LEMMA QuietIInv ==
  ASSUME IInv, Types', InBounds', UNCHANGED <<active, obj, wk, ap, fired, queued>>,
         \A c \in Conns : /\ net'[c].wire = net[c].wire
                          /\ \/ net'[c].st = net[c].st
                             \/ net[c].st = "new" /\ net'[c].st = "backlog",
         \A i \in 1 .. Len(cmds) : cmds[i].type = "unpause" =>
           \/ \E j \in 1 .. Len(cmds') : cmds'[j] = cmds[i]
           \/ \A o \in Objs : obj[o].valid /\ obj[o].conn = cmds[i].c => \E w \in Workers : wk[w].o = o
  PROVE  IInv'
<1> USE DEF WAt
<1>1. Types /\ \A o \in Objs : obj[o].conn \in Conns \/ obj[o].conn = None
  BY DEF IInv, Types, ObjType
<1>2. Held'
  <2>1. WorkersHold' /\ AppsHold' /\ NewIsFresh'
    BY DEF IInv, Held, WorkersHold, AppsHold, NewIsFresh, Settled, InAccept
  <2>2. ConnsApart'
    BY <1>1 DEF IInv, Held, ConnsApart
  <2> QED BY <2>1, <2>2 DEF Held
<1>3. Life'
  <2>1. Publishing' /\ Published' /\ UnderIo'
    BY DEF IInv, Life, Publishing, Published, UnderIo
  <2>2. Valid'
    BY <1>1 DEF IInv, Life, Valid
  <2>3. Unarmed'
    BY SMTT(30), <1>1 DEF IInv, Life, Unarmed
  <2>4. Parked'
    BY <1>1 DEF IInv, Life, Parked
  <2>5. ClosingOne'
    BY <1>1 DEF IInv, Life, ClosingOne
  <2> QED BY <2>1, <2>2, <2>3, <2>4, <2>5 DEF Life
<1>4. Told'
  <2>1. NotBegun'
    BY DEF IInv, Told, NotBegun
  <2>2. CloseOnce' /\ CloseToCome' /\ OneAccepts'
    BY DEF IInv, Told, CloseOnce, CloseToCome, OneAccepts, Has, InAccept
  <2>3. ToldOrUnaccepted'
    BY DEF IInv, Told, ToldOrUnaccepted, Unaccepted, Has
  <2> QED BY <2>1, <2>2, <2>3 DEF Told
<1>5. Ordered'
  <2>1. OnWire' /\ Buffered'
    BY PacketsKept DEF IInv, Ordered, Buffered, BufferedAt, Holds
  <2>2. ItemNext'
    <3>1. \A w \in Workers : wk[w].pc \in {"send_item", "push_front"} => obj[wk[w].o].conn \in Conns
      BY DEF IInv, Held, WorkersHold, Life, UnderIo, Valid, Working
    <3> QED BY ZenonT(30), <3>1 DEF IInv, Ordered, ItemNext
  <2> QED BY <2>1, <2>2 DEF Ordered
<1>6. StaysArmed'
  <2>1. \A o \in Objs : obj[o].valid /\ Arming(o) => Arming(o)'
    BY DEF Arming
  <2> QED BY <2>1 DEF IInv, StaysArmed
<1> QED BY <1>2, <1>3, <1>4, <1>5, <1>6 DEF IInv

(* Told to the listener, or never accepted by it: the state after a step.  *)
LEMMA ToldFrom ==
  ASSUME \A v \in Workers : wk'[v].pc \in {"publish", "on_accept", "on_shake"} =>
           \E c \in Conns : c = wk'[v].c /\ ~Has(c, "shake")',
         \A v \in Workers : wk'[v].pc \in Closing \cup {"invalid"} /\ wk'[v].flag = "none" =>
           wk'[v].back = "accept" /\ \E c \in Conns : c = wk'[v].c /\ Unaccepted(c)',
         \A v \in Workers : wk'[v].pc = "close" /\ wk'[v].flag # "none" =>
           \E c \in Conns : c = obj'[wk'[v].o].conn /\ Has(c, "close")',
         \A c \in Conns : net'[c].st = "closed" => Has(c, "close")' \/ Unaccepted(c)'
  PROVE  ToldOrUnaccepted'
<1>1. \A v \in Workers : (wk[v].pc \in {"publish", "on_accept", "on_shake"} => ~Has(wk[v].c, "shake"))'
  BY DEF Has
<1>2. \A v \in Workers : (wk[v].pc \in Closing \cup {"invalid"} /\ wk[v].flag = "none" =>
                         wk[v].back = "accept" /\ Unaccepted(wk[v].c))'
  BY DEF Unaccepted, Has
<1>3. \A v \in Workers : (wk[v].pc = "close" /\ wk[v].flag # "none" => Has(obj[wk[v].o].conn, "close"))'
  BY DEF Has
<1> QED BY <1>1, <1>2, <1>3 DEF ToldOrUnaccepted, WAt

(* The other parts whose names mention the object of the state after.      *)
LEMMA CloseToComeFrom ==
  ASSUME \A p \in Objs : obj'[p].valid => \E c \in Conns : c = obj'[p].conn /\ ~Has(c, "close")',
         \A v \in Workers : wk'[v].pc = "on_close" =>
           \E c \in Conns : c = obj'[wk'[v].o].conn /\ ~Has(c, "close")'
  PROVE  CloseToCome'
BY DEF CloseToCome, Has, WAt

LEMMA PublishingFrom ==
  ASSUME \A v \in Workers : wk'[v].pc = "publish" =>
           /\ obj'[wk'[v].o].valid /\ active'[wk'[v].c] = None
           /\ \A u \in Workers : u # v => wk'[u].o # wk'[v].o
           /\ \A a \in Apps : ap'[a].o # wk'[v].o
  PROVE  Publishing'
BY DEF Publishing, WAt

LEMMA ValidFrom ==
  ASSUME \A p \in Objs : obj'[p].valid =>
           /\ obj'[p].at = "used" /\ obj'[p].conn \in Conns /\ net'[obj'[p].conn].st = "open"
           /\ active'[obj'[p].conn] = p \/ \E v \in Workers : wk'[v].pc = "publish" /\ wk'[v].o = p
  PROVE  Valid'
BY DEF Valid, WAt

LEMMA ClosingFrom ==
  ASSUME \A v \in Workers : wk'[v].pc \in Closing =>
           \E p \in Objs, d \in Conns :
             /\ p = wk'[v].o /\ d = obj'[p].conn /\ ~obj'[p].valid /\ obj'[p].at = "used"
             /\ wk'[v].pc \in {"on_close", "close"} => net'[d].st = "open"
             /\ wk'[v].pc \in {"remove", "release"} => net'[d].st = "closed"
             /\ active'[d] = IF wk'[v].pc = "release" THEN None ELSE p,
         \A u, v \in Workers :
           wk'[u].pc \in Closing /\ wk'[v].pc \in Closing /\ wk'[u].o = wk'[v].o => u = v
  PROVE  ClosingOne'
BY DEF ClosingOne, WAt

(* Steps of one worker before, between and after its hold of csIo: they    *)
(* take only what is published, and notify of nothing but what they read.  *)
Serving == {"idle", "lock", "after"} \cup Working
Goes(w) ==
  /\ WkOthers(w) /\ UNCHANGED <<active, ap, queued>>
  /\ \/ fired' = fired
     \/ wk[w].pc \in Working /\ Fire(obj[wk[w].o].conn, "receive")
  /\ \A c \in Conns : /\ net'[c].st = net[c].st
                      /\ net[c].st = "open" \/ net'[c].wire = net[c].wire
  /\ \A p \in Objs : /\ obj'[p].valid = obj[p].valid /\ obj'[p].conn = obj[p].conn
                     /\ obj'[p].paused = obj[p].paused /\ obj'[p].at = obj[p].at
                     /\ obj[p].valid \/ obj'[p].buf = obj[p].buf
                     /\ \/ obj'[p].armed \subseteq obj[p].armed
                        \/ obj[p].valid /\ wk[w].o = p /\ wk[w].pc = "after"
                     /\ p # wk[w].o /\ p # wk'[w].o => obj'[p] = obj[p]
                     /\ \A v \in Workers : v # w /\ obj[p].io = v => obj'[p].io = v
  /\ \A i \in 1 .. Len(cmds) : cmds[i].type = "unpause" =>
       \/ \E j \in 1 .. Len(cmds') : cmds'[j] = cmds[i]
       \/ \A p \in Objs : obj[p].valid /\ obj[p].conn = cmds[i].c => \E v \in Workers : wk'[v].o = p
  /\ wk[w].pc \in Serving /\ wk'[w].pc \in Serving \cup {"accept", "invalid"}
  /\ IF wk'[w].pc \in {"idle", "accept"} THEN wk'[w].o = None /\ wk'[w].n = 0
                                         ELSE wk'[w].o \in Objs
  /\ wk'[w].o # None => wk'[w].o \in Objs /\ obj[wk'[w].o].at # "new"
  /\ wk'[w].pc = "lock" => wk'[w].ev # "none"
  /\ wk'[w].pc = "invalid" => wk'[w].back = "after" /\ wk'[w].flag # "none"
  /\ wk'[w].pc \in Working \cup {"invalid"} => obj[wk'[w].o].valid
  /\ wk'[w].pc \in Working \cup {"invalid", "after"} => obj'[wk'[w].o].io = w
  /\ \A v \in Workers : wk[v].pc = "publish" => wk[v].o # wk'[w].o
  /\ \/ wk[w].o = wk'[w].o \/ wk[w].o = None
     \/ ~obj[wk[w].o].valid \/ obj[wk[w].o].paused \/ "read" \in obj'[wk[w].o].armed

LEMMA WorkerRest ==
  ASSUME IInv, Types', InBounds', NEW w \in Workers, Goes(w)
  PROVE  Held' /\ Life' /\ Told' /\ StaysArmed'
<1> USE DEF WAt, WkOthers, Goes, Serving
<1>1. Types /\ \A p \in Objs : obj[p].conn \in Conns \/ obj[p].conn = None
  BY DEF IInv, Types, ObjType
<1>2. \A v \in Workers : v # w => wk'[v] = wk[v]
  OBVIOUS
<1>3. ~InAccept(w)' /\ ~InAccept(w) /\ wk'[w].pc \notin Accepting \cup Closing /\ wk[w].pc \notin Accepting \cup Closing
  BY DEF InAccept, Accepting, Closing, Working
<1>4. Held'
  <2>1. WorkersHold'
    <3>1. ASSUME NEW v \in Workers, v # w
          PROVE  /\ InAccept(v)' <=> InAccept(v)
                 /\ InAccept(v) => wk[v].o \in Objs
      BY <1>2, <3>1 DEF IInv, Held, WorkersHold, InAccept, Accepting, Closing
    <3> QED BY <1>2, <1>3, <3>1 DEF IInv, Held, WorkersHold, Closing
  <2>2. AppsHold' /\ ConnsApart'
    BY <1>1 DEF IInv, Held, AppsHold, ConnsApart
  <2>3. NewIsFresh'
    <3>1. ASSUME NEW p \in Objs, obj'[p].at = "new" PROVE obj'[p] = FreshObj /\ Settled(p)'
      <4>1. obj[p] = FreshObj /\ Settled(p) /\ p # wk'[w].o
        BY <3>1, NoneAssumption DEF IInv, Held, NewIsFresh
      <4> QED BY <1>2, <4>1 DEF Settled
    <3> QED BY <3>1 DEF NewIsFresh
  <2> QED BY <2>1, <2>2, <2>3 DEF Held
<1>5. Life'
  <2>1. Publishing'
    BY <1>2, <1>3 DEF IInv, Life, Publishing, Held, WorkersHold, InAccept, Accepting
  <2>2. Valid'
    BY <1>1, <1>2, <1>3 DEF IInv, Life, Valid, Accepting
  <2>3. Unarmed'
    <3>1. ASSUME NEW v \in Workers, wk'[v].pc = "publish" PROVE obj'[wk'[v].o].armed = {}
      <4>1. v # w /\ wk'[v] = wk[v] /\ wk[v].pc = "publish"
        BY <1>2, <1>3, <3>1 DEF Accepting
      <4>2. wk[v].o \in Objs /\ wk[w].o # wk[v].o /\ obj[wk[v].o].armed = {}
        BY Zenon, <4>1 DEF IInv, Held, WorkersHold, Life, Publishing, Unarmed
      <4> QED BY <4>1, <4>2
    <3>2. ASSUME NEW p \in Objs, obj'[p].conn # None, net'[obj'[p].conn].st = "closed"
          PROVE obj'[p].armed = {}
      BY <1>1, <3>2 DEF IInv, Life, Unarmed, Valid
    <3> QED BY Zenon, <3>1, <3>2 DEF Unarmed
  <2>4. Parked' /\ Published'
    <3>1. \A c \in Conns : active[c] # None => active[c] \in Objs
      BY <1>1 DEF Types
    <3>2. Parked'
      BY <1>1 DEF IInv, Life, Parked
    <3>3. Published'
      BY <3>1 DEF IInv, Life, Published
    <3> QED BY <3>2, <3>3
  <2>5. ClosingOne'
    BY SMTT(30), <1>1, <1>2, <1>3 DEF IInv, Life, ClosingOne, Held, WorkersHold, Closing
  <2>6. UnderIo'
    <3>1. ASSUME NEW v \in Workers, v # w, wk[v].pc \in Working \cup Closing \cup {"invalid", "after"}
          PROVE  /\ obj'[wk'[v].o].valid = obj[wk[v].o].valid
                 /\ obj[wk[v].o].io = v => obj'[wk'[v].o].io = v
      BY <1>2, <3>1 DEF IInv, Held, WorkersHold, Working, Closing
    <3>2. \A v \in Workers : v # w =>
            /\ wk'[v].pc \in Working => obj'[wk'[v].o].valid /\ obj'[wk'[v].o].io = v
            /\ wk'[v].pc = "invalid" /\ wk'[v].back = "after" => obj'[wk'[v].o].valid /\ obj'[wk'[v].o].io = v
            /\ wk'[v].pc \in Closing /\ wk'[v].back = "after" => obj'[wk'[v].o].io = v
            /\ wk'[v].pc = "after" => obj'[wk'[v].o].io = v
      BY <1>2, <3>1 DEF IInv, Life, UnderIo
    <3>3. wk'[w].pc \in Working \cup {"invalid"} => obj'[wk'[w].o].valid
      BY DEF Working
    <3> QED BY <1>3, <3>2, <3>3 DEF UnderIo
  <2> QED BY <2>1, <2>2, <2>3, <2>4, <2>5, <2>6 DEF Life
<1>6. Told'
  <2>1. /\ NotBegun' /\ CloseOnce'
        /\ \A c \in Conns : (Has(c, "shake")' <=> Has(c, "shake")) /\ (Has(c, "close")' <=> Has(c, "close"))
    <3>1. CASE fired' = fired
      BY <3>1 DEF IInv, Told, NotBegun, CloseOnce, Has
    <3>2. CASE wk[w].pc \in Working /\ Fire(obj[wk[w].o].conn, "receive")
      <4>1. wk[w].o \in Objs /\ obj[wk[w].o].valid
        BY <3>2 DEF IInv, Held, WorkersHold, Working, Life, UnderIo
      <4>2. PICK c0 \in Conns : c0 = obj[wk[w].o].conn /\ net[c0].st = "open" /\ ~Has(c0, "close")
        BY <4>1 DEF IInv, Life, Valid, Told, CloseToCome
      <4>3. {"receive", "shake", "close"} \subseteq Events /\ Fire(c0, "receive")
        BY <3>2, <4>2 DEF Events
      <4>4. \A c \in Conns, e \in Events : Has(c, e)' <=> Has(c, e) \/ (c = c0 /\ e = "receive")
        BY <1>1, <4>2, <4>3, Notified
      <4>5. NotBegun' /\ CloseOnce'
        BY <4>2, <4>3, NotifiedInOrder
      <4> QED BY <4>3, <4>4, <4>5
    <3> QED BY <3>1, <3>2
  <2>2. \A v \in Workers : wk[v].pc \in Closing => wk[v].o \in Objs /\ obj[wk[v].o].conn \in Conns /\ v # w
    BY Zenon, <1>3 DEF IInv, Held, WorkersHold, Life, ClosingOne, Closing
  <2>3. CloseToCome'
    <3>1. \A p \in Objs : obj'[p].valid => ~Has(obj'[p].conn, "close") /\ obj'[p].conn \in Conns
      BY DEF IInv, Life, Valid, Told, CloseToCome
    <3>2. \A v \in Workers : wk'[v].pc = "on_close" =>
            ~Has(obj'[wk'[v].o].conn, "close") /\ obj'[wk'[v].o].conn \in Conns
      BY <1>2, <1>3, <2>2 DEF IInv, Told, CloseToCome, Closing
    <3> QED BY <2>1, <3>1, <3>2 DEF CloseToCome
  <2>4. OneAccepts'
    BY <1>2, <1>3 DEF IInv, Told, OneAccepts, InAccept
  <2>5. \A c \in Conns : Unaccepted(c) => Unaccepted(c)'
    BY <1>2, <1>3, <2>1 DEF Unaccepted, Accepting
  <2>6. \A v \in Workers : InAccept(v) => wk[v].c \in Conns
    BY DEF IInv, Held, WorkersHold
  <2>7. ToldOrUnaccepted'
    <3>1. ASSUME NEW v \in Workers, wk'[v].pc \in {"publish", "on_accept", "on_shake"}
          PROVE \E c \in Conns : c = wk'[v].c /\ ~Has(c, "shake")'
      <4>1. v # w /\ wk'[v] = wk[v] /\ wk[v].c \in Conns
        BY <1>2, <1>3, <2>6, <3>1 DEF InAccept, Accepting
      <4>2. ~Has(wk[v].c, "shake")
        BY <3>1, <4>1 DEF IInv, Told, ToldOrUnaccepted
      <4> QED BY <2>1, <4>1, <4>2
    <3>2. ASSUME NEW v \in Workers, wk'[v].pc \in Closing \cup {"invalid"}, wk'[v].flag = "none"
          PROVE  wk'[v].back = "accept" /\ \E c \in Conns : c = wk'[v].c /\ Unaccepted(c)'
      <4>1. v # w /\ wk'[v] = wk[v]
        BY <1>2, <1>3, <3>2 DEF Closing
      <4>2. wk[v].back = "accept" /\ Unaccepted(wk[v].c)
        BY <3>2, <4>1 DEF IInv, Told, ToldOrUnaccepted
      <4>3. wk[v].c \in Conns
        BY <2>6, <3>2, <4>1, <4>2 DEF InAccept
      <4> QED BY <2>5, <4>1, <4>2, <4>3
    <3>3. ASSUME NEW v \in Workers, wk'[v].pc = "close", wk'[v].flag # "none"
          PROVE  \E c \in Conns : c = obj'[wk'[v].o].conn /\ Has(c, "close")'
      <4>1. v # w /\ wk'[v] = wk[v] /\ wk[v].o \in Objs /\ obj[wk[v].o].conn \in Conns
        BY <1>2, <1>3, <2>2, <3>3 DEF Closing
      <4>2. Has(obj[wk[v].o].conn, "close") /\ obj'[wk[v].o].conn = obj[wk[v].o].conn
        BY <3>3, <4>1 DEF IInv, Told, ToldOrUnaccepted, Closing
      <4> QED BY <2>1, <4>1, <4>2
    <3>4. \A c \in Conns : net'[c].st = "closed" => Has(c, "close")' \/ Unaccepted(c)'
      BY <2>1, <2>5 DEF IInv, Told, ToldOrUnaccepted
    <3> QED BY <3>1, <3>2, <3>3, <3>4, ToldFrom
  <2> QED BY <2>1, <2>3, <2>4, <2>7 DEF Told
<1>7. StaysArmed'
  <2>1. ASSUME NEW p \in Objs, obj'[p].valid, ~obj'[p].paused, ~Arming(p)'
        PROVE "read" \in obj'[p].armed
    <3>1. obj[p].valid /\ ~obj[p].paused /\ obj'[p].conn = obj[p].conn /\ p # None
      BY <2>1, NoneAssumption
    <3>2. \A v \in Workers : wk'[v].o # p
      BY <2>1 DEF Arming
    <3>3. \A a \in Apps : ~(ap[a].pc = "post" /\ ap[a].o = p)
      BY <2>1 DEF Arming
    <3>4. ASSUME NEW i \in 1 .. Len(cmds), cmds[i].type = "unpause", cmds[i].c = obj[p].conn
          PROVE FALSE
      <4>1. PICK j \in 1 .. Len(cmds') : cmds'[j] = cmds[i]
        BY <3>1, <3>2, <3>4
      <4> QED BY <2>1, <3>1, <3>4, <4>1 DEF Arming
    <3>5. CASE wk[w].o = p
      BY <3>1, <3>2, <3>5
    <3>6. CASE wk[w].o # p
      <4>1. obj'[p] = obj[p]
        BY <3>2, <3>6
      <4>2. \A v \in Workers : wk[v].o # p
        BY <1>2, <3>2, <3>6
      <4>3. ~Arming(p)
        BY <3>3, <3>4, <4>2 DEF Arming
      <4> QED BY <3>1, <4>1, <4>3 DEF IInv, StaysArmed
    <3> QED BY <3>5, <3>6
  <2>2. \A v \in Workers : wk'[v].pc = "accept" /\ wk'[v].o # None => ~obj'[wk'[v].o].valid
    <3>1. \A v \in Workers : wk[v].o # None => wk[v].o \in Objs
      BY <1>1 DEF Types, WkType
    <3> QED BY <1>2, <3>1 DEF IInv, StaysArmed
  <2> QED BY <2>1, <2>2 DEF StaysArmed
<1> QED BY <1>4, <1>5, <1>6, <1>7

(* Those of them that move no packet.                                      *)
KeepsPackets(w) ==
  /\ \A c \in Conns : net'[c].wire = net[c].wire
  /\ \A p \in Objs : obj'[p].buf = obj[p].buf
  /\ wk'[w].item = wk[w].item /\ (wk[w].item = 0 \/ wk'[w].o = wk[w].o)
  /\ wk'[w].pc \in {"send_item", "push_front"} => wk[w].pc \in {"send_item", "push_front"}
  /\ wk'[w].item # 0 => wk'[w].pc \in {"send_item", "push_front", "invalid"}

LEMMA WorkerIInv ==
  ASSUME IInv, Types', InBounds', NEW w \in Workers, Goes(w), KeepsPackets(w)
  PROVE  IInv'
<1> USE DEF WAt, WkOthers, Goes, KeepsPackets
<1>1. \A v \in Workers : v # w => wk'[v] = wk[v]
  OBVIOUS
<1>2. Ordered'
  <2>1. \A p \in Objs : \A v \in Workers : Holds(v, p)' <=> Holds(v, p)
    BY <1>1 DEF Holds
  <2>2. \A p \in Objs : obj'[p].at = "new" => obj'[p].buf = <<>>
    BY DEF IInv, Ordered, Buffered, BufferedAt
  <2>3. OnWire' /\ Buffered'
    BY <2>1, <2>2, PacketsKept
  <2>4. \A v \in Workers : wk[v].pc \in {"send_item", "push_front"} => wk[v].o \in Objs /\ obj[wk[v].o].conn \in Conns
    BY DEF IInv, Held, WorkersHold, Life, UnderIo, Valid, Working
  <2>5. wk'[w].pc \in {"send_item", "push_front"} => wk'[w].o = wk[w].o
    BY DEF IInv, Ordered, ItemNext
  <2>6. ItemNext'
    <3>1. ASSUME NEW v \in Workers, wk'[v].pc \in {"send_item", "push_front"}
          PROVE  wk'[v].item = Len(net'[obj'[wk'[v].o].conn].wire) + 1
      <4>1. wk[v].pc \in {"send_item", "push_front"} /\ wk'[v].o = wk[v].o /\ wk'[v].item = wk[v].item
        BY <1>1, <2>5, <3>1
      <4>2. wk[v].item = Len(net[obj[wk[v].o].conn].wire) + 1
        BY <4>1 DEF IInv, Ordered, ItemNext
      <4>3. wk[v].o \in Objs /\ obj[wk[v].o].conn \in Conns
        BY <2>4, <4>1
      <4>4. obj'[wk[v].o].conn = obj[wk[v].o].conn
        BY <4>3
      <4>5. net'[obj[wk[v].o].conn].wire = net[obj[wk[v].o].conn].wire
        BY <4>3
      <4> QED BY SMTT(30), <4>1, <4>2, <4>4, <4>5
    <3>2. ASSUME NEW v \in Workers, wk'[v].item # 0
          PROVE  \/ wk'[v].pc \in {"send_item", "push_front"}
                 \/ wk'[v].pc \in Closing \cup {"invalid"} /\ wk'[v].back = "after"
      BY <1>1, <3>2 DEF IInv, Ordered, ItemNext
    <3> QED BY Zenon, <3>1, <3>2 DEF ItemNext
  <2> QED BY <2>3, <2>6 DEF Ordered
<1> QED BY Zenon, <1>2, WorkerRest DEF IInv

-----------------------------------------------------------------------------
LEMMA TakeListenIInv ==
  ASSUME IInv, NEW w \in Workers, TakeListen(w)
  PROVE  IInv'
<1> USE DEF WAt, WGoto
<1>1. Types
  BY DEF IInv
<1>2. /\ WkOthers(w) /\ wk[w].pc = "idle" /\ wk'[w].pc = "accept" /\ wk[w].o = None
      /\ wk'[w].o = None /\ wk'[w].c = wk[w].c /\ wk'[w].item = wk[w].item
  <2>1. wk[w].pc = "idle" /\ wk[w].o = None
    BY DEF TakeListen, IInv, Held, WorkersHold
  <2>2. "accept" \in WPc
    BY DEF WPc
  <2> QED BY Zenon, <1>1, <2>1, <2>2, WkPc DEF TakeListen, WkKeeps
<1>3. lsn' \in [open : BOOLEAN, event : BOOLEAN]
  BY Zenon, <1>1 DEF TakeListen, Types
<1>4. Types' /\ InBounds'
  BY <1>1, <1>2, <1>3 DEF TakeListen, Types, IInv, InBounds, WkOthers
<1>5. Held'
  BY <1>2 DEF TakeListen, IInv, Held, WorkersHold, AppsHold, ConnsApart, NewIsFresh, Settled,
     WkOthers, InAccept, Accepting, Closing
<1>6. Life'
  BY SMTT(30), <1>2 DEF TakeListen, IInv, Life, Publishing, Valid, Unarmed, Parked, Published,
     ClosingOne, UnderIo, WkOthers, Closing, Working
<1>7. Told'
  BY SMTT(30), <1>2 DEF TakeListen, IInv, Told, NotBegun, CloseOnce, CloseToCome, OneAccepts,
     ToldOrUnaccepted, Unaccepted, Has, InAccept, WkOthers, Closing, Accepting
<1>8. Ordered'
  <2>1. OnWire' /\ Buffered'
    BY <1>2, PacketsKept DEF TakeListen, WkOthers, IInv, Ordered, Buffered, BufferedAt, Holds
  <2>2. ItemNext'
    BY <1>2 DEF TakeListen, WkOthers, IInv, Ordered, ItemNext, Closing
  <2> QED BY <2>1, <2>2 DEF Ordered
<1>9. StaysArmed'
  BY <1>2 DEF TakeListen, IInv, StaysArmed, Arming, WkOthers
<1> QED BY <1>4, <1>5, <1>6, <1>7, <1>8, <1>9 DEF IInv

(* A worker takes an object to process an event of it.                     *)
LEMMA WkTakes ==
  ASSUME Types, NEW w \in Workers, NEW o \in Objs, NEW e \in {"read", "write", "user"},
         wk' = [wk EXCEPT ![w].pc = "lock", ![w].o = o, ![w].ev = e]
  PROVE  /\ WkOthers(w) /\ wk'[w].pc = "lock" /\ wk'[w].o = o /\ wk'[w].ev = e
         /\ wk'[w].c = wk[w].c /\ wk'[w].item = wk[w].item /\ wk'[w].n = wk[w].n
<1>1. wk[w] \in WkType
  BY DEF Types
<1>2. [wk[w] EXCEPT !.pc = "lock", !.o = o, !.ev = e] \in WkType
  BY Zenon, <1>1 DEF WkType, WPc
<1>3. /\ wk'[w] = [wk[w] EXCEPT !.pc = "lock", !.o = o, !.ev = e]
      /\ \A v \in Workers : v # w => wk'[v] = wk[v]
  BY DEF Types
<1>4. wk' \in [Workers -> WkType]
  BY <1>2 DEF Types
<1> QED BY <1>1, <1>3, <1>4 DEF WkType, WkOthers

LEMMA TakeEventIInv ==
  ASSUME IInv, NEW w \in Workers, TakeEvent(w)
  PROVE  IInv'
<1> USE DEF WAt
<1>1. Types /\ wk[w].pc = "idle" /\ wk[w].o = None /\ wk[w].item = 0
  BY DEF TakeEvent, IInv, Held, WorkersHold, Ordered, ItemNext, Closing
<1>2. PICK o \in Objs : \E e \in obj[o].armed :
        /\ IsOpen(obj[o].conn)
        /\ obj' = [obj EXCEPT ![o].armed = @ \ {e}]
        /\ wk'  = [wk EXCEPT ![w].pc = "lock", ![w].o = o, ![w].ev = e]
  BY Zenon DEF TakeEvent
<1>a. PICK e \in obj[o].armed :
        /\ IsOpen(obj[o].conn)
        /\ obj' = [obj EXCEPT ![o].armed = @ \ {e}]
        /\ wk'  = [wk EXCEPT ![w].pc = "lock", ![w].o = o, ![w].ev = e]
  BY Zenon, <1>2
<1>3. e \in {"read", "write"} /\ obj[o].armed \ {e} \in SUBSET {"read", "write"}
  BY <1>1, <1>a DEF Types, ObjType
<1>4. /\ ObjOthers(o) /\ obj'[o].armed = obj[o].armed \ {e}
      /\ obj'[o].valid = obj[o].valid /\ obj'[o].conn = obj[o].conn /\ obj'[o].io = obj[o].io
      /\ obj'[o].buf = obj[o].buf /\ obj'[o].paused = obj[o].paused /\ obj'[o].at = obj[o].at
  BY Zenon, <1>1, <1>a, <1>3, ObjArmed
<1>5. /\ WkOthers(w) /\ wk'[w].pc = "lock" /\ wk'[w].o = o /\ wk'[w].ev = e
      /\ wk'[w].item = wk[w].item
  BY ZenonT(30), <1>1, <1>a, <1>3, WkTakes
<1>6. obj[o].armed # {} /\ obj[o].at # "new"
  BY <1>a DEF IInv, Held, NewIsFresh, FreshObj
<1>7. \A v \in Workers : WAt(v, "publish") => wk[v].o # o
  BY <1>6 DEF IInv, Life, Unarmed
<1>8. Types' /\ InBounds'
  BY <1>1, <1>4, <1>5 DEF TakeEvent, Types, IInv, InBounds, WkOthers, ObjOthers
<1>9. \A p \in Objs : /\ obj'[p].valid = obj[p].valid /\ obj'[p].conn = obj[p].conn
                      /\ obj'[p].buf = obj[p].buf /\ obj'[p].paused = obj[p].paused
                      /\ obj'[p].at = obj[p].at /\ obj'[p].armed \subseteq obj[p].armed
                      /\ obj'[p].io = obj[p].io
                      /\ p # wk'[w].o => obj'[p] = obj[p]
  BY <1>4, <1>5 DEF ObjOthers
<1>10. UNCHANGED <<net, active, cmds, ap, fired, queued>>
  BY DEF TakeEvent
<1>11. e # "none" /\ o # None
  BY <1>3, NoneAssumption
<1>12. \A i \in 1 .. Len(cmds) : \E j \in 1 .. Len(cmds') : cmds'[j] = cmds[i]
  BY <1>10
<1>13. \A c \in Conns : net'[c].st = net[c].st /\ net'[c].wire = net[c].wire
  BY <1>10
<1> QED BY <1>1, <1>5, <1>6, <1>7, <1>8, <1>9, <1>10, <1>11, <1>12, <1>13, WorkerIInv DEF Goes,
           KeepsPackets, Serving, Working

LEMMA TakeCmdIInv ==
  ASSUME IInv, NEW w \in Workers, TakeCmd(w)
  PROVE  IInv'
<1> USE DEF WAt
<1>1. Types /\ wk[w].pc = "idle" /\ wk[w].o = None /\ wk[w].item = 0 /\ wk[w].n = 0
  BY DEF TakeCmd, IInv, Held, WorkersHold, Ordered, ItemNext, Closing
<1> DEFINE cmd == Head(cmds)
           o   == active[cmd.c]
           Taken == o # None /\ obj[o].valid /\ (cmd.type = "send" => Pending(o))
<1>2. cmds # <<>> /\ cmds' = Tail(cmds) /\ UNCHANGED <<net, lsn, active, obj, ap, ops, stop, fired, queued>>
  BY DEF TakeCmd
<1>3. /\ cmds' \in Seq(CmdType) /\ cmd \in CmdType /\ cmd = cmds[1]
      /\ \A i \in 2 .. Len(cmds) : i - 1 \in 1 .. Len(cmds') /\ cmds'[i - 1] = cmds[i]
  BY <1>1, <1>2 DEF Types
<1>4. cmd.c \in Conns /\ cmd.type \in {"send", "unpause", "disconnect"} /\ (o # None => o \in Objs)
  BY <1>1, <1>3 DEF Types, CmdType
<1>5. EventOf(cmd.type) \in {"read", "write", "user"}
  BY <1>4 DEF EventOf
<1>6. CASE Taken
  <2>1. wk' = [wk EXCEPT ![w].pc = "lock", ![w].o = o, ![w].ev = EventOf(cmd.type)]
    BY <1>6 DEF TakeCmd
  <2>2. o \in Objs /\ obj[o].valid
    BY <1>4, <1>6
  <2>3. /\ WkOthers(w) /\ wk'[w].pc = "lock" /\ wk'[w].o = o /\ wk'[w].ev = EventOf(cmd.type)
        /\ wk'[w].item = wk[w].item
    BY Zenon, <1>1, <1>5, <2>1, <2>2, WkTakes
  <2>4. obj[o].conn = cmd.c /\ obj[o].at # "new"
    BY <1>4, <2>2, <1>6 DEF IInv, Life, Published
  <2>5. ASSUME NEW v \in Workers, wk[v].pc = "publish" PROVE wk[v].o # o
    <3>1. active[wk[v].c] = None /\ obj[wk[v].o].conn = wk[v].c
      BY <2>5 DEF IInv, Life, Publishing, Held, WorkersHold, InAccept, Accepting
    <3> QED BY <2>4, <3>1, <1>6
  <2>6. Types' /\ InBounds'
    BY <1>1, <1>2, <1>3, <2>3 DEF Types, IInv, InBounds, WkOthers
  <2>7. ASSUME NEW i \in 1 .. Len(cmds), cmds[i].type = "unpause"
        PROVE  \/ \E j \in 1 .. Len(cmds') : cmds'[j] = cmds[i]
               \/ \A p \in Objs : obj[p].valid /\ obj[p].conn = cmds[i].c => \E v \in Workers : wk'[v].o = p
    <3>1. CASE i # 1
      BY <1>3, <3>1
    <3>2. CASE i = 1
      <4>1. \A p \in Objs : obj[p].valid /\ obj[p].conn = cmd.c => p = o
        BY <2>2, <2>4, <1>4, NoneAssumption DEF IInv, Held, ConnsApart
      <4> QED BY <1>3, <2>3, <3>2, <4>1
    <3> QED BY <3>1, <3>2
  <2>8. EventOf(cmd.type) # "none" /\ o # None
    BY <1>5, <1>6
  <2> HIDE DEF cmd, o, Taken
  <2> QED BY <1>1, <1>2, <2>2, <2>3, <2>4, <2>5, <2>6, <2>7, <2>8, WorkerIInv DEF Goes,
             KeepsPackets, Serving, Working
<1>7. CASE ~Taken
  <2>1. wk' = wk
    BY <1>7 DEF TakeCmd
  <2>2. WkOthers(w)
    BY <1>1, <2>1 DEF WkOthers, Types
  <2>3. Types' /\ InBounds'
    BY <1>1, <1>2, <1>3, <2>1 DEF Types, IInv, InBounds
  <2>4. ASSUME NEW i \in 1 .. Len(cmds), cmds[i].type = "unpause"
        PROVE  \/ \E j \in 1 .. Len(cmds') : cmds'[j] = cmds[i]
               \/ \A p \in Objs : obj[p].valid /\ obj[p].conn = cmds[i].c => \E v \in Workers : wk'[v].o = p
    <3>1. CASE i # 1
      BY <1>3, <3>1
    <3>2. CASE i = 1
      <4>1. o = None \/ ~obj[o].valid
        BY <1>3, <1>7, <2>4, <3>2
      <4>2. ASSUME NEW p \in Objs, obj[p].valid, obj[p].conn = cmd.c
            PROVE \E v \in Workers : wk'[v].o = p
        BY <2>1, <4>1, <4>2, NoneAssumption DEF IInv, Life, Valid
      <4> QED BY <1>3, <3>2, <4>2
    <3> QED BY <3>1, <3>2
  <2>5. \A v \in Workers : wk[v].pc = "publish" => wk[v].o # None
    BY NoneAssumption DEF IInv, Held, WorkersHold
  <2> HIDE DEF cmd, o, Taken
  <2> QED BY <1>1, <1>2, <2>1, <2>2, <2>3, <2>4, <2>5, WorkerIInv DEF Goes, KeepsPackets, Serving,
             Working
<1> QED BY <1>6, <1>7

LEMMA LockIoIInv ==
  ASSUME IInv, NEW w \in Workers, LockIo(w)
  PROVE  IInv'
<1> USE DEF WAt, WGoto
<1> DEFINE o == wk[w].o
<1>1. /\ Types /\ wk[w].pc = "lock" /\ o \in Objs /\ o # None /\ wk[w].item = 0
      /\ wk[w].ev \in {"read", "write", "user"} /\ wk[w].ev \in WPc
  <2>1. Types /\ wk[w].pc = "lock" /\ wk[w].ev # "none" /\ wk[w].item = 0 /\ o \in Objs
    BY DEF LockIo, IInv, Held, WorkersHold, Ordered, ItemNext, Closing
  <2>2. wk[w].ev \in {"none", "read", "write", "user"}
    BY <2>1 DEF Types, WkType
  <2> QED BY <2>1, <2>2, NoneAssumption DEF WPc
<1>2. UNCHANGED <<net, lsn, active, cmds, ap, ops, stop, fired, queued>>
  BY DEF LockIo
<1>3. obj[o].at # "new" /\ \A v \in Workers : wk[v].pc = "publish" => wk[v].o # o
  BY <1>1 DEF IInv, Held, NewIsFresh, Settled, Life, Publishing
<1>4. CASE obj[o].valid
  <2>1. obj' = [obj EXCEPT ![o].io = w] /\ wk' = [wk EXCEPT ![w].pc = wk[w].ev] /\ obj[o].io = None
    BY <1>4 DEF LockIo
  <2>2. /\ WkOthers(w) /\ WkKeeps(w) /\ wk'[w].pc = wk[w].ev
    BY Zenon, <1>1, <2>1, WkPc
  <2>3. /\ ObjOthers(o) /\ obj'[o].io = w
        /\ obj'[o].valid = obj[o].valid /\ obj'[o].conn = obj[o].conn /\ obj'[o].buf = obj[o].buf
        /\ obj'[o].paused = obj[o].paused /\ obj'[o].armed = obj[o].armed /\ obj'[o].at = obj[o].at
    BY Zenon, <1>1, <2>1, ObjIo
  <2>4. Types' /\ InBounds'
    BY <1>1, <1>2, <2>2, <2>3 DEF Types, IInv, InBounds, WkOthers, ObjOthers
  <2>5. \A p \in Objs : /\ obj'[p].valid = obj[p].valid /\ obj'[p].conn = obj[p].conn
                        /\ obj'[p].buf = obj[p].buf /\ obj'[p].paused = obj[p].paused
                        /\ obj'[p].at = obj[p].at /\ obj'[p].armed \subseteq obj[p].armed
                        /\ p # o => obj'[p] = obj[p]
                        /\ \A v \in Workers : v # w /\ obj[p].io = v => obj'[p].io = v
    BY <2>1, <2>3, NoneAssumption DEF ObjOthers
  <2>6. /\ wk'[w].pc \in {"read", "write", "user"} /\ wk'[w].o = o /\ wk'[w].item = 0
        /\ obj'[o].io = w /\ wk[w].o = wk'[w].o
    BY <1>1, <2>2, <2>3 DEF WkKeeps
  <2> HIDE DEF o
  <2> QED BY <1>1, <1>2, <1>3, <1>4, <2>2, <2>4, <2>5, <2>6, WorkerIInv DEF Goes, KeepsPackets,
             Serving, Working
<1>5. CASE ~obj[o].valid
  <2>1. wk' = [wk EXCEPT ![w] = IdleWk] /\ UNCHANGED obj
    BY <1>5 DEF LockIo
  <2>2. WkOthers(w) /\ wk'[w].pc = "idle" /\ wk'[w].o = None /\ wk'[w].n = 0 /\ wk'[w].item = 0
    BY Zenon, <1>1, <2>1, WkIdle
  <2>3. Types' /\ InBounds'
    BY <1>1, <1>2, <2>1, <2>2 DEF Types, IInv, InBounds, WkOthers
  <2>4. \A v \in Workers : wk[v].pc = "publish" => wk[v].o # None
    BY NoneAssumption DEF IInv, Held, WorkersHold
  <2> QED BY <1>1, <1>2, <1>5, <2>1, <2>2, <2>3, <2>4, WorkerIInv DEF Goes, KeepsPackets, Serving,
             Working
<1> QED BY <1>4, <1>5

-----------------------------------------------------------------------------
(* The steps under csIo.  A worker at work has a valid object and its      *)
(* csIo, and nobody else has a packet of it in hand.                       *)
LEMMA AtWork ==
  ASSUME IInv, NEW w \in Workers, wk[w].pc \in Working
  PROVE  /\ wk[w].o \in Objs /\ wk[w].o # None
         /\ obj[wk[w].o].valid /\ obj[wk[w].o].io = w /\ obj[wk[w].o].at = "used"
         /\ obj[wk[w].o].conn \in Conns /\ net[obj[wk[w].o].conn].st = "open"
         /\ \A v \in Workers : wk[v].pc = "publish" => wk[v].o # wk[w].o
         /\ wk[w].pc \notin {"send_item", "push_front"} => wk[w].item = 0
<1> USE DEF WAt
<1>1. wk[w].o \in Objs /\ obj[wk[w].o].valid /\ obj[wk[w].o].io = w
  BY DEF IInv, Held, WorkersHold, Life, UnderIo, Working
<1>2. /\ obj[wk[w].o].at = "used" /\ obj[wk[w].o].conn \in Conns
      /\ net[obj[wk[w].o].conn].st = "open"
  BY <1>1 DEF IInv, Life, Valid
<1>3. \A v \in Workers : wk[v].pc = "publish" => wk[v].o # wk[w].o
  BY DEF IInv, Life, Publishing, Working
<1>4. wk[w].pc \notin {"send_item", "push_front"} => wk[w].item = 0
  BY DEF IInv, Ordered, ItemNext, Working, Closing
<1> QED BY <1>1, <1>2, <1>3, <1>4, NoneAssumption

LEMMA HolderHasIo ==
  ASSUME IInv, NEW v \in Workers, NEW o \in Objs, Holds(v, o)
  PROVE  /\ obj[o].io = v /\ wk[v].o = o /\ wk[v].item # 0
         /\ wk[v].pc \in {"send_item", "push_front", "invalid"} \cup Closing
BY DEF IInv, Ordered, ItemNext, Life, UnderIo, Working, Holds, WAt

(* Steps under csIo that leave the object alone.                           *)
LEMMA WorksOnIInv ==
  ASSUME IInv, Types', InBounds', NEW w \in Workers, wk[w].pc \in Working,
         WkOthers(w), WkKeeps(w), UNCHANGED <<active, obj, cmds, ap, queued>>,
         fired' = fired \/ Fire(obj[wk[w].o].conn, "receive"),
         \A c \in Conns : net'[c].st = net[c].st /\ net'[c].wire = net[c].wire,
         \/ wk'[w].pc \in {"read", "after"} /\ wk[w].item = 0
         \/ wk'[w].pc = "push_front" /\ wk[w].pc = "send_item"
         \/ wk'[w].pc = "invalid" /\ wk'[w].back = "after" /\ wk'[w].flag # "none"
  PROVE  IInv'
<1>1. /\ wk[w].o \in Objs /\ wk[w].o # None /\ obj[wk[w].o].valid /\ obj[wk[w].o].io = w
      /\ obj[wk[w].o].at = "used"
      /\ \A v \in Workers : wk[v].pc = "publish" => wk[v].o # wk[w].o
      /\ wk[w].pc \notin {"send_item", "push_front"} => wk[w].item = 0
  BY AtWork
<1>2. wk'[w].o = wk[w].o /\ wk'[w].item = wk[w].item
  BY DEF WkKeeps
<1>3. wk'[w].pc \in {"read", "after", "push_front", "invalid"}
  OBVIOUS
<1>4. \A i \in 1 .. Len(cmds) : \E j \in 1 .. Len(cmds') : cmds'[j] = cmds[i]
  OBVIOUS
<1>5. Goes(w)
  BY <1>1, <1>2, <1>3, <1>4 DEF Goes, Serving, Working
<1>6. KeepsPackets(w)
  BY <1>1, <1>2, <1>3 DEF KeepsPackets
<1> QED BY <1>5, <1>6, WorkerIInv

LEMMA ReadIInv ==
  ASSUME IInv, NEW w \in Workers, Read(w)
  PROVE  IInv'
<1>1. Types /\ wk[w].pc = "read" /\ wk[w].pc \in Working /\ {"after", "read"} \subseteq WPc
  BY Zenon DEF Read, WAt, IInv, Working, WPc
<1>2. PICK c \in Conns : c = obj[wk[w].o].conn /\ wk[w].item = 0
  BY <1>1, AtWork
<1>3. UNCHANGED <<lsn, active, obj, cmds, ap, ops, stop, queued>>
  BY Zenon DEF Read
<1>4. /\ WkOthers(w) /\ WkKeeps(w)
      /\ \/ wk'[w].pc \in {"read", "after"}
         \/ wk'[w].pc = "invalid" /\ wk'[w].back = "after" /\ wk'[w].flag # "none"
  <2>1. \/ WGoto(w, "after") \/ WGoto(w, "read")
        \/ CloseObj(w, "error", "after") \/ CloseObj(w, "close", "after")
    BY Zenon DEF Read
  <2>2. CASE WGoto(w, "after") \/ WGoto(w, "read")
    BY <1>1, <2>2, WkPc DEF WGoto
  <2>3. CASE CloseObj(w, "error", "after")
    BY <1>1, <2>3, WkCloses
  <2>4. CASE CloseObj(w, "close", "after")
    BY <1>1, <2>4, WkCloses
  <2> QED BY <2>1, <2>2, <2>3, <2>4
<1>5. CASE UNCHANGED <<net, fired>>
  <2>1. Types' /\ InBounds'
    BY <1>1, <1>3, <1>4, <1>5 DEF Types, IInv, InBounds, WkOthers
  <2> QED BY <1>1, <1>2, <1>3, <1>4, <1>5, <2>1, WorksOnIInv
<1>6. CASE net[c].in > 0 /\ net' = [net EXCEPT ![c].in = @ - 1] /\ Fire(c, "receive")
  <2>1. net[c] \in NetType /\ net[c].in - 1 \in Nat
    BY SMTT(30), <1>1, <1>2, <1>6 DEF Types, NetType
  <2>2. [net[c] EXCEPT !.in = @ - 1] \in NetType
    BY Zenon, <2>1 DEF NetType
  <2>3. net' \in [Conns -> NetType]
    BY <1>1, <1>6, <2>2 DEF Types
  <2>4. \A d \in Conns : /\ net'[d].st = net[d].st /\ net'[d].wire = net[d].wire
                         /\ net'[d].in <= net[d].in /\ net'[d].sent = net[d].sent
                         /\ net'[d].room = net[d].room
    BY SMTT(30), <1>1, <1>2, <1>6 DEF Types, NetType
  <2>5. fired' \in [Conns -> Seq(Events)]
    BY Zenon, <1>1, <1>2, <1>6, Notified DEF Events
  <2>6. Types'
    BY <1>1, <1>3, <1>4, <2>3, <2>5 DEF Types, WkOthers
  <2>7. InBounds'
    BY <1>1, <2>3, <2>4 DEF IInv, InBounds, Types, NetType
  <2> QED BY Zenon, <1>1, <1>2, <1>3, <1>4, <1>6, <2>4, <2>6, <2>7, WorksOnIInv
<1> QED BY Zenon, <1>2, <1>5, <1>6 DEF Read

LEMMA HungUpIInv ==
  ASSUME IInv, NEW w \in Workers, HungUp(w)
  PROVE  IInv'
<1>1. /\ Types /\ wk[w].pc \in Working /\ CloseObj(w, "close", "after")
      /\ UNCHANGED <<net, lsn, active, obj, cmds, ap, ops, stop, fired, queued>>
  BY DEF HungUp, WAt, IInv, Working
<1>2. /\ WkOthers(w) /\ WkKeeps(w) /\ wk'[w].pc = "invalid"
      /\ wk'[w].flag = "close" /\ wk'[w].back = "after"
  BY <1>1, WkCloses
<1>3. Types' /\ InBounds'
  BY <1>1, <1>2 DEF Types, IInv, InBounds, WkOthers
<1> QED BY <1>1, <1>2, <1>3, WorksOnIInv

(* A packet moves between the buffer, the worker's hand and the wire.      *)
LEMMA PopItemIInv ==
  ASSUME IInv, NEW w \in Workers, PopItem(w)
  PROVE  IInv'
<1>1. Types /\ wk[w].pc = "write" /\ wk[w].pc \in Working
  BY DEF PopItem, WAt, IInv, Working
<1>2. PICK o \in Objs :
      /\ o = wk[w].o /\ o # None /\ obj[o].valid /\ obj[o].io = w /\ obj[o].at = "used"
      /\ obj[o].conn \in Conns /\ net[obj[o].conn].st = "open"
      /\ \A v \in Workers : wk[v].pc = "publish" => wk[v].o # o
      /\ wk[w].item = 0
  BY <1>1, AtWork
<1>3. UNCHANGED <<net, lsn, active, cmds, ap, ops, stop, fired, queued>>
  BY DEF PopItem
<1>4. CASE ~(Pending(o) /\ wk[w].n < MaxWrites)
  <2>1. wk' = [wk EXCEPT ![w].pc = "after"] /\ UNCHANGED obj
    BY <1>2, <1>4 DEF PopItem, WGoto
  <2>2. WkOthers(w) /\ WkKeeps(w) /\ wk'[w].pc = "after"
    BY Zenon, <1>1, <2>1, WkPc DEF WPc
  <2>3. Types' /\ InBounds'
    BY <1>1, <1>3, <2>1, <2>2 DEF Types, IInv, InBounds, WkOthers
  <2> QED BY <1>1, <1>2, <1>3, <2>1, <2>2, <2>3, WorksOnIInv
<1>5. CASE Pending(o) /\ wk[w].n < MaxWrites
  <2>1. /\ obj' = [obj EXCEPT ![o].buf = Tail(@)]
        /\ wk'  = [wk EXCEPT ![w].pc = "send_item", ![w].item = Head(obj[o].buf)]
    BY <1>2, <1>5 DEF PopItem
  <2>a. /\ Head(obj[o].buf) \in Nat /\ Head(obj[o].buf) = obj[o].buf[1]
        /\ Tail(obj[o].buf) \in Seq(Nat) /\ Len(Tail(obj[o].buf)) = Len(obj[o].buf) - 1
        /\ Len(obj[o].buf) \in Nat /\ Len(obj[o].buf) >= 1
        /\ \A i \in 1 .. Len(obj[o].buf) - 1 : Tail(obj[o].buf)[i] = obj[o].buf[i + 1]
    <3>1. obj[o].buf \in Seq(Nat) /\ obj[o].buf # <<>>
      BY <1>1, <1>2, <1>5 DEF Types, ObjType, Pending
    <3> QED BY SMTT(30), <3>1
  <2>b. PICK x \in Nat : x = Head(obj[o].buf)
    BY <2>a
  <2>c. PICK t \in Seq(Nat) : t = Tail(obj[o].buf)
    BY Zenon, <2>a
  <2>2. /\ obj[o].buf[1] = x /\ 1 \in 1 .. Len(obj[o].buf)
        /\ Len(obj[o].buf) = Len(t) + 1 /\ Len(t) \in Nat
        /\ \A i \in 1 .. Len(t) : i + 1 \in 1 .. Len(obj[o].buf) /\ t[i] = obj[o].buf[i + 1]
    BY SMTT(30), <2>a, <2>b, <2>c
  <2>3. /\ ObjOthers(o) /\ obj'[o].buf = t
        /\ obj'[o].valid = obj[o].valid /\ obj'[o].conn = obj[o].conn /\ obj'[o].io = obj[o].io
        /\ obj'[o].paused = obj[o].paused /\ obj'[o].armed = obj[o].armed /\ obj'[o].at = obj[o].at
    BY Zenon, <1>1, <1>2, <2>1, <2>c, ObjBuf
  <2>4. /\ WkOthers(w) /\ wk'[w].pc = "send_item" /\ wk'[w].item = x /\ wk'[w].o = o
    <3>1. "send_item" \in WPc
      BY DEF WPc
    <3>2. wk' = [wk EXCEPT ![w].pc = "send_item", ![w].item = x]
      BY <2>1, <2>b
    <3> QED BY Zenon, <1>1, <1>2, <3>1, <3>2, WkItem
  <2>5. Types' /\ InBounds'
    BY <1>1, <1>3, <2>3, <2>4 DEF Types, IInv, InBounds, WkOthers, ObjOthers
  <2>6. Goes(w)
    <3>1. \A i \in 1 .. Len(cmds) : \E j \in 1 .. Len(cmds') : cmds'[j] = cmds[i]
      BY <1>3
    <3>2. \A p \in Objs : /\ obj'[p].valid = obj[p].valid /\ obj'[p].conn = obj[p].conn
                          /\ obj'[p].paused = obj[p].paused /\ obj'[p].at = obj[p].at
                          /\ obj[p].valid \/ obj'[p].buf = obj[p].buf
                          /\ obj'[p].armed = obj[p].armed /\ obj'[p].io = obj[p].io
                          /\ p # o => obj'[p] = obj[p]
      BY Zenon, <1>2, <2>3 DEF ObjOthers
    <3> QED BY <1>1, <1>2, <1>3, <2>3, <2>4, <3>1, <3>2 DEF Goes, Serving, Working
  <2>7. ~\E v \in Workers : Holds(v, o)
    BY <1>1, <1>2, HolderHasIo DEF Closing, Holds
  <2>8. PICK k \in Nat : k = Len(net[obj[o].conn].wire)
    BY <1>1, <1>2 DEF Types, NetType
  <2>9. /\ x = k + 1 /\ queued[obj[o].conn] = k + Len(obj[o].buf)
        /\ \A i \in 1 .. Len(obj[o].buf) : obj[o].buf[i] = k + i
    <3>1. /\ queued[obj[o].conn] = k + Len(obj[o].buf)
          /\ \A i \in 1 .. Len(obj[o].buf) : obj[o].buf[i] = k + i
      <4>1. InHand(o) = 0
        BY <2>7 DEF InHand
      <4>2. /\ queued[obj[o].conn] = Out(o) + Len(obj[o].buf)
            /\ \A i \in 1 .. Len(obj[o].buf) : obj[o].buf[i] = Out(o) + i
        BY <1>2 DEF IInv, Ordered, Buffered, BufferedAt
      <4> QED BY SMTT(30), <2>8, <4>1, <4>2 DEF Out
    <3> QED BY Zenon, <2>2, <3>1
  <2>10. OnWire'
    BY <1>3 DEF IInv, Ordered, OnWire
  <2>11. InHand(o)' = 1 /\ Len(net'[obj'[o].conn].wire) = k
    <3>1. Holds(w, o)'
      BY <1>2, <2>4, <2>9 DEF Holds
    <3> QED BY <1>3, <2>3, <2>8, <3>1 DEF InHand
  <2>12. Buffered'
    <3>1. ASSUME NEW p \in Objs, p # o
          PROVE  /\ obj'[p].at = "new" => obj'[p].buf = <<>>
                 /\ obj'[p].valid =>
                      /\ queued'[obj'[p].conn] = Out(p)' + Len(obj'[p].buf)
                      /\ \A i \in 1 .. Len(obj'[p].buf) : obj'[p].buf[i] = Out(p)' + i
      <4>1. obj'[p] = obj[p]
        BY <2>3, <3>1 DEF ObjOthers
      <4>2. \A v \in Workers : Holds(v, p)' <=> Holds(v, p)
        BY <2>4, <3>1, <1>2 DEF Holds, WkOthers
      <4>3. Out(p)' = Out(p)
        BY Zenon, <1>3, <4>1, <4>2 DEF Out, InHand
      <4> QED BY <1>3, <4>1, <4>3 DEF IInv, Ordered, Buffered, BufferedAt
    <3>2. queued'[obj'[o].conn] = Out(o)' + Len(obj'[o].buf)
      BY <1>3, <2>2, <2>3, <2>9, <2>11 DEF Out
    <3>3. ASSUME NEW i \in 1 .. Len(obj'[o].buf) PROVE obj'[o].buf[i] = Out(o)' + i
      <4>1. i + 1 \in 1 .. Len(obj[o].buf) /\ obj'[o].buf[i] = obj[o].buf[i + 1]
        BY Zenon, <2>2, <2>3, <3>3
      <4>2. obj[o].buf[i + 1] = k + (i + 1)
        BY <2>9, <4>1
      <4> QED BY <2>11, <4>1, <4>2 DEF Out
    <3>4. obj'[o].at # "new"
      BY <1>2, <2>3
    <3> QED BY <3>1, <3>2, <3>3, <3>4 DEF Buffered, BufferedAt
  <2>13. ItemNext'
    <3>1. \A v \in Workers : v # w /\ wk[v].pc \in {"send_item", "push_front"} =>
            wk[v].o \in Objs /\ obj'[wk[v].o].conn = obj[wk[v].o].conn
      BY Zenon, <2>3, AtWork DEF ObjOthers, Working
    <3>2. wk'[w].item = Len(net'[obj'[wk'[w].o].conn].wire) + 1
      BY Zenon, <1>3, <2>3, <2>4, <2>8, <2>9
    <3>3. ASSUME NEW v \in Workers, v # w, wk[v].pc \in {"send_item", "push_front"}
          PROVE  wk[v].item = Len(net'[obj'[wk[v].o].conn].wire) + 1
      BY Zenon, <1>3, <3>1, <3>3 DEF IInv, Ordered, ItemNext
    <3>4. \A v \in Workers : v # w /\ wk[v].item # 0 =>
            \/ wk[v].pc \in {"send_item", "push_front"}
            \/ wk[v].pc \in Closing \cup {"invalid"} /\ wk[v].back = "after"
      BY DEF IInv, Ordered, ItemNext
    <3> QED BY Zenon, <2>4, <3>2, <3>3, <3>4 DEF ItemNext, WkOthers
  <2> QED BY <2>5, <2>6, <2>10, <2>12, <2>13, WorkerRest DEF IInv, Ordered
<1> QED BY <1>4, <1>5

LEMMA SendItemIInv ==
  ASSUME IInv, NEW w \in Workers, SendItem(w)
  PROVE  IInv'
<1>1. Types /\ wk[w].pc = "send_item" /\ wk[w].pc \in Working
  BY Zenon DEF SendItem, WAt, IInv, Working
<1>2. PICK o \in Objs :
      /\ o = wk[w].o /\ o # None /\ obj[o].valid /\ obj[o].io = w /\ obj[o].at = "used"
      /\ obj[o].conn \in Conns /\ net[obj[o].conn].st = "open"
      /\ \A v \in Workers : wk[v].pc = "publish" => wk[v].o # o
  BY <1>1, AtWork
<1>3. UNCHANGED <<lsn, active, obj, cmds, ap, ops, stop, fired, queued>>
  BY Zenon DEF SendItem
<1>4. PICK c \in Conns : c = obj[o].conn
  BY <1>2
<1>5. CASE wk' = [wk EXCEPT ![w].pc = "push_front"] /\ UNCHANGED net
  <2>1. WkOthers(w) /\ WkKeeps(w) /\ wk'[w].pc = "push_front"
    BY Zenon, <1>1, <1>5, WkPc DEF WPc
  <2>2. Types' /\ InBounds'
    BY <1>1, <1>3, <1>5, <2>1 DEF Types, IInv, InBounds, WkOthers
  <2> QED BY <1>1, <1>3, <1>5, <2>1, <2>2, WorksOnIInv
<1>6. CASE CloseObj(w, "error", "after") /\ UNCHANGED net
  <2>1. /\ WkOthers(w) /\ WkKeeps(w) /\ wk'[w].pc = "invalid"
        /\ wk'[w].flag = "error" /\ wk'[w].back = "after"
    BY <1>1, <1>6, WkCloses
  <2>2. Types' /\ InBounds'
    BY <1>1, <1>3, <1>6, <2>1 DEF Types, IInv, InBounds, WkOthers
  <2> QED BY <1>1, <1>3, <1>6, <2>1, <2>2, WorksOnIInv
<1>7. CASE /\ net[c].room > 0
           /\ net' = [net EXCEPT ![c].room = @ - 1, ![c].wire = Append(@, wk[w].item)]
           /\ wk'  = [wk EXCEPT ![w].pc = "write", ![w].item = 0, ![w].n = @ + 1]
  <2>1. WkOthers(w) /\ wk'[w].pc = "write" /\ wk'[w].item = 0 /\ wk'[w].o = o
    BY Zenon, <1>1, <1>2, <1>7, WkSent
  <2>2. PICK k \in Nat : k = Len(net[c].wire)
    BY <1>1 DEF Types, NetType
  <2>3. wk[w].item = k + 1
    BY <1>1, <1>2, <1>4, <2>2 DEF IInv, Ordered, ItemNext
  <2>a. /\ Append(net[c].wire, k + 1) \in Seq(Nat) /\ Len(Append(net[c].wire, k + 1)) = k + 1
        /\ Append(net[c].wire, k + 1)[k + 1] = k + 1
        /\ \A i \in 1 .. k : Append(net[c].wire, k + 1)[i] = net[c].wire[i]
    <3>1. net[c].wire \in Seq(Nat)
      BY <1>1 DEF Types, NetType
    <3> QED BY <2>2, <3>1
  <2>b. PICK x \in Seq(Nat) : x = Append(net[c].wire, k + 1)
    BY Zenon, <2>a
  <2>4. /\ x = Append(net[c].wire, k + 1) /\ Len(x) = k + 1 /\ x[k + 1] = k + 1
        /\ \A i \in 1 .. k : x[i] = net[c].wire[i]
    BY <2>a, <2>b
  <2>5. net[c] \in NetType /\ net[c].room - 1 \in Nat
    BY <1>1, <1>7 DEF Types, NetType
  <2>6. /\ net'[c] = [net[c] EXCEPT !.room = net[c].room - 1, !.wire = x]
        /\ \A d \in Conns : d # c => net'[d] = net[d]
    BY <1>1, <1>7, <2>3, <2>b DEF Types
  <2>7. [net[c] EXCEPT !.room = net[c].room - 1, !.wire = x] \in NetType
    BY Zenon, <2>5 DEF NetType
  <2>8. net' \in [Conns -> NetType] /\ \A d \in Conns : d # c => net'[d] = net[d]
    BY <1>1, <1>7, <2>3, <2>b, <2>6, <2>7 DEF Types
  <2>9. /\ net'[c].wire = x /\ net'[c].st = net[c].st /\ net'[c].in = net[c].in
        /\ net'[c].sent = net[c].sent /\ net'[c].room = net[c].room - 1
    BY <2>5, <2>6 DEF NetType
  <2>10. Types'
    BY <1>1, <1>3, <2>1, <2>8 DEF Types, WkOthers
  <2>11. InBounds'
    <3>1. \A d \in Conns : /\ net'[d].in = net[d].in /\ net'[d].sent = net[d].sent
                           /\ net'[d].room = net[d].room \/ net'[d].room = net[d].room - 1
      BY <2>8, <2>9
    <3>2. \A d \in Conns : net[d].room \in Nat
      BY <1>1 DEF Types, NetType
    <3> QED BY <3>1, <3>2, BoundAssumption DEF IInv, InBounds
  <2>12. Goes(w)
    <3>1. \A i \in 1 .. Len(cmds) : \E j \in 1 .. Len(cmds') : cmds'[j] = cmds[i]
      BY <1>3
    <3>2. \A d \in Conns : net'[d].st = net[d].st /\ (net[d].st = "open" \/ net'[d].wire = net[d].wire)
      BY Zenon, <1>2, <1>4, <2>8, <2>9
    <3> QED BY <1>1, <1>2, <1>3, <2>1, <3>1, <3>2 DEF Goes, Serving, Working
  <2>13. InHand(o) = 1 /\ InHand(o)' = 0
    <3>1. Holds(w, o)
      BY <1>2, <2>3 DEF Holds
    <3>2. ASSUME NEW v \in Workers, Holds(v, o)' PROVE FALSE
      <4>1. v # w /\ Holds(v, o)
        BY <2>1, <3>2 DEF Holds, WkOthers
      <4> QED BY <1>2, <4>1, HolderHasIo
    <3> QED BY <3>1, <3>2 DEF InHand
  <2>14. k + 1 <= queued[c]
    <3>1. queued[obj[o].conn] = Out(o) + Len(obj[o].buf)
      BY <1>2 DEF IInv, Ordered, Buffered, BufferedAt
    <3>2. PICK n \in Nat : n = Len(obj[o].buf)
      BY <1>1 DEF Types, ObjType
    <3>3. Len(net[obj[o].conn].wire) + InHand(o) = k + 1
      BY <1>4, <2>2, <2>13
    <3>4. queued[obj[o].conn] = (k + 1) + n
      BY Zenon, <3>1, <3>2, <3>3 DEF Out
    <3>5. queued[c] = (k + 1) + n
      BY <1>4, <3>4
    <3> QED BY <3>5
  <2>15. OnWire'
    <3>1. ASSUME NEW i \in 1 .. Len(x) PROVE x[i] = i
      <4>1. CASE i \in 1 .. k
        BY <2>2, <2>4, <4>1 DEF IInv, Ordered, OnWire
      <4>2. CASE i = k + 1
        BY <2>4, <4>2
      <4> QED BY <2>4, <4>1, <4>2
    <3>2. Len(x) <= queued[c]
      <4>1. Len(x) = k + 1
        BY <2>4
      <4> QED BY <2>14, <4>1
    <3> QED BY <1>3, <2>8, <2>9, <3>1, <3>2 DEF IInv, Ordered, OnWire
  <2>16. Buffered'
    <3>1. ASSUME NEW p \in Objs, p # o PROVE BufferedAt(p)'
      <4>1. obj[p].valid => obj[p].conn # c /\ obj[p].conn \in Conns
        BY <1>2, <1>4, <3>1, NoneAssumption DEF IInv, Held, ConnsApart, Life, Valid
      <4>2. \A v \in Workers : Holds(v, p)' <=> Holds(v, p)
        BY <1>2, <2>1, <3>1 DEF Holds, WkOthers
      <4> QED BY <1>3, <2>8, <4>1, <4>2, BufferedStays
    <3>2. Out(o)' = Out(o)
      <4>1. Len(net[obj[o].conn].wire) = k
        BY <1>4, <2>2
      <4>2. Len(net'[obj'[o].conn].wire) = k + 1
        BY Zenon, <1>3, <1>4, <2>4, <2>9
      <4> QED BY <2>13, <4>1, <4>2 DEF Out
    <3>3. BufferedAt(o)'
      BY <1>3, <3>2 DEF IInv, Ordered, Buffered, BufferedAt
    <3> QED BY <3>1, <3>3 DEF Buffered
  <2>17. ItemNext'
    <3>1. ASSUME NEW v \in Workers, v # w, wk[v].pc \in {"send_item", "push_front"}
          PROVE  wk[v].item = Len(net'[obj'[wk[v].o].conn].wire) + 1
      <4>1. wk[v].o \in Objs /\ obj[wk[v].o].valid /\ obj[wk[v].o].conn \in Conns /\ wk[v].o # o
        BY <1>2, <3>1, AtWork DEF Working
      <4>2. obj[wk[v].o].conn # c
        BY <1>4, <4>1, NoneAssumption DEF IInv, Held, ConnsApart
      <4> QED BY Zenon, <1>3, <2>8, <3>1, <4>1, <4>2 DEF IInv, Ordered, ItemNext
    <3>2. \A v \in Workers : v # w /\ wk[v].item # 0 =>
            \/ wk[v].pc \in {"send_item", "push_front"}
            \/ wk[v].pc \in Closing \cup {"invalid"} /\ wk[v].back = "after"
      BY DEF IInv, Ordered, ItemNext
    <3> QED BY Zenon, <2>1, <3>1, <3>2 DEF ItemNext, WkOthers
  <2> QED BY <2>10, <2>11, <2>12, <2>15, <2>16, <2>17, WorkerRest DEF IInv, Ordered
<1> QED BY Zenon, <1>2, <1>4, <1>5, <1>6, <1>7 DEF SendItem, WGoto

LEMMA PushFrontIInv ==
  ASSUME IInv, NEW w \in Workers, PushFront(w)
  PROVE  IInv'
<1>1. Types /\ wk[w].pc = "push_front" /\ wk[w].pc \in Working
  BY DEF PushFront, WAt, IInv, Working
<1>2. PICK o \in Objs :
      /\ o = wk[w].o /\ o # None /\ obj[o].valid /\ obj[o].io = w /\ obj[o].at = "used"
      /\ obj[o].conn \in Conns /\ net[obj[o].conn].st = "open"
      /\ \A v \in Workers : wk[v].pc = "publish" => wk[v].o # o
  BY <1>1, AtWork
<1>3. /\ UNCHANGED <<net, lsn, active, cmds, ap, ops, stop, fired, queued>>
      /\ obj' = [obj EXCEPT ![o].buf = <<wk[w].item>> \o @]
      /\ wk'  = [wk EXCEPT ![w].pc = "after", ![w].item = 0]
  BY <1>2 DEF PushFront
<1>4. PICK k \in Nat : k = Len(net[obj[o].conn].wire)
  BY <1>1, <1>2 DEF Types, NetType
<1>5. wk[w].item = k + 1
  BY <1>1, <1>2, <1>4 DEF IInv, Ordered, ItemNext
<1>6. obj[o].buf \in Seq(Nat) /\ Len(obj[o].buf) \in Nat
  BY <1>1 DEF Types, ObjType
<1>a. /\ <<k + 1>> \o obj[o].buf \in Seq(Nat) /\ Len(<<k + 1>> \o obj[o].buf) = Len(obj[o].buf) + 1
      /\ (<<k + 1>> \o obj[o].buf)[1] = k + 1
      /\ \A i \in 2 .. Len(obj[o].buf) + 1 : (<<k + 1>> \o obj[o].buf)[i] = obj[o].buf[i - 1]
  <2>1. <<k + 1>> \in Seq(Nat) /\ Len(<<k + 1>>) = 1
    OBVIOUS
  <2> QED BY <1>6, <2>1
<1>b. PICK x \in Seq(Nat) : x = <<k + 1>> \o obj[o].buf
  BY Zenon, <1>a
<1>7. /\ Len(x) = Len(obj[o].buf) + 1 /\ x[1] = k + 1
      /\ \A i \in 2 .. Len(x) : x[i] = obj[o].buf[i - 1]
  BY <1>a, <1>b
<1>8. /\ ObjOthers(o) /\ obj'[o].buf = x
      /\ obj'[o].valid = obj[o].valid /\ obj'[o].conn = obj[o].conn /\ obj'[o].io = obj[o].io
      /\ obj'[o].paused = obj[o].paused /\ obj'[o].armed = obj[o].armed /\ obj'[o].at = obj[o].at
  <2>1. obj' = [obj EXCEPT ![o].buf = x]
    BY Zenon, <1>3, <1>5, <1>b, <1>2
  <2> QED BY Zenon, <1>1, <2>1, ObjBuf
<1>9. WkOthers(w) /\ wk'[w].pc = "after" /\ wk'[w].item = 0 /\ wk'[w].o = o
  <2>1. "after" \in WPc /\ 0 \in Nat
    BY DEF WPc
  <2> QED BY Zenon, <1>1, <1>2, <1>3, <2>1, WkItem
<1>10. Types' /\ InBounds'
  BY <1>1, <1>3, <1>8, <1>9 DEF Types, IInv, InBounds, WkOthers, ObjOthers
<1>11. Goes(w)
  <2>1. \A i \in 1 .. Len(cmds) : \E j \in 1 .. Len(cmds') : cmds'[j] = cmds[i]
    BY <1>3
  <2>2. \A p \in Objs : /\ obj'[p].valid = obj[p].valid /\ obj'[p].conn = obj[p].conn
                        /\ obj'[p].paused = obj[p].paused /\ obj'[p].at = obj[p].at
                        /\ obj[p].valid \/ obj'[p].buf = obj[p].buf
                        /\ obj'[p].armed = obj[p].armed /\ obj'[p].io = obj[p].io
                        /\ p # o => obj'[p] = obj[p]
    BY Zenon, <1>2, <1>8 DEF ObjOthers
  <2>3. /\ wk[w].o = o /\ wk'[w].o = o /\ o \in Objs /\ wk'[w].pc = "after" /\ wk[w].pc = "push_front"
        /\ WkOthers(w) /\ fired' = fired /\ net' = net /\ UNCHANGED <<active, ap, queued>>
    BY <1>1, <1>2, <1>3, <1>9
  <2>4. wk[w].pc \in Serving /\ wk[w].pc # "idle" /\ wk'[w].pc \in Serving
    BY <2>3 DEF Serving, Working
  <2>5. obj[o].at # "new" /\ obj[o].valid
    BY <1>2
  <2> QED BY <1>2, <2>1, <2>2, <2>3, <2>4, <2>5 DEF Goes, Working
<1>12. InHand(o) = 1 /\ InHand(o)' = 0
  <2>1. Holds(w, o)
    BY <1>2, <1>5 DEF Holds
  <2>2. ASSUME NEW v \in Workers, Holds(v, o)' PROVE FALSE
    <3>1. v # w /\ Holds(v, o)
      BY <1>9, <2>2 DEF Holds, WkOthers
    <3> QED BY <1>2, <3>1, HolderHasIo
  <2> QED BY <2>1, <2>2 DEF InHand
<1>13. /\ queued[obj[o].conn] = k + 1 + Len(obj[o].buf)
       /\ \A i \in 1 .. Len(obj[o].buf) : obj[o].buf[i] = k + 1 + i
  <2>1. /\ queued[obj[o].conn] = Out(o) + Len(obj[o].buf)
        /\ \A i \in 1 .. Len(obj[o].buf) : obj[o].buf[i] = Out(o) + i
    BY <1>2 DEF IInv, Ordered, Buffered, BufferedAt
  <2> QED BY Zenon, <1>4, <1>12, <2>1 DEF Out
<1>14. OnWire'
  BY <1>3 DEF IInv, Ordered, OnWire
<1>15. Buffered'
  <2>1. ASSUME NEW p \in Objs, p # o PROVE BufferedAt(p)'
    <3>1. \A v \in Workers : Holds(v, p)' <=> Holds(v, p)
      BY <1>2, <1>9, <2>1 DEF Holds, WkOthers
    <3> QED BY <1>3, <1>8, <2>1, <3>1, BufferedStays DEF ObjOthers
  <2>2. queued'[obj'[o].conn] = Out(o)' + Len(obj'[o].buf)
    <3>1. Len(net'[obj'[o].conn].wire) = k /\ Len(obj'[o].buf) = Len(obj[o].buf) + 1
      BY <1>3, <1>4, <1>7, <1>8
    <3>2. queued'[obj'[o].conn] = k + 1 + Len(obj[o].buf)
      BY <1>3, <1>8, <1>13
    <3>3. Len(net'[obj'[o].conn].wire) + InHand(o)' = k
      BY <1>12, <3>1
    <3>4. PICK n \in Nat : n = Len(obj[o].buf)
      BY <1>6
    <3>5. Len(obj'[o].buf) = n + 1 /\ queued'[obj'[o].conn] = (k + 1) + n
      BY <3>1, <3>2, <3>4
    <3>6. queued'[obj'[o].conn] = k + Len(obj'[o].buf)
      BY <3>5
    <3> QED BY <3>3, <3>6 DEF Out
  <2>3. ASSUME NEW i \in 1 .. Len(obj'[o].buf) PROVE obj'[o].buf[i] = Out(o)' + i
    <3>1. x[i] = k + i
      <4>1. CASE i = 1
        BY <1>7, <4>1
      <4>2. CASE i # 1
        <5>1. i - 1 \in 1 .. Len(obj[o].buf) /\ x[i] = obj[o].buf[i - 1]
          BY <1>6, <1>7, <1>8, <2>3, <4>2
        <5>2. obj[o].buf[i - 1] = k + 1 + (i - 1)
          BY Zenon, <1>13, <5>1
        <5> QED BY <5>1, <5>2
      <4> QED BY <4>1, <4>2
    <3> QED BY SMTT(30), <1>3, <1>4, <1>8, <1>12, <3>1 DEF Out
  <2>4. obj'[o].at # "new"
    BY <1>2, <1>8
  <2> QED BY <2>1, <2>2, <2>3, <2>4 DEF Buffered, BufferedAt
<1>16. ItemNext'
  <2>1. \A v \in Workers : v # w /\ wk[v].pc \in {"send_item", "push_front"} =>
          wk[v].o \in Objs /\ obj'[wk[v].o].conn = obj[wk[v].o].conn
    BY <1>8, AtWork DEF ObjOthers, Working
  <2>2. ASSUME NEW v \in Workers, v # w, wk[v].pc \in {"send_item", "push_front"}
        PROVE  wk[v].item = Len(net'[obj'[wk[v].o].conn].wire) + 1
    BY Zenon, <1>3, <2>1, <2>2 DEF IInv, Ordered, ItemNext
  <2>3. \A v \in Workers : v # w /\ wk[v].item # 0 =>
          \/ wk[v].pc \in {"send_item", "push_front"}
          \/ wk[v].pc \in Closing \cup {"invalid"} /\ wk[v].back = "after"
    BY DEF IInv, Ordered, ItemNext
  <2> QED BY Zenon, <1>9, <2>2, <2>3 DEF ItemNext, WkOthers
<1> QED BY <1>10, <1>11, <1>14, <1>15, <1>16, WorkerRest DEF IInv, Ordered

(* The end of the hold: the next event armed, csIo released.               *)
LEMMA AfterIInv ==
  ASSUME IInv, NEW w \in Workers, After(w)
  PROVE  IInv'
<1>1. /\ Types /\ wk[w].pc = "after" /\ wk[w].item = 0
      /\ UNCHANGED <<net, lsn, active, cmds, ap, ops, stop, fired, queued>>
  BY DEF After, WAt, IInv, Ordered, ItemNext, Closing
<1>2. PICK o \in Objs : o = wk[w].o /\ o # None /\ obj[o].io = w
  BY <1>1, NoneAssumption DEF IInv, Held, WorkersHold, Life, UnderIo, WAt
<1>3. PICK x \in SUBSET {"read", "write"} :
        /\ x = IF obj[o].valid THEN Rearm(o) ELSE obj[o].armed
        /\ ~obj[o].valid => x = obj[o].armed
        /\ obj[o].valid /\ ~obj[o].paused => "read" \in x
  <2>1. obj[o].armed \subseteq {"read", "write"}
    BY <1>1 DEF Types, ObjType
  <2>2. Filter(o) \subseteq {"read", "write"} /\ (~obj[o].paused => Filter(o) = {"read"})
    BY DEF Filter
  <2>3. obj[o].valid => obj[o].conn # None /\ net[obj[o].conn].st = "open"
    BY NoneAssumption DEF IInv, Life, Valid
  <2>4. Rearm(o) \subseteq {"read", "write"}
    BY <2>1, <2>2 DEF Rearm
  <2>5. obj[o].valid /\ ~obj[o].paused => "read" \in Rearm(o)
    BY <2>2, <2>3 DEF Rearm, IsOpen
  <2> QED BY <2>1, <2>4, <2>5
<1>4. /\ ObjOthers(o) /\ obj'[o].armed = x /\ obj'[o].io = None
      /\ obj'[o].valid = obj[o].valid /\ obj'[o].conn = obj[o].conn /\ obj'[o].buf = obj[o].buf
      /\ obj'[o].paused = obj[o].paused /\ obj'[o].at = obj[o].at
  <2>1. obj' = [obj EXCEPT ![o].armed = x, ![o].io = None]
    BY <1>2, <1>3 DEF After
  <2>2. obj[o] \in ObjType
    BY <1>1 DEF Types
  <2>3. [obj[o] EXCEPT !.armed = x, !.io = None] \in ObjType
    BY Zenon, <2>2 DEF ObjType
  <2>4. obj'[o] = [obj[o] EXCEPT !.armed = x, !.io = None] /\ \A p \in Objs : p # o => obj'[p] = obj[p]
    BY <1>1, <2>1 DEF Types
  <2>5. obj' \in [Objs -> ObjType]
    BY <1>1, <2>1, <2>3 DEF Types
  <2> QED BY <2>2, <2>4, <2>5 DEF ObjType, ObjOthers
<1>5. WkOthers(w) /\ wk'[w].pc = "idle" /\ wk'[w].o = None /\ wk'[w].n = 0 /\ wk'[w].item = 0
  BY Zenon, <1>1, WkIdle DEF After
<1>6. Types' /\ InBounds'
  BY <1>1, <1>4, <1>5 DEF Types, IInv, InBounds, WkOthers, ObjOthers
<1>7. Goes(w)
  <2>1. \A i \in 1 .. Len(cmds) : \E j \in 1 .. Len(cmds') : cmds'[j] = cmds[i]
    BY <1>1
  <2>2. ASSUME NEW p \in Objs
        PROVE  /\ obj'[p].valid = obj[p].valid /\ obj'[p].conn = obj[p].conn
               /\ obj'[p].paused = obj[p].paused /\ obj'[p].at = obj[p].at
               /\ obj'[p].buf = obj[p].buf
               /\ ~obj[p].valid \/ p # o => obj'[p].armed = obj[p].armed
               /\ p # o => obj'[p] = obj[p]
    <3>1. CASE p = o
      <4>1. ~obj[o].valid => obj'[o].armed = obj[o].armed
        BY <1>3, <1>4
      <4> QED BY <1>4, <3>1, <4>1
    <3>2. CASE p # o
      BY <1>4, <3>2 DEF ObjOthers
    <3> QED BY <3>1, <3>2
  <2>4. \A p \in Objs : \A v \in Workers : v # w /\ obj[p].io = v => obj'[p].io = v
    BY <1>2, <1>4 DEF ObjOthers
  <2>3. \A v \in Workers : wk[v].pc = "publish" => wk[v].o # None
    BY NoneAssumption DEF IInv, Held, WorkersHold, WAt
  <2> QED BY SMTT(30), <1>1, <1>2, <1>3, <1>4, <1>5, <2>1, <2>2, <2>3, <2>4 DEF Goes, Serving,
             Working
<1>8. KeepsPackets(w)
  BY <1>1, <1>4, <1>5 DEF KeepsPackets, ObjOthers
<1> QED BY <1>6, <1>7, <1>8, WorkerIInv

-----------------------------------------------------------------------------
(* The steps of accepting and of closing.  They move no packet of an open  *)
(* connection, and drop no valid object that is not armed.                 *)
LEMMA CallbackKeeps ==
  ASSUME IInv, NEW w \in Workers, WkOthers(w), UNCHANGED <<cmds, ap, queued>>,
         \A c \in Conns : net'[c].wire = net[c].wire,
         \A p \in Objs :
           /\ obj'[p].at = "new" => obj'[p].buf = <<>>
           /\ obj'[p].valid => /\ obj[p].valid /\ obj'[p].conn = obj[p].conn
                               /\ obj'[p].buf = obj[p].buf /\ obj'[p].paused = obj[p].paused
                               /\ obj'[p].armed = obj[p].armed \/ obj[p].paused \/ "read" \in obj'[p].armed,
         \A v \in Workers : v # w /\ wk[v].pc \in {"send_item", "push_front"} => obj'[wk[v].o].conn = obj[wk[v].o].conn,
         \/ wk'[w].o = wk[w].o /\ wk'[w].item = wk[w].item
         \/ wk'[w].item = 0 /\ wk'[w].o \in {None, wk[w].o} /\ ~obj'[wk[w].o].valid
         \/ /\ wk'[w].item = 0 /\ wk[w].item = 0 /\ wk'[w].o = None
            /\ obj[wk[w].o].paused \/ "read" \in obj'[wk[w].o].armed,
         wk[w].pc \notin {"send_item", "push_front"}, wk'[w].pc \notin {"send_item", "push_front"},
         wk'[w].item # 0 => wk'[w].pc \in Closing \cup {"invalid"} /\ wk'[w].back = "after",
         wk'[w].pc = "accept" /\ wk'[w].o # None => ~obj'[wk'[w].o].valid
  PROVE  Ordered' /\ StaysArmed'
<1> USE DEF WAt, WkOthers
<1>1. Types
  BY DEF IInv
<1>2. OnWire' /\ Buffered'
  <2>1. ASSUME NEW p \in Objs, obj'[p].valid, NEW v \in Workers PROVE Holds(v, p)' <=> Holds(v, p)
    <3>1. CASE v # w
      BY <3>1 DEF Holds
    <3>2. CASE v = w
      BY <2>1, <3>2, NoneAssumption DEF Holds
    <3> QED BY <3>1, <3>2
  <2> QED BY <2>1, PacketsKept
<1>3. ItemNext'
  <2>1. ASSUME NEW v \in Workers, v # w, wk[v].pc \in {"send_item", "push_front"}
        PROVE  wk[v].item = Len(net'[obj'[wk[v].o].conn].wire) + 1
    <3>1. obj[wk[v].o].conn \in Conns
      BY Zenon, <2>1, AtWork DEF Working
    <3>2. wk[v].item = Len(net[obj[wk[v].o].conn].wire) + 1
      BY <2>1 DEF IInv, Ordered, ItemNext
    <3>3. net'[obj[wk[v].o].conn].wire = net[obj[wk[v].o].conn].wire
      BY <3>1
    <3> QED BY Zenon, <2>1, <3>2, <3>3
  <2>2. \A v \in Workers : v # w /\ wk[v].item # 0 =>
          \/ wk[v].pc \in {"send_item", "push_front"}
          \/ wk[v].pc \in Closing \cup {"invalid"} /\ wk[v].back = "after"
    BY DEF IInv, Ordered, ItemNext
  <2> QED BY <2>1, <2>2 DEF ItemNext
<1>4. StaysArmed'
  <2>1. ASSUME NEW p \in Objs, obj'[p].valid, ~obj'[p].paused, ~Arming(p)'
        PROVE "read" \in obj'[p].armed
    <3>1. /\ obj[p].valid /\ obj'[p].conn = obj[p].conn /\ ~obj[p].paused /\ p # None
          /\ obj'[p].armed = obj[p].armed \/ "read" \in obj'[p].armed
      BY <2>1, NoneAssumption
    <3>2. \A v \in Workers : wk'[v].o # p
      BY <2>1 DEF Arming
    <3>3. \A a \in Apps : ~(ap[a].pc = "post" /\ ap[a].o = p)
      BY <2>1 DEF Arming
    <3>4. ~\E i \in 1 .. Len(cmds) : cmds[i].type = "unpause" /\ cmds[i].c = obj[p].conn
      BY <2>1, <3>1 DEF Arming
    <3>5. CASE wk[w].o = p
      BY <2>1, <3>1, <3>2, <3>5
    <3>6. CASE wk[w].o # p
      <4>1. ~Arming(p)
        BY <3>2, <3>3, <3>4, <3>6 DEF Arming
      <4> QED BY <3>1, <4>1 DEF IInv, StaysArmed
    <3> QED BY <3>5, <3>6
  <2>2. \A v \in Workers : v # w /\ wk[v].pc = "accept" /\ wk[v].o # None => ~obj'[wk[v].o].valid
    <3>1. \A v \in Workers : wk[v].o # None => wk[v].o \in Objs
      BY <1>1 DEF Types, WkType
    <3> QED BY <3>1 DEF IInv, StaysArmed
  <2> QED BY <2>1, <2>2 DEF StaysArmed
<1> QED BY <1>2, <1>3, <1>4 DEF Ordered

(* What the accepting and closing workers know of the notifications.       *)
LEMMA ToldStays ==
  ASSUME IInv, NEW w \in Workers, WkOthers(w),
         \A c \in Conns : /\ Has(c, "shake")' <=> Has(c, "shake")
                          /\ Has(c, "close") => Has(c, "close")'
                          /\ net'[c].st = "closed" =>
                               net[c].st = "closed" \/ Has(c, "close")' \/ Unaccepted(c)',
         \A v \in Workers : v # w /\ wk[v].pc \in Closing => obj'[wk[v].o].conn = obj[wk[v].o].conn,
         wk'[w].pc \in {"publish", "on_accept", "on_shake"} =>
           /\ \E c \in Conns : c = wk'[w].c /\ ~Has(c, "shake")
           /\ \/ wk[w].pc \in {"publish", "on_accept", "on_shake"} /\ wk'[w].c = wk[w].c
              \/ net[wk'[w].c].st \notin {"open", "closed"},
         wk'[w].pc \in Closing \cup {"invalid"} =>
           IF wk'[w].flag = "none"
           THEN wk'[w].back = "accept" /\ \E c \in Conns : c = wk'[w].c /\ Unaccepted(c)'
           ELSE wk'[w].pc = "close" => \E c \in Conns : c = obj'[wk'[w].o].conn /\ Has(c, "close")'
  PROVE  ToldOrUnaccepted'
<1> USE DEF WkOthers
<1>1. \A c \in Conns : net[c].st \in {"open", "closed"} /\ Unaccepted(c) => Unaccepted(c)'
  BY DEF Unaccepted
<1>2. \A v \in Workers : InAccept(v) => wk[v].c \in Conns /\ net[wk[v].c].st \in {"open", "closed"}
  <2>1. ASSUME NEW v \in Workers, InAccept(v)
        PROVE wk[v].o \in Objs /\ wk[v].c \in Conns /\ obj[wk[v].o].conn = wk[v].c
    BY <2>1 DEF IInv, Held, WorkersHold, InAccept, Accepting, Closing
  <2> QED BY <2>1, NoneAssumption DEF IInv, Held, ConnsApart
<1>3. ASSUME NEW v \in Workers, wk'[v].pc \in {"publish", "on_accept", "on_shake"}
      PROVE  \E c \in Conns : c = wk'[v].c /\ ~Has(c, "shake")'
  <2>1. CASE v = w
    BY <1>3, <2>1
  <2>2. CASE v # w
    <3>1. ~Has(wk[v].c, "shake") /\ wk[v].c \in Conns
      BY <1>2, <1>3, <2>2 DEF InAccept, Accepting, IInv, Told, ToldOrUnaccepted
    <3> QED BY <2>2, <3>1
  <2> QED BY <2>1, <2>2
<1>4. ASSUME NEW v \in Workers, wk'[v].pc \in Closing \cup {"invalid"}, wk'[v].flag = "none"
      PROVE  wk'[v].back = "accept" /\ \E c \in Conns : c = wk'[v].c /\ Unaccepted(c)'
  <2>1. CASE v = w
    BY <1>4, <2>1
  <2>2. CASE v # w
    <3>1. wk[v].back = "accept" /\ Unaccepted(wk[v].c)
      BY <1>4, <2>2 DEF IInv, Told, ToldOrUnaccepted
    <3>2. wk[v].c \in Conns /\ net[wk[v].c].st \in {"open", "closed"}
      BY <1>2, <1>4, <2>2, <3>1 DEF InAccept
    <3> QED BY <1>1, <2>2, <3>1, <3>2
  <2> QED BY <2>1, <2>2
<1>5. ASSUME NEW v \in Workers, wk'[v].pc = "close", wk'[v].flag # "none"
      PROVE  \E c \in Conns : c = obj'[wk'[v].o].conn /\ Has(c, "close")'
  <2>1. CASE v = w
    BY <1>5, <2>1 DEF Closing
  <2>2. CASE v # w
    <3>1. wk'[v] = wk[v] /\ wk[v].pc \in Closing
      BY <1>5, <2>2 DEF Closing
    <3>2. obj[wk[v].o].conn \in Conns
      BY <3>1 DEF IInv, Life, ClosingOne
    <3>3. Has(obj[wk[v].o].conn, "close")
      BY <1>5, <3>1 DEF IInv, Told, ToldOrUnaccepted, WAt
    <3> QED BY <2>2, <3>1, <3>2, <3>3
  <2> QED BY <2>1, <2>2
<1>6. \A c \in Conns : net'[c].st = "closed" => Has(c, "close")' \/ Unaccepted(c)'
  <2>1. \A c \in Conns : net[c].st = "closed" => Has(c, "close") \/ Unaccepted(c)
    BY DEF IInv, Told, ToldOrUnaccepted
  <2> QED BY <1>1, <2>1
<1> QED BY <1>3, <1>4, <1>5, <1>6, ToldFrom

(* OnAccept and OnHandShake.                                               *)
LEMMA AskedIInv ==
  ASSUME IInv, NEW w \in Workers, wk[w].pc \in {"on_accept", "on_shake"},
         NEW e0 \in {"accept", "refuse", "shake", "shake_error"}, Fire(wk[w].c, e0),
         UNCHANGED <<net, lsn, active, obj, cmds, ap, ops, stop, queued>>,
         WkOthers(w), WkKeeps(w),
         \/ wk'[w].pc \in {"on_shake", "arm"} /\ (e0 = "shake" => wk'[w].pc = "arm")
         \/ wk'[w].pc = "invalid" /\ wk'[w].flag = "none" /\ wk'[w].back = "accept" /\ e0 # "shake"
  PROVE  IInv'
<1> USE DEF WAt, WkOthers
<1>1. PICK o \in Objs, c \in Conns : o = wk[w].o /\ c = wk[w].c /\ obj[o].conn = c
  BY DEF IInv, Held, WorkersHold, InAccept, Accepting
<1>2. Types /\ e0 \in Events /\ wk'[w].o = o /\ wk'[w].c = c /\ wk'[w].item = 0 /\ wk[w].item = 0 /\ o # None
  BY <1>1, NoneAssumption DEF IInv, Events, WkKeeps, Ordered, ItemNext, Closing
<1>3. /\ fired' \in [Conns -> Seq(Events)]
      /\ \A d \in Conns, e \in Events : Has(d, e)' <=> Has(d, e) \/ (d = c /\ e = e0)
  <2>1. Fire(c, e0)
    BY Zenon, <1>1
  <2> QED BY Zenon, <1>2, <2>1, Notified
<1>4. {"close", "shake"} \subseteq Events /\ net[c].st \in {"open", "closed"}
  BY <1>1, NoneAssumption DEF Events, IInv, Held, ConnsApart
<1>5. NotBegun' /\ CloseOnce'
  BY <1>1, <1>2, <1>4, NotifiedInOrder
<1>6. Types' /\ InBounds'
  BY <1>2, <1>3 DEF Types, IInv, InBounds
<1>7. Held'
  <2>1. WorkersHold'
    BY <1>1, <1>2 DEF IInv, Held, WorkersHold, InAccept, Accepting, Closing
  <2>2. AppsHold' /\ ConnsApart'
    BY DEF IInv, Held, AppsHold, ConnsApart
  <2>3. NewIsFresh'
    BY <1>1, <1>2 DEF IInv, Held, NewIsFresh, Settled
  <2> QED BY <2>1, <2>2, <2>3 DEF Held
<1>8. Life'
  <2>1. Publishing' /\ Valid' /\ Unarmed'
    BY SMTT(30), <1>1, <1>2 DEF IInv, Life, Publishing, Valid, Unarmed
  <2>2. Parked' /\ Published'
    BY DEF IInv, Life, Parked, Published
  <2>3. ClosingOne' /\ UnderIo'
    BY SMTT(30), <1>1, <1>2 DEF IInv, Life, ClosingOne, UnderIo, Closing, Working
  <2> QED BY <2>1, <2>2, <2>3 DEF Life
<1>9. Told'
  <2>1. \A d \in Conns : Has(d, "close")' <=> Has(d, "close")
    BY <1>2, <1>3, <1>4
  <2>2. \A d \in Conns : Has(d, "shake")' <=> Has(d, "shake") \/ (d = c /\ e0 = "shake")
    BY <1>2, <1>3, <1>4
  <2>3. CloseToCome'
    <3>1. \A p \in Objs : obj[p].valid => ~Has(obj[p].conn, "close") /\ obj[p].conn \in Conns
      BY DEF IInv, Life, Valid, Told, CloseToCome
    <3>2. \A v \in Workers : wk'[v].pc = "on_close" =>
            v # w /\ ~Has(obj[wk[v].o].conn, "close") /\ obj[wk[v].o].conn \in Conns
      BY DEF IInv, Life, ClosingOne, Told, CloseToCome, Closing
    <3> QED BY <2>1, <3>1, <3>2 DEF CloseToCome
  <2>4. OneAccepts'
    <3>1. \A v \in Workers : (InAccept(v)' <=> InAccept(v)) /\ wk'[v].c = wk[v].c
      BY <1>1, <1>2 DEF InAccept, Accepting, Closing
    <3> QED BY <3>1 DEF IInv, Told, OneAccepts
  <2>5. \A v \in Workers : v # w /\ InAccept(v) => wk[v].c # c /\ wk[v].c \in Conns
    BY <1>1 DEF IInv, Held, WorkersHold, Told, OneAccepts, InAccept, Accepting
  <2>6. \A d \in Conns : d # c /\ Unaccepted(d) => Unaccepted(d)'
    BY <1>1, <1>2, <2>2 DEF Unaccepted
  <2>7. ~Unaccepted(c) /\ ~Has(c, "shake")
    BY <1>1 DEF Unaccepted, IInv, Told, ToldOrUnaccepted
  <2>8. wk'[w].pc = "invalid" => Unaccepted(c)'
    BY <1>2, <2>2, <2>5, <2>7 DEF Unaccepted, InAccept, Accepting
  <2>9. ToldOrUnaccepted'
    <3>1. ASSUME NEW v \in Workers, wk'[v].pc \in {"publish", "on_accept", "on_shake"}
          PROVE  \E d \in Conns : d = wk'[v].c /\ ~Has(d, "shake")'
      <4>1. CASE v = w
        BY <1>2, <2>2, <2>7, <3>1, <4>1
      <4>2. CASE v # w
        <5>1. wk[v].c \in Conns /\ wk[v].c # c /\ ~Has(wk[v].c, "shake")
          BY <2>5, <3>1, <4>2 DEF InAccept, Accepting, IInv, Told, ToldOrUnaccepted
        <5> QED BY <2>2, <4>2, <5>1
      <4> QED BY <4>1, <4>2
    <3>2. ASSUME NEW v \in Workers, wk'[v].pc \in Closing \cup {"invalid"}, wk'[v].flag = "none"
          PROVE  wk'[v].back = "accept" /\ \E d \in Conns : d = wk'[v].c /\ Unaccepted(d)'
      <4>1. CASE v = w
        BY <1>2, <2>8, <3>2, <4>1 DEF Closing
      <4>2. CASE v # w
        <5>1. wk[v].back = "accept" /\ Unaccepted(wk[v].c)
          BY <3>2, <4>2 DEF IInv, Told, ToldOrUnaccepted
        <5>2. wk[v].c \in Conns /\ wk[v].c # c
          BY <2>5, <3>2, <4>2, <5>1 DEF InAccept
        <5> QED BY <2>6, <4>2, <5>1, <5>2
      <4> QED BY <4>1, <4>2
    <3>3. ASSUME NEW v \in Workers, wk'[v].pc = "close", wk'[v].flag # "none"
          PROVE  \E d \in Conns : d = obj'[wk'[v].o].conn /\ Has(d, "close")'
      <4>1. v # w /\ wk'[v] = wk[v]
        BY <3>3
      <4>2. obj[wk[v].o].conn \in Conns /\ Has(obj[wk[v].o].conn, "close")
        BY <3>3, <4>1 DEF IInv, Life, ClosingOne, Told, ToldOrUnaccepted, Closing
      <4> QED BY <2>1, <4>1, <4>2
    <3>4. \A d \in Conns : net'[d].st = "closed" => Has(d, "close")' \/ Unaccepted(d)'
      BY <2>1, <2>6, <2>7 DEF IInv, Told, ToldOrUnaccepted
    <3> QED BY <3>1, <3>2, <3>3, <3>4, ToldFrom
  <2> QED BY <1>5, <2>3, <2>4, <2>9 DEF Told
<1>10. Ordered' /\ StaysArmed'
  <2>1. \A p \in Objs : obj[p].at = "new" => obj[p].buf = <<>>
    BY DEF IInv, Ordered, Buffered, BufferedAt
  <2> QED BY <1>1, <1>2, <2>1, CallbackKeeps
<1> QED BY <1>6, <1>7, <1>8, <1>9, <1>10 DEF IInv

LEMMA OnAcceptIInv ==
  ASSUME IInv, NEW w \in Workers, OnAccept(w)
  PROVE  IInv'
<1>1. /\ Types /\ wk[w].pc = "on_accept" /\ "on_shake" \in WPc
      /\ UNCHANGED <<net, lsn, active, obj, cmds, ap, ops, stop, queued>>
  BY DEF OnAccept, WAt, IInv, WPc
<1>2. CASE Fire(wk[w].c, "accept") /\ WGoto(w, "on_shake")
  BY Zenon, <1>1, <1>2, WkPc, AskedIInv DEF WGoto
<1>3. CASE Fire(wk[w].c, "refuse") /\ CloseObj(w, "none", "accept")
  BY <1>1, <1>3, WkCloses, AskedIInv
<1> QED BY <1>2, <1>3 DEF OnAccept

LEMMA OnHandShakeIInv ==
  ASSUME IInv, NEW w \in Workers, OnHandShake(w)
  PROVE  IInv'
<1>1. /\ Types /\ wk[w].pc = "on_shake" /\ "arm" \in WPc
      /\ UNCHANGED <<net, lsn, active, obj, cmds, ap, ops, stop, queued>>
  BY DEF OnHandShake, WAt, IInv, WPc
<1>2. CASE Fire(wk[w].c, "shake") /\ WGoto(w, "arm")
  BY Zenon, <1>1, <1>2, WkPc, AskedIInv DEF WGoto
<1>3. CASE Fire(wk[w].c, "shake_error") /\ CloseObj(w, "none", "accept")
  BY <1>1, <1>3, WkCloses, AskedIInv
<1> QED BY <1>2, <1>3 DEF OnHandShake

(* The connection is published, under the ID the worker has for it.        *)
LEMMA PublishIInv ==
  ASSUME IInv, NEW w \in Workers, Publish(w)
  PROVE  IInv'
<1> USE DEF WAt
<1>1. PICK o \in Objs, c \in Conns : o = wk[w].o /\ c = wk[w].c /\ obj[o].conn = c /\ wk[w].pc = "publish"
  BY DEF Publish, IInv, Held, WorkersHold, InAccept, Accepting
<1>2. /\ UNCHANGED <<net, lsn, obj, cmds, ap, ops, stop, fired, queued>>
      /\ active' = [active EXCEPT ![c] = o] /\ wk' = [wk EXCEPT ![w].pc = "on_accept"]
      /\ Types /\ o # None
  BY <1>1, NoneAssumption DEF Publish, WGoto, IInv
<1>3. /\ WkOthers(w) /\ WkKeeps(w) /\ wk'[w].pc = "on_accept"
  BY Zenon, <1>2, WkPc DEF WPc
<1>4. /\ wk'[w].o = o /\ wk'[w].c = c /\ wk'[w].item = 0 /\ wk[w].item = 0
      /\ \A v \in Workers : v # w => wk'[v] = wk[v]
  BY <1>1, <1>3 DEF WkKeeps, WkOthers, IInv, Ordered, ItemNext, Closing
<1>5. /\ active' \in [Conns -> Objs \cup {None}] /\ active'[c] = o
      /\ \A d \in Conns : d # c => active'[d] = active[d]
  BY <1>2 DEF Types
<1>6. /\ obj[o].valid /\ obj[o].at = "used" /\ active[c] = None
      /\ \A v \in Workers : v # w => wk[v].o # o
      /\ \A p \in Objs : obj[p].conn = c => p = o
  BY <1>1, NoneAssumption DEF IInv, Life, Publishing, Valid, Held, ConnsApart
<1>7. Types' /\ InBounds'
  BY <1>2, <1>3, <1>5 DEF Types, IInv, InBounds, WkOthers
<1>8. Held'
  <2>1. WorkersHold'
    BY <1>1, <1>2, <1>3, <1>4 DEF IInv, Held, WorkersHold, InAccept, Accepting, Closing
  <2>2. AppsHold' /\ ConnsApart'
    BY <1>2 DEF IInv, Held, AppsHold, ConnsApart
  <2>3. NewIsFresh'
    BY <1>1, <1>2, <1>4 DEF IInv, Held, NewIsFresh, Settled
  <2> QED BY <2>1, <2>2, <2>3 DEF Held
<1>9. Life'
  <2>1. Publishing'
    <3>1. ASSUME NEW v \in Workers, v # w, wk[v].pc = "publish"
          PROVE wk[v].c \in Conns /\ wk[v].c # c
      BY <1>1, <3>1 DEF IInv, Held, WorkersHold, Told, OneAccepts, InAccept, Accepting
    <3>2. ASSUME NEW v \in Workers, wk'[v].pc = "publish"
          PROVE  /\ v # w /\ wk'[v] = wk[v] /\ active'[wk[v].c] = None /\ obj[wk[v].o].valid
                 /\ \A u \in Workers : u # v => wk[u].o # wk[v].o
                 /\ \A a \in Apps : ap[a].o # wk[v].o
      <4>1. v # w /\ wk'[v] = wk[v] /\ wk[v].pc = "publish"
        BY <1>3, <1>4, <3>2
      <4>2. active'[wk[v].c] = active[wk[v].c]
        BY <1>5, <3>1, <4>1
      <4> QED BY <4>1, <4>2 DEF IInv, Life, Publishing
    <3>3. \A v \in Workers : wk'[v].o = wk[v].o
      BY <1>1, <1>4
    <3> QED BY <1>2, <3>2, <3>3 DEF Publishing
  <2>2. Valid'
    <3>1. ASSUME NEW p \in Objs, obj[p].valid
          PROVE  active'[obj[p].conn] = p \/ \E v \in Workers : wk'[v].pc = "publish" /\ wk'[v].o = p
      <4>1. CASE p = o
        BY <1>1, <1>5, <4>1
      <4>2. CASE p # o
        <5>1. obj[p].conn \in Conns /\ obj[p].conn # c
          BY <1>6, <3>1, <4>2 DEF IInv, Life, Valid
        <5> QED BY <1>1, <1>4, <1>5, <3>1, <4>2, <5>1 DEF IInv, Life, Valid
      <4> QED BY <4>1, <4>2
    <3> QED BY <1>2, <3>1 DEF IInv, Life, Valid
  <2>3. Unarmed' /\ Parked'
    BY Zenon, <1>2, <1>3, <1>4 DEF IInv, Life, Unarmed, Parked
  <2>4. Published'
    BY <1>1, <1>2, <1>5, <1>6 DEF IInv, Life, Published
  <2>5. ClosingOne'
    <3>1. ASSUME NEW v \in Workers, wk[v].pc \in Closing
          PROVE  v # w /\ active'[obj[wk[v].o].conn] = active[obj[wk[v].o].conn]
      <4>1. v # w /\ wk[v].o \in Objs /\ obj[wk[v].o].conn \in Conns
        BY <1>1, <3>1 DEF IInv, Held, WorkersHold, Life, ClosingOne, Closing
      <4> QED BY <1>5, <1>6, <4>1
    <3>2. wk'[w].pc \notin Closing
      BY <1>3 DEF Closing
    <3> QED BY SMTT(30), <1>2, <1>4, <3>1, <3>2 DEF IInv, Life, ClosingOne
  <2>6. UnderIo'
    BY <1>2, <1>3, <1>4 DEF IInv, Life, UnderIo, Closing, Working
  <2> QED BY <2>1, <2>2, <2>3, <2>4, <2>5, <2>6 DEF Life
<1>10. Told'
  <2>1. NotBegun' /\ CloseOnce'
    BY <1>2 DEF IInv, Told, NotBegun, CloseOnce
  <2>2. CloseToCome'
    BY SMTT(30), <1>2, <1>3, <1>4 DEF IInv, Told, CloseToCome, Has
  <2>3. OneAccepts'
    <3>1. \A v \in Workers : (InAccept(v)' <=> InAccept(v)) /\ wk'[v].c = wk[v].c
      BY <1>1, <1>3, <1>4 DEF InAccept, Accepting, Closing
    <3> QED BY <3>1 DEF IInv, Told, OneAccepts
  <2>4. ToldOrUnaccepted'
    <3>1. \A d, e : Has(d, e)' <=> Has(d, e)
      BY <1>2 DEF Has
    <3>2. ~Has(c, "shake")
      BY <1>1 DEF IInv, Told, ToldOrUnaccepted
    <3>3. wk'[w].pc \notin Closing \cup {"invalid"}
      BY <1>3 DEF Closing
    <3> QED BY <1>1, <1>2, <1>3, <1>4, <3>1, <3>2, <3>3, ToldStays
  <2> QED BY <2>1, <2>2, <2>3, <2>4 DEF Told
<1>11. Ordered' /\ StaysArmed'
  <2>1. \A p \in Objs : obj[p].at = "new" => obj[p].buf = <<>>
    BY DEF IInv, Ordered, Buffered, BufferedAt
  <2> QED BY <1>1, <1>2, <1>3, <1>4, <2>1, CallbackKeeps
<1> QED BY <1>7, <1>8, <1>9, <1>10, <1>11 DEF IInv

(* The first event armed: the connection is the dispatcher's.              *)
LEMMA ArmIInv ==
  ASSUME IInv, NEW w \in Workers, Arm(w)
  PROVE  IInv'
<1> USE DEF WAt
<1>1. PICK o \in Objs : o = wk[w].o /\ obj[o].conn = wk[w].c /\ obj[o].conn \in Conns /\ wk[w].pc = "arm"
  BY DEF Arm, IInv, Held, WorkersHold, InAccept, Accepting
<1>2. /\ UNCHANGED <<net, lsn, active, cmds, ap, ops, stop, fired, queued>>
      /\ obj' = [obj EXCEPT ![o].armed = Rearm(o)]
      /\ wk' = [wk EXCEPT ![w].pc = "accept", ![w].o = None, ![w].c = None]
      /\ Types /\ o # None
  BY <1>1, NoneAssumption DEF Arm, IInv
<1>3. /\ Rearm(o) \in SUBSET {"read", "write"}
      /\ net[obj[o].conn].st # "open" => Rearm(o) = obj[o].armed
      /\ net[obj[o].conn].st = "open" /\ ~obj[o].paused => "read" \in Rearm(o)
  <2>1. obj[o].armed \subseteq {"read", "write"}
    BY <1>2 DEF Types, ObjType
  <2>2. Filter(o) \subseteq {"read", "write"} /\ (~obj[o].paused => Filter(o) = {"read"})
    BY DEF Filter
  <2> QED BY <1>1, <2>1, <2>2, NoneAssumption DEF Rearm, IsOpen
<1>4. /\ ObjOthers(o) /\ obj'[o].armed = Rearm(o)
      /\ obj'[o].valid = obj[o].valid /\ obj'[o].conn = obj[o].conn /\ obj'[o].io = obj[o].io
      /\ obj'[o].buf = obj[o].buf /\ obj'[o].paused = obj[o].paused /\ obj'[o].at = obj[o].at
  BY Zenon, <1>2, <1>3, ObjArmed
<1>5. WkOthers(w) /\ wk'[w].pc = "accept" /\ wk'[w].o = None /\ wk'[w].c = None /\ wk'[w].item = wk[w].item
  BY Zenon, <1>2, WkLeaves
<1>6. wk[w].item = 0 /\ \A v \in Workers : v # w => wk'[v] = wk[v]
  BY <1>1, <1>5 DEF WkOthers, IInv, Ordered, ItemNext, Closing
<1>7. \A p \in Objs : /\ obj'[p].valid = obj[p].valid /\ obj'[p].conn = obj[p].conn
                      /\ obj'[p].paused = obj[p].paused /\ obj'[p].at = obj[p].at
                      /\ obj'[p].buf = obj[p].buf /\ obj'[p].io = obj[p].io
                      /\ p # o => obj'[p] = obj[p]
  BY <1>4 DEF ObjOthers
<1>8. Types' /\ InBounds'
  BY <1>2, <1>4, <1>5 DEF Types, IInv, InBounds, WkOthers, ObjOthers
<1>9. Held'
  <2>1. WorkersHold'
    BY <1>5, <1>6, <1>7 DEF IInv, Held, WorkersHold, InAccept, Accepting, Closing
  <2>2. AppsHold' /\ ConnsApart'
    BY <1>2, <1>7 DEF IInv, Held, AppsHold, ConnsApart
  <2>3. NewIsFresh'
    <3>1. obj[o].at # "new"
      BY <1>1 DEF IInv, Held, NewIsFresh, Settled
    <3>2. ASSUME NEW p \in Objs, obj'[p].at = "new" PROVE obj'[p] = FreshObj /\ Settled(p)'
      <4>1. obj'[p] = obj[p] /\ obj[p] = FreshObj /\ Settled(p) /\ p # None
        BY <1>7, <3>1, <3>2, NoneAssumption DEF IInv, Held, NewIsFresh
      <4> QED BY Zenon, <1>2, <1>5, <1>6, <4>1 DEF Settled
    <3> QED BY <3>2 DEF NewIsFresh
  <2> QED BY <2>1, <2>2, <2>3 DEF Held
<1>10. Life'
  <2>1. Publishing'
    <3>1. ASSUME NEW v \in Workers, wk'[v].pc = "publish"
          PROVE  v # w /\ wk'[v] = wk[v] /\ wk[v].o \in Objs /\ wk[v].pc = "publish"
      BY <1>5, <1>6, <3>1 DEF IInv, Held, WorkersHold
    <3>2. \A u \in Workers : wk'[u].o = wk[u].o \/ wk'[u].o = None
      BY <1>5, <1>6
    <3>3. ASSUME NEW v \in Workers, wk'[v].pc = "publish"
          PROVE  /\ wk'[v] = wk[v] /\ obj'[wk[v].o].valid /\ active[wk[v].c] = None
                 /\ \A u \in Workers : u # v => wk'[u].o # wk[v].o
                 /\ \A a \in Apps : ap[a].o # wk[v].o
      <4>1. /\ obj[wk[v].o].valid /\ active[wk[v].c] = None
            /\ \A u \in Workers : u # v => wk[u].o # wk[v].o
            /\ \A a \in Apps : ap[a].o # wk[v].o
        BY <3>1, <3>3 DEF IInv, Life, Publishing
      <4>2. wk'[v] = wk[v] /\ obj'[wk[v].o].valid /\ wk[v].o # None
        BY <1>7, <3>1, <3>3, <4>1, NoneAssumption
      <4> QED BY <3>2, <4>1, <4>2
    <3>4. active' = active /\ ap' = ap
      BY <1>2
    <3> QED BY <3>3, <3>4, PublishingFrom
  <2>2. Valid'
    <3>1. ASSUME NEW p \in Objs, obj'[p].valid
          PROVE  /\ obj[p].at = "used" /\ obj[p].conn \in Conns /\ net[obj[p].conn].st = "open"
                 /\ active[obj[p].conn] = p \/ \E v \in Workers : wk'[v].pc = "publish" /\ wk'[v].o = p
      <4>1. obj[p].valid
        BY <1>7, <3>1
      <4>2. /\ obj[p].at = "used" /\ obj[p].conn \in Conns /\ net[obj[p].conn].st = "open"
            /\ active[obj[p].conn] = p \/ \E v \in Workers : wk[v].pc = "publish" /\ wk[v].o = p
        BY <4>1 DEF IInv, Life, Valid
      <4> QED BY <1>1, <1>6, <4>2
    <3>2. active' = active /\ net' = net
      BY <1>2
    <3> QED BY <1>7, <3>1, <3>2, ValidFrom
  <2>3. Unarmed'
    <3>1. ASSUME NEW v \in Workers, wk'[v].pc = "publish" PROVE obj'[wk'[v].o].armed = {}
      <4>1. v # w /\ wk'[v] = wk[v] /\ wk[v].pc = "publish"
        BY <1>5, <1>6, <3>1
      <4>2. wk[v].o \in Objs /\ wk[v].o # o
        BY <1>1, <4>1 DEF IInv, Held, WorkersHold, Life, Publishing
      <4> QED BY <1>7, <4>1, <4>2 DEF IInv, Life, Unarmed
    <3>2. ASSUME NEW p \in Objs, obj'[p].conn # None, net'[obj'[p].conn].st = "closed"
          PROVE obj'[p].armed = {}
      BY <1>2, <1>3, <1>4, <1>7, <3>2 DEF IInv, Life, Unarmed
    <3> QED BY <3>1, <3>2 DEF Unarmed
  <2>4. Parked'
    BY <1>2, <1>7 DEF IInv, Life, Parked
  <2>5. Published'
    <3>1. \A c \in Conns : active[c] # None => active[c] \in Objs
      BY <1>2 DEF Types
    <3> QED BY <1>2, <1>7, <3>1 DEF IInv, Life, Published
  <2>6. ClosingOne'
    <3>1. \A v \in Workers : wk'[v].pc \in Closing => v # w /\ wk'[v] = wk[v] /\ wk[v].o \in Objs
      BY <1>5, <1>6 DEF IInv, Held, WorkersHold, Closing
    <3>2. ASSUME NEW v \in Workers, wk'[v].pc \in Closing
          PROVE  LET p == wk'[v].o IN
                 /\ ~obj'[p].valid /\ obj'[p].at = "used" /\ obj'[p].conn \in Conns
                 /\ wk'[v].pc \in {"on_close", "close"} => net'[obj'[p].conn].st = "open"
                 /\ wk'[v].pc \in {"remove", "release"} => net'[obj'[p].conn].st = "closed"
                 /\ active'[obj'[p].conn] = IF wk'[v].pc = "release" THEN None ELSE p
      <4>1. /\ obj'[wk[v].o].valid = obj[wk[v].o].valid /\ obj'[wk[v].o].at = obj[wk[v].o].at
            /\ obj'[wk[v].o].conn = obj[wk[v].o].conn /\ wk'[v] = wk[v]
        BY <1>7, <3>1, <3>2
      <4>2. LET p == wk[v].o IN
            /\ ~obj[p].valid /\ obj[p].at = "used" /\ obj[p].conn \in Conns
            /\ wk[v].pc \in {"on_close", "close"} => net[obj[p].conn].st = "open"
            /\ wk[v].pc \in {"remove", "release"} => net[obj[p].conn].st = "closed"
            /\ active[obj[p].conn] = IF wk[v].pc = "release" THEN None ELSE p
        BY <3>2, <4>1 DEF IInv, Life, ClosingOne
      <4>3. net' = net /\ active' = active
        BY <1>2
      <4> QED BY Zenon, <4>1, <4>2, <4>3
    <3>3. \A u, v \in Workers :
            wk'[u].pc \in Closing /\ wk'[v].pc \in Closing /\ wk'[u].o = wk'[v].o => u = v
      BY <3>1 DEF IInv, Life, ClosingOne
    <3> QED BY <3>2, <3>3 DEF ClosingOne
  <2>7. UnderIo'
    <3>1. \A v \in Workers : wk'[v].pc \in Working \cup Closing \cup {"invalid", "after"} =>
            v # w /\ wk'[v] = wk[v] /\ wk[v].o \in Objs
      BY <1>5, <1>6 DEF IInv, Held, WorkersHold, Closing, Working
    <3> QED BY <1>7, <3>1 DEF IInv, Life, UnderIo
  <2> QED BY <2>1, <2>2, <2>3, <2>4, <2>5, <2>6, <2>7 DEF Life
<1>11. Told'
  <2>1. NotBegun' /\ CloseOnce'
    BY <1>2 DEF IInv, Told, NotBegun, CloseOnce
  <2>2. CloseToCome'
    <3>1. \A v \in Workers : wk'[v].pc = "on_close" => v # w /\ wk'[v] = wk[v] /\ wk[v].o \in Objs
      BY <1>5, <1>6 DEF IInv, Held, WorkersHold, Closing
    <3>2. \A d, e : Has(d, e)' <=> Has(d, e)
      BY <1>2 DEF Has
    <3>3. ASSUME NEW p \in Objs, obj'[p].valid
          PROVE  \E c \in Conns : c = obj'[p].conn /\ ~Has(c, "close")'
      <4>1. obj[p].conn \in Conns /\ ~Has(obj[p].conn, "close") /\ obj'[p].conn = obj[p].conn
        BY <1>7, <3>3 DEF IInv, Life, Valid, Told, CloseToCome
      <4> QED BY <3>2, <4>1
    <3>4. ASSUME NEW v \in Workers, wk'[v].pc = "on_close"
          PROVE  \E c \in Conns : c = obj'[wk'[v].o].conn /\ ~Has(c, "close")'
      <4>1. /\ wk'[v] = wk[v] /\ obj[wk[v].o].conn \in Conns /\ ~Has(obj[wk[v].o].conn, "close")
            /\ obj'[wk[v].o].conn = obj[wk[v].o].conn
        BY <1>7, <3>1, <3>4 DEF IInv, Life, ClosingOne, Closing, Told, CloseToCome
      <4> QED BY <3>2, <4>1
    <3> QED BY <3>3, <3>4, CloseToComeFrom
  <2>3. OneAccepts'
    <3>1. \A v \in Workers : InAccept(v)' => InAccept(v) /\ wk'[v].c = wk[v].c
      BY <1>5, <1>6 DEF InAccept, Accepting, Closing
    <3> QED BY <3>1 DEF IInv, Told, OneAccepts
  <2>4. ToldOrUnaccepted'
    <3>1. \A d, e : Has(d, e)' <=> Has(d, e)
      BY <1>2 DEF Has
    <3>2. wk'[w].pc \notin Closing \cup {"invalid", "publish", "on_accept", "on_shake"}
      BY <1>5 DEF Closing
    <3>3. \A v \in Workers : wk[v].pc \in Closing => wk[v].o \in Objs
      BY DEF IInv, Held, WorkersHold, Closing
    <3> QED BY Zenon, <1>2, <1>5, <1>7, <3>1, <3>2, <3>3, ToldStays
  <2> QED BY <2>1, <2>2, <2>3, <2>4 DEF Told
<1>12. Ordered' /\ StaysArmed'
  <2>1. \A p \in Objs : obj[p].at = "new" => obj[p].buf = <<>>
    BY DEF IInv, Ordered, Buffered, BufferedAt
  <2>2. obj[o].valid => net[obj[o].conn].st = "open"
    BY DEF IInv, Life, Valid
  <2>3. ~obj'[o].valid \/ obj[o].paused \/ "read" \in obj'[o].armed
    BY <1>3, <1>4, <2>2
  <2>4. \A v \in Workers : wk[v].pc \in {"send_item", "push_front"} => wk[v].o \in Objs
    BY DEF IInv, Held, WorkersHold
  <2>5. \A p \in Objs : obj'[p].valid => obj'[p].armed = obj[p].armed \/ obj[p].paused \/ "read" \in obj'[p].armed
    BY <1>7, <2>3
  <2>6. /\ wk[w].pc \notin {"send_item", "push_front"} /\ wk'[w].pc \notin {"send_item", "push_front"}
        /\ wk'[w].item = 0 /\ UNCHANGED <<cmds, ap, queued>>
        /\ \A c \in Conns : net'[c].wire = net[c].wire
    BY <1>1, <1>2, <1>5, <1>6
  <2>7. \A p \in Objs :
           /\ obj'[p].at = "new" => obj'[p].buf = <<>>
           /\ obj'[p].valid => /\ obj[p].valid /\ obj'[p].conn = obj[p].conn
                               /\ obj'[p].buf = obj[p].buf /\ obj'[p].paused = obj[p].paused
                               /\ obj'[p].armed = obj[p].armed \/ obj[p].paused \/ "read" \in obj'[p].armed
    BY <1>7, <2>1, <2>5
  <2>8. \A v \in Workers : v # w /\ wk[v].pc \in {"send_item", "push_front"} => obj'[wk[v].o].conn = obj[wk[v].o].conn
    BY <1>7, <2>4
  <2> QED BY <1>1, <1>5, <1>6, <2>3, <2>6, <2>7, <2>8, CallbackKeeps
<1> QED BY <1>8, <1>9, <1>10, <1>11, <1>12 DEF IInv

-----------------------------------------------------------------------------
(* AddFreeSocketObj.  Its steps keep who holds which object.               *)
LEMMA CloserHeld ==
  ASSUME IInv, NEW w \in Workers, wk[w].pc \in Closing \cup {"invalid"},
         WkOthers(w), WkKeeps(w), wk'[w].back = wk[w].back, wk'[w].pc \in Closing \cup {"accept"},
         UNCHANGED ap,
         \A p \in Objs : /\ obj'[p].conn = obj[p].conn /\ obj'[p].at = obj[p].at
                         /\ p # wk[w].o => obj'[p] = obj[p],
         \A d \in Conns : net[d].st \in {"open", "closed"} => net'[d].st \in {"open", "closed"}
  PROVE  Held' /\ OneAccepts'
<1> USE DEF WAt, WkOthers
<1>1. Types /\ wk[w].o \in Objs /\ wk[w].back # "idle"
  BY DEF IInv, Held, WorkersHold, Closing
<1>2. \A v \in Workers : wk'[v].o = wk[v].o /\ wk'[v].c = wk[v].c
  BY DEF WkKeeps
<1>3. \A v \in Workers : InAccept(v)' => InAccept(v)
  BY DEF InAccept, Accepting, Closing
<1>4. \A v \in Workers : InAccept(v) => wk[v].o \in Objs /\ wk[v].c \in Conns /\ obj[wk[v].o].conn = wk[v].c
  BY DEF IInv, Held, WorkersHold, InAccept, Accepting, Closing
<1>5. WorkersHold'
  <2>1. \A v \in Workers : InAccept(v)' => wk'[v].c \in Conns /\ obj'[wk'[v].o].conn = wk'[v].c
    BY <1>2, <1>3, <1>4
  <2>2. \A v \in Workers :
          /\ wk'[v].pc = "idle" => wk'[v].o = None /\ wk'[v].n = 0
          /\ wk'[v].pc \notin {"idle", "accept"} => wk'[v].o \in Objs
          /\ wk'[v].pc = "lock" => wk'[v].ev # "none"
          /\ wk'[v].pc \in Closing \cup {"invalid"} => wk'[v].back # "idle"
    BY <1>1, <1>2 DEF IInv, Held, WorkersHold, Closing
  <2> QED BY <2>1, <2>2 DEF WorkersHold
<1>6. AppsHold' /\ ConnsApart'
  <2>1. \A p \in Objs : obj[p].conn \in Conns \/ obj[p].conn = None
    BY <1>1 DEF Types, ObjType
  <2> QED BY <2>1 DEF IInv, Held, AppsHold, ConnsApart
<1>7. NewIsFresh'
  <2>1. ASSUME NEW p \in Objs, obj'[p].at = "new" PROVE obj'[p] = FreshObj /\ Settled(p)'
    <3>1. obj[p] = FreshObj /\ Settled(p)
      BY <2>1 DEF IInv, Held, NewIsFresh
    <3>2. obj'[p] = obj[p]
      BY <3>1 DEF Settled
    <3> QED BY <1>2, <3>1, <3>2 DEF Settled
  <2> QED BY <2>1 DEF NewIsFresh
<1>8. OneAccepts'
  BY <1>2, <1>3 DEF IInv, Told, OneAccepts
<1> QED BY <1>5, <1>6, <1>7, <1>8 DEF Held

(* The life of the object they close, and of the others.                   *)
LEMMA CloserLife ==
  ASSUME IInv, NEW w \in Workers, NEW o \in Objs, NEW c \in Conns,
         o = wk[w].o, c = obj[o].conn, obj[o].at = "used", ~obj'[o].valid,
         wk[w].pc \in Closing \cup {"invalid"}, wk'[w].pc \in Closing,
         WkOthers(w), WkKeeps(w), wk'[w].back = wk[w].back, UNCHANGED ap,
         \A v \in Workers : v # w /\ wk[v].o = o =>
           /\ wk[v].pc \notin Working \cup Closing
           /\ ~(wk[v].pc = "invalid" /\ wk[v].back = "after"),
         \A p \in Objs : p # o => obj'[p] = obj[p],
         /\ obj'[o].conn = c /\ obj'[o].at = "used" /\ obj'[o].io = obj[o].io
         /\ obj'[o].armed \subseteq obj[o].armed /\ (net'[c].st = "closed" => obj'[o].armed = {}),
         \A d \in Conns : d # c => net'[d].st = net[d].st /\ active'[d] = active[d],
         net'[c].st = IF wk'[w].pc \in {"on_close", "close"} THEN "open" ELSE "closed",
         active'[c] = IF wk'[w].pc = "release" THEN None ELSE o
  PROVE  Life'
<1> USE DEF WkOthers
<1>1. /\ Types /\ wk[w].pc # "publish" /\ wk'[w].pc # "publish" /\ o # None /\ c # None
      /\ wk'[w].pc \notin Working \cup {"invalid", "after"}
  BY NoneAssumption DEF IInv, Closing, Working
<1>2. \A v \in Workers : v # w => wk'[v] = wk[v]
  OBVIOUS
<1>3. \A v \in Workers : wk'[v].o = wk[v].o /\ wk'[v].c = wk[v].c
  BY <1>2 DEF WkKeeps
<1>4. \A p \in Objs : p # o => obj[p].conn # c
  BY <1>1 DEF IInv, Held, ConnsApart
<1>5. \A p \in Objs : /\ p # o => obj'[p] = obj[p]
                      /\ obj[p].conn \in Conns \/ obj[p].conn = None
  BY <1>1 DEF Types, ObjType
<1>6. ASSUME NEW v \in Workers, wk[v].pc = "publish"
      PROVE  /\ v # w /\ wk[v].o \in Objs /\ wk[v].o # o /\ wk[v].c \in Conns /\ wk[v].c # c
             /\ obj[wk[v].o].armed = {}
  <2>1. /\ wk[v].o \in Objs /\ wk[v].c \in Conns /\ obj[wk[v].o].conn = wk[v].c
        /\ wk[v].o # o /\ obj[wk[v].o].armed = {}
    BY Zenon, <1>1, <1>6 DEF IInv, Held, WorkersHold, InAccept, Accepting, Life, Publishing,
       Unarmed, WAt
  <2> QED BY SMTT(30), <1>1, <1>4, <1>6, <2>1
<1>7. Publishing'
  <2>1. ASSUME NEW v \in Workers, wk'[v].pc = "publish"
        PROVE  /\ obj'[wk'[v].o].valid /\ active'[wk'[v].c] = None
               /\ \A u \in Workers : u # v => wk'[u].o # wk'[v].o
               /\ \A a \in Apps : ap'[a].o # wk'[v].o
    <3>1. v # w /\ wk'[v] = wk[v] /\ wk[v].pc = "publish"
      BY <1>1, <1>2, <2>1
    <3>2. /\ obj[wk[v].o].valid /\ active[wk[v].c] = None
          /\ \A u \in Workers : u # v => wk[u].o # wk[v].o
          /\ \A a \in Apps : ap[a].o # wk[v].o
      BY Zenon, <3>1 DEF IInv, Life, Publishing, WAt
    <3>3. obj'[wk[v].o] = obj[wk[v].o] /\ active'[wk[v].c] = active[wk[v].c]
      BY Zenon, <1>5, <1>6, <3>1
    <3> QED BY SMTT(30), <1>3, <3>1, <3>2, <3>3
  <2> QED BY Zenon, <2>1, PublishingFrom
<1>8. Valid'
  <2>1. ASSUME NEW p \in Objs, obj'[p].valid
        PROVE  /\ obj'[p].at = "used" /\ obj'[p].conn \in Conns /\ net'[obj'[p].conn].st = "open"
               /\ active'[obj'[p].conn] = p \/ \E v \in Workers : wk'[v].pc = "publish" /\ wk'[v].o = p
    <3>1. p # o /\ obj'[p] = obj[p] /\ obj[p].valid
      BY <1>5, <2>1
    <3>2. /\ obj[p].at = "used" /\ obj[p].conn \in Conns /\ net[obj[p].conn].st = "open"
          /\ active[obj[p].conn] = p \/ \E v \in Workers : wk[v].pc = "publish" /\ wk[v].o = p
      BY <3>1 DEF IInv, Life, Valid, WAt
    <3>3. obj[p].conn # c
      BY Zenon, <1>4, <3>1
    <3>4. active'[obj[p].conn] = active[obj[p].conn] /\ net'[obj[p].conn].st = net[obj[p].conn].st
      BY <3>2, <3>3
    <3>5. ASSUME NEW v \in Workers, wk[v].pc = "publish", wk[v].o = p
          PROVE  wk'[v].pc = "publish" /\ wk'[v].o = p
      BY Zenon, <1>2, <1>6, <3>5
    <3> QED BY <3>1, <3>2, <3>4, <3>5
  <2> QED BY Zenon, <2>1, ValidFrom
<1>9. Unarmed'
  <2>1. ASSUME NEW v \in Workers, wk'[v].pc = "publish" PROVE obj'[wk'[v].o].armed = {}
    <3>1. wk'[v] = wk[v] /\ wk[v].pc = "publish"
      BY Zenon, <1>1, <1>2, <2>1
    <3>2. wk[v].o \in Objs /\ wk[v].o # o /\ obj[wk[v].o].armed = {}
      BY Zenon, <1>6, <3>1
    <3>3. obj'[wk[v].o] = obj[wk[v].o]
      BY Zenon, <1>5, <3>2
    <3> QED BY Zenon, <3>1, <3>2, <3>3
  <2>2. ASSUME NEW p \in Objs, obj'[p].conn # None, net'[obj'[p].conn].st = "closed"
        PROVE obj'[p].armed = {}
    <3>1. CASE p = o
      BY Zenon, <2>2, <3>1
    <3>2. CASE p # o
      <4>1. obj[p].conn \in Conns /\ obj[p].conn # c /\ obj'[p] = obj[p]
        BY <1>4, <1>5, <2>2, <3>2
      <4> QED BY SMTT(30), <2>2, <4>1 DEF IInv, Life, Unarmed
    <3> QED BY <3>1, <3>2
  <2> QED BY Zenon, <2>1, <2>2 DEF Unarmed, WAt
<1>10. Parked'
  <2>1. ASSUME NEW p \in Objs, obj'[p].at \in {"pool", "gc"}
        PROVE  /\ ~obj'[p].valid /\ obj'[p].conn \in Conns /\ net'[obj'[p].conn].st = "closed"
               /\ obj'[p].buf = <<>>
    <3>1. p # o /\ obj'[p] = obj[p] /\ obj[p].conn # c
      BY <1>4, <1>5, <2>1
    <3> QED BY <2>1, <3>1 DEF IInv, Life, Parked
  <2> QED BY <2>1 DEF Parked
<1>11. Published'
  <2>1. ASSUME NEW d \in Conns, active'[d] # None
        PROVE  active'[d] \in Objs /\ obj'[active'[d]].conn = d /\ obj'[active'[d]].at = "used"
    <3>1. CASE d = c
      BY Zenon, <1>1, <2>1, <3>1
    <3>2. CASE d # c
      <4>1. active'[d] = active[d] /\ active[d] \in Objs /\ obj[active[d]].conn = d /\ obj[active[d]].at = "used"
        BY <1>1, <2>1, <3>2 DEF Types, IInv, Life, Published
      <4>2. active[d] # o
        BY <3>2, <4>1
      <4> QED BY <1>5, <4>1, <4>2
    <3> QED BY <3>1, <3>2
  <2> QED BY <2>1 DEF Published
<1>12. ClosingOne'
  <2>1. ASSUME NEW v \in Workers, v # w, wk'[v].pc \in Closing
        PROVE  /\ wk'[v] = wk[v] /\ wk[v].pc \in Closing /\ wk[v].o \in Objs /\ wk[v].o # o
               /\ obj'[wk[v].o] = obj[wk[v].o] /\ obj[wk[v].o].conn \in Conns /\ obj[wk[v].o].conn # c
    <3>1. wk'[v] = wk[v] /\ wk[v].pc \in Closing /\ wk[v].o \in Objs /\ wk[v].o # o
      BY <1>2, <2>1 DEF IInv, Held, WorkersHold, Closing
    <3>2. obj[wk[v].o].conn \in Conns
      BY Zenon, <3>1 DEF IInv, Life, ClosingOne
    <3> QED BY <1>4, <1>5, <3>1, <3>2
  <2>2. ASSUME NEW v \in Workers, wk'[v].pc \in Closing
        PROVE  \E p \in Objs, d \in Conns :
                 /\ p = wk'[v].o /\ d = obj'[p].conn /\ ~obj'[p].valid /\ obj'[p].at = "used"
                 /\ wk'[v].pc \in {"on_close", "close"} => net'[d].st = "open"
                 /\ wk'[v].pc \in {"remove", "release"} => net'[d].st = "closed"
                 /\ active'[d] = IF wk'[v].pc = "release" THEN None ELSE p
    <3>1. CASE v = w
      BY SMTT(30), <1>3, <2>2, <3>1
    <3>2. CASE v # w
      <4>1. PICK p \in Objs, d \in Conns : p = wk[v].o /\ d = obj[p].conn /\ d # c /\ obj'[p] = obj[p] /\ wk'[v] = wk[v]
        BY SMTT(30), <2>1, <2>2, <3>2
      <4>2. /\ ~obj[p].valid /\ obj[p].at = "used"
            /\ wk[v].pc \in {"on_close", "close"} => net[d].st = "open"
            /\ wk[v].pc \in {"remove", "release"} => net[d].st = "closed"
            /\ active[d] = IF wk[v].pc = "release" THEN None ELSE p
        BY Zenon, <2>2, <4>1 DEF IInv, Life, ClosingOne, WAt
      <4>3. net'[d].st = net[d].st /\ active'[d] = active[d]
        BY Zenon, <4>1
      <4> QED BY SMTT(30), <4>1, <4>2, <4>3
    <3> QED BY Zenon, <3>1, <3>2
  <2>3. \A u, v \in Workers : wk'[u].pc \in Closing /\ wk'[v].pc \in Closing /\ wk'[u].o = wk'[v].o => u = v
    <3>1. \A v \in Workers : v # w /\ wk'[v].pc \in Closing => wk[v].pc \in Closing /\ wk'[v].o # o
      BY SMTT(30), <1>3, <2>1
    <3>2. \A u, v \in Workers :
            wk[u].pc \in Closing /\ wk[v].pc \in Closing /\ wk[u].o = wk[v].o => u = v
      BY Zenon DEF IInv, Life, ClosingOne
    <3> QED BY <1>3, <3>1, <3>2
  <2> QED BY Zenon, <2>2, <2>3, ClosingFrom
<1>13. UnderIo'
  <2>1. ASSUME NEW v \in Workers, wk[v].o \in Objs PROVE obj'[wk'[v].o].io = obj[wk[v].o].io
    BY <1>3, <1>5, <2>1
  <2>2. wk'[w].pc \in Closing /\ wk'[w].back = "after" => obj'[wk'[w].o].io = w
    BY ZenonT(30), <1>3, <2>1 DEF IInv, Life, UnderIo, WAt
  <2>3. ASSUME NEW v \in Workers, v # w
        PROVE  /\ wk[v].pc \in Working => obj'[wk[v].o].valid /\ obj'[wk[v].o].io = v
               /\ wk[v].pc = "invalid" /\ wk[v].back = "after" => obj'[wk[v].o].valid /\ obj'[wk[v].o].io = v
               /\ wk[v].pc \in Closing /\ wk[v].back = "after" => obj'[wk[v].o].io = v
               /\ wk[v].pc = "after" => obj'[wk[v].o].io = v
    <3>1. wk[v].pc \in Working \cup Closing \cup {"invalid", "after"} => wk[v].o \in Objs
      BY Zenon DEF IInv, Held, WorkersHold, Working, Closing
    <3>2. wk[v].pc \in Working \/ (wk[v].pc = "invalid" /\ wk[v].back = "after") => obj'[wk[v].o] = obj[wk[v].o]
      BY <1>5, <2>3, <3>1
    <3>3. wk[v].pc \in Working \cup Closing \cup {"invalid", "after"} => obj'[wk[v].o].io = obj[wk[v].o].io
      BY <1>3, <2>1, <3>1
    <3> QED BY Zenon, <3>2, <3>3 DEF IInv, Life, UnderIo, WAt
  <2> QED BY SMTT(30), <1>1, <1>2, <2>2, <2>3 DEF UnderIo, WAt
<1> QED BY <1>7, <1>8, <1>9, <1>10, <1>11, <1>12, <1>13 DEF Life

(* What is known of the object of a closing worker.                        *)
LEMMA AtClosing ==
  ASSUME IInv, NEW w \in Workers, wk[w].pc \in Closing
  PROVE  /\ wk[w].o \in Objs /\ wk[w].o # None /\ obj[wk[w].o].conn \in Conns
         /\ ~obj[wk[w].o].valid /\ obj[wk[w].o].at = "used"
         /\ wk[w].pc \in {"on_close", "close"} =>
              net[obj[wk[w].o].conn].st = "open" /\ ~(wk[w].pc = "on_close" /\ Has(obj[wk[w].o].conn, "close"))
         /\ wk[w].pc \in {"remove", "release"} => net[obj[wk[w].o].conn].st = "closed"
         /\ active[obj[wk[w].o].conn] = IF wk[w].pc = "release" THEN None ELSE wk[w].o
         /\ \A v \in Workers : v # w /\ wk[v].o = wk[w].o =>
              /\ wk[v].pc \notin Working \cup Closing
              /\ ~(wk[v].pc = "invalid" /\ wk[v].back = "after")
         /\ wk[w].back \in {"accept", "after"}
         /\ wk[w].flag = "none" => wk[w].back = "accept" /\ Unaccepted(wk[w].c)
         /\ wk[w].back = "accept" => wk[w].c = obj[wk[w].o].conn
<1> USE DEF WAt
<1>1. wk[w].o \in Objs /\ wk[w].o # None /\ wk[w].back \in {"accept", "after"}
  BY Zenon, NoneAssumption DEF IInv, Types, WkType, Held, WorkersHold, Closing
<1>2. /\ obj[wk[w].o].conn \in Conns /\ ~obj[wk[w].o].valid /\ obj[wk[w].o].at = "used"
      /\ wk[w].pc \in {"on_close", "close"} => net[obj[wk[w].o].conn].st = "open"
      /\ wk[w].pc \in {"remove", "release"} => net[obj[wk[w].o].conn].st = "closed"
      /\ active[obj[wk[w].o].conn] = IF wk[w].pc = "release" THEN None ELSE wk[w].o
      /\ \A v \in Workers : wk[v].pc \in Closing /\ wk[v].o = wk[w].o => v = w
  BY DEF IInv, Life, ClosingOne
<1>3. \A v \in Workers : wk[v].pc \in Working \/ (wk[v].pc = "invalid" /\ wk[v].back = "after") => obj[wk[v].o].valid
  BY DEF IInv, Life, UnderIo
<1>4. wk[w].pc = "on_close" => ~Has(obj[wk[w].o].conn, "close")
  BY DEF IInv, Told, CloseToCome
<1>5. wk[w].flag = "none" => wk[w].back = "accept" /\ Unaccepted(wk[w].c)
  BY DEF IInv, Told, ToldOrUnaccepted
<1>6. wk[w].back = "accept" => wk[w].c = obj[wk[w].o].conn
  BY DEF IInv, Held, WorkersHold, InAccept
<1>7. \A v \in Workers : v # w /\ wk[v].o = wk[w].o =>
        wk[v].pc \notin Working \cup Closing /\ ~(wk[v].pc = "invalid" /\ wk[v].back = "after")
  BY <1>2, <1>3
<1> QED BY <1>1, <1>2, <1>4, <1>5, <1>6, <1>7

(* What the steps of closing do not notify stays as it was.                *)
LEMMA ToldAsBefore ==
  ASSUME IInv, fired' = fired, UNCHANGED queued,
         \A d \in Conns : /\ net'[d].wire = net[d].wire
                          /\ net'[d].st \in {"new", "backlog"} => net[d].st \in {"new", "backlog"}
  PROVE  /\ NotBegun' /\ CloseOnce'
         /\ \A d, e : Has(d, e)' <=> Has(d, e)
<1>1. \A d, e : Has(d, e)' <=> Has(d, e)
  BY DEF Has
<1>2. NotBegun' /\ CloseOnce'
  BY DEF IInv, Told, NotBegun, CloseOnce
<1> QED BY <1>1, <1>2

(* Whose OnClose is still to come.                                         *)
LEMMA CloseStaysToCome ==
  ASSUME IInv, NEW w \in Workers, WkOthers(w), NEW o \in Objs, NEW c \in Conns, c = obj[o].conn,
         \A p \in Objs : obj'[p].conn = obj[p].conn /\ (obj'[p].valid => p # o /\ obj[p].valid),
         \A d \in Conns : d # c => (Has(d, "close")' => Has(d, "close")),
         \A v \in Workers : v # w /\ wk[v].pc = "on_close" => wk[v].o # o,
         wk'[w].pc = "on_close" => wk'[w].o = o /\ ~Has(c, "close")'
  PROVE  CloseToCome'
<1>1. \A p \in Objs : p # o => obj[p].conn # c
  BY NoneAssumption DEF IInv, Held, ConnsApart
<1>2. ASSUME NEW p \in Objs, obj'[p].valid
      PROVE  \E d \in Conns : d = obj'[p].conn /\ ~Has(d, "close")'
  <2>1. obj[p].conn \in Conns /\ ~Has(obj[p].conn, "close") /\ p # o
    BY <1>2 DEF IInv, Life, Valid, Told, CloseToCome
  <2>2. PICK d \in Conns : d = obj[p].conn /\ ~Has(d, "close") /\ d # c
    BY <1>1, <2>1
  <2> QED BY <2>2
<1>3. ASSUME NEW v \in Workers, wk'[v].pc = "on_close"
      PROVE  \E d \in Conns : d = obj'[wk'[v].o].conn /\ ~Has(d, "close")'
  <2>1. CASE v = w
    BY <1>3, <2>1
  <2>2. CASE v # w
    <3>1. wk'[v] = wk[v] /\ wk[v].pc = "on_close" /\ wk[v].o # o
      BY <1>3, <2>2 DEF WkOthers
    <3>2. wk[v].o \in Objs /\ obj[wk[v].o].conn \in Conns /\ ~Has(obj[wk[v].o].conn, "close")
      BY <3>1, AtClosing DEF Closing
    <3>3. PICK d \in Conns : d = obj[wk[v].o].conn /\ ~Has(d, "close") /\ d # c
      BY <1>1, <3>1, <3>2
    <3>4. obj'[wk'[v].o].conn = d
      BY <3>1, <3>2, <3>3
    <3> QED BY <3>3, <3>4
  <2> QED BY <2>1, <2>2
<1> QED BY <1>2, <1>3, CloseToComeFrom

(* InvalidSocketObj: the one caller it lets through goes on to close.      *)
LEMMA InvalidIInv ==
  ASSUME IInv, NEW w \in Workers, Invalid(w)
  PROVE  IInv'
<1> USE DEF WAt
<1>1. PICK o \in Objs : o = wk[w].o /\ wk[w].pc = "invalid" /\ wk[w].back \in {"accept", "after"} /\ o # None
  BY NoneAssumption DEF Invalid, IInv, Types, WkType, Held, WorkersHold
<1>2. /\ UNCHANGED <<net, lsn, active, cmds, ap, ops, stop, fired, queued>>
      /\ Types
  BY DEF Invalid, IInv
<1>3. /\ \A d, e : Has(d, e)' <=> Has(d, e)
      /\ NotBegun' /\ CloseOnce'
  BY <1>2, ToldAsBefore
<1>4. \A p \in Objs : obj[p].at = "new" => obj[p].buf = <<>> /\ ~obj[p].valid
  BY DEF IInv, Held, NewIsFresh, FreshObj
<1>5. ASSUME obj[o].valid, obj[o].io \in {None, w}, obj' = [obj EXCEPT ![o].valid = FALSE],
             wk' = [wk EXCEPT ![w].pc = "on_close"]
      PROVE  IInv'
  <2>1. /\ ObjOthers(o) /\ ~obj'[o].valid
        /\ obj'[o].conn = obj[o].conn /\ obj'[o].io = obj[o].io /\ obj'[o].buf = obj[o].buf
        /\ obj'[o].paused = obj[o].paused /\ obj'[o].armed = obj[o].armed /\ obj'[o].at = obj[o].at
    BY Zenon, <1>2, <1>5, ObjValid
  <2>2. /\ WkOthers(w) /\ WkKeeps(w) /\ wk'[w].pc = "on_close"
        /\ wk'[w].flag = wk[w].flag /\ wk'[w].back = wk[w].back
    BY Zenon, <1>2, <1>5, WkPc DEF WPc
  <2>3. \A v \in Workers : wk[v].pc = "publish" => wk[v].o # o
    BY <1>1 DEF IInv, Life, Publishing
  <2>4. PICK c \in Conns : /\ c = obj[o].conn /\ net[c].st = "open" /\ active[c] = o /\ ~Has(c, "close")
                           /\ obj[o].at = "used"
    BY <1>5, <2>3 DEF IInv, Life, Valid, Told, CloseToCome
  <2>5. \A v \in Workers : v # w /\ wk[v].o = o =>
          /\ wk[v].pc \notin Working \cup Closing
          /\ ~(wk[v].pc = "invalid" /\ wk[v].back = "after")
    BY <1>5, NoneAssumption DEF IInv, Life, UnderIo, ClosingOne
  <2>6. \A p \in Objs : /\ obj'[p].conn = obj[p].conn /\ obj'[p].at = obj[p].at /\ obj'[p].buf = obj[p].buf
                        /\ p # o => obj'[p] = obj[p]
    BY <2>1 DEF ObjOthers
  <2>7. Types' /\ InBounds'
    BY <1>2, <2>1, <2>2 DEF Types, IInv, InBounds, ObjOthers, WkOthers
  <2>8. Held' /\ OneAccepts'
    BY <1>1, <1>2, <2>2, <2>6, CloserHeld DEF Closing
  <2>9. Life'
    <3>1. wk'[w].pc \in Closing /\ wk[w].pc \in Closing \cup {"invalid"}
      BY <1>1, <2>2 DEF Closing
    <3> QED BY SMTT(30), <1>1, <1>2, <2>1, <2>2, <2>4, <2>5, <2>6, <3>1, CloserLife
  <2>10. Told'
    <3>1. CloseToCome'
      <4>1. \A p \in Objs : obj'[p].conn = obj[p].conn /\ (obj'[p].valid => p # o /\ obj[p].valid)
        BY <2>1, <2>6
      <4>2. \A v \in Workers : v # w /\ wk[v].pc = "on_close" => wk[v].o # o
        BY <2>5 DEF Closing
      <4> QED BY <1>1, <1>3, <2>2, <2>4, <4>1, <4>2, CloseStaysToCome DEF WkKeeps
    <3>2. ToldOrUnaccepted'
      <4>1. \A d \in Conns : Unaccepted(d) => Unaccepted(d)'
        BY <1>3, <2>2 DEF Unaccepted, WkOthers
      <4>2. wk[w].flag = "none" => wk[w].back = "accept" /\ Unaccepted(wk[w].c) /\ wk[w].c \in Conns
        BY <1>1 DEF IInv, Told, ToldOrUnaccepted, Held, WorkersHold, InAccept
      <4>3. wk'[w].flag = "none" => wk'[w].back = "accept" /\ \E d \in Conns : d = wk'[w].c /\ Unaccepted(d)'
        BY <2>2, <4>1, <4>2 DEF WkKeeps
      <4>4. \A v \in Workers : v # w /\ wk[v].pc \in Closing => obj'[wk[v].o].conn = obj[wk[v].o].conn
        BY <2>6, AtClosing
      <4> QED BY <1>2, <1>3, <2>2, <4>3, <4>4, ToldStays
    <3> QED BY <1>3, <2>8, <3>1, <3>2 DEF Told
  <2>11. Ordered' /\ StaysArmed'
    <3>1. \A v \in Workers : v # w /\ wk[v].pc \in {"send_item", "push_front"} => obj'[wk[v].o].conn = obj[wk[v].o].conn
      BY <2>6, AtWork DEF Working
    <3>2. /\ wk'[w].o = wk[w].o /\ wk'[w].item = wk[w].item
          /\ wk'[w].item # 0 => wk'[w].pc \in Closing \cup {"invalid"} /\ wk'[w].back = "after"
      BY <1>1, <2>2 DEF WkKeeps, Closing, IInv, Ordered, ItemNext
    <3>3. /\ wk[w].pc \notin {"send_item", "push_front"} /\ wk'[w].pc \notin {"send_item", "push_front", "accept"}
          /\ UNCHANGED <<cmds, ap, queued>> /\ \A d \in Conns : net'[d].wire = net[d].wire
      BY <1>1, <1>2, <2>2
    <3>4. \A p \in Objs :
           /\ obj'[p].at = "new" => obj'[p].buf = <<>>
           /\ obj'[p].valid => /\ obj[p].valid /\ obj'[p].conn = obj[p].conn
                               /\ obj'[p].buf = obj[p].buf /\ obj'[p].paused = obj[p].paused
                               /\ obj'[p].armed = obj[p].armed \/ obj[p].paused \/ "read" \in obj'[p].armed
      BY <1>4, <2>1, <2>6
    <3> QED BY <2>2, <3>1, <3>2, <3>3, <3>4, CallbackKeeps
  <2> QED BY <2>7, <2>8, <2>9, <2>10, <2>11 DEF IInv
<1>6. ASSUME ~obj[o].valid, obj' = obj, wk' = [wk EXCEPT ![w].pc = wk[w].back]
      PROVE  IInv'
  <2>1. wk[w].back = "accept"
    BY <1>1, <1>6 DEF IInv, Life, UnderIo
  <2>2. /\ WkOthers(w) /\ WkKeeps(w) /\ wk'[w].pc = "accept"
        /\ wk'[w].flag = wk[w].flag /\ wk'[w].back = wk[w].back
    BY Zenon, <1>2, <1>6, <2>1, WkPc DEF WPc
  <2>3. \A v \in Workers : /\ v # w => wk'[v] = wk[v]
                           /\ wk'[v].o = wk[v].o /\ wk'[v].c = wk[v].c
    BY <2>2 DEF WkOthers, WkKeeps
  <2>4. wk[w].item = 0 /\ wk'[w].item = 0
    BY <1>1, <2>1, <2>2 DEF WkKeeps, IInv, Ordered, ItemNext
  <2>5. Types' /\ InBounds'
    BY <1>2, <1>6, <2>2 DEF Types, IInv, InBounds, WkOthers
  <2>6. Held' /\ OneAccepts'
    BY <1>1, <1>2, <1>6, <2>2, CloserHeld
  <2>7. Life'
    <3>1. wk'[w].pc \notin Working \cup Closing \cup {"invalid", "after", "publish"}
      BY <2>2 DEF Closing, Working
    <3>2. Publishing' /\ Valid' /\ Unarmed'
      BY SMTT(30), <1>1, <1>2, <1>6, <2>3, <3>1 DEF IInv, Life, Publishing, Valid, Unarmed
    <3>3. Parked' /\ Published'
      BY <1>2, <1>6 DEF IInv, Life, Parked, Published
    <3>4. ClosingOne' /\ UnderIo'
      BY SMTT(30), <1>2, <1>6, <2>3, <3>1 DEF IInv, Life, ClosingOne, UnderIo
    <3> QED BY <3>2, <3>3, <3>4 DEF Life
  <2>8. Told'
    <3>1. CloseToCome'
      BY <1>2, <1>6, <2>2, <2>3 DEF IInv, Told, CloseToCome, Has
    <3>2. wk'[w].pc \notin Closing \cup {"invalid", "publish", "on_accept", "on_shake"}
      BY <2>2 DEF Closing
    <3>3. ToldOrUnaccepted'
      BY <1>2, <1>3, <1>6, <2>2, <3>2, ToldStays
    <3> QED BY <1>3, <2>6, <3>1, <3>3 DEF Told
  <2>9. Ordered' /\ StaysArmed'
    BY <1>1, <1>2, <1>4, <1>6, <2>2, <2>3, <2>4, CallbackKeeps
  <2> QED BY <2>5, <2>6, <2>7, <2>8, <2>9 DEF IInv
<1> QED BY <1>1, <1>5, <1>6 DEF Invalid, WGoto

(* CloseClientSocketObj, then the removal of the ID.                       *)
LEMMA ClosingIInv ==
  ASSUME IInv, Types', InBounds', NEW w \in Workers, NEW o \in Objs, NEW c \in Conns,
         o = wk[w].o, c = obj[o].conn,
         wk[w].pc \in {"on_close", "close", "remove"}, wk'[w].pc \in {"close", "remove", "release"},
         wk'[w].pc = "release" => wk[w].pc = "remove",
         WkOthers(w), WkKeeps(w), wk'[w].flag = wk[w].flag, wk'[w].back = wk[w].back,
         UNCHANGED <<cmds, ap, queued>>,
         \A p \in Objs : p # o => obj'[p] = obj[p],
         /\ obj'[o].valid = obj[o].valid /\ obj'[o].conn = obj[o].conn /\ obj'[o].io = obj[o].io
         /\ obj'[o].buf = obj[o].buf /\ obj'[o].at = obj[o].at
         /\ obj'[o].armed \subseteq obj[o].armed /\ (net'[c].st = "closed" => obj'[o].armed = {}),
         \A d \in Conns : /\ net'[d].wire = net[d].wire
                          /\ d # c => net'[d].st = net[d].st /\ active'[d] = active[d],
         net'[c].st = IF wk'[w].pc = "close" THEN "open" ELSE "closed",
         active'[c] = IF wk'[w].pc = "release" THEN None ELSE o,
         NotBegun', CloseOnce',
         \A d \in Conns : /\ Has(d, "shake")' <=> Has(d, "shake")
                          /\ Has(d, "close") => Has(d, "close")'
                          /\ d # c => (Has(d, "close")' => Has(d, "close")),
         wk[w].flag # "none" /\ wk'[w].pc \in {"close", "remove"} => Has(c, "close")'
  PROVE  IInv'
<1>1. /\ wk[w].pc \in Closing /\ wk'[w].pc \in Closing
      /\ wk[w].pc \notin {"idle", "send_item", "push_front", "publish"}
      /\ wk'[w].pc \notin {"send_item", "push_front", "accept", "publish", "on_accept", "on_shake", "on_close"}
  BY Zenon DEF Closing
<1>2. /\ ~obj[o].valid /\ obj[o].at = "used" /\ o # None /\ net[c].st \in {"open", "closed"}
      /\ wk[w].back \in {"accept", "after"}
      /\ wk[w].flag = "none" => wk[w].back = "accept" /\ Unaccepted(wk[w].c)
      /\ wk[w].back = "accept" => wk[w].c = c
      /\ \A v \in Workers : v # w /\ wk[v].o = o =>
           /\ wk[v].pc \notin Working \cup Closing
           /\ ~(wk[v].pc = "invalid" /\ wk[v].back = "after")
  BY Zenon, <1>1, AtClosing
<1>3. \A p \in Objs : /\ obj'[p].valid = obj[p].valid /\ obj'[p].conn = obj[p].conn
                      /\ obj'[p].buf = obj[p].buf /\ obj'[p].at = obj[p].at
                      /\ p # o => obj'[p] = obj[p]
  OBVIOUS
<1>4. Held' /\ OneAccepts'
  <2>1. \A d \in Conns : net[d].st \in {"open", "closed"} => net'[d].st \in {"open", "closed"}
    BY Zenon
  <2>2. wk[w].pc \in Closing \cup {"invalid"} /\ wk'[w].pc \in Closing \cup {"accept"}
    BY Zenon, <1>1
  <2> QED BY Zenon, <1>3, <2>1, <2>2, CloserHeld
<1>5. Life'
  <2>1. net'[c].st = IF wk'[w].pc \in {"on_close", "close"} THEN "open" ELSE "closed"
    BY <1>1
  <2> QED BY SMTT(30), <1>1, <1>2, <2>1, CloserLife
<1>6. CloseToCome'
  <2>1. \A p \in Objs : obj'[p].conn = obj[p].conn /\ (obj'[p].valid => p # o /\ obj[p].valid)
    BY Zenon, <1>2, <1>3
  <2>2. \A v \in Workers : v # w /\ wk[v].pc = "on_close" => wk[v].o # o
    BY Zenon, <1>2 DEF Closing
  <2> QED BY SMTT(30), <1>1, <2>1, <2>2, CloseStaysToCome
<1>7. ToldOrUnaccepted'
  <2>1. Unaccepted(c) => Unaccepted(c)'
    BY Zenon, <1>1 DEF Unaccepted, WkOthers
  <2>2. Has(c, "close")' \/ Unaccepted(c)' \/ wk'[w].pc = "release"
    BY Zenon, <1>2, <2>1
  <2>3. \A d \in Conns : net'[d].st = "closed" => net[d].st = "closed" \/ Has(d, "close")' \/ Unaccepted(d)'
    <3>1. wk[w].pc = "remove" => net[c].st = "closed"
      BY Zenon, <1>1, AtClosing
    <3> QED BY Zenon, <2>2, <3>1
  <2>4. wk'[w].flag = "none" => wk'[w].back = "accept" /\ \E d \in Conns : d = wk'[w].c /\ Unaccepted(d)'
    BY Zenon, <1>2, <2>1 DEF WkKeeps
  <2>5. wk'[w].flag # "none" /\ wk'[w].pc = "close" => \E d \in Conns : d = obj'[wk'[w].o].conn /\ Has(d, "close")'
    BY Zenon DEF WkKeeps
  <2>6. \A v \in Workers : v # w /\ wk[v].pc \in Closing => obj'[wk[v].o].conn = obj[wk[v].o].conn
    BY Zenon, <1>3, AtClosing
  <2> QED BY Zenon, <1>1, <2>3, <2>4, <2>5, <2>6, ToldStays
<1>8. Ordered' /\ StaysArmed'
  <2>1. \A v \in Workers : v # w /\ wk[v].pc \in {"send_item", "push_front"} => obj'[wk[v].o].conn = obj[wk[v].o].conn
    BY Zenon, <1>3, AtWork DEF Working
  <2>2. /\ wk'[w].o = wk[w].o /\ wk'[w].item = wk[w].item
        /\ wk'[w].item # 0 => wk'[w].pc \in Closing \cup {"invalid"} /\ wk'[w].back = "after"
    BY Zenon, <1>1 DEF WkKeeps, IInv, Ordered, ItemNext
  <2>3. \A p \in Objs : obj[p].at = "new" => obj[p].buf = <<>>
    BY Zenon DEF IInv, Ordered, Buffered, BufferedAt
  <2>4. \A p \in Objs :
           /\ obj'[p].at = "new" => obj'[p].buf = <<>>
           /\ obj'[p].valid => /\ obj[p].valid /\ obj'[p].conn = obj[p].conn
                               /\ obj'[p].buf = obj[p].buf /\ obj'[p].paused = obj[p].paused
                               /\ obj'[p].armed = obj[p].armed \/ obj[p].paused \/ "read" \in obj'[p].armed
    BY SMTT(30), <1>2, <1>3, <2>3
  <2> QED BY Zenon, <1>1, <2>1, <2>2, <2>4, CallbackKeeps
<1> QED BY <1>4, <1>5, <1>6, <1>7, <1>8 DEF IInv, Told

LEMMA OnCloseIInv ==
  ASSUME IInv, NEW w \in Workers, OnClose(w)
  PROVE  IInv'
<1>1. wk[w].pc = "on_close" /\ wk[w].pc \in Closing /\ Types
  BY DEF OnClose, WAt, Closing, IInv
<1>2. PICK o \in Objs, c \in Conns :
        /\ o = wk[w].o /\ c = obj[o].conn /\ net[c].st = "open" /\ ~Has(c, "close") /\ active[c] = o
  BY <1>1, AtClosing
<1>3. /\ UNCHANGED <<net, lsn, active, obj, cmds, ap, ops, stop, queued>>
      /\ IF wk[w].flag = "none" THEN UNCHANGED fired ELSE Fire(c, "close")
      /\ wk' = [wk EXCEPT ![w].pc = "close"]
  BY <1>2 DEF OnClose, WGoto
<1>4. /\ WkOthers(w) /\ WkKeeps(w) /\ wk'[w].pc = "close"
      /\ wk'[w].flag = wk[w].flag /\ wk'[w].back = wk[w].back
  BY Zenon, <1>1, <1>3, WkPc DEF WPc
<1>5. {"close", "shake"} \subseteq Events
  BY DEF Events
<1>6. /\ fired' \in [Conns -> Seq(Events)] /\ NotBegun' /\ CloseOnce'
      /\ \A d \in Conns : /\ Has(d, "shake")' <=> Has(d, "shake")
                          /\ Has(d, "close") => Has(d, "close")'
                          /\ d # c => (Has(d, "close")' => Has(d, "close"))
      /\ wk[w].flag # "none" => Has(c, "close")'
  <2>1. CASE wk[w].flag = "none"
    BY <1>1, <1>3, <2>1, ToldAsBefore DEF Types
  <2>2. CASE wk[w].flag # "none"
    <3>1. Fire(c, "close")
      BY <1>3, <2>2
    <3>2. /\ fired' \in [Conns -> Seq(Events)]
          /\ \A d \in Conns, e \in Events : Has(d, e)' <=> Has(d, e) \/ (d = c /\ e = "close")
      BY <1>1, <1>5, <3>1, Notified
    <3>3. NotBegun' /\ CloseOnce'
      BY <1>2, <1>3, <1>5, <3>1, NotifiedInOrder
    <3> QED BY <1>5, <3>2, <3>3
  <2> QED BY <2>1, <2>2
<1>7. Types' /\ InBounds'
  BY <1>1, <1>3, <1>4, <1>6 DEF Types, IInv, InBounds, WkOthers
<1> QED BY Zenon, <1>1, <1>2, <1>3, <1>4, <1>6, <1>7, ClosingIInv

LEMMA CloseSocketIInv ==
  ASSUME IInv, NEW w \in Workers, CloseSocket(w)
  PROVE  IInv'
<1>1. wk[w].pc = "close" /\ wk[w].pc \in Closing /\ Types
  BY DEF CloseSocket, WAt, Closing, IInv
<1>2. PICK o \in Objs, c \in Conns :
        o = wk[w].o /\ c = obj[o].conn /\ net[c].st = "open" /\ active[c] = o
  BY <1>1, AtClosing
<1>3. /\ UNCHANGED <<lsn, active, cmds, ap, ops, stop, fired, queued>>
      /\ net' = [net EXCEPT ![c].st = "closed"]
      /\ obj' = [obj EXCEPT ![o].armed = {}]
      /\ wk' = [wk EXCEPT ![w].pc = "remove"]
  BY <1>2 DEF CloseSocket, WGoto
<1>4. /\ WkOthers(w) /\ WkKeeps(w) /\ wk'[w].pc = "remove"
      /\ wk'[w].flag = wk[w].flag /\ wk'[w].back = wk[w].back
  BY Zenon, <1>1, <1>3, WkPc DEF WPc
<1>5. /\ ObjOthers(o) /\ obj'[o].armed = {}
      /\ obj'[o].valid = obj[o].valid /\ obj'[o].conn = obj[o].conn /\ obj'[o].io = obj[o].io
      /\ obj'[o].buf = obj[o].buf /\ obj'[o].paused = obj[o].paused /\ obj'[o].at = obj[o].at
  <2>1. {} \in SUBSET {"read", "write"}
    OBVIOUS
  <2> QED BY Zenon, <1>1, <1>3, <2>1, ObjArmed
<1>6. /\ net' \in [Conns -> NetType] /\ net'[c].st = "closed"
      /\ \A d \in Conns : /\ d # c => net'[d] = net[d]
                          /\ net'[d].wire = net[d].wire /\ net'[d].in = net[d].in
                          /\ net'[d].sent = net[d].sent /\ net'[d].room = net[d].room
  BY Zenon, <1>1, <1>3, NetSt DEF NetStates
<1>7. Types' /\ InBounds'
  BY <1>1, <1>3, <1>4, <1>5, <1>6 DEF Types, IInv, InBounds, WkOthers, ObjOthers
<1>8. /\ NotBegun' /\ CloseOnce'
      /\ \A d, e : Has(d, e)' <=> Has(d, e)
  <2>1. \A d \in Conns : net'[d].st \in {"new", "backlog"} => net[d].st \in {"new", "backlog"}
    BY <1>6
  <2> QED BY <1>3, <1>6, <2>1, ToldAsBefore
<1>9. wk[w].flag # "none" => Has(c, "close")'
  <2>1. wk[w].flag # "none" => Has(c, "close")
    BY <1>1, <1>2 DEF IInv, Told, ToldOrUnaccepted, WAt
  <2> QED BY <1>8, <2>1
<1>10. \A p \in Objs : p # o => obj'[p] = obj[p]
  BY <1>5 DEF ObjOthers
<1>11. UNCHANGED <<active, cmds, ap, queued>>
  BY <1>3
<1> QED BY Zenon, <1>1, <1>2, <1>4, <1>5, <1>6, <1>7, <1>8, <1>9, <1>10, <1>11, ClosingIInv

LEMMA RemoveIInv ==
  ASSUME IInv, NEW w \in Workers, Remove(w)
  PROVE  IInv'
<1>1. wk[w].pc = "remove" /\ wk[w].pc \in Closing /\ Types
  BY DEF Remove, WAt, Closing, IInv
<1>2. PICK o \in Objs, c \in Conns :
        o = wk[w].o /\ c = obj[o].conn /\ net[c].st = "closed" /\ active[c] = o
  BY <1>1, AtClosing
<1>3. /\ UNCHANGED <<net, lsn, obj, cmds, ap, ops, stop, fired, queued>>
      /\ active' = [active EXCEPT ![c] = None]
      /\ wk' = [wk EXCEPT ![w].pc = "release"]
  BY <1>2 DEF Remove, WGoto
<1>4. /\ WkOthers(w) /\ WkKeeps(w) /\ wk'[w].pc = "release"
      /\ wk'[w].flag = wk[w].flag /\ wk'[w].back = wk[w].back
  BY Zenon, <1>1, <1>3, WkPc DEF WPc
<1>5. /\ active' \in [Conns -> Objs \cup {None}] /\ active'[c] = None
      /\ \A d \in Conns : d # c => active'[d] = active[d]
  BY <1>1, <1>3 DEF Types
<1>6. Types' /\ InBounds'
  BY <1>1, <1>3, <1>4, <1>5 DEF Types, IInv, InBounds, WkOthers
<1>7. /\ NotBegun' /\ CloseOnce'
      /\ \A d, e : Has(d, e)' <=> Has(d, e)
  BY <1>3, ToldAsBefore
<1>8. obj[o].armed = {}
  BY <1>2, NoneAssumption DEF IInv, Life, Unarmed
<1> QED BY <1>1, <1>2, <1>3, <1>4, <1>5, <1>6, <1>7, <1>8, ClosingIInv

(* A worker goes back from AddFreeSocketObj.                               *)
LEMMA WkReleases ==
  ASSUME Types, NEW w \in Workers, wk[w].back \in {"accept", "after"},
         wk' = [wk EXCEPT ![w].pc = wk[w].back, ![w].item = 0,
                          ![w].o = IF wk[w].back = "accept" THEN None ELSE @,
                          ![w].c = None]
  PROVE  /\ WkOthers(w) /\ wk'[w].pc = wk[w].back /\ wk'[w].item = 0
         /\ wk'[w].o = IF wk[w].back = "accept" THEN None ELSE wk[w].o
<1>1. wk[w] \in WkType
  BY DEF Types
<1>2. PICK b \in {"accept", "after"}, x \in Objs \cup {None} :
        b = wk[w].back /\ x = IF b = "accept" THEN None ELSE wk[w].o
  BY <1>1 DEF WkType
<1>3. /\ wk'[w] = [wk[w] EXCEPT !.pc = b, !.item = 0, !.o = x, !.c = None]
      /\ \A v \in Workers : v # w => wk'[v] = wk[v]
      /\ wk' = [wk EXCEPT ![w] = [wk[w] EXCEPT !.pc = b, !.item = 0, !.o = x, !.c = None]]
  BY Zenon, <1>2 DEF Types
<1>4. [wk[w] EXCEPT !.pc = b, !.item = 0, !.o = x, !.c = None] \in WkType
  BY ZenonT(30), <1>1, <1>2 DEF WkType, WPc
<1>5. wk' \in [Workers -> WkType]
  BY <1>3, <1>4 DEF Types
<1> QED BY Zenon, <1>1, <1>2, <1>3, <1>5 DEF WkType, WkOthers

(* The object goes to the pool or the garbage, old garbage is destructed.  *)
LEMMA ReleaseIInv ==
  ASSUME IInv, NEW w \in Workers, Release(w)
  PROVE  IInv'
<1> USE DEF WAt
<1>1. wk[w].pc = "release" /\ wk[w].pc \in Closing /\ Types
  BY Zenon DEF Release, Closing, IInv
<1>2. PICK o \in Objs, c \in Conns :
        /\ o = wk[w].o /\ c = obj[o].conn /\ net[c].st = "closed" /\ active[c] = None
        /\ ~obj[o].valid /\ o # None /\ wk[w].back \in {"accept", "after"}
  BY <1>1, AtClosing
<1>3. UNCHANGED <<net, lsn, active, cmds, ap, ops, stop, fired, queued>>
  BY Zenon DEF Release
<1>4. PICK old \in SUBSET {p \in Objs : obj[p].at = "gc" /\ Settled(p)}, x \in {"pool", "gc"} :
        obj' = [p \in Objs |-> IF p = o THEN [obj[o] EXCEPT !.buf = <<>>, !.at = x]
                               ELSE IF p \in old THEN FreshObj ELSE obj[p]]
  BY ZenonT(30), <1>2 DEF Release
<1>5. /\ o \notin old
      /\ \A v \in Workers : wk[v].o \notin old
      /\ \A a \in Apps : ap[a].o \notin old
      /\ \A p \in old : p \in Objs /\ p # None /\ obj[p].at = "gc"
  BY <1>2, <1>4, NoneAssumption DEF Settled
<1>6. /\ obj' \in [Objs -> ObjType]
      /\ \A p \in Objs : p # o /\ p \notin old => obj'[p] = obj[p]
      /\ \A p \in old : obj'[p] = FreshObj
      /\ obj'[o].valid = obj[o].valid /\ obj'[o].conn = c /\ obj'[o].io = obj[o].io
      /\ obj'[o].armed = obj[o].armed /\ obj'[o].buf = <<>> /\ obj'[o].at \in {"pool", "gc"}
  <2>1. obj[o] \in ObjType
    BY <1>1 DEF Types
  <2>2. [obj[o] EXCEPT !.buf = <<>>, !.at = x] \in ObjType
    <3>1. <<>> \in Seq(Nat) /\ x \in {"new", "used", "pool", "gc"}
      OBVIOUS
    <3> QED BY Zenon, <2>1, <3>1 DEF ObjType
  <2>3. FreshObj \in ObjType
    BY DEF FreshObj, ObjType
  <2>4. obj' \in [Objs -> ObjType]
    BY <1>1, <1>4, <2>2, <2>3 DEF Types
  <2>5. obj'[o] = [obj[o] EXCEPT !.buf = <<>>, !.at = x]
    BY <1>4
  <2> QED BY Zenon, <1>2, <1>4, <1>5, <2>1, <2>4, <2>5 DEF ObjType
<1>7. /\ WkOthers(w) /\ wk'[w].pc = wk[w].back /\ wk'[w].item = 0
      /\ wk'[w].o = IF wk[w].back = "accept" THEN None ELSE o
  BY Zenon, <1>1, <1>2, WkReleases DEF Release
<1>8. /\ \A v \in Workers : v # w => wk'[v] = wk[v]
      /\ \A v \in Workers : wk'[v].o = wk[v].o \/ wk'[v].o = None
      /\ wk'[w].pc \notin {"idle", "publish", "on_accept", "on_shake", "lock", "invalid",
                           "send_item", "push_front"} \cup Working \cup Closing \cup Accepting
  BY <1>2, <1>7 DEF WkOthers, Closing, Working, Accepting
<1>9. FreshObj.valid = FALSE /\ FreshObj.conn = None /\ FreshObj.at = "new" /\ FreshObj.buf = <<>>
  BY DEF FreshObj
<1>10. ASSUME NEW v \in Workers, wk[v].o \in Objs
       PROVE  /\ obj'[wk[v].o].conn = obj[wk[v].o].conn /\ obj'[wk[v].o].io = obj[wk[v].o].io
              /\ obj'[wk[v].o].valid = obj[wk[v].o].valid /\ obj'[wk[v].o].armed = obj[wk[v].o].armed
  BY <1>2, <1>5, <1>6, <1>10
<1>11. Types' /\ InBounds'
  BY <1>1, <1>3, <1>6, <1>7 DEF Types, IInv, InBounds, WkOthers
<1>12. ~InAccept(w)' /\ \A v \in Workers : InAccept(v)' => InAccept(v) /\ wk'[v] = wk[v]
  BY <1>8 DEF InAccept
<1>13. Held'
  <2>1. \A v \in Workers : InAccept(v)' => wk'[v].c \in Conns /\ obj'[wk'[v].o].conn = wk'[v].c
    <3>1. \A v \in Workers : InAccept(v) => wk[v].o \in Objs /\ wk[v].c \in Conns /\ obj[wk[v].o].conn = wk[v].c
      BY DEF IInv, Held, WorkersHold, InAccept, Accepting, Closing
    <3> QED BY <1>10, <1>12, <3>1
  <2>2. \A v \in Workers :
          /\ wk'[v].pc = "idle" => wk'[v].o = None /\ wk'[v].n = 0
          /\ wk'[v].pc \notin {"idle", "accept"} => wk'[v].o \in Objs
          /\ wk'[v].pc = "lock" => wk'[v].ev # "none"
          /\ wk'[v].pc \in Closing \cup {"invalid"} => wk'[v].back # "idle"
    BY <1>2, <1>7, <1>8 DEF IInv, Held, WorkersHold
  <2>3. WorkersHold'
    BY <2>1, <2>2 DEF WorkersHold
  <2>4. AppsHold'
    <3>1. ASSUME NEW a \in Apps, ap[a].pc # "idle"
          PROVE  ap[a].o \in Objs /\ ap[a].c \in Conns /\ obj'[ap[a].o].conn = ap[a].c
      <4>1. ap[a].o \in Objs /\ ap[a].c \in Conns /\ obj[ap[a].o].conn = ap[a].c
        BY <3>1 DEF IInv, Held, AppsHold
      <4> QED BY <1>2, <1>5, <1>6, <4>1
    <3> QED BY <1>3, <3>1 DEF AppsHold
  <2>5. ConnsApart'
    <3>1. \A p \in Objs : obj'[p].conn = obj[p].conn \/ obj'[p].conn = None
      BY <1>2, <1>6, <1>9
    <3> QED BY <1>3, <3>1 DEF IInv, Held, ConnsApart
  <2>6. NewIsFresh'
    <3>1. ASSUME NEW p \in Objs, obj'[p].at = "new" PROVE obj'[p] = FreshObj /\ Settled(p)'
      <4>1. p # o /\ p # None
        BY <1>6, <3>1, NoneAssumption
      <4>2. Settled(p) => Settled(p)'
        BY <1>3, <1>8, <4>1 DEF Settled
      <4>3. CASE p \in old
        BY <1>4, <1>6, <4>2, <4>3
      <4>4. CASE p \notin old
        BY <1>6, <3>1, <4>1, <4>2, <4>4 DEF IInv, Held, NewIsFresh
      <4> QED BY <4>3, <4>4
    <3> QED BY <3>1 DEF NewIsFresh
  <2> QED BY <2>3, <2>4, <2>5, <2>6 DEF Held
<1>14. Life'
  <2>1. ASSUME NEW v \in Workers, wk'[v].pc = "publish"
        PROVE  /\ wk'[v] = wk[v] /\ wk[v].o \in Objs /\ wk[v].pc = "publish"
               /\ obj'[wk[v].o].valid /\ obj'[wk[v].o].armed = {} /\ active[wk[v].c] = None
               /\ \A u \in Workers : u # v => wk'[u].o # wk[v].o
               /\ \A a \in Apps : ap[a].o # wk[v].o
    <3>1. wk'[v] = wk[v] /\ wk[v].pc = "publish"
      BY <1>8, <2>1
    <3>2. /\ wk[v].o \in Objs /\ obj[wk[v].o].valid /\ active[wk[v].c] = None
          /\ obj[wk[v].o].armed = {}
          /\ \A u \in Workers : u # v => wk[u].o # wk[v].o
          /\ \A a \in Apps : ap[a].o # wk[v].o
      BY <3>1 DEF IInv, Held, WorkersHold, Life, Publishing, Unarmed
    <3> QED BY <1>8, <1>10, <3>1, <3>2, NoneAssumption
  <2>2. Publishing'
    <3>1. active' = active /\ ap' = ap
      BY <1>3
    <3> QED BY <2>1, <3>1, PublishingFrom
  <2>3. Valid'
    <3>1. ASSUME NEW p \in Objs, obj'[p].valid
          PROVE  /\ obj'[p].at = "used" /\ obj'[p].conn \in Conns /\ net'[obj'[p].conn].st = "open"
                 /\ active'[obj'[p].conn] = p \/ \E v \in Workers : wk'[v].pc = "publish" /\ wk'[v].o = p
      <4>1. obj'[p] = obj[p] /\ obj[p].valid
        BY <1>2, <1>6, <1>9, <3>1
      <4>2. /\ obj[p].at = "used" /\ obj[p].conn \in Conns /\ net[obj[p].conn].st = "open"
            /\ active[obj[p].conn] = p \/ \E v \in Workers : v # w /\ wk[v].pc = "publish" /\ wk[v].o = p
        BY <1>1, <4>1 DEF IInv, Life, Valid
      <4> QED BY <1>3, <1>8, <4>1, <4>2
    <3> QED BY <3>1, ValidFrom
  <2>4. Unarmed'
    <3>1. \A p \in Objs : obj'[p].conn # None => obj'[p].conn = obj[p].conn /\ obj'[p].armed = obj[p].armed
      BY <1>2, <1>6, <1>9
    <3>2. \A p \in Objs : obj'[p].conn # None /\ net'[obj'[p].conn].st = "closed" => obj'[p].armed = {}
      BY <1>3, <3>1 DEF IInv, Life, Unarmed
    <3> QED BY <2>1, <3>2 DEF Unarmed
  <2>5. Parked'
    <3>1. ASSUME NEW p \in Objs, obj'[p].at \in {"pool", "gc"}
          PROVE  /\ ~obj'[p].valid /\ obj'[p].conn \in Conns /\ net'[obj'[p].conn].st = "closed"
                 /\ obj'[p].buf = <<>>
      <4>1. CASE p = o
        BY <1>2, <1>3, <1>6, <4>1
      <4>2. CASE p # o
        <5>1. obj'[p] = obj[p]
          BY <1>6, <1>9, <3>1, <4>2
        <5> QED BY <1>3, <3>1, <5>1 DEF IInv, Life, Parked
      <4> QED BY <4>1, <4>2
    <3> QED BY <3>1 DEF Parked
  <2>6. Published'
    <3>1. ASSUME NEW d \in Conns, active[d] # None
          PROVE  obj'[active[d]].conn = d /\ obj'[active[d]].at = "used"
      <4>1. active[d] \in Objs /\ obj[active[d]].conn = d /\ obj[active[d]].at = "used"
        BY <1>1, <3>1 DEF Types, IInv, Life, Published
      <4>2. active[d] # o /\ active[d] \notin old
        BY <1>2, <1>5, <3>1, <4>1
      <4> QED BY <1>6, <4>1, <4>2
    <3> QED BY <1>3, <3>1 DEF Published
  <2>7. ClosingOne'
    <3>1. ASSUME NEW v \in Workers, wk'[v].pc \in Closing
          PROVE  /\ v # w /\ wk'[v] = wk[v] /\ wk[v].pc \in Closing /\ wk[v].o \in Objs
                 /\ obj'[wk[v].o] = obj[wk[v].o] /\ obj[wk[v].o].conn \in Conns
      <4>1. v # w /\ wk'[v] = wk[v] /\ wk[v].pc \in Closing
        BY <1>8, <3>1
      <4>2. wk[v].o \in Objs /\ obj[wk[v].o].conn \in Conns /\ wk[v].o # o
        BY <1>1, <1>2, <4>1, AtClosing
      <4> QED BY <1>5, <1>6, <4>1, <4>2
    <3>2. ASSUME NEW v \in Workers, wk'[v].pc \in Closing
          PROVE  \E p \in Objs, d \in Conns :
                   /\ p = wk'[v].o /\ d = obj'[p].conn /\ ~obj'[p].valid /\ obj'[p].at = "used"
                   /\ wk'[v].pc \in {"on_close", "close"} => net'[d].st = "open"
                   /\ wk'[v].pc \in {"remove", "release"} => net'[d].st = "closed"
                   /\ active'[d] = IF wk'[v].pc = "release" THEN None ELSE p
      <4>1. PICK p \in Objs, d \in Conns : p = wk[v].o /\ d = obj[p].conn /\ obj'[p] = obj[p] /\ wk'[v] = wk[v]
        BY <3>1, <3>2
      <4>2. /\ ~obj[p].valid /\ obj[p].at = "used"
            /\ wk[v].pc \in {"on_close", "close"} => net[d].st = "open"
            /\ wk[v].pc \in {"remove", "release"} => net[d].st = "closed"
            /\ active[d] = IF wk[v].pc = "release" THEN None ELSE p
        BY <3>2, <4>1, AtClosing
      <4> QED BY <1>3, <4>1, <4>2
    <3>3. \A u, v \in Workers : wk'[u].pc \in Closing /\ wk'[v].pc \in Closing /\ wk'[u].o = wk'[v].o => u = v
      <4>1. \A u, v \in Workers :
              wk[u].pc \in Closing /\ wk[v].pc \in Closing /\ wk[u].o = wk[v].o => u = v
        BY DEF IInv, Life, ClosingOne
      <4> QED BY <3>1, <4>1
    <3> QED BY <3>2, <3>3, ClosingFrom
  <2>8. UnderIo'
    <3>1. ASSUME NEW v \in Workers, v # w
          PROVE  /\ wk[v].pc \in Working => obj'[wk[v].o].valid /\ obj'[wk[v].o].io = v
                 /\ wk[v].pc = "invalid" /\ wk[v].back = "after" => obj'[wk[v].o].valid /\ obj'[wk[v].o].io = v
                 /\ wk[v].pc \in Closing /\ wk[v].back = "after" => obj'[wk[v].o].io = v
                 /\ wk[v].pc = "after" => obj'[wk[v].o].io = v
      <4>1. wk[v].pc \in Working \cup Closing \cup {"invalid", "after"} => wk[v].o \in Objs
        BY DEF IInv, Held, WorkersHold, Working, Closing
      <4> QED BY <1>10, <4>1 DEF IInv, Life, UnderIo
    <3>2. wk'[w].pc = "after" => obj'[wk'[w].o].io = w
      BY Zenon, <1>1, <1>2, <1>6, <1>7 DEF IInv, Life, UnderIo
    <3> QED BY <1>8, <3>1, <3>2 DEF UnderIo
  <2> QED BY <2>2, <2>3, <2>4, <2>5, <2>6, <2>7, <2>8 DEF Life
<1>15. /\ NotBegun' /\ CloseOnce'
       /\ \A d, e : Has(d, e)' <=> Has(d, e)
  BY <1>3, ToldAsBefore
<1>16. Told'
  <2>1. CloseToCome'
    <3>1. ASSUME NEW p \in Objs, obj'[p].valid
          PROVE \E d \in Conns : d = obj'[p].conn /\ ~Has(d, "close")'
      <4>1. obj'[p] = obj[p] /\ obj[p].valid
        BY <1>2, <1>6, <1>9, <3>1
      <4>2. obj[p].conn \in Conns /\ ~Has(obj[p].conn, "close")
        BY <4>1 DEF IInv, Life, Valid, Told, CloseToCome
      <4> QED BY <1>15, <4>1, <4>2
    <3>2. ASSUME NEW v \in Workers, wk'[v].pc = "on_close"
          PROVE  \E d \in Conns : d = obj'[wk'[v].o].conn /\ ~Has(d, "close")'
      <4>1. wk'[v] = wk[v] /\ wk[v].pc = "on_close" /\ wk[v].pc \in Closing
        BY <1>8, <3>2 DEF Closing
      <4>2. wk[v].o \in Objs /\ obj[wk[v].o].conn \in Conns /\ ~Has(obj[wk[v].o].conn, "close")
        BY <4>1, AtClosing
      <4> QED BY <1>10, <1>15, <4>1, <4>2
    <3> QED BY <3>1, <3>2, CloseToComeFrom
  <2>2. OneAccepts'
    BY <1>12 DEF IInv, Told, OneAccepts
  <2>3. ToldOrUnaccepted'
    <3>1. wk'[w].pc \notin Closing \cup {"invalid", "publish", "on_accept", "on_shake"}
      BY <1>8
    <3>2. \A v \in Workers : v # w /\ wk[v].pc \in Closing => obj'[wk[v].o].conn = obj[wk[v].o].conn
      BY <1>10, AtClosing
    <3>3. net' = net
      BY <1>3
    <3> QED BY <1>7, <1>15, <3>1, <3>2, <3>3, ToldStays
  <2> QED BY <1>15, <2>1, <2>2, <2>3 DEF Told
<1>17. Ordered' /\ StaysArmed'
  <2>1. \A p \in Objs : obj[p].at = "new" => obj[p].buf = <<>>
    BY DEF IInv, Ordered, Buffered, BufferedAt
  <2>2. \A p \in Objs : obj'[p] = obj[p] \/ (~obj'[p].valid /\ obj'[p].buf = <<>>)
    BY <1>2, <1>6, <1>9
  <2>3. \A p \in Objs :
           /\ obj'[p].at = "new" => obj'[p].buf = <<>>
           /\ obj'[p].valid => /\ obj[p].valid /\ obj'[p].conn = obj[p].conn
                               /\ obj'[p].buf = obj[p].buf /\ obj'[p].paused = obj[p].paused
                               /\ obj'[p].armed = obj[p].armed \/ obj[p].paused \/ "read" \in obj'[p].armed
    BY <2>1, <2>2
  <2>4. \A v \in Workers : v # w /\ wk[v].pc \in {"send_item", "push_front"} => obj'[wk[v].o].conn = obj[wk[v].o].conn
    BY <1>10, AtWork DEF Working
  <2>5. /\ wk'[w].o \in {None, wk[w].o} /\ ~obj'[wk[w].o].valid
        /\ wk'[w].pc = "accept" => wk'[w].o = None
    BY <1>2, <1>6, <1>7
  <2>6. UNCHANGED <<net, cmds, ap, queued>> /\ wk[w].pc \notin {"send_item", "push_front"}
    BY <1>1, <1>3
  <2> QED BY <1>7, <1>8, <2>3, <2>4, <2>5, <2>6, CallbackKeeps
<1> QED BY <1>11, <1>13, <1>14, <1>16, <1>17 DEF IInv

(* A worker with nothing to accept returns to the dispatcher.              *)
LEMMA AcceptedAllIInv ==
  ASSUME IInv, NEW w \in Workers, wk[w].pc = "accept", wk' = [wk EXCEPT ![w] = IdleWk],
         UNCHANGED <<net, lsn, active, obj, cmds, ap, ops, stop, fired, queued>>
  PROVE  IInv'
<1> USE DEF WAt
<1>1. Types
  BY DEF IInv
<1>2. /\ WkOthers(w) /\ wk'[w].pc = "idle" /\ wk'[w].o = None /\ wk'[w].c = None /\ wk'[w].n = 0
      /\ wk'[w].item = 0
  BY Zenon, <1>1, WkIdle
<1>3. /\ \A v \in Workers : v # w => wk'[v] = wk[v]
      /\ wk'[w].pc \notin Working \cup Closing \cup Accepting \cup {"invalid", "after"}
  BY <1>2 DEF WkOthers, Working, Closing, Accepting
<1>4. Types' /\ InBounds'
  BY <1>1, <1>2 DEF Types, IInv, InBounds, WkOthers
<1>5. Held'
  <2>1. WorkersHold'
    BY <1>2, <1>3 DEF IInv, Held, WorkersHold, InAccept
  <2>2. AppsHold' /\ ConnsApart'
    BY DEF IInv, Held, AppsHold, ConnsApart
  <2>3. NewIsFresh'
    BY <1>2, <1>3, NoneAssumption DEF IInv, Held, NewIsFresh, Settled
  <2> QED BY <2>1, <2>2, <2>3 DEF Held
<1>6. Life'
  <2>1. Publishing'
    <3>1. ASSUME NEW v \in Workers, wk'[v].pc = "publish"
          PROVE  /\ wk'[v] = wk[v] /\ obj[wk[v].o].valid /\ active[wk[v].c] = None /\ wk[v].o \in Objs
                 /\ \A u \in Workers : u # v => wk[u].o # wk[v].o
                 /\ \A a \in Apps : ap[a].o # wk[v].o
      BY <1>2, <1>3, <3>1 DEF IInv, Held, WorkersHold, Life, Publishing
    <3>2. \A u \in Workers : wk'[u].o = wk[u].o \/ wk'[u].o = None
      BY <1>2, <1>3
    <3> QED BY <3>1, <3>2, NoneAssumption, PublishingFrom
  <2>2. Valid' /\ Unarmed'
    BY SMTT(30), <1>3, <1>2 DEF IInv, Life, Valid, Unarmed
  <2>3. Parked' /\ Published'
    BY DEF IInv, Life, Parked, Published
  <2>4. ClosingOne' /\ UnderIo'
    BY SMTT(30), <1>3 DEF IInv, Life, ClosingOne, UnderIo
  <2> QED BY <2>1, <2>2, <2>3, <2>4 DEF Life
<1>7. /\ NotBegun' /\ CloseOnce'
      /\ \A d, e : Has(d, e)' <=> Has(d, e)
  BY ToldAsBefore
<1>8. Told'
  <2>1. CloseToCome'
    BY <1>2, <1>3 DEF IInv, Told, CloseToCome, Has
  <2>2. OneAccepts'
    BY <1>3 DEF IInv, Told, OneAccepts, InAccept
  <2>3. ToldOrUnaccepted'
    BY <1>2, <1>3, <1>7, ToldStays DEF Accepting
  <2> QED BY <1>7, <2>1, <2>2, <2>3 DEF Told
<1>9. Ordered' /\ StaysArmed'
  <2>1. \A p \in Objs : obj[p].at = "new" => obj[p].buf = <<>>
    BY DEF IInv, Ordered, Buffered, BufferedAt
  <2>2. wk[w].item = 0
    BY DEF IInv, Ordered, ItemNext, Closing
  <2>3. wk[w].o = None \/ ~obj[wk[w].o].valid
    BY DEF IInv, StaysArmed
  <2> QED BY <1>2, <2>1, <2>2, <2>3, CallbackKeeps
<1> QED BY <1>4, <1>5, <1>6, <1>8, <1>9 DEF IInv

(* What may be used for a new connection is nobody's, and empty.           *)
LEMMA UsableIsFree ==
  ASSUME IInv, NEW o \in Objs, Usable(o)
  PROVE  /\ \A v \in Workers : wk[v].o # o
         /\ \A a \in Apps : ap[a].o # o
         /\ obj[o].at # "used" /\ ~obj[o].valid /\ obj[o].buf = <<>> /\ obj[o].armed = {}
<1>1. CASE obj[o].at = "new"
  BY <1>1 DEF IInv, Held, NewIsFresh, Settled, FreshObj
<1>2. CASE obj[o].at = "pool" /\ Settled(o)
  BY <1>2, NoneAssumption DEF Settled, IInv, Life, Parked, Unarmed
<1> QED BY <1>1, <1>2 DEF Usable

(* A connection not accepted yet is no object's.                           *)
LEMMA BacklogIsFree ==
  ASSUME IInv, NEW c \in Conns, net[c].st = "backlog"
  PROVE  /\ \A p \in Objs : obj[p].conn # c /\ (obj[p].conn \in Conns \/ obj[p].conn = None)
         /\ active[c] = None
         /\ \A d \in Conns : active[d] # None => active[d] \in Objs /\ obj[active[d]].at = "used"
<1>1. \A p \in Objs : obj[p].conn # None => net[obj[p].conn].st # "backlog"
  BY DEF IInv, Held, ConnsApart
<1>2. \A p \in Objs : obj[p].conn \in Conns \/ obj[p].conn = None
  BY DEF IInv, Types, ObjType
<1>3. \A d \in Conns : active[d] # None =>
        active[d] \in Objs /\ obj[active[d]].conn = d /\ obj[active[d]].at = "used"
  BY DEF IInv, Types, Life, Published
<1> QED BY <1>1, <1>2, <1>3, NoneAssumption

(* The object a worker still names between two accepts is a closed one.    *)
LEMMA AtAccept ==
  ASSUME IInv, NEW w \in Workers, wk[w].pc = "accept"
  PROVE  wk[w].item = 0 /\ (wk[w].o # None => wk[w].o \in Objs /\ ~obj[wk[w].o].valid)
<1>1. wk[w].item = 0
  BY DEF IInv, Ordered, ItemNext, Closing
<1>2. wk[w].o # None => wk[w].o \in Objs
  BY DEF IInv, Types, WkType
<1>3. wk[w].o # None => ~obj[wk[w].o].valid
  BY DEF IInv, StaysArmed, WAt
<1> QED BY <1>1, <1>2, <1>3

(* An object starts anew (TSocketObj::Reset); a worker has it.             *)
LEMMA ObjReset ==
  ASSUME Types, NEW o \in Objs, NEW c \in Conns,
         obj' = [obj EXCEPT ![o] = [@ EXCEPT !.conn = c, !.valid = TRUE, !.paused = FALSE, !.at = "used"]]
  PROVE  /\ ObjOthers(o) /\ obj'[o].conn = c /\ obj'[o].valid /\ ~obj'[o].paused
         /\ obj'[o].at = "used" /\ obj'[o].buf = obj[o].buf /\ obj'[o].armed = obj[o].armed
<1>1. obj[o] \in ObjType
  BY DEF Types
<1>2. [obj[o] EXCEPT !.conn = c, !.valid = TRUE, !.paused = FALSE, !.at = "used"] \in ObjType
  BY Zenon, <1>1 DEF ObjType
<1>3. /\ obj'[o] = [obj[o] EXCEPT !.conn = c, !.valid = TRUE, !.paused = FALSE, !.at = "used"]
      /\ \A p \in Objs : p # o => obj'[p] = obj[p]
  BY DEF Types
<1>4. obj' \in [Objs -> ObjType]
  BY <1>2 DEF Types
<1> QED BY <1>1, <1>3, <1>4 DEF ObjType, ObjOthers

LEMMA WkAccepts ==
  ASSUME Types, NEW w \in Workers, NEW o \in Objs, NEW c \in Conns,
         wk' = [wk EXCEPT ![w].pc = "publish", ![w].o = o, ![w].c = c]
  PROVE  WkOthers(w) /\ wk'[w].pc = "publish" /\ wk'[w].o = o /\ wk'[w].c = c /\ wk'[w].item = wk[w].item
<1>1. wk[w] \in WkType
  BY DEF Types
<1>2. [wk[w] EXCEPT !.pc = "publish", !.o = o, !.c = c] \in WkType
  BY Zenon, <1>1 DEF WkType, WPc
<1>3. /\ wk'[w] = [wk[w] EXCEPT !.pc = "publish", !.o = o, !.c = c]
      /\ \A v \in Workers : v # w => wk'[v] = wk[v]
  BY DEF Types
<1>4. wk' \in [Workers -> WkType]
  BY <1>2 DEF Types
<1> QED BY <1>1, <1>3, <1>4 DEF WkType, WkOthers

(* A connection is accepted and given an object.                           *)
LEMMA AcceptedOneIInv ==
  ASSUME IInv, NEW w \in Workers, wk[w].pc = "accept", NEW c \in Conns, net[c].st = "backlog",
         NEW o \in Objs, Usable(o),
         net' \in [Conns -> NetType], net'[c].st = "open",
         \A d \in Conns : /\ d # c => net'[d] = net[d]
                          /\ net'[d].wire = net[d].wire /\ net'[d].in = net[d].in
                          /\ net'[d].sent = net[d].sent /\ net'[d].room = net[d].room,
         ObjOthers(o), obj'[o].conn = c, obj'[o].valid, ~obj'[o].paused, obj'[o].at = "used",
         obj'[o].buf = obj[o].buf, obj'[o].armed = obj[o].armed,
         WkOthers(w), wk'[w].pc = "publish", wk'[w].o = o, wk'[w].c = c, wk'[w].item = wk[w].item,
         UNCHANGED <<lsn, active, cmds, ap, ops, stop, fired, queued>>
  PROVE  IInv'
<1> USE DEF WAt
<1>1. Types /\ o # None /\ c # None
  BY NoneAssumption DEF IInv
<1>2. /\ \A v \in Workers : wk[v].o # o
      /\ \A a \in Apps : ap[a].o # o
      /\ obj[o].at # "used" /\ ~obj[o].valid /\ obj[o].buf = <<>> /\ obj[o].armed = {}
  BY UsableIsFree
<1>3. /\ net' \in [Conns -> NetType] /\ net'[c].st = "open"
      /\ \A d \in Conns : /\ d # c => net'[d] = net[d]
                          /\ net'[d].wire = net[d].wire /\ net'[d].in = net[d].in
                          /\ net'[d].sent = net[d].sent /\ net'[d].room = net[d].room
  OBVIOUS
<1>4. /\ ObjOthers(o) /\ obj'[o].conn = c /\ obj'[o].valid /\ ~obj'[o].paused
      /\ obj'[o].at = "used" /\ obj'[o].buf = <<>> /\ obj'[o].armed = {}
  BY <1>2
<1>5. WkOthers(w) /\ wk'[w].pc = "publish" /\ wk'[w].o = o /\ wk'[w].c = c /\ wk'[w].item = wk[w].item
  OBVIOUS
<1>6. UNCHANGED <<lsn, active, cmds, ap, ops, stop, fired, queued>>
  OBVIOUS
<1>7. /\ \A p \in Objs : p # o => obj'[p] = obj[p]
      /\ \A v \in Workers : v # w => wk'[v] = wk[v]
      /\ \A v \in Workers : wk[v].pc \in Working \cup Closing \cup Accepting \cup {"invalid", "after", "lock"} => v # w /\ wk'[v] = wk[v]
      /\ wk'[w].pc \notin Working \cup Closing \cup {"invalid", "after", "lock", "accept", "idle", "on_close"}
      /\ wk[w].pc \notin Working \cup Closing \cup Accepting \cup {"invalid"}
  BY <1>4, <1>5 DEF ObjOthers, WkOthers, Working, Closing, Accepting
<1>8. \A p \in Objs : obj[p].conn # c /\ (obj[p].conn \in Conns \/ obj[p].conn = None)
  BY BacklogIsFree
<1>9. active[c] = None /\ \A d \in Conns : active[d] # o /\ (active[d] # None => active[d] \in Objs)
  BY <1>1, <1>2, BacklogIsFree
<1>10. wk[w].item = 0 /\ (wk[w].o # None => wk[w].o \in Objs /\ ~obj[wk[w].o].valid)
  BY AtAccept
<1>11. Types' /\ InBounds'
  <2>1. InBounds'
    BY <1>3 DEF IInv, InBounds
  <2>2. Types'
    BY <1>1, <1>3, <1>4, <1>5, <1>6 DEF Types, WkOthers, ObjOthers
  <2> QED BY <2>1, <2>2
<1>12. \A v \in Workers : v # w => (InAccept(v)' <=> InAccept(v))
  BY <1>7 DEF InAccept
<1>13. \A v \in Workers : InAccept(v) => v # w /\ wk[v].o \in Objs /\ wk[v].c \in Conns /\ obj[wk[v].o].conn = wk[v].c /\ wk[v].c # c
  <2>1. \A v \in Workers : InAccept(v) => v # w /\ wk[v].o \in Objs /\ wk[v].c \in Conns /\ obj[wk[v].o].conn = wk[v].c
    BY <1>7 DEF IInv, Held, WorkersHold, InAccept, Accepting, Closing
  <2> QED BY <1>8, <2>1
<1>14. Held'
  <2>1. ASSUME NEW v \in Workers, InAccept(v)'
        PROVE wk'[v].c \in Conns /\ obj'[wk'[v].o].conn = wk'[v].c
    <3>1. CASE v = w
      BY <1>4, <1>5, <3>1
    <3>2. CASE v # w
      BY <1>2, <1>7, <1>12, <1>13, <2>1, <3>2
    <3> QED BY <3>1, <3>2
  <2>2. \A v \in Workers :
          /\ wk'[v].pc = "idle" => wk'[v].o = None /\ wk'[v].n = 0
          /\ wk'[v].pc \notin {"idle", "accept"} => wk'[v].o \in Objs
          /\ wk'[v].pc = "lock" => wk'[v].ev # "none"
          /\ wk'[v].pc \in Closing \cup {"invalid"} => wk'[v].back # "idle"
    BY <1>5, <1>7 DEF IInv, Held, WorkersHold
  <2>3. WorkersHold'
    BY <2>1, <2>2 DEF WorkersHold
  <2>4. AppsHold'
    BY <1>2, <1>6, <1>7 DEF IInv, Held, AppsHold
  <2>5. ConnsApart'
    <3>1. \A p \in Objs : p # o => obj'[p].conn = obj[p].conn /\ obj[p].conn # c
      BY <1>7, <1>8
    <3>2. \A p \in Objs : obj'[p].conn # None => net'[obj'[p].conn].st \in {"open", "closed"}
      <4>1. \A p \in Objs : p # o /\ obj[p].conn # None => net[obj[p].conn].st \in {"open", "closed"}
        BY DEF IInv, Held, ConnsApart
      <4> QED BY <1>3, <1>4, <1>8, <3>1, <4>1
    <3>3. \A p, q \in Objs : obj[p].conn # None /\ obj[p].conn = obj[q].conn => p = q
      BY DEF IInv, Held, ConnsApart
    <3>4. \A p, q \in Objs : obj'[p].conn # None /\ obj'[p].conn = obj'[q].conn => p = q
      BY <1>4, <3>1, <3>3
    <3> QED BY <3>2, <3>4 DEF ConnsApart
  <2>6. NewIsFresh'
    <3>1. ASSUME NEW p \in Objs, obj'[p].at = "new" PROVE obj'[p] = FreshObj /\ Settled(p)'
      <4>1. p # o /\ obj'[p] = obj[p]
        BY <1>4, <1>7, <3>1
      <4>2. obj[p] = FreshObj /\ Settled(p)
        BY <3>1, <4>1 DEF IInv, Held, NewIsFresh
      <4>3. Settled(p)'
        BY <1>5, <1>6, <1>7, <4>1, <4>2 DEF Settled
      <4> QED BY <4>1, <4>2, <4>3
    <3> QED BY <3>1 DEF NewIsFresh
  <2> QED BY <2>3, <2>4, <2>5, <2>6 DEF Held
<1>15. Life'
  <2>1. Publishing'
    <3>1. ASSUME NEW v \in Workers, wk'[v].pc = "publish"
          PROVE  /\ obj'[wk'[v].o].valid /\ active'[wk'[v].c] = None
                 /\ \A u \in Workers : u # v => wk'[u].o # wk'[v].o
                 /\ \A a \in Apps : ap'[a].o # wk'[v].o
      <4>1. CASE v = w
        BY <1>2, <1>4, <1>5, <1>6, <1>7, <1>9, <4>1
      <4>2. CASE v # w
        <5>1. wk'[v] = wk[v] /\ wk[v].pc = "publish" /\ wk[v].o \in Objs /\ wk[v].o # o
          BY <1>2, <1>7, <3>1, <4>2 DEF IInv, Held, WorkersHold
        <5>2. /\ obj[wk[v].o].valid /\ active[wk[v].c] = None
              /\ \A u \in Workers : u # v => wk[u].o # wk[v].o
              /\ \A a \in Apps : ap[a].o # wk[v].o
          BY <5>1 DEF IInv, Life, Publishing
        <5>3. obj'[wk[v].o] = obj[wk[v].o] /\ \A u \in Workers : wk'[u].o = wk[u].o \/ wk'[u].o = o
          BY <1>5, <1>7, <5>1
        <5> QED BY <1>6, <5>1, <5>2, <5>3
      <4> QED BY <4>1, <4>2
    <3> QED BY <3>1, PublishingFrom
  <2>2. Valid'
    <3>1. ASSUME NEW p \in Objs, obj'[p].valid
          PROVE  /\ obj'[p].at = "used" /\ obj'[p].conn \in Conns /\ net'[obj'[p].conn].st = "open"
                 /\ active'[obj'[p].conn] = p \/ \E v \in Workers : wk'[v].pc = "publish" /\ wk'[v].o = p
      <4>1. CASE p = o
        BY <1>3, <1>4, <1>5, <4>1
      <4>2. CASE p # o
        <5>1. obj'[p] = obj[p] /\ obj[p].valid /\ obj[p].conn # c
          BY <1>7, <1>8, <3>1, <4>2
        <5>2. /\ obj[p].at = "used" /\ obj[p].conn \in Conns /\ net[obj[p].conn].st = "open"
              /\ active[obj[p].conn] = p \/ \E v \in Workers : v # w /\ wk[v].pc = "publish" /\ wk[v].o = p
          BY <5>1 DEF IInv, Life, Valid
        <5>3. net'[obj[p].conn] = net[obj[p].conn]
          BY <1>3, <5>1, <5>2
        <5>4. active' = active /\ \A v \in Workers : v # w => wk'[v] = wk[v]
          BY <1>6, <1>7
        <5> QED BY <5>1, <5>2, <5>3, <5>4
      <4> QED BY <4>1, <4>2
    <3> QED BY <3>1, ValidFrom
  <2>3. Unarmed'
    <3>1. ASSUME NEW v \in Workers, wk'[v].pc = "publish" PROVE obj'[wk'[v].o].armed = {}
      <4>1. CASE v = w
        BY <1>4, <1>5, <4>1
      <4>2. CASE v # w
        <5>1. wk'[v] = wk[v] /\ wk[v].pc = "publish" /\ wk[v].o \in Objs /\ wk[v].o # o
          BY <1>2, <1>7, <3>1, <4>2 DEF IInv, Held, WorkersHold
        <5>2. obj[wk[v].o].armed = {}
          BY Zenon, <5>1 DEF IInv, Life, Unarmed
        <5> QED BY <1>7, <5>1, <5>2
      <4> QED BY <4>1, <4>2
    <3>2. ASSUME NEW p \in Objs, obj'[p].conn # None, net'[obj'[p].conn].st = "closed"
          PROVE obj'[p].armed = {}
      <4>1. CASE p = o
        BY <1>4, <4>1
      <4>2. CASE p # o
        <5>1. obj'[p] = obj[p] /\ obj[p].conn \in Conns /\ obj[p].conn # c
          BY <1>7, <1>8, <3>2, <4>2
        <5> QED BY <1>3, <3>2, <5>1 DEF IInv, Life, Unarmed
      <4> QED BY <4>1, <4>2
    <3> QED BY Zenon, <3>1, <3>2 DEF Unarmed
  <2>4. Parked'
    <3>1. ASSUME NEW p \in Objs, obj'[p].at \in {"pool", "gc"}
          PROVE  /\ ~obj'[p].valid /\ obj'[p].conn \in Conns /\ net'[obj'[p].conn].st = "closed"
                 /\ obj'[p].buf = <<>>
      <4>1. obj'[p] = obj[p] /\ obj[p].conn # c
        BY <1>4, <1>7, <1>8, <3>1
      <4> QED BY <1>3, <3>1, <4>1 DEF IInv, Life, Parked
    <3> QED BY <3>1 DEF Parked
  <2>5. Published'
    BY <1>6, <1>7, <1>9 DEF IInv, Life, Published
  <2>6. ClosingOne'
    <3>1. ASSUME NEW v \in Workers, wk'[v].pc \in Closing
          PROVE  v # w /\ wk'[v] = wk[v] /\ wk[v].pc \in Closing
      BY <1>7, <3>1
    <3>2. ASSUME NEW v \in Workers, wk'[v].pc \in Closing
          PROVE  \E p \in Objs, d \in Conns :
                   /\ p = wk'[v].o /\ d = obj'[p].conn /\ ~obj'[p].valid /\ obj'[p].at = "used"
                   /\ wk'[v].pc \in {"on_close", "close"} => net'[d].st = "open"
                   /\ wk'[v].pc \in {"remove", "release"} => net'[d].st = "closed"
                   /\ active'[d] = IF wk'[v].pc = "release" THEN None ELSE p
      <4>1. wk'[v] = wk[v] /\ wk[v].pc \in Closing
        BY <3>1, <3>2
      <4>2. wk[v].o \in Objs /\ obj[wk[v].o].conn \in Conns
        BY <4>1, AtClosing
      <4>3. PICK p \in Objs, d \in Conns : p = wk[v].o /\ d = obj[p].conn /\ d # c /\ p # o
        BY <1>2, <1>8, <4>2
      <4>4. obj'[p] = obj[p] /\ net'[d] = net[d]
        BY <1>3, <1>7, <4>3
      <4>5. /\ ~obj[p].valid /\ obj[p].at = "used"
            /\ wk[v].pc \in {"on_close", "close"} => net[d].st = "open"
            /\ wk[v].pc \in {"remove", "release"} => net[d].st = "closed"
            /\ active[d] = IF wk[v].pc = "release" THEN None ELSE p
        BY Zenon, <4>1, <4>3, AtClosing
      <4> QED BY <1>6, <4>1, <4>3, <4>4, <4>5
    <3>3. \A u, v \in Workers : wk'[u].pc \in Closing /\ wk'[v].pc \in Closing /\ wk'[u].o = wk'[v].o => u = v
      <4>1. \A u, v \in Workers :
              wk[u].pc \in Closing /\ wk[v].pc \in Closing /\ wk[u].o = wk[v].o => u = v
        BY DEF IInv, Life, ClosingOne
      <4> QED BY <3>1, <4>1
    <3> QED BY <3>2, <3>3, ClosingFrom
  <2>7. UnderIo'
    <3>1. \A v \in Workers : wk'[v].pc \in Working \cup Closing \cup {"invalid", "after"} =>
            /\ wk'[v] = wk[v] /\ wk[v].o \in Objs /\ obj'[wk[v].o] = obj[wk[v].o]
      <4>1. \A v \in Workers : wk'[v].pc \in Working \cup Closing \cup {"invalid", "after"} => v # w /\ wk'[v] = wk[v]
        BY <1>7
      <4>2. \A v \in Workers : wk[v].pc \in Working \cup Closing \cup {"invalid", "after"} => wk[v].o \in Objs
        BY DEF IInv, Held, WorkersHold, Working, Closing
      <4> QED BY <1>2, <1>7, <4>1, <4>2
    <3>2. \A v \in Workers :
            /\ wk[v].pc \in Working => obj[wk[v].o].valid /\ obj[wk[v].o].io = v
            /\ wk[v].pc = "invalid" /\ wk[v].back = "after" => obj[wk[v].o].valid /\ obj[wk[v].o].io = v
            /\ wk[v].pc \in Closing /\ wk[v].back = "after" => obj[wk[v].o].io = v
            /\ wk[v].pc = "after" => obj[wk[v].o].io = v
      BY DEF IInv, Life, UnderIo
    <3> QED BY <3>1, <3>2 DEF UnderIo
  <2> QED BY <2>1, <2>2, <2>3, <2>4, <2>5, <2>6, <2>7 DEF Life
<1>16. Told'
  <2>1. \A d, e : Has(d, e)' <=> Has(d, e)
    BY <1>6 DEF Has
  <2>2. fired[c] = <<>> /\ queued[c] = 0 /\ net[c].wire = <<>> /\ \A e : ~Has(c, e)
    BY DEF IInv, Told, NotBegun, Has
  <2>3. NotBegun' /\ CloseOnce'
    <3>1. \A d \in Conns : net'[d].st \in {"new", "backlog"} => net[d].st \in {"new", "backlog"}
      BY <1>3
    <3> QED BY <1>3, <1>6, <3>1, ToldAsBefore
  <2>4. CloseToCome'
    <3>1. ASSUME NEW p \in Objs, obj'[p].valid
          PROVE \E d \in Conns : d = obj'[p].conn /\ ~Has(d, "close")'
      <4>1. CASE p = o
        BY <1>4, <2>1, <2>2, <4>1
      <4>2. CASE p # o
        <5>1. obj'[p] = obj[p] /\ obj[p].valid
          BY <1>7, <3>1, <4>2
        <5>2. obj[p].conn \in Conns /\ ~Has(obj[p].conn, "close")
          BY <5>1 DEF IInv, Life, Valid, Told, CloseToCome
        <5> QED BY <2>1, <5>1, <5>2
      <4> QED BY <4>1, <4>2
    <3>2. ASSUME NEW v \in Workers, wk'[v].pc = "on_close"
          PROVE  \E d \in Conns : d = obj'[wk'[v].o].conn /\ ~Has(d, "close")'
      <4>1. wk'[v] = wk[v] /\ wk[v].pc = "on_close" /\ wk[v].pc \in Closing
        BY <1>7, <3>2 DEF Closing
      <4>2. wk[v].o \in Objs /\ obj[wk[v].o].conn \in Conns /\ ~Has(obj[wk[v].o].conn, "close")
        BY <4>1, AtClosing
      <4>3. obj'[wk[v].o] = obj[wk[v].o]
        BY <1>2, <1>7, <4>2
      <4> QED BY <2>1, <4>1, <4>2, <4>3
    <3> QED BY <3>1, <3>2, CloseToComeFrom
  <2>5. OneAccepts'
    <3>1. \A u, v \in Workers : InAccept(u) /\ InAccept(v) /\ wk[u].c = wk[v].c => u = v
      BY DEF IInv, Told, OneAccepts
    <3>2. \A v \in Workers : v # w /\ InAccept(v)' => InAccept(v) /\ wk'[v].c = wk[v].c /\ wk[v].c # c
      BY <1>7, <1>12, <1>13
    <3>3. \A v \in Workers : v # w /\ InAccept(v)' => wk'[v].c # wk'[w].c
      BY <1>5, <3>2
    <3>4. \A u, v \in Workers : InAccept(u)' /\ InAccept(v)' /\ wk'[u].c = wk'[v].c => u = v
      BY <3>1, <3>2, <3>3
    <3> QED BY <3>4 DEF OneAccepts
  <2>6. ToldOrUnaccepted'
    <3>1. \A v \in Workers : v # w /\ wk[v].pc \in Closing => obj'[wk[v].o].conn = obj[wk[v].o].conn
      BY <1>2, <1>7, AtClosing
    <3>2. \A d \in Conns : net'[d].st = "closed" => net[d].st = "closed"
      BY <1>3
    <3>3. /\ \E d \in Conns : d = wk'[w].c /\ ~Has(d, "shake")
          /\ net[wk'[w].c].st \notin {"open", "closed"}
      BY <1>5, <2>2
    <3> QED BY <1>5, <1>7, <2>1, <3>1, <3>2, <3>3, ToldStays
  <2> QED BY <2>3, <2>4, <2>5, <2>6 DEF Told
<1>17. Ordered'
  <2>1. \A v \in Workers : \A p \in Objs : Holds(v, p)' <=> Holds(v, p)
    BY <1>5, <1>7, <1>10 DEF Holds
  <2>2. BufferedAt(o)'
    <3>1. queued[c] = 0 /\ net[c].wire = <<>>
      BY DEF IInv, Told, NotBegun
    <3>2. InHand(o)' = 0
      BY <1>2, <2>1 DEF InHand, Holds
    <3>3. Len(net'[c].wire) = 0 /\ Len(obj'[o].buf) = 0
      BY <1>3, <1>4, <3>1
    <3>4. Out(o)' = 0
      BY <1>4, <3>2, <3>3 DEF Out
    <3>5. queued'[obj'[o].conn] = 0
      BY <1>4, <1>6, <3>1
    <3> QED BY <1>4, <3>3, <3>4, <3>5 DEF BufferedAt
  <2>3. ASSUME NEW p \in Objs, p # o PROVE BufferedAt(p)'
    <3>1. obj'[p] = obj[p] /\ queued' = queued
      BY <1>6, <1>7, <2>3
    <3>2. obj[p].valid => net'[obj[p].conn].wire = net[obj[p].conn].wire
      <4>1. obj[p].valid => obj[p].conn \in Conns
        BY DEF IInv, Life, Valid
      <4> QED BY <1>3, <4>1
    <3> QED BY <2>1, <3>1, <3>2, BufferedStays
  <2>4. Buffered'
    BY <2>2, <2>3 DEF Buffered
  <2>5. OnWire'
    BY <1>3, <1>6 DEF IInv, Ordered, OnWire
  <2>6. ItemNext'
    <3>1. ASSUME NEW v \in Workers, wk'[v].pc \in {"send_item", "push_front"}
          PROVE  wk'[v].item = Len(net'[obj'[wk'[v].o].conn].wire) + 1
      <4>1. wk'[v] = wk[v] /\ wk[v].pc \in {"send_item", "push_front"} /\ wk[v].pc \in Working
        BY <1>5, <1>7, <3>1 DEF Working
      <4>2. wk[v].o \in Objs /\ obj[wk[v].o].conn \in Conns
        BY <4>1, AtWork
      <4>3. obj'[wk[v].o] = obj[wk[v].o] /\ net'[obj[wk[v].o].conn].wire = net[obj[wk[v].o].conn].wire
        BY <1>2, <1>3, <1>7, <4>2
      <4>4. wk[v].item = Len(net[obj[wk[v].o].conn].wire) + 1
        BY <4>1 DEF IInv, Ordered, ItemNext
      <4> QED BY <4>1, <4>3, <4>4
    <3>2. \A v \in Workers : wk'[v].item # 0 =>
            \/ wk'[v].pc \in {"send_item", "push_front"}
            \/ wk'[v].pc \in Closing \cup {"invalid"} /\ wk'[v].back = "after"
      BY <1>5, <1>7, <1>10 DEF IInv, Ordered, ItemNext
    <3> QED BY <3>1, <3>2 DEF ItemNext
  <2> QED BY <2>4, <2>5, <2>6 DEF Ordered
<1>18. StaysArmed'
  <2>1. ASSUME NEW p \in Objs, obj'[p].valid, ~obj'[p].paused, ~Arming(p)'
        PROVE "read" \in obj'[p].armed
    <3>1. \A v \in Workers : wk'[v].o # p
      BY <2>1 DEF Arming
    <3>2. p # o /\ obj'[p] = obj[p] /\ wk[w].o # p
      <4>1. p # o /\ p # None
        BY <1>5, <3>1, NoneAssumption
      <4>2. obj'[p] = obj[p] /\ obj[p].valid
        BY <1>7, <2>1, <4>1
      <4> QED BY <1>10, <4>1, <4>2
    <3>3. \A v \in Workers : wk[v].o # p
      BY <1>7, <3>1, <3>2
    <3>4. ~Arming(p)
      BY <1>6, <2>1, <3>2, <3>3 DEF Arming
    <3> QED BY <2>1, <3>2, <3>4 DEF IInv, StaysArmed
  <2>2. \A v \in Workers : wk'[v].pc = "accept" /\ wk'[v].o # None => ~obj'[wk'[v].o].valid
    <3>1. \A v \in Workers : wk[v].o # None => wk[v].o \in Objs
      BY <1>1 DEF Types, WkType
    <3>2. \A v \in Workers : wk[v].pc = "accept" /\ wk[v].o # None => ~obj[wk[v].o].valid
      BY DEF IInv, StaysArmed
    <3>3. \A v \in Workers : v # w /\ wk[v].o # None => obj'[wk[v].o] = obj[wk[v].o]
      BY <1>2, <1>7, <3>1
    <3> QED BY <1>5, <1>7, <3>2, <3>3
  <2> QED BY <2>1, <2>2 DEF StaysArmed
<1> QED BY <1>11, <1>14, <1>15, <1>16, <1>17, <1>18 DEF IInv

LEMMA AcceptIInv ==
  ASSUME IInv, NEW w \in Workers, Accept(w)
  PROVE  IInv'
<1>1. wk[w].pc = "accept" /\ UNCHANGED <<lsn, active, cmds, ap, ops, stop, fired, queued>>
  BY Zenon DEF Accept, WAt
<1>2. CASE lsn.open /\ \E c \in Conns : net[c].st = "backlog"
  <2>1. PICK c \in Conns, o \in Objs :
          /\ net[c].st = "backlog" /\ Usable(o) /\ net' = [net EXCEPT ![c].st = "open"]
          /\ obj' = [obj EXCEPT ![o] = [@ EXCEPT !.conn = c, !.valid = TRUE,
                                        !.paused = FALSE, !.at = "used"]]
          /\ wk'  = [wk EXCEPT ![w].pc = "publish", ![w].o = o, ![w].c = c]
    BY Zenon, <1>2 DEF Accept
  <2>2. Types /\ "open" \in NetStates
    BY DEF IInv, NetStates
  <2>3. /\ net' \in [Conns -> NetType] /\ net'[c].st = "open"
        /\ \A d \in Conns : /\ d # c => net'[d] = net[d]
                            /\ net'[d].wire = net[d].wire /\ net'[d].in = net[d].in
                            /\ net'[d].sent = net[d].sent /\ net'[d].room = net[d].room
    BY Zenon, <2>1, <2>2, NetSt
  <2>4. /\ ObjOthers(o) /\ obj'[o].conn = c /\ obj'[o].valid /\ ~obj'[o].paused
        /\ obj'[o].at = "used" /\ obj'[o].buf = obj[o].buf /\ obj'[o].armed = obj[o].armed
    BY Zenon, <2>1, <2>2, ObjReset
  <2>5. WkOthers(w) /\ wk'[w].pc = "publish" /\ wk'[w].o = o /\ wk'[w].c = c /\ wk'[w].item = wk[w].item
    BY Zenon, <2>1, <2>2, WkAccepts
  <2> QED BY Zenon, <1>1, <2>1, <2>3, <2>4, <2>5, AcceptedOneIInv
<1>3. CASE ~(lsn.open /\ \E c \in Conns : net[c].st = "backlog")
  BY Zenon, <1>1, <1>3, AcceptedAllIInv DEF Accept
<1> QED BY <1>2, <1>3

-----------------------------------------------------------------------------
(* Calls of the application.                                               *)
ApOthers(a) == ap' \in [Apps -> ApType] /\ \A b \in Apps : b # a => ap'[b] = ap[b]

LEMMA ApDone ==
  ASSUME Types, NEW a \in Apps, Done(a)
  PROVE  ApOthers(a) /\ ap'[a].pc = "idle" /\ ap'[a].o = None
<1>1. IdleAp \in ApType
  BY DEF IdleAp, ApType
<1> QED BY <1>1 DEF Types, Done, ApOthers, IdleAp

(* A call takes the object of a published connection and keeps it to its   *)
(* end; it writes valid objects only and changes nothing that closing asks *)
(* about.                                                                  *)
LEMMA CallIInv ==
  ASSUME IInv, Types', Ordered', NEW a \in Apps, ApOthers(a),
         UNCHANGED <<net, lsn, active, wk, stop, fired>>,
         \/ ap'[a].pc = "idle" /\ ap'[a].o = None
         \/ /\ ap'[a].o \in Objs /\ ap'[a].c \in Conns /\ obj[ap'[a].o].conn = ap'[a].c
            /\ obj[ap'[a].o].at # "new"
            /\ \A w \in Workers : wk[w].pc = "publish" => wk[w].o # ap'[a].o,
         \A p \in Objs : /\ obj'[p].valid = obj[p].valid /\ obj'[p].conn = obj[p].conn
                         /\ obj'[p].io = obj[p].io /\ obj'[p].at = obj[p].at
                         /\ obj'[p].armed = obj[p].armed /\ (obj[p].valid \/ obj'[p] = obj[p]),
         \A d \in Conns : queued'[d] = queued[d] \/ net[d].st = "open",
         \A p \in Objs : obj[p].valid /\ ~obj'[p].paused /\ ~Arming(p)' => "read" \in obj[p].armed
  PROVE  IInv'
<1> USE DEF WAt, ApOthers
<1>1. Types /\ \A w \in Workers : wk[w].o # None => wk[w].o \in Objs
  BY DEF IInv, Types, WkType
<1>2. InBounds'
  BY DEF IInv, InBounds
<1>3. Held'
  <2>1. WorkersHold'
    <3>1. \A w \in Workers : InAccept(w)' <=> InAccept(w)
      BY DEF InAccept
    <3>2. \A w \in Workers : InAccept(w) => wk[w].o \in Objs
      BY DEF IInv, Held, WorkersHold, InAccept, Accepting, Closing
    <3> QED BY <3>1, <3>2 DEF IInv, Held, WorkersHold
  <2>2. AppsHold'
    BY DEF IInv, Held, AppsHold
  <2>3. ConnsApart'
    BY DEF IInv, Held, ConnsApart
  <2>4. NewIsFresh'
    <3>1. ASSUME NEW p \in Objs, obj'[p].at = "new" PROVE obj'[p] = FreshObj /\ Settled(p)'
      <4>1. obj[p] = FreshObj /\ Settled(p) /\ p # None /\ obj'[p] = obj[p]
        <5>1. obj[p] = FreshObj /\ Settled(p)
          BY <3>1 DEF IInv, Held, NewIsFresh
        <5>2. ~obj[p].valid
          BY <5>1 DEF FreshObj
        <5> QED BY <5>1, <5>2, NoneAssumption
      <4>2. \A b \in Apps : ap'[b].o # p
        BY <3>1, <4>1 DEF Settled
      <4> QED BY <4>1, <4>2 DEF Settled
    <3> QED BY <3>1 DEF NewIsFresh
  <2> QED BY <2>1, <2>2, <2>3, <2>4 DEF Held
<1>4. Life'
  <2>1. \A w \in Workers : wk[w].pc \notin {"idle", "accept"} => wk[w].o \in Objs /\ wk[w].o # None
    BY NoneAssumption DEF IInv, Held, WorkersHold
  <2>2. Publishing'
    <3>1. ASSUME NEW w \in Workers, wk[w].pc = "publish"
          PROVE  /\ obj'[wk[w].o].valid /\ active[wk[w].c] = None
                 /\ \A v \in Workers : v # w => wk[v].o # wk[w].o
                 /\ \A b \in Apps : ap'[b].o # wk[w].o
      BY <2>1, <3>1 DEF IInv, Life, Publishing
    <3> QED BY <3>1, PublishingFrom
  <2>3. Valid' /\ Unarmed' /\ Parked'
    BY <2>1 DEF IInv, Life, Valid, Unarmed, Parked
  <2>4. Published'
    <3>1. \A c \in Conns : active[c] # None => active[c] \in Objs
      BY <1>1 DEF Types
    <3> QED BY <3>1 DEF IInv, Life, Published
  <2>5. ClosingOne' /\ UnderIo'
    BY SMTT(30), <2>1 DEF IInv, Life, ClosingOne, UnderIo, Closing, Working
  <2> QED BY <2>2, <2>3, <2>4, <2>5 DEF Life
<1>5. Told'
  <2>1. \A d, e : Has(d, e)' <=> Has(d, e)
    BY DEF Has
  <2>2. \A w \in Workers : wk[w].pc \in Closing => wk[w].o \in Objs
    BY DEF IInv, Held, WorkersHold, Closing
  <2>3. NotBegun' /\ CloseOnce'
    BY DEF IInv, Told, NotBegun, CloseOnce
  <2>4. CloseToCome'
    <3>1. \A p \in Objs : obj'[p].valid => \E d \in Conns : d = obj'[p].conn /\ ~Has(d, "close")'
      BY <2>1 DEF IInv, Life, Valid, Told, CloseToCome
    <3>2. ASSUME NEW w \in Workers, wk'[w].pc = "on_close"
          PROVE  \E d \in Conns : d = obj'[wk'[w].o].conn /\ ~Has(d, "close")'
      <4>1. wk[w].o \in Objs /\ obj[wk[w].o].conn \in Conns /\ ~Has(obj[wk[w].o].conn, "close")
        BY Zenon, <3>2, AtClosing DEF Closing
      <4> QED BY <2>1, <4>1
    <3> QED BY <3>1, <3>2, CloseToComeFrom
  <2>5. OneAccepts'
    BY DEF IInv, Told, OneAccepts, InAccept
  <2>6. ToldOrUnaccepted'
    <3>1. \A w \in Workers : wk[w].pc = "close" => obj'[wk[w].o].conn = obj[wk[w].o].conn
      BY <2>2 DEF Closing
    <3>2. \A d : Unaccepted(d)' <=> Unaccepted(d)
      BY <2>1 DEF Unaccepted
    <3> QED BY SMTT(30), <2>1, <3>1, <3>2 DEF IInv, Told, ToldOrUnaccepted, Has, Unaccepted
  <2> QED BY <2>3, <2>4, <2>5, <2>6 DEF Told
<1>6. StaysArmed'
  BY <1>1 DEF IInv, StaysArmed
<1> QED BY <1>2, <1>3, <1>4, <1>5, <1>6 DEF IInv

(* A call that moves no packet.                                            *)
LEMMA CallOrdered ==
  ASSUME IInv, UNCHANGED <<net, wk, queued>>,
         \A p \in Objs : /\ obj'[p].valid = obj[p].valid /\ obj'[p].conn = obj[p].conn
                         /\ obj'[p].at = obj[p].at /\ obj'[p].buf = obj[p].buf
  PROVE  Ordered'
<1>1. OnWire' /\ Buffered'
  <2>1. \A p \in Objs : obj'[p].at = "new" => obj'[p].buf = <<>>
    BY DEF IInv, Ordered, Buffered, BufferedAt
  <2> QED BY <2>1, PacketsKept DEF Holds
<1>2. ItemNext'
  <2>1. \A w \in Workers : wk[w].pc \in {"send_item", "push_front"} => wk[w].o \in Objs
    BY AtWork DEF Working
  <2> QED BY Zenon, <2>1 DEF IInv, Ordered, ItemNext
<1> QED BY <1>1, <1>2 DEF Ordered

LEMMA FindIInv ==
  ASSUME IInv, NEW a \in Apps, NEW op \in AppOps, Find(a, op)
  PROVE  IInv'
<1>1. PICK c \in Conns : /\ active[c] # None /\ ap[a].pc = "idle"
                         /\ ap' = [ap EXCEPT ![a] = [pc |-> op, o |-> active[c], c |-> c]]
  BY Zenon DEF Find
<1>2. UNCHANGED <<net, lsn, active, obj, cmds, wk, stop, fired, queued>> /\ Types
  BY DEF Find, IInv
<1>3. PICK o \in Objs : o = active[c] /\ obj[o].conn = c /\ obj[o].at = "used"
  BY <1>1, <1>2 DEF Types, IInv, Life, Published
<1>4. ApOthers(a) /\ ap'[a].pc = op /\ ap'[a].o = o /\ ap'[a].c = c
  <2>1. [pc |-> op, o |-> o, c |-> c] \in ApType
    BY DEF ApType
  <2> QED BY <1>1, <1>2, <1>3, <2>1 DEF Types, ApOthers
<1>5. \A w \in Workers : wk[w].pc = "publish" => wk[w].o # o
  <2>1. ASSUME NEW w \in Workers, wk[w].pc = "publish"
        PROVE obj[wk[w].o].conn = wk[w].c /\ active[wk[w].c] = None
    BY <2>1 DEF IInv, Held, WorkersHold, InAccept, Accepting, Life, Publishing, WAt
  <2> QED BY <1>1, <1>3, <2>1
<1>6. Types' /\ Ordered'
  BY <1>2, <1>4, CallOrdered DEF Types, ApOthers
<1>7. op # "post"
  BY OpsAssumption
<1>8. ASSUME NEW p \in Objs, obj[p].valid, ~obj'[p].paused, ~Arming(p)'
      PROVE "read" \in obj[p].armed
  <2>1. ~Arming(p)
    BY <1>1, <1>2, <1>4, <1>7, <1>8 DEF Arming, ApOthers
  <2> QED BY <1>2, <1>8, <2>1 DEF IInv, StaysArmed
<1>9. UNCHANGED <<net, lsn, active, obj, wk, stop, fired, queued>>
  BY <1>2
<1> QED BY <1>3, <1>4, <1>5, <1>6, <1>8, <1>9, CallIInv

(* A command is put into the queue.                                        *)
LEMMA Posted ==
  ASSUME Types, NEW cmd \in CmdType, cmds' = Append(cmds, cmd)
  PROVE  /\ cmds' \in Seq(CmdType)
         /\ \A i \in 1 .. Len(cmds) : i \in 1 .. Len(cmds') /\ cmds'[i] = cmds[i]
         /\ \E i \in 1 .. Len(cmds') : cmds'[i] = cmd
<1>1. cmds \in Seq(CmdType)
  BY DEF Types
<1>2. cmds' \in Seq(CmdType) /\ Len(cmds') = Len(cmds) + 1 /\ cmds'[Len(cmds) + 1] = cmd
  BY <1>1
<1>3. \A i \in 1 .. Len(cmds) : cmds'[i] = cmds[i]
  BY <1>1
<1> QED BY <1>1, <1>2, <1>3

LEMMA DisconnectIInv ==
  ASSUME IInv, NEW a \in Apps, Disconnect(a)
  PROVE  IInv'
<1>1. /\ UNCHANGED <<net, lsn, active, obj, wk, stop, fired, queued>> /\ Types
      /\ ap[a].pc = "disconnect" /\ ap[a].c \in Conns /\ Done(a)
  BY DEF Disconnect, IInv, Held, AppsHold
<1>2. ApOthers(a) /\ ap'[a].pc = "idle" /\ ap'[a].o = None
  BY <1>1, ApDone
<1>3. cmds' \in Seq(CmdType) /\ \A i \in 1 .. Len(cmds) : i \in 1 .. Len(cmds') /\ cmds'[i] = cmds[i]
  <2>1. [type |-> "disconnect", c |-> ap[a].c] \in CmdType
    BY <1>1 DEF CmdType
  <2>2. CASE cmds' = Append(cmds, [type |-> "disconnect", c |-> ap[a].c])
    BY <1>1, <2>1, <2>2, Posted
  <2>3. CASE cmds' = cmds
    BY <1>1, <2>3 DEF Types
  <2> QED BY <2>2, <2>3 DEF Disconnect
<1>4. Types' /\ Ordered'
  BY <1>1, <1>2, <1>3, CallOrdered DEF Types, ApOthers
<1>5. ASSUME NEW p \in Objs, obj[p].valid, ~obj'[p].paused, ~Arming(p)'
      PROVE "read" \in obj[p].armed
  <2>1. ~Arming(p)
    BY Zenon, <1>1, <1>2, <1>3, <1>5 DEF Arming, ApOthers
  <2> QED BY <1>1, <1>5, <2>1 DEF IInv, StaysArmed
<1> QED BY <1>1, <1>2, <1>4, <1>5, CallIInv

(* The end of a pause: the command that will arm the event goes out.       *)
LEMMA PostUnpauseIInv ==
  ASSUME IInv, NEW a \in Apps, PostUnpause(a)
  PROVE  IInv'
<1>1. /\ UNCHANGED <<net, lsn, active, obj, wk, stop, fired, queued>> /\ Types
      /\ ap[a].pc = "post" /\ Done(a)
  BY DEF PostUnpause, IInv
<1>2. PICK o \in Objs, c \in Conns : o = ap[a].o /\ obj[o].conn = c
  BY <1>1 DEF IInv, Held, AppsHold
<1>3. ApOthers(a) /\ ap'[a].pc = "idle" /\ ap'[a].o = None
  BY <1>1, ApDone
<1>4. /\ cmds' \in Seq(CmdType)
      /\ \A i \in 1 .. Len(cmds) : i \in 1 .. Len(cmds') /\ cmds'[i] = cmds[i]
      /\ \E i \in 1 .. Len(cmds') : cmds'[i].type = "unpause" /\ cmds'[i].c = c
  <2>1. [type |-> "unpause", c |-> c] \in CmdType
    BY DEF CmdType
  <2>2. cmds' = Append(cmds, [type |-> "unpause", c |-> c])
    BY <1>2 DEF PostUnpause, Post
  <2> QED BY <1>1, <2>1, <2>2, Posted
<1>5. Types' /\ Ordered'
  BY <1>1, <1>3, <1>4, CallOrdered DEF Types, ApOthers
<1>6. ASSUME NEW p \in Objs, obj[p].valid, ~obj'[p].paused, ~Arming(p)'
      PROVE "read" \in obj[p].armed
  <2>1. p # o
    BY <1>1, <1>2, <1>4, <1>6 DEF Arming
  <2>2. ~Arming(p)
    BY <1>1, <1>2, <1>3, <1>4, <1>6, <2>1 DEF Arming, ApOthers
  <2> QED BY <1>1, <1>6, <2>2 DEF IInv, StaysArmed
<1> QED BY <1>1, <1>3, <1>5, <1>6, CallIInv

LEMMA PauseReceiveIInv ==
  ASSUME IInv, NEW a \in Apps, PauseReceive(a)
  PROVE  IInv'
<1>1. /\ UNCHANGED <<net, lsn, active, cmds, wk, stop, fired, queued>> /\ Types
      /\ ap[a].pc \in {"pause", "resume"}
  BY DEF PauseReceive, IInv
<1>2. PICK o \in Objs : o = ap[a].o /\ ap[a].c \in Conns /\ obj[o].conn = ap[a].c /\ o # None
  BY <1>1, NoneAssumption DEF IInv, Held, AppsHold
<1>3. ASSUME obj' = obj, Done(a)
      PROVE  IInv'
  <2>1. ApOthers(a) /\ ap'[a].pc = "idle" /\ ap'[a].o = None
    BY <1>1, <1>3, ApDone
  <2>2. Types' /\ Ordered'
    BY <1>1, <1>3, <2>1, CallOrdered DEF Types, ApOthers
  <2>3. ASSUME NEW p \in Objs, obj[p].valid, ~obj'[p].paused, ~Arming(p)'
        PROVE "read" \in obj[p].armed
    <3>1. ~Arming(p)
      BY <1>1, <1>3, <2>1, <2>3 DEF Arming, ApOthers
    <3> QED BY <1>3, <2>3, <3>1 DEF IInv, StaysArmed
  <2> QED BY <1>1, <1>3, <2>1, <2>2, <2>3, CallIInv
<1>4. ASSUME obj[o].valid, NEW x \in BOOLEAN, x = (ap[a].pc = "pause"),
             obj' = [obj EXCEPT ![o].paused = x],
             IF x THEN Done(a) ELSE ap' = [ap EXCEPT ![a].pc = "post"]
      PROVE  IInv'
  <2>1. /\ ObjOthers(o) /\ obj'[o].paused = x
        /\ obj'[o].valid = obj[o].valid /\ obj'[o].conn = obj[o].conn /\ obj'[o].io = obj[o].io
        /\ obj'[o].buf = obj[o].buf /\ obj'[o].armed = obj[o].armed /\ obj'[o].at = obj[o].at
    BY Zenon, <1>1, <1>4, ObjPaused
  <2>2. \A p \in Objs : /\ obj'[p].valid = obj[p].valid /\ obj'[p].conn = obj[p].conn
                        /\ obj'[p].io = obj[p].io /\ obj'[p].at = obj[p].at /\ obj'[p].buf = obj[p].buf
                        /\ obj'[p].armed = obj[p].armed /\ (p # o => obj'[p] = obj[p])
    BY <2>1 DEF ObjOthers
  <2>3. /\ ApOthers(a)
        /\ \/ x /\ ap'[a].pc = "idle" /\ ap'[a].o = None
           \/ ~x /\ ap'[a].pc = "post" /\ ap'[a].o = o /\ ap'[a].c = ap[a].c
    <3>1. CASE x
      BY <1>1, <1>4, <3>1, ApDone
    <3>2. CASE ~x
      <4>1. ap[a] \in ApType
        BY <1>1 DEF Types
      <4>2. [ap[a] EXCEPT !.pc = "post"] \in ApType
        BY <4>1 DEF ApType
      <4>3. ap'[a] = [ap[a] EXCEPT !.pc = "post"] /\ ap' \in [Apps -> ApType]
        BY Zenon, <1>1, <1>4, <3>2, <4>2 DEF Types
      <4>4. \A b \in Apps : b # a => ap'[b] = ap[b]
        BY <1>1, <1>4, <3>2 DEF Types
      <4> QED BY <1>2, <3>2, <4>1, <4>3, <4>4 DEF ApType, ApOthers
    <3> QED BY <3>1, <3>2
  <2>4. Types' /\ Ordered'
    <3>1. Types'
      BY <1>1, <2>1, <2>3 DEF Types, ApOthers, ObjOthers
    <3> QED BY <1>1, <2>2, <3>1, CallOrdered
  <2>5. obj[o].at # "new" /\ \A w \in Workers : wk[w].pc = "publish" => wk[w].o # o
    BY <1>2, <1>4 DEF IInv, Held, NewIsFresh, FreshObj, Life, Publishing, WAt
  <2>6. ASSUME NEW p \in Objs, obj[p].valid, ~obj'[p].paused, ~Arming(p)'
        PROVE "read" \in obj[p].armed
    <3>1. p # o
      BY <1>2, <2>1, <2>3, <2>6 DEF Arming
    <3>2. obj'[p] = obj[p]
      BY <2>2, <3>1
    <3>3. ~Arming(p)
      BY <1>1, <1>2, <2>3, <2>6, <3>1, <3>2 DEF Arming, ApOthers
    <3> QED BY <2>6, <3>2, <3>3 DEF IInv, StaysArmed
  <2> QED BY SMTT(30), <1>1, <1>2, <1>4, <2>2, <2>3, <2>4, <2>5, <2>6, CallIInv
<1> QED BY Zenon, <1>2, <1>3, <1>4 DEF PauseReceive

(* A packet is accepted: it goes behind what is out and what is buffered.  *)
LEMMA SendIInv ==
  ASSUME IInv, NEW a \in Apps, Send(a)
  PROVE  IInv'
<1>1. /\ UNCHANGED <<net, lsn, active, wk, stop, fired>> /\ Types
      /\ ap[a].pc = "send" /\ Done(a)
  BY DEF Send, IInv
<1>2. PICK o \in Objs : o = ap[a].o /\ o # None
  BY <1>1, NoneAssumption DEF IInv, Held, AppsHold
<1>3. ApOthers(a) /\ ap'[a].pc = "idle" /\ ap'[a].o = None
  BY <1>1, ApDone
<1>4. CASE ~obj[o].valid
  <2>1. UNCHANGED <<queued, obj, cmds>>
    BY <1>2, <1>4 DEF Send
  <2>2. Types' /\ Ordered'
    BY <1>1, <1>3, <2>1, CallOrdered DEF Types, ApOthers
  <2>3. ASSUME NEW p \in Objs, obj[p].valid, ~obj'[p].paused, ~Arming(p)'
        PROVE "read" \in obj[p].armed
    <3>1. ~Arming(p)
      BY <1>1, <1>3, <2>1, <2>3 DEF Arming, ApOthers
    <3> QED BY <2>1, <2>3, <3>1 DEF IInv, StaysArmed
  <2> QED BY <1>1, <1>3, <2>1, <2>2, <2>3, CallIInv
<1>5. CASE obj[o].valid
  <2>1. PICK c \in Conns : c = obj[o].conn /\ net[c].st = "open"
    BY <1>5 DEF IInv, Life, Valid
  <2>2. PICK q \in Nat : q = queued[c] /\ q + 1 \in Nat
    BY <1>1 DEF Types
  <2>3. PICK s \in Seq(Nat) : s = obj[o].buf
    BY <1>1 DEF Types, ObjType
  <2>4. /\ queued' = [queued EXCEPT ![c] = q + 1]
        /\ obj' = [obj EXCEPT ![o].buf = Append(s, q + 1)]
        /\ cmds' = cmds \/ cmds' = Append(cmds, [type |-> "send", c |-> c])
    <3>1. /\ queued' = [queued EXCEPT ![c] = @ + 1]
          /\ obj' = [obj EXCEPT ![o].buf = Append(@, queued[c] + 1)]
          /\ cmds' = cmds \/ cmds' = Append(cmds, [type |-> "send", c |-> c])
      BY <1>2, <1>5, <2>1 DEF Send, Post
    <3> QED BY <1>1, <2>2, <2>3, <3>1 DEF Types
  <2>5. /\ queued' \in [Conns -> Nat] /\ queued'[c] = q + 1
        /\ \A d \in Conns : d # c => queued'[d] = queued[d]
    BY <1>1, <2>2, <2>4 DEF Types
  <2>6. Append(s, q + 1) \in Seq(Nat)
    BY <2>2, <2>3
  <2>7. /\ ObjOthers(o) /\ obj'[o].buf = Append(s, q + 1)
        /\ obj'[o].valid = obj[o].valid /\ obj'[o].conn = obj[o].conn /\ obj'[o].io = obj[o].io
        /\ obj'[o].paused = obj[o].paused /\ obj'[o].armed = obj[o].armed /\ obj'[o].at = obj[o].at
    BY Zenon, <1>1, <2>4, <2>6, ObjBuf
  <2>8. \A p \in Objs : /\ obj'[p].valid = obj[p].valid /\ obj'[p].conn = obj[p].conn
                        /\ obj'[p].io = obj[p].io /\ obj'[p].at = obj[p].at
                        /\ obj'[p].armed = obj[p].armed /\ obj'[p].paused = obj[p].paused
                        /\ p # o => obj'[p] = obj[p]
    BY <2>7 DEF ObjOthers
  <2>9. cmds' \in Seq(CmdType) /\ \A i \in 1 .. Len(cmds) : i \in 1 .. Len(cmds') /\ cmds'[i] = cmds[i]
    <3>1. [type |-> "send", c |-> c] \in CmdType
      BY DEF CmdType
    <3>2. CASE cmds' = Append(cmds, [type |-> "send", c |-> c])
      BY <1>1, <3>1, <3>2, Posted
    <3>3. CASE cmds' = cmds
      BY <1>1, <3>3 DEF Types
    <3> QED BY <2>4, <3>2, <3>3
  <2>10. Types'
    BY <1>1, <1>3, <2>5, <2>7, <2>9 DEF Types, ApOthers, ObjOthers
  <2>11. Ordered'
    <3>1. net' = net /\ wk' = wk
      BY <1>1
    <3>2. \A p \in Objs : InHand(p)' = InHand(p) /\ Out(p)' = Out(p)
      <4>1. \A p \in Objs : InHand(p)' = InHand(p)
        BY <3>1 DEF InHand, Holds
      <4> QED BY <2>8, <3>1, <4>1 DEF Out
    <3>3. PICK n \in Nat, m \in Nat : n = Len(s) /\ m = Out(o)
      <4>1. InHand(o) \in Nat
        BY DEF InHand
      <4>2. Len(net[c].wire) \in Nat
        BY <1>1 DEF Types, NetType
      <4>3. PICK k \in Nat, h \in Nat : k = Len(net[c].wire) /\ h = InHand(o)
        BY <4>1, <4>2
      <4>4. Out(o) = k + h
        BY <2>1, <4>3 DEF Out
      <4> QED BY <2>3, <4>4
    <3>4. q = m + n /\ \A i \in 1 .. n : s[i] = m + i
      BY Zenon, <1>5, <2>1, <2>2, <2>3, <3>3 DEF IInv, Ordered, Buffered, BufferedAt
    <3>5. /\ Len(Append(s, q + 1)) = n + 1
          /\ \A i \in 1 .. n : Append(s, q + 1)[i] = s[i]
          /\ Append(s, q + 1)[n + 1] = q + 1
      BY <2>2, <2>3, <3>3
    <3>6. \A i \in 1 .. n + 1 : Append(s, q + 1)[i] = m + i
      BY <3>3, <3>4, <3>5
    <3>7. BufferedAt(o)'
      <4>1. obj'[o].at # "new"
        BY <1>5, <2>8 DEF IInv, Life, Valid
      <4>2. queued'[obj'[o].conn] = m + (n + 1)
        BY <2>1, <2>5, <2>7, <3>3, <3>4
      <4>3. Out(o)' = m
        BY <3>2, <3>3
      <4>4. Len(obj'[o].buf) = n + 1 /\ \A i \in 1 .. n + 1 : obj'[o].buf[i] = m + i
        BY <2>7, <3>5, <3>6
      <4> QED BY <4>1, <4>2, <4>3, <4>4 DEF BufferedAt
    <3>8. ASSUME NEW p \in Objs, p # o PROVE BufferedAt(p)'
      <4>1. obj'[p] = obj[p] /\ Out(p)' = Out(p)
        BY <2>8, <3>2, <3>8
      <4>2. obj[p].valid => queued'[obj[p].conn] = queued[obj[p].conn]
        <5>1. obj[p].valid => obj[p].conn \in Conns /\ obj[p].conn # c
          BY <2>1, <3>8, NoneAssumption DEF IInv, Life, Valid, Held, ConnsApart
        <5> QED BY <2>5, <5>1
      <4> QED BY <4>1, <4>2 DEF IInv, Ordered, Buffered, BufferedAt
    <3>9. OnWire'
      <4>1. \A d \in Conns : Len(net[d].wire) <= queued[d] /\ Len(net[d].wire) \in Nat /\ queued[d] \in Nat
        BY <1>1 DEF Types, NetType, IInv, Ordered, OnWire
      <4>2. \A d \in Conns : Len(net[d].wire) <= queued'[d]
        BY SMTT(30), <2>2, <2>5, <4>1
      <4> QED BY <3>1, <4>2 DEF IInv, Ordered, OnWire
    <3>10. ItemNext'
      <4>1. \A w \in Workers : wk[w].pc \in {"send_item", "push_front"} => obj'[wk[w].o].conn = obj[wk[w].o].conn
        BY <2>8, AtWork DEF Working
      <4> QED BY Zenon, <3>1, <4>1 DEF IInv, Ordered, ItemNext
    <3> QED BY <3>7, <3>8, <3>9, <3>10 DEF Ordered, Buffered
  <2>12. ASSUME NEW p \in Objs, obj[p].valid, ~obj'[p].paused, ~Arming(p)'
         PROVE "read" \in obj[p].armed
    <3>1. obj'[p].conn = obj[p].conn /\ ~obj[p].paused
      BY <2>8, <2>12
    <3>2. ~Arming(p)
      BY <1>1, <1>3, <2>9, <2>12, <3>1 DEF Arming, ApOthers
    <3> QED BY <2>12, <3>1, <3>2 DEF IInv, StaysArmed
  <2>13. /\ \A p \in Objs : obj[p].valid \/ obj'[p] = obj[p]
         /\ \A d \in Conns : queued'[d] = queued[d] \/ net[d].st = "open"
    BY <1>5, <2>1, <2>5, <2>8
  <2> QED BY <1>1, <1>3, <2>8, <2>10, <2>11, <2>12, <2>13, CallIInv
<1> QED BY <1>4, <1>5

-----------------------------------------------------------------------------
(* The peers.                                                              *)
LEMMA PeerIInv ==
  ASSUME IInv, NEW c \in Conns, NEW r \in NetType, net' = [net EXCEPT ![c] = r],
         r.wire = net[c].wire, r.st = net[c].st \/ (net[c].st = "new" /\ r.st = "backlog"),
         r.in <= r.sent, r.sent <= MaxIn, r.room <= Room,
         lsn' \in [open : BOOLEAN, event : BOOLEAN],
         UNCHANGED <<active, obj, cmds, wk, ap, ops, stop, fired, queued>>
  PROVE  IInv'
<1>1. Types
  BY DEF IInv
<1>2. net' \in [Conns -> NetType] /\ net'[c] = r /\ \A d \in Conns : d # c => net'[d] = net[d]
  BY <1>1 DEF Types
<1>3. Types'
  BY <1>1, <1>2 DEF Types
<1>4. InBounds'
  BY <1>2 DEF IInv, InBounds
<1>5. \A d \in Conns : /\ net'[d].wire = net[d].wire
                       /\ net'[d].st = net[d].st \/ (net[d].st = "new" /\ net'[d].st = "backlog")
  BY <1>2
<1> QED BY <1>3, <1>4, <1>5, QuietIInv

LEMMA PeersIInv ==
  ASSUME IInv, NEW c \in Conns, Peer(c)
  PROVE  IInv'
<1>1. /\ Types /\ net[c] \in NetType /\ net[c].in \in Nat /\ net[c].sent \in Nat /\ net[c].room \in Nat
      /\ net[c].in <= net[c].sent /\ net[c].sent <= MaxIn /\ net[c].room <= Room
      /\ lsn \in [open : BOOLEAN, event : BOOLEAN]
  BY Zenon DEF IInv, Types, NetType, InBounds
<1>2. CASE Connect(c)
  <2>1. "backlog" \in NetStates
    BY DEF NetStates
  <2>2. PICK r \in NetType : r = [net[c] EXCEPT !.st = "backlog"]
    BY Zenon, <1>1, <2>1 DEF NetType
  <2>3. /\ r.wire = net[c].wire /\ r.st = "backlog" /\ r.in = net[c].in /\ r.sent = net[c].sent
        /\ r.room = net[c].room
    BY <1>1, <2>2 DEF NetType
  <2>4. /\ net' = [net EXCEPT ![c] = r] /\ net[c].st = "new"
        /\ lsn' \in [open : BOOLEAN, event : BOOLEAN]
        /\ UNCHANGED <<active, obj, cmds, wk, ap, ops, stop, fired, queued>>
    BY Zenon, <1>1, <1>2, <2>2 DEF Connect, Types
  <2> QED BY Zenon, <1>1, <2>3, <2>4, PeerIInv
<1>3. CASE PeerSend(c)
  <2>1. PICK i \in Nat, s \in Nat : i = net[c].in + 1 /\ s = net[c].sent + 1 /\ i <= s /\ s <= MaxIn
    <3>1. net[c].sent < MaxIn
      BY <1>3 DEF PeerSend
    <3>2. PICK i0 \in Nat, s0 \in Nat : i0 = net[c].in /\ s0 = net[c].sent
      BY <1>1
    <3>3. i0 <= s0 /\ s0 < MaxIn
      BY <1>1, <3>1, <3>2
    <3>4. i0 + 1 \in Nat /\ s0 + 1 \in Nat /\ i0 + 1 <= s0 + 1 /\ s0 + 1 <= MaxIn
      BY <3>3, BoundAssumption
    <3> QED BY <3>2, <3>4
  <2>2. PICK r \in NetType : r = [net[c] EXCEPT !.in = i, !.sent = s]
    BY Zenon, <1>1 DEF NetType
  <2>3. /\ r.wire = net[c].wire /\ r.st = net[c].st /\ r.in = i /\ r.sent = s /\ r.room = net[c].room
    BY <1>1, <2>2 DEF NetType
  <2>4. /\ net' = [net EXCEPT ![c] = r] /\ lsn' = lsn
        /\ UNCHANGED <<active, obj, cmds, wk, ap, ops, stop, fired, queued>>
    BY Zenon, <1>1, <1>3, <2>1, <2>2 DEF PeerSend, Types
  <2> QED BY Zenon, <1>1, <2>1, <2>3, <2>4, PeerIInv
<1>4. CASE PeerClose(c)
  <2>1. PICK r \in NetType : r = [net[c] EXCEPT !.eof = TRUE]
    BY Zenon, <1>1 DEF NetType
  <2>2. /\ r.wire = net[c].wire /\ r.st = net[c].st /\ r.in = net[c].in /\ r.sent = net[c].sent
        /\ r.room = net[c].room
    BY <1>1, <2>1 DEF NetType
  <2>3. /\ net' = [net EXCEPT ![c] = r] /\ lsn' = lsn
        /\ UNCHANGED <<active, obj, cmds, wk, ap, ops, stop, fired, queued>>
    BY <1>1, <1>4, <2>1 DEF PeerClose, Types
  <2> QED BY Zenon, <1>1, <2>2, <2>3, PeerIInv
<1>5. CASE PeerRead(c)
  <2>1. PICK k \in Nat : k = net[c].room + 1 /\ k <= Room
    BY <1>1, <1>5, BoundAssumption DEF PeerRead
  <2>2. PICK r \in NetType : r = [net[c] EXCEPT !.room = k]
    BY Zenon, <1>1 DEF NetType
  <2>3. /\ r.wire = net[c].wire /\ r.st = net[c].st /\ r.in = net[c].in /\ r.sent = net[c].sent
        /\ r.room = k
    BY <1>1, <2>2 DEF NetType
  <2>4. /\ net' = [net EXCEPT ![c] = r] /\ lsn' = lsn
        /\ UNCHANGED <<active, obj, cmds, wk, ap, ops, stop, fired, queued>>
    BY <1>1, <1>5, <2>1, <2>2 DEF PeerRead, Types
  <2> QED BY Zenon, <1>1, <2>1, <2>3, <2>4, PeerIInv
<1> QED BY <1>2, <1>3, <1>4, <1>5 DEF Peer

(* Stop().  When it ends the workers nobody needs a command any more.      *)
LEMMA StopIInv ==
  ASSUME IInv, StopOrder, CloseListen \/ StopSteps
  PROVE  IInv'
<1>1. /\ Types /\ UNCHANGED <<net, active, obj, wk, ap, ops, fired, queued>>
      /\ stop \in StopType /\ lsn \in [open : BOOLEAN, event : BOOLEAN] /\ cmds \in Seq(CmdType)
  BY DEF IInv, Types, CloseListen, StopSteps, Snapshot, DisconnectOne, WaitClosed, WaitWorkers
<1>2. InBounds'
  BY <1>1 DEF IInv, InBounds
<1>3. stop' \in StopType /\ lsn' \in [open : BOOLEAN, event : BOOLEAN]
  <2>1. CASE CloseListen
    BY <1>1, <2>1 DEF CloseListen, StopType
  <2>2. CASE Snapshot
    BY <1>1, <2>2 DEF Snapshot, StopType
  <2>3. CASE DisconnectOne
    <3>1. CASE stop.ids = {}
      BY <1>1, <2>3, <3>1 DEF DisconnectOne, StopType
    <3>2. CASE stop.ids # {}
      <4>1. PICK c \in stop.ids : stop' = [stop EXCEPT !.ids = @ \ {c}]
        BY Zenon, <2>3, <3>2 DEF DisconnectOne
      <4> QED BY <1>1, <2>3, <4>1 DEF DisconnectOne, StopType
    <3> QED BY <3>1, <3>2
  <2>4. CASE WaitClosed \/ WaitWorkers
    BY <1>1, <2>4 DEF WaitClosed, WaitWorkers, StopType
  <2> QED BY <2>1, <2>2, <2>3, <2>4 DEF StopSteps
<1>4. /\ cmds' \in Seq(CmdType)
      /\ \A i \in 1 .. Len(cmds) : cmds[i].type = "unpause" =>
           \/ \E j \in 1 .. Len(cmds') : cmds'[j] = cmds[i]
           \/ \A o \in Objs : obj[o].valid /\ obj[o].conn = cmds[i].c => \E w \in Workers : wk[w].o = o
  <2>1. CASE cmds' = cmds
    BY <1>1, <2>1
  <2>2. CASE DisconnectOne /\ cmds' # cmds
    <3>1. PICK c \in stop.ids : cmds' = Append(cmds, [type |-> "disconnect", c |-> c])
      BY Zenon, <2>2 DEF DisconnectOne
    <3>2. [type |-> "disconnect", c |-> c] \in CmdType
      BY <1>1, <3>1 DEF CmdType, StopType
    <3>3. /\ cmds' \in Seq(CmdType)
          /\ \A i \in 1 .. Len(cmds) : i \in 1 .. Len(cmds') /\ cmds'[i] = cmds[i]
      BY <1>1, <3>1, <3>2, Posted
    <3> QED BY <3>3
  <2>3. CASE WaitWorkers
    <3>1. \A o \in Objs : ~obj[o].valid
      <4>1. \A c \in Conns : active[c] = None
        BY <2>3 DEF StopOrder, WaitWorkers
      <4>2. \A w \in Workers : ~WAt(w, "publish")
        BY <2>3 DEF StopOrder, WaitWorkers
      <4> QED BY <4>1, <4>2, NoneAssumption DEF IInv, Life, Valid
    <3>2. cmds' = <<>>
      BY <2>3 DEF WaitWorkers
    <3> QED BY <3>1, <3>2
  <2> QED BY <2>1, <2>2, <2>3 DEF CloseListen, StopSteps, Snapshot, WaitClosed
<1>5. Types'
  BY <1>1, <1>3, <1>4 DEF Types
<1>6. \A c \in Conns : net'[c].wire = net[c].wire /\ net'[c].st = net[c].st
  BY <1>1
<1> QED BY <1>1, <1>2, <1>4, <1>5, <1>6, QuietIInv

-----------------------------------------------------------------------------
(* The steps together.                                                     *)
LEMMA InitIInv == Init => IInv /\ StopOrder
<1> SUFFICES ASSUME Init PROVE IInv /\ StopOrder
  OBVIOUS
<1> USE DEF Init, WAt
<1>1. Types
  <2>1. \A c \in Conns : net[c] \in NetType
    <3>1. <<>> \in Seq(Nat) /\ Room \in Nat
      BY BoundAssumption
    <3> QED BY <3>1 DEF NetType, NetStates
  <2>2. \A o \in Objs : obj[o] \in ObjType
    <3>1. <<>> \in Seq(Nat)
      OBVIOUS
    <3> QED BY <3>1 DEF ObjType, FreshObj
  <2>3. IdleWk \in WkType /\ IdleAp \in ApType
    BY DEF WkType, IdleWk, WPc, ApType, IdleAp
  <2>4. cmds \in Seq(CmdType) /\ \A c \in Conns : fired[c] \in Seq(Events)
    OBVIOUS
  <2>5. net \in [Conns -> NetType] /\ obj \in [Objs -> ObjType]
    BY Zenon, <2>1, <2>2
  <2>6. wk \in [Workers -> WkType] /\ ap \in [Apps -> ApType]
    BY <2>3
  <2>7. stop \in StopType /\ lsn \in [open : BOOLEAN, event : BOOLEAN]
    BY DEF StopType
  <2>8. active \in [Conns -> Objs \cup {None}] /\ queued \in [Conns -> Nat]
    OBVIOUS
  <2>9. fired \in [Conns -> Seq(Events)]
    BY <2>4
  <2> QED BY Zenon, <2>4, <2>5, <2>6, <2>7, <2>8, <2>9 DEF Types
<1>2. /\ \A w \in Workers : wk[w].pc = "idle" /\ wk[w].o = None /\ wk[w].n = 0 /\ wk[w].item = 0
      /\ \A w \in Workers : wk[w].pc \notin Accepting \cup Closing \cup Working \cup {"invalid"}
      /\ \A a \in Apps : ap[a].pc = "idle" /\ ap[a].o = None
      /\ \A o \in Objs : /\ obj[o] = FreshObj /\ ~obj[o].valid /\ obj[o].conn = None
                         /\ obj[o].buf = <<>> /\ obj[o].at = "new"
  BY DEF IdleWk, IdleAp, FreshObj, Accepting, Closing, Working
<1>3. \A c \in Conns : /\ net[c].st = "new" /\ net[c].in = 0 /\ net[c].sent = 0 /\ net[c].room = Room
                       /\ net[c].wire = <<>> /\ fired[c] = <<>> /\ queued[c] = 0 /\ active[c] = None
  OBVIOUS
<1>4. InBounds
  BY <1>3, BoundAssumption DEF InBounds
<1>5. Held
  <2>1. \A o \in Objs : o # None
    BY NoneAssumption
  <2> QED BY <1>2, <2>1 DEF Held, WorkersHold, AppsHold, ConnsApart, NewIsFresh, Settled, InAccept
<1>6. Life
  BY <1>2, <1>3 DEF Life, Publishing, Valid, Unarmed, Parked, Published, ClosingOne, UnderIo
<1>7. Told
  BY <1>2, <1>3 DEF Told, NotBegun, CloseOnce, CloseToCome, OneAccepts, ToldOrUnaccepted, Has,
     InAccept
<1>8. Ordered
  BY <1>2, <1>3 DEF Ordered, OnWire, Buffered, BufferedAt, ItemNext
<1>9. StaysArmed
  BY <1>2 DEF StaysArmed
<1>10. StopOrder
  BY DEF StopOrder
<1> QED BY <1>1, <1>4, <1>5, <1>6, <1>7, <1>8, <1>9, <1>10 DEF IInv

LEMMA WorkIInv ==
  ASSUME IInv, NEW w \in Workers, Work(w)
  PROVE  IInv'
BY TakeListenIInv, AcceptIInv, PublishIInv, OnAcceptIInv, OnHandShakeIInv, ArmIInv, TakeEventIInv,
   TakeCmdIInv, LockIoIInv, ReadIInv, PopItemIInv, SendItemIInv, PushFrontIInv, HungUpIInv,
   AfterIInv, InvalidIInv, OnCloseIInv, CloseSocketIInv, RemoveIInv, ReleaseIInv DEF Work

(* Only accept() makes a worker publish.                                   *)
LEMMA WorkPublishes ==
  ASSUME IInv, NEW w \in Workers, Work(w)
  PROVE  /\ \A v \in Workers : v # w => wk'[v] = wk[v]
         /\ wk'[w].pc = "publish" => lsn.open \/ wk[w].pc = "publish"
<1>1. Types /\ wk[w] \in WkType
  BY DEF IInv, Types
<1> USE DEF WAt, WGoto, CloseObj, IdleWk
<1>2. CASE TakeListen(w)
  BY <1>1, <1>2 DEF TakeListen, Types, WkType
<1>3. CASE Accept(w)
  <2>1. CASE lsn.open
    BY Zenon, <1>1, <1>3, <2>1 DEF Accept, Types, WkType
  <2>2. CASE ~lsn.open
    BY <1>1, <1>3, <2>2 DEF Accept, Types, WkType
  <2> QED BY <2>1, <2>2
<1>4. CASE Publish(w)
  BY <1>1, <1>4 DEF Publish, Types, WkType
<1>5. CASE OnAccept(w)
  BY <1>1, <1>5 DEF OnAccept, Types, WkType
<1>6. CASE OnHandShake(w)
  BY <1>1, <1>6 DEF OnHandShake, Types, WkType
<1>7. CASE Arm(w)
  BY <1>1, <1>7 DEF Arm, Types, WkType
<1>8. CASE TakeEvent(w)
  BY <1>1, <1>8 DEF TakeEvent, Types, WkType
<1>9. CASE TakeCmd(w)
  BY <1>1, <1>9 DEF TakeCmd, Types, WkType
<1>10. CASE LockIo(w)
  BY <1>1, <1>10 DEF LockIo, Types, WkType
<1>11. CASE Read(w)
  BY SMTT(30), <1>1, <1>11 DEF Read, Types, WkType
<1>12. CASE PopItem(w)
  BY <1>1, <1>12 DEF PopItem, Types, WkType
<1>13. CASE SendItem(w)
  BY SMTT(30), <1>1, <1>13 DEF SendItem, Types, WkType
<1>14. CASE PushFront(w)
  BY <1>1, <1>14 DEF PushFront, Types, WkType
<1>15. CASE HungUp(w)
  BY <1>1, <1>15 DEF HungUp, Types, WkType
<1>16. CASE After(w)
  BY <1>1, <1>16 DEF After, Types, WkType
<1>17. CASE Invalid(w)
  BY <1>1, <1>17 DEF Invalid, Types, WkType
<1>18. CASE OnClose(w)
  BY <1>1, <1>18 DEF OnClose, Types, WkType
<1>19. CASE CloseSocket(w)
  BY <1>1, <1>19 DEF CloseSocket, Types, WkType
<1>20. CASE Remove(w)
  BY <1>1, <1>20 DEF Remove, Types, WkType
<1>21. CASE Release(w)
  <2>1. wk'[w].pc = wk[w].back /\ \A v \in Workers : v # w => wk'[v] = wk[v]
    BY Zenon, <1>1, <1>21 DEF Release, Types, WkType
  <2> QED BY <1>1, <2>1 DEF WkType
<1> QED BY <1>2, <1>3, <1>4, <1>5, <1>6, <1>7, <1>8, <1>9, <1>10, <1>11, <1>12, <1>13, <1>14,
           <1>15, <1>16, <1>17, <1>18, <1>19, <1>20, <1>21 DEF Work

(* After the pause of Stop() no worker comes to publish a connection.      *)
LEMMA WorkStopOrder ==
  ASSUME IInv, StopOrder, NEW w \in Workers, Work(w)
  PROVE  StopOrder'
<1>1. Types
  BY DEF IInv
<1>2. stop' = stop
  BY Zenon DEF Work, TakeListen, Accept, Publish, OnAccept, OnHandShake, Arm, TakeEvent, TakeCmd,
     LockIo, Read,
     PopItem, SendItem, PushFront, HungUp, After, Invalid, OnClose, CloseSocket, Remove, Release
<1>3. lsn'.open = lsn.open
  <2>1. CASE TakeListen(w)
    BY <1>1, <2>1 DEF TakeListen, Types
  <2>2. CASE ~TakeListen(w)
    BY Zenon, <2>2 DEF Work, Accept, Publish, OnAccept, OnHandShake, Arm, TakeEvent, TakeCmd,
       LockIo, Read,
       PopItem, SendItem, PushFront, HungUp, After, Invalid, OnClose, CloseSocket, Remove, Release
  <2> QED BY <2>1, <2>2
<1>4. stop.pc \notin {"running", "snapshot"} => \A c \in Conns : active'[c] \in {active[c], None}
  <2>1. CASE Publish(w)
    BY <2>1 DEF Publish, StopOrder
  <2>2. CASE Remove(w)
    BY <1>1, <2>2 DEF Remove, Types
  <2>3. CASE ~Publish(w) /\ ~Remove(w)
    <3>1. active' = active
      BY Zenon, <2>3 DEF Work, TakeListen, Accept, OnAccept, OnHandShake, Arm, TakeEvent, TakeCmd,
         LockIo, Read,
         PopItem, SendItem, PushFront, HungUp, After, Invalid, OnClose, CloseSocket, Release
    <3> QED BY <3>1
  <2> QED BY <2>1, <2>2, <2>3
<1>5. stop.pc \notin {"running", "snapshot"} => \A v \in Workers : wk'[v].pc # "publish"
  BY WorkPublishes DEF StopOrder, WAt
<1> QED BY <1>2, <1>3, <1>4, <1>5 DEF StopOrder, WAt

LEMMA OtherStopOrder ==
  ASSUME IInv, StopOrder, UNCHANGED <<active, wk>>,
         \/ UNCHANGED <<lsn, stop>>
         \/ UNCHANGED stop /\ lsn' = [lsn EXCEPT !.event = TRUE]
         \/ CloseListen \/ StopSteps
  PROVE  StopOrder'
<1>1. stop \in StopType /\ lsn \in [open : BOOLEAN, event : BOOLEAN]
  BY DEF IInv, Types
<1>2. CASE UNCHANGED <<lsn, stop>> \/ (UNCHANGED stop /\ lsn' = [lsn EXCEPT !.event = TRUE])
  BY <1>1, <1>2 DEF StopOrder, WAt
<1>3. CASE CloseListen
  BY <1>1, <1>3 DEF CloseListen, StopOrder, StopType
<1>4. CASE Snapshot
  BY <1>1, <1>4 DEF Snapshot, StopOrder, StopType, WAt
<1>5. CASE DisconnectOne
  <2>1. UNCHANGED <<lsn, active, wk>> /\ stop'.pc \in {"disconnect", "wait"} /\ stop.pc = "disconnect"
    BY Zenon, <1>1, <1>5 DEF DisconnectOne, StopType
  <2> QED BY <2>1 DEF StopOrder, WAt
<1>6. CASE WaitClosed
  BY <1>1, <1>6 DEF WaitClosed, StopOrder, StopType, WAt
<1>7. CASE WaitWorkers
  BY <1>1, <1>7 DEF WaitWorkers, StopOrder, StopType, WAt
<1> QED BY <1>2, <1>3, <1>4, <1>5, <1>6, <1>7 DEF StopSteps

LEMMA NextIInv ==
  ASSUME IInv, StopOrder, [Next]_vars
  PROVE  IInv' /\ StopOrder'
<1>1. ASSUME NEW w \in Workers, Work(w) PROVE IInv' /\ StopOrder'
  BY <1>1, WorkIInv, WorkStopOrder
<1>2. ASSUME NEW a \in Apps, Call(a) \/ \E op \in AppOps : Find(a, op) PROVE IInv' /\ StopOrder'
  <2>1. IInv'
    BY <1>2, SendIInv, DisconnectIInv, PauseReceiveIInv, PostUnpauseIInv, FindIInv DEF Call
  <2>2. UNCHANGED <<active, wk, lsn, stop>>
    BY Zenon, <1>2 DEF Call, Send, Disconnect, PauseReceive, PostUnpause, Find
  <2> QED BY <2>1, <2>2, OtherStopOrder
<1>3. ASSUME NEW c \in Conns, Peer(c) PROVE IInv' /\ StopOrder'
  <2>1. IInv'
    BY <1>3, PeersIInv
  <2>2. UNCHANGED <<active, wk, stop>> /\ (lsn' = lsn \/ lsn' = [lsn EXCEPT !.event = TRUE])
    BY <1>3 DEF Peer, Connect, PeerSend, PeerClose, PeerRead
  <2> QED BY <2>1, <2>2, OtherStopOrder
<1>4. CASE CloseListen \/ StopSteps
  <2>1. UNCHANGED <<active, wk>>
    BY <1>4 DEF CloseListen, StopSteps, Snapshot, DisconnectOne, WaitClosed, WaitWorkers
  <2> QED BY <1>4, <2>1, StopIInv, OtherStopOrder
<1>5. CASE UNCHANGED vars
  <2>1. UNCHANGED <<active, obj, wk, ap, fired, queued, net, cmds, stop, lsn>>
    BY <1>5 DEF vars
  <2>2. Types' /\ InBounds'
    BY <2>1 DEF IInv, Types, InBounds
  <2>3. /\ \A c \in Conns : net'[c].wire = net[c].wire /\ net'[c].st = net[c].st
        /\ \A i \in 1 .. Len(cmds) : \E j \in 1 .. Len(cmds') : cmds'[j] = cmds[i]
    BY <2>1
  <2>4. IInv'
    BY <2>1, <2>2, <2>3, QuietIInv
  <2> QED BY <2>1, <2>4, OtherStopOrder
<1> QED BY <1>1, <1>2, <1>3, <1>4, <1>5 DEF Next

-----------------------------------------------------------------------------
(* The invariant holds throughout, for every number of workers, threads,   *)
(* connections and objects and every bound.                                *)
THEOREM ServerInvariance == Spec => [](IInv /\ StopOrder)
<1>1. Init => IInv /\ StopOrder
  BY InitIInv
<1>2. IInv /\ StopOrder /\ [Next]_vars => (IInv /\ StopOrder)'
  BY NextIInv
<1> QED BY <1>1, <1>2, PTL DEF Spec

(* A published connection has an object of its own: no pool holds it, and  *)
(* while it is valid its socket is open, whichever threads close it.       *)
LEMMA OwnObjectHolds == IInv => OwnObject
<1> SUFFICES ASSUME IInv, NEW c \in Conns, active[c] # None
             PROVE  /\ obj[active[c]].conn = c /\ obj[active[c]].at = "used"
                    /\ obj[active[c]].valid => net[c].st = "open"
  BY DEF OwnObject
<1>1. active[c] \in Objs /\ obj[active[c]].conn = c /\ obj[active[c]].at = "used"
  BY DEF IInv, Types, Life, Published
<1>2. obj[active[c]].valid => net[c].st = "open"
  BY <1>1 DEF IInv, Life, Valid
<1> QED BY <1>1, <1>2

(* Every reachable state: each published connection has an object of its   *)
(* own, whatever AddFreeSocketObj and GetFreeSocketObj do meanwhile.       *)
THEOREM ServerOwnsObjects == Spec => []OwnObject
BY ServerInvariance, OwnObjectHolds, PTL

(* OnClose comes at most once and after every OnReceive.                   *)
LEMMA CountIs ==
  ASSUME NEW s \in Seq(Events), NEW e,
         \A i, j \in 1 .. Len(s) : s[i] = e /\ s[j] = e => i = j
  PROVE  LET S == {i \in DOMAIN s : s[i] = e} IN
         /\ Cardinality(S) \in {0, 1}
         /\ Cardinality(S) = 1 <=> \E i \in 1 .. Len(s) : s[i] = e
<1> DEFINE S == {i \in DOMAIN s : s[i] = e}
<1>1. DOMAIN s = 1 .. Len(s)
  OBVIOUS
<1>2. CASE S = {}
  <2>1. Cardinality(S) = 0
    BY Zenon, <1>2, FS_EmptySet
  <2> QED BY <1>1, <1>2, <2>1
<1>3. CASE S # {}
  <2>1. PICK i \in 1 .. Len(s) : s[i] = e
    BY <1>1, <1>3
  <2>2. S = {i}
    BY <1>1, <2>1
  <2>3. Cardinality(S) = 1
    BY Zenon, <2>2, FS_Singleton
  <2> QED BY <2>1, <2>3
<1> QED BY <1>2, <1>3

LEMMA CloseIsLastHolds == IInv => CloseIsLast
<1> SUFFICES ASSUME IInv, NEW c \in Conns
             PROVE  /\ Count(c, "close") <= 1
                    /\ \A i, j \in DOMAIN fired[c] :
                         fired[c][i] = "close" /\ fired[c][j] = "receive" => j < i
  BY DEF CloseIsLast
<1>1. fired[c] \in Seq(Events) /\ DOMAIN fired[c] = 1 .. Len(fired[c])
  BY DEF IInv, Types
<1>2. \A i, j \in 1 .. Len(fired[c]) :
        fired[c][i] = "close" => /\ fired[c][j] = "close" => i = j
                                 /\ fired[c][j] = "receive" => j < i
  BY DEF IInv, Told, CloseOnce
<1>3. \A i, j \in 1 .. Len(fired[c]) : fired[c][i] = "close" /\ fired[c][j] = "close" => i = j
  BY <1>2
<1>4. Count(c, "close") \in {0, 1}
  BY Zenon, <1>1, <1>3, CountIs DEF Count
<1> QED BY <1>1, <1>2, <1>4

(* Every reachable state: of each connection OnClose was fired at most once*)
(* and nothing was received after it, whichever threads close it.          *)
THEOREM ServerCloseIsLast == Spec => []CloseIsLast
BY ServerInvariance, CloseIsLastHolds, PTL

(* A connection the listener accepted and that is gone has had its OnClose. *)
LEMMA GoneWasClosedHolds == IInv => GoneWasClosed
<1> SUFFICES ASSUME IInv, NEW c \in Conns, net[c].st = "closed", Count(c, "shake") = 1
             PROVE  Count(c, "close") = 1
  BY DEF GoneWasClosed
<1>1. fired[c] \in Seq(Events) /\ DOMAIN fired[c] = 1 .. Len(fired[c])
  BY DEF IInv, Types
<1>2. Has(c, "shake")
  <2>1. CASE {i \in DOMAIN fired[c] : fired[c][i] = "shake"} = {}
    BY <2>1, FS_EmptySet DEF Count
  <2>2. CASE {i \in DOMAIN fired[c] : fired[c][i] = "shake"} # {}
    BY <1>1, <2>2 DEF Has
  <2> QED BY <2>1, <2>2
<1>3. Has(c, "close")
  BY <1>2 DEF IInv, Told, ToldOrUnaccepted, Unaccepted
<1>4. \A i, j \in 1 .. Len(fired[c]) : fired[c][i] = "close" /\ fired[c][j] = "close" => i = j
  BY DEF IInv, Told, CloseOnce
<1>5. \E i \in 1 .. Len(fired[c]) : fired[c][i] = "close"
  BY <1>3 DEF Has
<1> QED BY Zenon, <1>1, <1>4, <1>5, CountIs DEF Count

(* Every reachable state: whoever got OnHandShake of a connection that is  *)
(* closed also got its OnClose.                                            *)
THEOREM ServerGoneWasClosed == Spec => []GoneWasClosed
BY ServerInvariance, GoneWasClosedHolds, PTL

(* Reading stays armed: nobody who lets go of a connection that is not     *)
(* paused leaves it without the event or a command that will arm it.       *)
LEMMA ReadIsArmedHolds == IInv => ReadIsArmed
<1> SUFFICES ASSUME IInv, NEW o \in Objs, obj[o].valid, ~obj[o].paused, ~Handled(o)
             PROVE  "read" \in obj[o].armed
  BY DEF ReadIsArmed
<1>1. cmds \in Seq(CmdType) /\ DOMAIN cmds = 1 .. Len(cmds)
  BY DEF IInv, Types
<1>2. active[obj[o].conn] = o
  BY DEF IInv, Life, Valid, Handled, WAt
<1>3. ~Arming(o)
  BY <1>1, <1>2 DEF Arming, Handled
<1> QED BY <1>3 DEF IInv, StaysArmed

(* Every reachable state: PauseReceive, OnAfterProcessIo and the commands  *)
(* never leave a valid, unpaused connection deaf.                          *)
THEOREM ServerReadIsArmed == Spec => []ReadIsArmed
BY ServerInvariance, ReadIsArmedHolds, PTL

(* What reaches the socket is what Send accepted, in that order.           *)
LEMMA SentInOrderHolds == IInv => SentInOrder
<1>1. IInv => \A c \in Conns : DOMAIN net[c].wire = 1 .. Len(net[c].wire)
  BY DEF IInv, Types, NetType
<1> QED BY <1>1 DEF IInv, Ordered, OnWire, SentInOrder

(* Every reachable state: HandleSend and DoSendPackets neither lose nor    *)
(* reorder nor repeat a packet, however many threads take part.            *)
THEOREM ServerSentInOrder == Spec => []SentInOrder
BY ServerInvariance, SentInOrderHolds, PTL

LEMMA TypeOKHolds == IInv => TypeOK
<1> SUFFICES ASSUME IInv PROVE TypeOK
  OBVIOUS
<1>1. \A c \in Conns : /\ net[c].st \in {"new", "backlog", "open", "closed"}
                       /\ net[c].in \in 0 .. MaxIn /\ net[c].room \in 0 .. Room
  <2>1. \A c \in Conns : net[c] \in NetType
    BY DEF IInv, Types
  <2>2. \A c \in Conns : /\ net[c].st \in NetStates /\ net[c].in \in Nat /\ net[c].sent \in Nat /\ net[c].room \in Nat
                         /\ net[c].in <= net[c].sent /\ net[c].sent <= MaxIn /\ net[c].room <= Room
    BY <2>1 DEF IInv, InBounds, NetType
  <2> QED BY <2>2, BoundAssumption DEF NetStates
<1>2. \A o \in Objs : /\ obj[o].conn \in Conns \cup {None} /\ obj[o].io \in Workers \cup {None}
                      /\ obj[o].armed \subseteq {"read", "write"}
                      /\ obj[o].at \in {"new", "used", "pool", "gc"}
  BY DEF IInv, Types, ObjType
<1>3. \A w \in Workers : wk[w].pc \in WPc /\ wk[w].o \in Objs \cup {None}
  BY DEF IInv, Types, WkType
<1>4. active \in [Conns -> Objs \cup {None}] /\ \A i \in DOMAIN cmds : cmds[i].c \in Conns
  <2>1. \A i \in DOMAIN cmds : cmds[i] \in CmdType
    BY DEF IInv, Types
  <2> QED BY <2>1 DEF IInv, Types, CmdType
<1> QED BY <1>1, <1>2, <1>3, <1>4 DEF TypeOK

(* The types of the connections, the objects and the threads' locals.      *)
THEOREM ServerTypeOK == Spec => []TypeOK
BY ServerInvariance, TypeOKHolds, PTL
=============================================================================
