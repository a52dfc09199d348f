----------------------------- MODULE PullServer -----------------------------
(***************************************************************************)
(* CTcpPullServerT and CTcpPullAgentT over CBufferPool: what a connection  *)
(* receives is kept in a TBuffer, a list of TItems of fixed capacity, and  *)
(* the application fetches from it by the id of the connection.  Buffers   *)
(* and items come from pools and go back there: buffers are used again for *)
(* other connections.                                                      *)
(*                                                                         *)
(* Of CTcpServer there is what the buffers depend on: slots of connections,*)
(* one worker at a time on a connection, OnClose before the slot is free.  *)
(* CRingPool of the free buffers is a set, its own module is RingPool.     *)
(***************************************************************************)
EXTENDS Integers, FiniteSets, Sequences, Functions

CONSTANTS
  Workers, Bufs, None,
  Size,       (* connections at a time, and slots of m_bfCache             *)
  MaxConns,   (* bound: connections in all                                 *)
  MaxIn,      (* bound: bytes received in all                              *)
  Capacity,   (* of a TItem                                                *)
  PoolSize,   (* of m_lsFreeBuffer                                         *)
  Remembers   (* the application fetches by the id of a connection that is *)
              (* closed                                                    *)

VARIABLES
  conns,      (* [id -> "none", "open", "busy", "gone"]                    *)
  reserved,   (* [id -> its buffer]                                        *)
  cache,      (* m_bfCache: [slot -> buffer or None]                       *)
  buf,        (* [Bufs -> [id, length, items]]                             *)
  free,       (* m_lsFreeBuffer                                            *)
  gc,         (* m_lsGCBuffer                                              *)
  wk,         (* [Workers -> [pc, c, b, n, len]]                           *)
  sent,       (* history: [id -> how many bytes it received]               *)
  got         (* history: [id -> what was fetched by it]                   *)

vars == <<conns, reserved, cache, buf, free, gc, wk, sent, got>>

ConnIds == 1 .. MaxConns
Slot(c) == c % Size
Byte(c, n) == [c |-> c, n |-> n]

Idle == [pc |-> "idle", c |-> 0, b |-> None, n |-> 0, len |-> 0]
At(w, p)   == wk[w].pc = p
Goto(w, p) == wk' = [wk EXCEPT ![w].pc = p]

Fresh == [id |-> 0, length |-> 0, items |-> <<>>]
\* Buffers that are constructed.
InHands == {wk[w].b : w \in Workers} \ {None}
Living == free \cup gc \cup InHands \cup ({cache[s] : s \in 0 .. Size - 1} \ {None})

-----------------------------------------------------------------------------
(* TItemList: an item knows its bytes and how much of it was ever used.    *)

\* TItem::Remain() of the last item; where it is 0 another item is begun.
Remain(items) == IF items = <<>> THEN 0 ELSE Capacity - items[Len(items)].used
CatItem(items, bytes) ==
  IF Remain(items) = 0
  THEN Append(items, [used |-> Len(bytes), data |-> bytes])
  ELSE [items EXCEPT ![Len(items)] =
          [used |-> @.used + Len(bytes), data |-> @.data \o bytes]]

\* One byte of the first item, which goes back to its pool when it is empty.
DropByte(items) ==
  IF Len(Head(items).data) = 1 THEN Tail(items)
                               ELSE [items EXCEPT ![1].data = Tail(@)]

-----------------------------------------------------------------------------
(* A connection comes.                                                     *)

Accept(w) ==
  /\ At(w, "idle")
  /\ \E c \in ConnIds :
       /\ conns[c] = "none" /\ \A d \in ConnIds : d < c => conns[d] # "none"
       /\ \A d \in ConnIds : Slot(d) = Slot(c) => conns[d] \in {"none", "gone"}
       /\ conns' = [conns EXCEPT ![c] = "busy"]
       /\ wk' = [wk EXCEPT ![w] = [Idle EXCEPT !.pc = "pick", !.c = c]]
  /\ UNCHANGED <<reserved, cache, buf, free, gc, sent, got>>

\* OnHandShake returns HR_ERROR: closed with SCF_NONE, no OnClose.
Refuse(w) ==
  /\ At(w, "pick")
  /\ conns' = [conns EXCEPT ![wk[w].c] = "gone"]
  /\ wk' = [wk EXCEPT ![w] = Idle]
  /\ UNCHANGED <<reserved, cache, buf, free, gc, sent, got>>

\* One whose lock time is over, or a new one.
PickFreeBuffer(w) ==
  /\ At(w, "pick")
  /\ \E b \in free \cup (Bufs \ Living) :
       /\ free' = free \ {b}
       /\ buf' = [buf EXCEPT ![b].id = wk[w].c]
       /\ wk' = [wk EXCEPT ![w].pc = "put_cache", ![w].b = b]
  /\ UNCHANGED <<conns, reserved, cache, gc, sent, got>>

\* PutCacheBuffer() and SetConnectionReserved().
PutCacheBuffer(w) ==
  /\ At(w, "put_cache")
  /\ cache' = [cache EXCEPT ![Slot(wk[w].c)] = wk[w].b]
  /\ reserved' = [reserved EXCEPT ![wk[w].c] = wk[w].b]
  /\ conns' = [conns EXCEPT ![wk[w].c] = "open"]
  /\ wk' = [wk EXCEPT ![w] = Idle]
  /\ UNCHANGED <<buf, free, gc, sent, got>>

-----------------------------------------------------------------------------
(* It receives, and the application fetches in its callback.               *)

\* DoFireReceive(): the bytes go into the buffer item by item.
Receive(w) ==
  /\ At(w, "idle")
  /\ \E c \in ConnIds, n \in 1 .. MaxIn :
       /\ conns[c] = "open" /\ SumFunction(sent) + n <= MaxIn
       /\ conns' = [conns EXCEPT ![c] = "busy"]
       /\ sent' = [sent EXCEPT ![c] = @ + n]
       /\ wk' = [wk EXCEPT ![w] = [Idle EXCEPT !.pc = "cat", !.c = c, !.n = n, !.len = n]]
  /\ UNCHANGED <<reserved, cache, buf, free, gc, got>>

\* A pass of TItemList::Cat(); after the last one IncreaseLength().
Cat(w) ==
  LET c     == wk[w].c
      b     == reserved[c]
      left  == wk[w].n
      room  == Remain(buf[b].items)
      fits  == IF room = 0 THEN Capacity ELSE room
      cat   == IF left < fits THEN left ELSE fits
      bytes == [i \in 1 .. cat |-> Byte(c, sent[c] - left + i)]
  IN  /\ At(w, "cat")
      /\ \/ /\ cat < left
            /\ buf' = [buf EXCEPT ![b].items = CatItem(@, bytes)]
            /\ wk' = [wk EXCEPT ![w].n = left - cat]
         \/ /\ cat = left
            /\ buf' = [buf EXCEPT ![b].items = CatItem(@, bytes), ![b].length = @ + wk[w].len]
            /\ wk' = [wk EXCEPT ![w].pc = "on_receive", ![w].n = 0, ![w].len = 0]
      /\ UNCHANGED <<conns, reserved, cache, free, gc, sent, got>>

\* FetchBuffer() of what an id leads to, a byte at a time, in OnReceive or OnClose;
\* the id of the connection, or one that the application remembers.
Fetch(w) ==
  /\ wk[w].pc \in {"on_receive", "on_close"}
  /\ \E c \in ConnIds :
       LET b == cache[Slot(c)]
       IN  /\ c = wk[w].c \/ (Remembers /\ conns[c] = "gone")
           /\ b # None /\ buf[b].length > 0
           /\ buf' = [buf EXCEPT ![b].length = @ - 1, ![b].items = DropByte(@)]
           /\ got' = [got EXCEPT ![c] = Append(@, Head(Head(buf[b].items).data))]
  /\ UNCHANGED <<conns, reserved, cache, free, gc, wk, sent>>

Received(w) ==
  /\ At(w, "on_receive")
  /\ conns' = [conns EXCEPT ![wk[w].c] = "open"]
  /\ wk' = [wk EXCEPT ![w] = Idle]
  /\ UNCHANGED <<reserved, cache, buf, free, gc, sent, got>>

-----------------------------------------------------------------------------
(* It is closed.                                                           *)

\* By an event, a command, or HR_ERROR of the listener.
Close(w) ==
  /\ \/ /\ At(w, "idle")
        /\ \E c \in ConnIds :
             /\ conns[c] = "open"
             /\ conns' = [conns EXCEPT ![c] = "busy"]
             /\ wk' = [wk EXCEPT ![w] = [Idle EXCEPT !.pc = "on_close", !.c = c]]
     \/ /\ At(w, "on_receive")
        /\ Goto(w, "on_close") /\ conns' = conns
  /\ UNCHANGED <<reserved, cache, buf, free, gc, sent, got>>

\* PutFreeBuffer(): RemoveEx() by the id of the buffer.
RemoveEx(w) ==
  LET b == reserved[wk[w].c]
  IN  /\ At(w, "on_close")
      /\ cache' = [cache EXCEPT ![Slot(buf[b].id)] = None]
      /\ wk' = [wk EXCEPT ![w].pc = "reset", ![w].b = b]
      /\ UNCHANGED <<conns, reserved, buf, free, gc, sent, got>>

ResetBuffer(w) ==
  /\ At(w, "reset")
  /\ buf' = [buf EXCEPT ![wk[w].b].id = 0, ![wk[w].b].length = 0]
  /\ Goto(w, "items")
  /\ UNCHANGED <<conns, reserved, cache, free, gc, sent, got>>

\* m_itPool.PutFreeItem(items).
PutFreeItem(w) ==
  /\ At(w, "items")
  /\ buf' = [buf EXCEPT ![wk[w].b].items = <<>>]
  /\ Goto(w, "put")
  /\ UNCHANGED <<conns, reserved, cache, free, gc, sent, got>>

\* ReleaseGCBuffer() destructs those whose lock time is over.
PutFreeBuffer(w) ==
  /\ At(w, "put")
  /\ \E old \in SUBSET gc :
       IF Cardinality(free) < PoolSize
       THEN free' = free \cup {wk[w].b} /\ gc' = gc \ old
       ELSE free' = free /\ gc' = (gc \ old) \cup {wk[w].b}
  /\ wk' = [wk EXCEPT ![w].pc = "remove", ![w].b = None]
  /\ UNCHANGED <<conns, reserved, cache, buf, sent, got>>

\* m_bfActiveSockets.Remove() of the server: the slot is free.
RemoveSocket(w) ==
  /\ At(w, "remove")
  /\ conns' = [conns EXCEPT ![wk[w].c] = "gone"]
  /\ reserved' = [reserved EXCEPT ![wk[w].c] = None]
  /\ wk' = [wk EXCEPT ![w] = Idle]
  /\ UNCHANGED <<cache, buf, free, gc, sent, got>>

-----------------------------------------------------------------------------
Init ==
  /\ conns = [c \in ConnIds |-> "none"]
  /\ reserved = [c \in ConnIds |-> None]
  /\ cache = [s \in 0 .. Size - 1 |-> None]
  /\ buf = [b \in Bufs |-> Fresh]
  /\ free = {} /\ gc = {}
  /\ wk = [w \in Workers |-> Idle]
  /\ sent = [c \in ConnIds |-> 0]
  /\ got = [c \in ConnIds |-> <<>>]

Next == \E w \in Workers :
  \/ Accept(w) \/ Refuse(w) \/ PickFreeBuffer(w) \/ PutCacheBuffer(w)
  \/ Receive(w) \/ Cat(w) \/ Fetch(w) \/ Received(w)
  \/ Close(w) \/ RemoveEx(w) \/ ResetBuffer(w) \/ PutFreeItem(w) \/ PutFreeBuffer(w)
  \/ RemoveSocket(w)

Spec == Init /\ [][Next]_vars

-----------------------------------------------------------------------------
(* What the pull components promise.                                       *)

\* Type invariant.
PullTypeOK ==
  /\ conns \in [ConnIds -> {"none", "open", "busy", "gone"}]
  /\ cache \in [0 .. Size - 1 -> Bufs \cup {None}]
  /\ free \subseteq Bufs /\ gc \subseteq Bufs
  /\ \A b \in Bufs : /\ buf[b].id \in 0 .. MaxConns /\ buf[b].length \in Nat
                     /\ \A i \in DOMAIN buf[b].items :
                          /\ buf[b].items[i].used \in 1 .. Capacity
                          /\ Len(buf[b].items[i].data) \in 1 .. buf[b].items[i].used
  /\ \A w \in Workers : /\ wk[w].c \in 0 .. MaxConns /\ wk[w].b \in Bufs \cup {None}
                        /\ wk[w].n \in 0 .. wk[w].len

\* By its id a connection fetches what it received, whole and in order, and
\* nothing that another one received: not the rest that an earlier connection
\* left in the buffer, nor what a later one puts into the slot.
FetchedInOrder ==
  \A c \in ConnIds : \A n \in DOMAIN got[c] : got[c][n] = Byte(c, n) /\ n <= sent[c]

\* The bytes of c after the first m up to the n-th, each once and in order, item
\* after item.
First(item)   == item.data[1].n
Final(item) == item.data[Len(item.data)].n
InItems(items, c, m, n) ==
  /\ IF items = <<>> THEN m = n
     ELSE First(items[1]) = m + 1 /\ Final(items[Len(items)]) = n
  /\ \A i \in DOMAIN items : \A k \in DOMAIN items[i].data :
       items[i].data[k] = Byte(c, First(items[i]) + k - 1)
  /\ \A i \in 2 .. Len(items) : First(items[i]) = Final(items[i - 1]) + 1

\* While it is open the id leads to a buffer of its own, whose length says how
\* much of what was received is still to be fetched, and this is there.
BufferIsOwn ==
  \A c \in ConnIds : conns[c] = "open" =>
    LET b == cache[Slot(c)]
    IN  /\ b = reserved[c] /\ b # None /\ buf[b].id = c
        /\ b \notin free \cup gc \cup InHands
        /\ buf[b].length = sent[c] - Len(got[c])
        /\ InItems(buf[b].items, c, Len(got[c]), sent[c])

\* A buffer that waits to be used again is empty, and no id leads to it; Clear()
\* finds every buffer, once.
FreeIsEmpty ==
  /\ \A b \in free \cup gc : buf[b] = Fresh /\ \A s \in DOMAIN cache : cache[s] # b
  /\ free \cap gc = {}
  /\ \A b \in Bufs : buf[b].id # 0 => b \in Living \ (free \cup gc)
=============================================================================
