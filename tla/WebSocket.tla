----------------------------- MODULE WebSocket -----------------------------
(***************************************************************************)
(* One connection of the HTTP components (HttpHelper.h): THttpObjT gives   *)
(* what is read to http_parser, which is external, until a message         *)
(* upgrades the connection; then it goes as it is to the application, or   *)
(* TWSContext finds the frames of WebSocket in it.  What is read is cut    *)
(* anywhere.  The worker holds csIo, so nothing runs in between.           *)
(*                                                                         *)
(* The peer sends items: the HTTP messages "get" and "bad", the upgrades   *)
(* "tunnel" and "upgrade", which may have a body after their header, "raw" *)
(* bytes and frames.  A byte is [item, at].                                *)
(***************************************************************************)
EXTENDS Integers, Sequences
LOCAL Seqs == INSTANCE SequencesExt

CONSTANTS Streams,  (* bound: [request, items]; an item is [kind, head, size],
                       the size of its header and of all of it, or
                       [kind, mask, ext, body], see Shape                  *)
          None

VARIABLES
  request,  (* IsRequest(): what is read are requests                      *)
  items,    (* what the peer sends                                         *)
  net,      (* the bytes that were not read                                *)
  data,     (* the piece that is parsed, from pTemp on                     *)
  pc,       (* "idle", "http", "upgrade", "raw", "ws" or "close"           *)
  upgrade,  (* m_enUpgrade; None: m_parser.upgrade is not set              *)
  ctx,      (* the TWSContext                                              *)
  heard,    (* history: the notifications                                  *)
  failed    (* history: how many they were when HR_ERROR came, or None     *)

wsVars == <<request, items, net, data, pc, upgrade, ctx, heard, failed>>
input == <<request, items, net>>

MinHeader == 2
MaskLen(mask) == IF mask THEN 4 ELSE 0

\* What the first bytes of a header tell: the mask bit, the length of the
\* extended length (0, 2 or 8) and, once all of it is there, of the body.
Shape(i) == [mask |-> items[i].mask, ext |-> items[i].ext, body |-> items[i].body]
Shapes   == {Shape(i) : i \in {j \in DOMAIN items : items[j].kind = "frame"}}
FrameLen(s) == MinHeader + s.ext + MaskLen(s.mask)
SizeOf(item) == IF item.kind = "frame" THEN FrameLen(item) + item.body ELSE item.size

Reset == [header |-> TRUE, len |-> MinHeader, remain |-> MinHeader, item |-> None,
          shape |-> None, body |-> 0]

Note(e, i)  == [event |-> e, item |-> i]
\* A byte of a body, as it is once the mask was taken off with that byte of it.
Byte(b, key) == [event |-> "body", item |-> b.item, at |-> b.at, key |-> key]

Minimum(a, b) == IF a < b THEN a ELSE b
Advance(n) == data' = SubSeq(data, n + 1, Len(data))
Fails == failed' = IF failed = None THEN Len(heard') ELSE failed

-----------------------------------------------------------------------------
(* DoFireReceive() and Execute().                                          *)

Place == CASE upgrade = None        -> "http"
           [] upgrade = "websocket" -> "ws"
           [] OTHER                 -> "raw"

Receive ==
  /\ pc = "idle"
  /\ \E n \in 1 .. Len(net) :
       /\ data' = SubSeq(net, 1, n)
       /\ net'  = SubSeq(net, n + 1, Len(net))
  /\ pc' = Place
  /\ UNCHANGED <<request, items, upgrade, ctx, heard, failed>>

\* The piece is at its end: Execute() tests m_parser.upgrade then, too, also
\* when the message is not.
Executed ==
  /\ pc \in {"http", "ws"} /\ data = <<>>
  /\ pc' = IF pc = "http" /\ upgrade # None THEN "upgrade" ELSE "idle"
  /\ UNCHANGED <<input, data, upgrade, ctx, heard, failed>>

\* DoFireSuperReceive() of what is no HTTP any more.
Raw ==
  /\ pc = "raw"
  /\ heard' = heard \o [i \in DOMAIN data |-> Note("raw", data[i].item)]
  /\ data' = <<>>
  /\ \/ pc' = "idle" /\ failed' = failed
     \/ pc' = "close" /\ Fails
  /\ UNCHANGED <<input, upgrade, ctx>>

\* http_parser_execute(), byte by byte: it sets upgrade where a header ends, and
\* stops where a message that upgrades does.  The listener's HPR_ERROR stops it
\* too, with any byte before the end of a header, and for a body where the body or
\* the piece ends; the byte is not consumed then, but for the end of a piece and
\* for OnMessageComplete.  m_parser.upgrade is tested before http_errno: once it
\* is set HPR_ERROR is not looked at, and only without it the connection closes.
HttpExecute ==
  LET b == Head(data)
      item == items[b.item]
      upgrades == item.kind \in {"tunnel", "upgrade"} /\ b.at >= item.head
      Complete == heard' = Append(heard, Note(item.kind, b.item)) /\ Advance(1)
  IN  /\ pc = "http" /\ data # <<>>
      /\ upgrade' = CASE ~upgrades             -> None
                       [] item.kind = "tunnel" -> "tunnel"
                       [] OTHER                -> "websocket"
      /\ \/ /\ b.at < item.size
            /\ Advance(1) /\ UNCHANGED <<pc, heard, failed>>
         \/ /\ b.at = item.size /\ item.kind # "bad"
            /\ Complete
            /\ pc' = IF upgrades THEN "upgrade" ELSE pc
            /\ failed' = failed
         \/ /\ b.at = item.size
            /\ Complete
            /\ pc' = IF upgrades THEN "upgrade" ELSE "close"
            /\ Fails
         \/ /\ ~upgrades
            /\ pc' = "close" /\ UNCHANGED <<data, heard>> /\ Fails
         \/ /\ upgrades /\ (b.at \in {item.head, item.size} \/ Len(data) = 1)
            /\ IF b.at \in {item.head, item.size} THEN data' = data ELSE Advance(1)
            /\ pc' = "upgrade" /\ heard' = heard /\ Fails
      /\ UNCHANGED <<input, ctx>>

\* Upgrade(): FireUpgrade(), a new TWSContext, and Execute() of the rest.
Upgrade ==
  /\ pc = "upgrade" /\ UNCHANGED <<input, data, upgrade, heard>>
  /\ \/ /\ pc' = IF data = <<>> THEN "idle" ELSE Place
        /\ ctx' = Reset /\ failed' = failed
     \/ pc' = "close" /\ ctx' = ctx /\ Fails

-----------------------------------------------------------------------------
(* TWSContext::Parse(): a round of its loop.                               *)

Parsing == pc = "ws" /\ data # <<>>

\* The first two bytes of a header tell how long it is.  Bytes that are none may
\* tell anything.
ShapesAt(b, atStart) ==
  CASE ~atStart                                      -> {ctx.shape}
    [] atStart /\ items[b.item].kind = "frame" /\ b.at = 1 -> {Shape(b.item)}
    [] OTHER                                         -> Shapes

\* Part of a header.
HeaderPart ==
  LET n == Minimum(ctx.remain, Len(data))
      b == Head(data)
      atStart == ctx.remain = MinHeader /\ ctx.len = MinHeader
  IN  /\ Parsing /\ ctx.header
      /\ \E s \in ShapesAt(b, atStart) :
           LET item == IF atStart THEN b.item ELSE ctx.item
               rest == ctx.remain - n
           IN  /\ rest > 0 \/ ctx.len < FrameLen(s)
               /\ ctx' = [ctx EXCEPT !.item = item, !.shape = s,
                            !.remain = IF rest > 0 THEN rest ELSE FrameLen(s) - ctx.len,
                            !.len = IF rest > 0 THEN ctx.len ELSE FrameLen(s)]
      /\ Advance(n)
      /\ UNCHANGED <<input, pc, upgrade, heard, failed>>

\* The end of a header: the direction is tested, the header notified, and the
\* message too when it has no body.
HeaderEnd ==
  LET n == ctx.remain
      b == Head(data)
      atStart == ctx.len = MinHeader /\ ctx.remain = MinHeader
  IN  /\ Parsing /\ ctx.header /\ n <= Len(data)
      /\ \E s \in ShapesAt(b, atStart) :
           LET item == IF atStart THEN b.item ELSE ctx.item
           IN  /\ ctx.len = FrameLen(s)
               /\ \/ /\ request # s.mask
                     /\ pc' = "close" /\ UNCHANGED <<data, ctx, heard, failed>>
                  \/ /\ request = s.mask
                     /\ heard' = Append(heard, Note("header", item))
                     /\ pc' = "close" /\ Fails /\ UNCHANGED <<data, ctx>>
                  \/ /\ request = s.mask /\ s.body > 0
                     /\ heard' = Append(heard, Note("header", item))
                     /\ ctx' = [ctx EXCEPT !.header = FALSE, !.item = item, !.shape = s,
                                           !.body = s.body]
                     /\ Advance(n)
                     /\ UNCHANGED <<pc, failed>>
                  \/ /\ request = s.mask /\ s.body = 0
                     /\ heard' = heard \o <<Note("header", item), Note("complete", item)>>
                     /\ ctx' = Reset
                     /\ \/ Advance(n) /\ UNCHANGED <<pc, failed>>
                        \/ pc' = "close" /\ data' = data /\ Fails
      /\ UNCHANGED <<input, upgrade>>

\* Part of a body; the mask goes on where the part before it ended.  An error
\* sets an hr of the inner block: the loop ends, and Parse() returns the outer
\* one, HR_OK.
Body ==
  LET n == Minimum(ctx.body, Len(data))
      done == ctx.shape.body - ctx.body
      bytes == [i \in 1 .. n |-> Byte(data[i], IF ctx.shape.mask THEN (done + i - 1) % 4 ELSE 0)]
      Lost == pc' = "idle" /\ data' = <<>> /\ Fails
  IN  /\ Parsing /\ ~ctx.header
      /\ \/ /\ ctx.body = n
            /\ heard' = heard \o bytes \o <<Note("complete", ctx.item)>>
            /\ ctx' = Reset
            /\ (Advance(n) /\ UNCHANGED <<pc, failed>>) \/ Lost
         \/ /\ ctx.body > n
            /\ heard' = heard \o bytes
            /\ ctx' = [ctx EXCEPT !.body = @ - n]
            /\ Advance(n) /\ UNCHANGED <<pc, failed>>
         \/ /\ heard' = heard \o bytes
            /\ ctx' = [ctx EXCEPT !.body = @ - n]
            /\ Lost
      /\ UNCHANGED <<input, upgrade>>

-----------------------------------------------------------------------------
Init ==
  /\ \E s \in Streams :
       /\ request = s.request /\ items = s.items
       /\ net = Seqs!FlattenSeq([i \in DOMAIN s.items |->
                  [k \in 1 .. SizeOf(s.items[i]) |-> [item |-> i, at |-> k]]])
  /\ data = <<>> /\ pc = "idle" /\ upgrade = None /\ ctx = Reset
  /\ heard = <<>> /\ failed = None

Next == Receive \/ Executed \/ Raw \/ HttpExecute \/ Upgrade \/ HeaderPart \/ HeaderEnd \/ Body

Spec == Init /\ [][Next]_wsVars

-----------------------------------------------------------------------------
(* What the component promises.                                            *)

\* What the listener should hear of an item.
Told(i) ==
  LET it == items[i]
      keyOf(k) == IF it.mask THEN (k - 1) % 4 ELSE 0
  IN  CASE it.kind = "raw"   -> [k \in 1 .. it.size |-> Note("raw", i)]
        [] it.kind = "frame" ->
             IF request # it.mask THEN <<>>
             ELSE <<Note("header", i)>>
                  \o [k \in 1 .. it.body |->
                        Byte([item |-> i, at |-> FrameLen(it) + k], keyOf(k))]
                  \o <<Note("complete", i)>>
        [] OTHER -> <<Note(it.kind, i)>>

Ends(i) == items[i].kind = "bad" \/ (items[i].kind = "frame" /\ request # items[i].mask)
Stream == LET last == IF \E i \in DOMAIN items : Ends(i)
                      THEN CHOOSE i \in DOMAIN items : Ends(i) /\ \A j \in 1 .. i - 1 : ~Ends(j)
                      ELSE Len(items)
          IN  Seqs!FlattenSeq([i \in 1 .. last |-> Told(i)])

\* Type invariant.
WsTypeOK ==
  /\ pc \in {"idle", "http", "upgrade", "raw", "ws", "close"}
  /\ upgrade \in {None, "tunnel", "websocket"}
  /\ ctx.len \in MinHeader .. MinHeader + 12 /\ ctx.remain \in 0 .. 12 /\ ctx.body \in Nat

\* A piece ended inside the body of the message that upgrades: Execute() upgraded
\* before it was complete, and what is left of it is taken for what follows.
UpgradedEarly ==
  /\ upgrade # None /\ pc # "http"
  /\ ~\E i \in DOMAIN items : items[i].kind \in {"tunnel", "upgrade"}
                             /\ Seqs!Contains(heard, Note(items[i].kind, i))

\* What the listener hears does not depend on where the stream was cut: the
\* messages, frames and unmasked bytes that were sent, in order, up to an error
\* of the peer or the listener; and once all was read, all of it.  Except where
\* the connection was upgraded early: the code does not wait for the message.
FramesInOrder ==
  ~UpgradedEarly =>
    /\ Seqs!IsPrefix(IF failed = None THEN heard ELSE SubSeq(heard, 1, failed), Stream)
    /\ (pc = "idle" /\ net = <<>> /\ failed = None) => heard = Stream

\* "HR_ERROR -- OnClose() comes and the connection is closed"
\* (SocketInterface.h:2652 and 2663): once the listener said HR_ERROR to a part
\* of a frame, the worker closes the connection and does not wait for more of it.
ErrorCloses ==
  (failed # None /\ failed > 0 /\ heard[failed].event \in {"header", "body", "complete"})
    => pc # "idle"
=============================================================================
