-------------------------------- MODULE Kcp --------------------------------
(***************************************************************************)
(* The reliable transport under the ARQ components: two control blocks of  *)
(* common/kcp/ikcp.c, driven as CArqSessionT of ArqHelper.h drives them,   *)
(* over datagrams that are lost, duplicated and reordered.                 *)
(*                                                                         *)
(* A message is cut into fragments; a fragment is [msg, frg], the index of *)
(* its message and the fragments that follow it.  Sequence numbers are not *)
(* wrapped (2^32 of them are not sent), times are abstracted: a            *)
(* retransmission or a probe may be due in any flush.  Fragments are full, *)
(* so a PUSH segment travels alone; the acknowledgements and probes of one *)
(* flush carry one una and one window and travel in one datagram.          *)
(***************************************************************************)
EXTENDS Integers, Sequences, FiniteSets, FiniteSetsExt

CONSTANTS End,         \* the two ends of the connection
          SndWnd,      \* dwSendWndSize
          RcvWnd,      \* dwRecvWndSize
          WndRcv,      \* IKCP_WND_RCV: initial and least receive window
          Resend,      \* dwResendByAcks, 0 for none
          FastLimit,   \* dwFastLimit
          NoCwnd,      \* bTurnoffNc
          MaxSent,     \* bound: [End -> Nat], fragments an end sends
          MaxFrag,     \* bound: fragments of a message an application asks for
          MaxNet,      \* bound: [End -> Nat], datagrams on their way to an end
          MaxDup       \* bound: datagrams the network duplicates

\* There are two ends; a window and MaxFrag are above 0.

VARIABLES kcp,        \* [End -> IKCPCB]
          receiving,  \* ends whose ReceiveArq() is in its loop, m_cs held
          net,        \* [End -> datagrams on their way to that end]
          sent,       \* history: [End -> fragments given to ikcp_send()]
          got,        \* history: [End -> fragments ikcp_recv() returned]
          dups        \* datagrams duplicated so far

vars == <<kcp, receiving, net, sent, got, dups>>

Peer(e) == CHOOSE p \in End : p # e

Fragment == [msg : Nat, frg : Nat]
NoFragment == [msg |-> 0, frg |-> 0]

\* struct IKCPSEG, on the wire; a datagram is one PUSH or the header-only
\* segments of a flush.
Push == [cmd : {"push"}, wnd : Nat, una : Nat, sn : Nat, data : Fragment]
Heads == [cmd : {"heads"}, wnd : Nat, una : Nat, acks : SUBSET Nat,
          wask : BOOLEAN, wins : BOOLEAN]

MinOf(a, b) == IF a < b THEN a ELSE b
MaxOf(a, b) == IF a < b THEN b ELSE a

\* ikcp_wndsize(): the receive window holds the largest message.
rcv_wnd == MaxOf(RcvWnd, WndRcv)

\* ikcp_create()
Created ==
  [snd_una |-> 0, snd_nxt |-> 0, rcv_nxt |-> 0, rmt_wnd |-> WndRcv,
   cwnd |-> 0, ssthresh |-> 2, tell |-> FALSE, probing |-> FALSE,
   snd_queue |-> <<>>, snd_buf |-> {}, rcv_queue |-> <<>>, rcv_buf |-> {},
   acklist |-> {}]

\* ikcp_wnd_unused()
wnd_unused(k) == MaxOf(rcv_wnd - Len(k.rcv_queue), 0)

-----------------------------------------------------------------------------
(* Receiving.                                                              *)

\* parse_una and parse_ack: what the segments acknowledge leaves snd_buf.
Unacked(k, una, acks) ==
  {s \in k.snd_buf : s.sn >= una /\ s.sn \notin acks}

\* ikcp_shrink_buf()
Oldest(buf, nxt) == IF buf = {} THEN nxt ELSE Min({s.sn : s \in buf})

\* ikcp_parse_fastack(): what was sent before the newest segment
\* acknowledged has been overtaken once more.
Overtaken(buf, una, nxt, acks) ==
  IF acks = {} \/ ~(Max(acks) \in una .. nxt - 1)
  THEN buf
  ELSE {[s EXCEPT !.fastack = IF s.sn < Max(acks) THEN MinOf(@ + 1, Resend)
                                                  ELSE @] : s \in buf}

\* ikcp_parse_data(), ikcp_recv(): segments in order go to rcv_queue while it
\* has room.
Movable(k) ==
  Max({n \in 0 .. MaxOf(rcv_wnd - Len(k.rcv_queue), 0) :
         \A i \in 0 .. n - 1 : \E s \in k.rcv_buf : s.sn = k.rcv_nxt + i})

Move(k) ==
  LET n == Movable(k)
      At(sn) == (CHOOSE s \in k.rcv_buf : s.sn = sn).data
  IN  [k EXCEPT !.rcv_queue = @ \o [i \in 1 .. n |-> At(k.rcv_nxt + i - 1)],
                !.rcv_buf = {s \in @ : s.sn >= k.rcv_nxt + n},
                !.rcv_nxt = @ + n]

\* ikcp_parse_data(): a segment outside the window or held already is dropped.
ParseData(k, d) ==
  IF d.sn \in k.rcv_nxt .. k.rcv_nxt + rcv_wnd - 1
  THEN Move([k EXCEPT !.rcv_buf =
               IF \E s \in @ : s.sn = d.sn THEN @
               ELSE @ \cup {[sn |-> d.sn, data |-> d.data]}])
  ELSE k

\* Mutant: only what is new is acknowledged.
ParseSegmentsNew(k, d) ==
  IF d.cmd = "push"
  THEN IF d.sn \in k.rcv_nxt .. k.rcv_nxt + rcv_wnd - 1
       THEN ParseData([k EXCEPT !.acklist = @ \cup {d.sn}], d)
       ELSE k
  ELSE [k EXCEPT !.tell = @ \/ d.wask]

\* The PUSH and WASK branches of ikcp_input().  What is older than rcv_nxt is
\* acknowledged again.
ParseSegments(k, d) ==
  IF d.cmd = "push"
  THEN IF d.sn < k.rcv_nxt + rcv_wnd
       THEN ParseData([k EXCEPT !.acklist = @ \cup {d.sn}], d)
       ELSE k
  ELSE [k EXCEPT !.tell = @ \/ d.wask]

\* The end of ikcp_input(): the congestion window opens when snd_una advanced;
\* incr, which says whether it does above ssthresh, is abstracted.
Opened(k, una, grow) ==
  IF k.snd_una > una /\ k.cwnd < k.rmt_wnd /\ (k.cwnd < k.ssthresh \/ grow)
  THEN [k EXCEPT !.cwnd = @ + 1] ELSE k

\* ikcp_input(): the conversation of a datagram is not looked at, which tells
\* one session of two addresses from the next; there is one session here.
Input(k, d, grow) ==
  LET acks == IF d.cmd = "push" THEN {} ELSE d.acks
      live == {sn \in acks : sn < k.snd_nxt}
      left == Unacked(k, d.una, live)
      una  == Oldest(left, k.snd_nxt)
      k1   == [k EXCEPT !.rmt_wnd = d.wnd, !.snd_una = una,
                        !.snd_buf = Overtaken(left, una, k.snd_nxt, acks)]
  IN  Opened(ParseSegments(k1, d), k.snd_una, grow)

\* ReceiveArq(), up to its loop: a datagram arrives, possibly not for the last
\* time.
Receive(e, d) ==
  /\ d \in net[e]
  /\ e \notin receiving
  /\ receiving' = receiving \cup {e}
  /\ \/ net' = [net EXCEPT ![e] = @ \ {d}] /\ dups' = dups
     \/ dups < MaxDup /\ dups' = dups + 1 /\ net' = net
  /\ UNCHANGED <<sent, got>>
  /\ \E grow \in BOOLEAN : kcp' = [kcp EXCEPT ![e] = Input(@, d, grow)]

\* ikcp_peeksize(): the first message of rcv_queue is there as a whole.
Complete(q) == q # <<>> /\ Len(q) >= q[1].frg + 1

\* ikcp_recv(): the fragments up to one with frg = 0 are the message; room in
\* a full queue is told to the peer.
Recv(e) ==
  LET k == kcp[e]
      q == k.rcv_queue
      n == Min({i \in 1 .. Len(q) : q[i].frg = 0})
      taken == Move([k EXCEPT !.rcv_queue = SubSeq(q, n + 1, Len(q))])
  IN  /\ e \in receiving
      /\ Complete(q)
      /\ kcp' = [kcp EXCEPT ![e] =
           [taken EXCEPT !.tell = @ \/ ( /\ Len(q) >= rcv_wnd
                                         /\ Len(taken.rcv_queue) < rcv_wnd )]]
      /\ got' = [got EXCEPT ![e] = @ \o SubSeq(q, 1, n)]
      /\ UNCHANGED <<receiving, net, sent, dups>>

\* The loop of ReceiveArq() ends; the flush that follows is a step of its own.
RecvEnd(e) ==
  /\ e \in receiving
  /\ ~Complete(kcp[e].rcv_queue)
  /\ receiving' = receiving \ {e}
  /\ UNCHANGED <<kcp, net, sent, got, dups>>

-----------------------------------------------------------------------------
(* Sending.                                                                *)

\* ikcp_send(): fragments numbered downwards; a message the receive window
\* cannot hold is refused.  A callback may send while m_cs is held.
Send(e, count) ==
  LET id == IF sent[e] = <<>> THEN 1 ELSE sent[e][Len(sent[e])].msg + 1
      frags == [i \in 1 .. count |-> [msg |-> id, frg |-> count - i]]
  IN  /\ Len(sent[e]) + count <= MaxSent[e]
      /\ count < WndRcv
      /\ kcp' = [kcp EXCEPT ![e].snd_queue = @ \o frags]
      /\ sent' = [sent EXCEPT ![e] = @ \o frags]
      /\ UNCHANGED <<receiving, net, got, dups>>

Window(k) ==
  LET w == MinOf(SndWnd, k.rmt_wnd) IN IF NoCwnd THEN w ELSE MinOf(k.cwnd, w)

\* The middle of ikcp_flush(): segments the window admits get their numbers.
Admit(k) ==
  LET n == MinOf(Len(k.snd_queue), MaxOf(k.snd_una + Window(k) - k.snd_nxt, 0))
  IN  [k EXCEPT !.snd_buf = @ \cup {[sn |-> k.snd_nxt + i - 1,
                                     data |-> k.snd_queue[i],
                                     xmit |-> 0, fastack |-> 0] : i \in 1 .. n},
                !.snd_queue = SubSeq(@, n + 1, Len(@)),
                !.snd_nxt = @ + n]

\* Why ikcp_flush() sends a segment: the first time, its time is over, or
\* later ones were acknowledged.
IsFirst(s) == s.xmit = 0
IsLost(s, due) == s.xmit > 0 /\ s.sn \in due
IsFast(s, due) ==
  /\ s.xmit > 0 /\ s.sn \notin due
  /\ Resend > 0 /\ s.fastack >= Resend
  /\ s.xmit <= FastLimit \/ FastLimit = 0
NeedSend(s, due) == IsFirst(s) \/ IsLost(s, due) \/ IsFast(s, due)

Sent(s, due) ==
  [s EXCEPT !.xmit = IF NeedSend(s, due) THEN MinOf(@ + 1, FastLimit + 1) ELSE @,
            !.fastack = IF IsFast(s, due) THEN 0 ELSE @]

\* The end of ikcp_flush(): the congestion window after losses.
Congest(k, win, due) ==
  LET fast == \E s \in k.snd_buf : IsFast(s, due)
      lost == \E s \in k.snd_buf : IsLost(s, due)
      half == MaxOf((IF lost THEN win ELSE k.snd_nxt - k.snd_una) \div 2, 2)
  IN  [k EXCEPT !.ssthresh = IF lost \/ fast THEN half ELSE @,
                !.cwnd = IF lost THEN 1
                         ELSE IF fast THEN half + Resend ELSE MaxOf(@, 1)]

\* The segments ikcp_flush() hands to the output callback, as datagrams.
HeadsOf(k, ask) ==
  IF k.acklist = {} /\ ~ask /\ ~k.tell THEN {}
  ELSE {[cmd |-> "heads", wnd |-> wnd_unused(k), una |-> k.rcv_nxt,
         acks |-> k.acklist, wask |-> ask, wins |-> k.tell]}

PushesOf(k, due) ==
  {[cmd |-> "push", wnd |-> wnd_unused(k), una |-> k.rcv_nxt,
    sn |-> s.sn, data |-> s.data] : s \in {t \in k.snd_buf : NeedSend(t, due)}}

\* The datagrams of a flush.
Out(e, due, probeDue) ==
  HeadsOf(kcp[e], kcp[e].rmt_wnd = 0 /\ kcp[e].probing /\ probeDue)
    \cup PushesOf(Admit(kcp[e]), due)

\* ikcp_flush(): acknowledgements, probes, new segments, retransmissions.
\* The network carries the datagrams of "kept", some of Out(), and loses the
\* others.
FlushWith(e, due, kept) ==
  \E k \in {kcp[e]} : \E adm \in {Admit(k)} :  \* evaluated once
     /\ Cardinality(net[Peer(e)] \cup kept) <= MaxNet[Peer(e)]
     /\ net' = [net EXCEPT ![Peer(e)] = @ \cup kept]
     /\ kcp' = [kcp EXCEPT ![e] =
          [Congest(adm, Window(k), due) EXCEPT
             !.snd_buf = {Sent(s, due) : s \in @},
             !.acklist = {}, !.tell = FALSE,
             !.probing = k.rmt_wnd = 0]]

\* Flush() of CArqSessionT, forced or by the timer: m_cs is only tried, so not
\* within the loop of ReceiveArq().  A forced flush before the first
\* ikcp_update() does nothing.
Flush(e) ==
  /\ e \notin receiving
  /\ \E due \in SUBSET {s.sn : s \in kcp[e].snd_buf}, probeDue \in BOOLEAN :
       \E kept \in SUBSET Out(e, due, probeDue) : FlushWith(e, due, kept)
  /\ UNCHANGED <<receiving, sent, got, dups>>

\* A flush in which every timer has run out and nothing is lost.
FlushAll(e) ==
  /\ e \notin receiving
  /\ UNCHANGED <<receiving, sent, got, dups>>
  /\ \E due \in {{s.sn : s \in kcp[e].snd_buf}} :
       \E kept \in {Out(e, due, TRUE)} : FlushWith(e, due, kept)

-----------------------------------------------------------------------------
Init ==
  /\ kcp = [e \in End |-> Created]
  /\ receiving = {}
  /\ net = [e \in End |-> {}]
  /\ sent = [e \in End |-> <<>>]
  /\ got = [e \in End |-> <<>>]
  /\ dups = 0

Next ==
  \E e \in End : \/ \E d \in net[e] : Receive(e, d)
                 \/ Recv(e) \/ RecvEnd(e) \/ Flush(e)
                 \/ \E count \in 1 .. MaxFrag : Send(e, count)

\* The timer flushes on and on; its segments run out again and again; the
\* network does not lose everything for ever and delivers what it holds.
Fairness ==
  \A e \in End :
    /\ WF_vars(\/ \E d \in net[e] : Receive(e, d) /\ d \notin net'[e]
               \/ Recv(e) \/ RecvEnd(e))
    /\ SF_vars(FlushAll(e))

Spec == Init /\ [][Next]_vars /\ Fairness

-----------------------------------------------------------------------------
(* What the transport promises.                                            *)

\* Type invariant, with the windows' bounds.
TypeOK ==
  /\ \A e \in End :
       /\ kcp[e].snd_una <= kcp[e].snd_nxt
       /\ \A s \in kcp[e].snd_buf : s.sn \in kcp[e].snd_una .. kcp[e].snd_nxt - 1
       /\ Len(kcp[e].rcv_queue) <= rcv_wnd
       /\ \A s \in kcp[e].rcv_buf :
            s.sn \in kcp[e].rcv_nxt .. kcp[e].rcv_nxt + rcv_wnd - 1
       /\ net[e] \subseteq Push \cup Heads
  /\ receiving \subseteq End

\* What an application is given is what the other one sent, from the first
\* fragment on, without a gap, in whole messages ("in order", ArqHelper.h:493).
InOrder ==
  \A e \in End :
    LET g == got[e]
        s == sent[Peer(e)]
    IN  /\ Len(g) <= Len(s)
        /\ g = SubSeq(s, 1, Len(g))
        /\ g = <<>> \/ g[Len(g)].frg = 0

Stream == INSTANCE MessageStream

\* The transport implements MessageStream: messages arrive whole, once, in
\* order, and all of them arrive.
IsMessageStream == Stream!Spec
=============================================================================
