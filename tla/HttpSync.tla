------------------------------ MODULE HttpSync ------------------------------
(***************************************************************************)
(* CHttpSyncClientT (HttpClient.cpp): Start() and SendRequest() that wait  *)
(* for what the worker of the client hears.  The application's thread      *)
(* clears the result, sends and waits for m_evWait; the worker, in its     *)
(* callbacks, fills the result in and sets m_evWait, once per request.     *)
(* After a timeout the connection is stopped, so that an answer that is    *)
(* late is nobody's.                                                       *)
(*                                                                         *)
(* Of CTcpClient there is what these two depend on: m_enState, m_bConnected *)
(* and Stop(); its own races are Client's, and a connection that is made   *)
(* while Stop() has begun is left to that module.  The server sends one    *)
(* answer per request, of a body and an end, which may be that of the      *)
(* connection.                                                             *)
(***************************************************************************)
EXTENDS Integers, Sequences

CONSTANTS
  A, W,       (* the application's thread and the worker                   *)
  Patient,    (* it calls only when the client is started or stopped       *)
  Budgets     (* bound: how often things happen, see budget                *)

VARIABLES
  state,      (* m_enState                                                 *)
  connected,  (* m_bConnected                                              *)
  fire,       (* m_ccContext.bFireOnClose                                  *)
  net,        (* what is in the socket: [kind, r]                          *)
  server,     (* the server: [asked, open]                                 *)
  untilEof,   (* the request whose answer ends with the connection, or 0   *)
  progress,   (* m_enProgress                                              *)
  event,      (* m_evWait                                                  *)
  body,       (* m_szBuffer: the requests its pieces answer                *)
  result,     (* m_objHttp2: the request it answers, or 0                  *)
  th,         (* [{A, W} -> [pc, back, exit, p, of]]                       *)
  op,         (* the call of the application: [name, r, ok]                *)
  budget      (* what may still happen                                     *)

client == <<state, connected, fire>>
peer   == <<net, server, untilEof>>
outcome == <<progress, event, body, result>>
vars   == <<client, peer, outcome, th, op, budget>>

Threads == {A, W}
Events == {"start", "request", "open", "timeout", "fail", "cancel", "bad", "close"}
Spend(e) == budget[e] > 0 /\ budget' = [budget EXCEPT ![e] = @ - 1]

HasStarted == state \in {"STARTED", "STARTING"}
\* back: where SetRequestEvent(p) returns to; exit: where Stop() does.
Idle == [pc |-> "idle", back |-> "idle", exit |-> "idle", p |-> "DONE", of |-> 0]
At(t, p)   == th[t].pc = p
Goto(t, p) == th' = [th EXCEPT ![t].pc = p]
\* Go on with SetRequestEvent(p), of what answers request r, then at back.
SetEvent(t, p, r, back) == th' = [th EXCEPT ![t].pc = "test", ![t].back = back,
                                            ![t].p = p, ![t].of = r]
Return(ok) == op' = [op EXCEPT !.ok = ok]

-----------------------------------------------------------------------------
(* The calls of the application.                                           *)

Call(name) ==
  /\ At(A, "idle") /\ Spend(name)
  /\ Patient => state = "STOPPED" \/ (state = "STARTED" /\ name # "start")
  /\ op' = [name |-> name, r |-> IF name = "start" THEN op.r ELSE op.r + 1, ok |-> FALSE]
  /\ Goto(A, IF name = "open" THEN "open" ELSE "clean")
  /\ UNCHANGED <<client, peer, outcome>>

\* OpenUrl(): stop what is open if a new connection is asked for, wait until
\* the client is one or the other, and start it if it is stopped; but a start of
\* another call that it waited for and that failed ends the call.
OpenUrl(reconnect) ==
  /\ At(A, "open")
  /\ th' = [th EXCEPT ![A].pc = IF HasStarted /\ reconnect THEN "stop" ELSE "settle",
                      ![A].exit = "settle"]
  /\ UNCHANGED <<client, peer, outcome, op, budget>>

Settle ==
  /\ th[A].pc \in {"settle", "starting"} /\ state # "STOPPING"
  /\ CASE state = "STARTED" ->
            Goto(A, "clean") /\ op' = [op EXCEPT !.name = "request"]
       [] state = "STARTING" ->
            Goto(A, "starting") /\ op' = op
       [] state = "STOPPED" /\ At(A, "starting") ->
            th' = [th EXCEPT ![A] = Idle] /\ Return(FALSE)
       [] OTHER ->
            Goto(A, "clean") /\ op' = [op EXCEPT !.name = "open"]
  /\ UNCHANGED <<client, peer, outcome, budget>>

\* CleanupRequestResult(): the progress first, the event last.
Clean ==
  /\ At(A, "clean")
  /\ progress' = "WAITING"
  /\ Goto(A, "cleaned")
  /\ UNCHANGED <<client, peer, event, body, result, op, budget>>

Cleaned ==
  /\ At(A, "cleaned")
  /\ body' = <<>> /\ result' = 0 /\ event' = FALSE
  /\ Goto(A, IF op.name = "request" THEN "send" ELSE "begin")
  /\ UNCHANGED <<client, peer, progress, op, budget>>

\* Start() of the client, asynchronous; or it fails at once.
Begin ==
  /\ At(A, "begin")
  /\ \/ /\ state = "STOPPED"
        /\ state' = "STARTING" /\ fire' = TRUE
        /\ server' = [asked |-> <<>>, open |-> TRUE]
        /\ th' = [th EXCEPT ![A].pc = "wait", ![W] = [Idle EXCEPT !.pc = "poll"]]
        /\ UNCHANGED <<op, budget>>
     \/ /\ state = "STOPPED" => Spend("fail")
        /\ state # "STOPPED" => budget' = budget
        /\ th' = [th EXCEPT ![A] = Idle]
        /\ Return(FALSE) /\ UNCHANGED <<state, fire, server>>
  /\ UNCHANGED <<connected, net, untilEof, outcome>>

\* SendPackets(), under m_csSend.
Send ==
  /\ At(A, "send")
  /\ IF connected
     THEN /\ server' = [server EXCEPT !.asked = Append(@, op.r)]
          /\ Goto(A, "wait") /\ op' = op
     ELSE /\ th' = [th EXCEPT ![A] = Idle]
          /\ Return(FALSE) /\ server' = server
  /\ UNCHANGED <<client, net, untilEof, outcome, budget>>

\* WaitForEvent() returns, and takes the event; OpenUrl() goes on to its request.
Woken ==
  /\ At(A, "wait") /\ event
  /\ event' = FALSE
  /\ IF op.name = "open"
     THEN Goto(A, "opened") /\ op' = op
     ELSE th' = [th EXCEPT ![A] = Idle] /\ Return(progress = "DONE")
  /\ UNCHANGED <<client, peer, progress, body, result, budget>>

\* WaitForEvent() times out, and Stop().
Timeout ==
  /\ At(A, "wait") /\ ~event /\ Spend("timeout")
  /\ th' = [th EXCEPT ![A].pc = "stop",
                      ![A].exit = IF op.name = "open" THEN "opened" ELSE "idle"]
  /\ UNCHANGED <<client, peer, outcome, op>>

\* OpenUrl() after Start().
Opened ==
  /\ At(A, "opened")
  /\ IF state = "STOPPED"
     THEN th' = [th EXCEPT ![A] = Idle] /\ op' = op
     ELSE Goto(A, "clean") /\ op' = [op EXCEPT !.name = "request"]
  /\ UNCHANGED <<client, peer, outcome, budget>>

-----------------------------------------------------------------------------
(* Stop() of the client, by the application or the worker on its way out.  *)

CheckStoping(t) ==
  /\ At(t, "stop")
  /\ IF HasStarted THEN state' = "STOPPING" /\ Goto(t, "join")
                   ELSE state' = state /\ th' = [th EXCEPT ![t] = [Idle EXCEPT !.pc = th[t].exit]]
  /\ UNCHANGED <<connected, fire, peer, outcome, op, budget>>

\* The worker does not wait for itself.
Join(t) ==
  /\ At(t, "join") /\ (t = W \/ At(W, "gone"))
  /\ Goto(t, "disconnect")
  /\ UNCHANGED <<client, peer, outcome, op, budget>>

\* SetConnected(FALSE), and DoFireClose(): CheckBodyIdentityEof() may end a
\* message with the connection, OnClose follows.
Disconnect(t) ==
  /\ At(t, "disconnect")
  /\ connected' = FALSE
  /\ IF fire /\ untilEof # 0 THEN SetEvent(t, "DONE", untilEof, "on_close")
     ELSE Goto(t, IF fire THEN "on_close" ELSE "reset")
  /\ UNCHANGED <<state, fire, peer, outcome, op, budget>>

OnClose(t) ==
  /\ At(t, "on_close")
  /\ SetEvent(t, "CLOSE", 0, "reset")
  /\ UNCHANGED <<client, peer, outcome, op, budget>>

Reset(t) ==
  /\ At(t, "reset")
  /\ net' = <<>> /\ untilEof' = 0 /\ server' = [asked |-> <<>>, open |-> FALSE]
  /\ state' = "STOPPED"
  /\ th' = [th EXCEPT ![t] = [Idle EXCEPT !.pc = th[t].exit]]
  /\ UNCHANGED <<connected, fire, outcome, op, budget>>

-----------------------------------------------------------------------------
(* SetRequestEvent().                                                      *)

TestProgress(t) ==
  /\ At(t, "test")
  /\ Goto(t, IF progress = "WAITING" THEN "progress" ELSE th[t].back)
  /\ UNCHANGED <<client, peer, outcome, op, budget>>

\* m_enProgress, and the copy to m_objHttp2 of what the parser knows.
SetProgress(t) ==
  /\ At(t, "progress")
  /\ progress' = th[t].p /\ result' = th[t].of
  /\ Goto(t, "event")
  /\ UNCHANGED <<client, peer, event, body, op, budget>>

SetWait(t) ==
  /\ At(t, "event")
  /\ event' = TRUE
  /\ Goto(t, th[t].back)
  /\ UNCHANGED <<client, peer, progress, body, result, op, budget>>

-----------------------------------------------------------------------------
(* The server.                                                             *)

\* An answer, whole; its end, or only its body and the end of the connection;
\* or what is no answer.
Answer ==
  /\ server.open /\ server.asked # <<>>
  /\ LET r == Head(server.asked)
         answer(k) == <<[kind |-> "body", r |-> r], [kind |-> k, r |-> r]>>
     IN  \/ /\ net' = net \o answer("complete")
            /\ server' = [server EXCEPT !.asked = Tail(@)] /\ budget' = budget
         \/ /\ Spend("close")
            /\ net' = net \o <<[kind |-> "until", r |-> r]>> \o answer("eof")
            /\ server' = [server EXCEPT !.asked = Tail(@), !.open = FALSE]
         \/ /\ Spend("bad")
            /\ net' = net \o answer("bad")
            /\ server' = [server EXCEPT !.asked = Tail(@)]
  /\ UNCHANGED <<client, untilEof, outcome, th, op>>

\* It closes a connection whenever it likes.
Hangup ==
  /\ server.open /\ Spend("close")
  /\ net' = Append(net, [kind |-> "eof", r |-> 0])
  /\ server' = [server EXCEPT !.open = FALSE]
  /\ UNCHANGED <<client, untilEof, outcome, th, op>>

-----------------------------------------------------------------------------
(* The worker.                                                             *)

Exit == th' = [th EXCEPT ![W].pc = "stop", ![W].exit = "gone"]

\* HandleConnect(): OnConnect and OnHandShake, where no object is copied; or
\* the server refuses; or OnConnect returns HR_ERROR, and OnClose will not come.
Connect ==
  /\ At(W, "poll") /\ state = "STARTING"
  /\ \/ /\ connected' = TRUE /\ state' = "STARTED"
        /\ SetEvent(W, "DONE", 0, "poll")
        /\ UNCHANGED <<fire, budget>>
     \/ /\ Spend("fail") /\ Exit
        /\ UNCHANGED client
     \/ /\ Spend("cancel") /\ Exit
        /\ connected' = TRUE /\ state' = "STARTED" /\ fire' = FALSE
  /\ UNCHANGED <<peer, outcome, op>>

\* ReadData(): OnBody, OnMessageComplete, OnParseError, the end.
Read ==
  /\ At(W, "poll") /\ connected /\ HasStarted /\ net # <<>>
  /\ LET m == Head(net) IN
     /\ body' = IF m.kind = "body" THEN Append(body, m.r) ELSE body
     /\ untilEof' = IF m.kind = "until" THEN m.r ELSE untilEof
     /\ CASE m.kind = "complete" -> SetEvent(W, "DONE", m.r, "poll")
          [] m.kind = "bad"      -> SetEvent(W, "ERROR", m.r, "exit")
          [] m.kind = "eof"      -> Exit
          [] OTHER               -> th' = th
  /\ net' = Tail(net)
  /\ UNCHANGED <<client, server, progress, event, result, op, budget>>

\* HPR_ERROR of the parser ends the loop.
ExitOnError ==
  /\ At(W, "exit")
  /\ Exit
  /\ UNCHANGED <<client, peer, outcome, op, budget>>

\* m_evStop, or HasStarted() is over.
HearStop ==
  /\ At(W, "poll") /\ ~HasStarted
  /\ Goto(W, "gone")
  /\ UNCHANGED <<client, peer, outcome, op, budget>>

-----------------------------------------------------------------------------
Init ==
  /\ state = "STOPPED" /\ connected = FALSE /\ fire = TRUE
  /\ net = <<>> /\ server = [asked |-> <<>>, open |-> FALSE] /\ untilEof = 0
  /\ progress = "DONE" /\ event = FALSE /\ body = <<>> /\ result = 0
  /\ th = [t \in Threads |-> [Idle EXCEPT !.pc = IF t = W THEN "gone" ELSE "idle"]]
  /\ op = [name |-> "start", r |-> 0, ok |-> FALSE]
  /\ budget \in Budgets

Stop(t) == CheckStoping(t) \/ Join(t) \/ Disconnect(t) \/ OnClose(t) \/ Reset(t)
SetRequestEvent(t) == TestProgress(t) \/ SetProgress(t) \/ SetWait(t)
App ==
  \/ (\E reconnect \in BOOLEAN : OpenUrl(reconnect)) \/ Settle \/ Clean \/ Cleaned
  \/ Begin \/ Send \/ Woken \/ Opened
Worker == Connect \/ Read \/ ExitOnError \/ HearStop

Next ==
  \/ \E name \in {"start", "request", "open"} : Call(name)
  \/ App \/ Timeout \/ Worker \/ Answer \/ Hangup
  \/ \E t \in Threads : Stop(t) \/ SetRequestEvent(t)

\* Threads run, and the server answers.
Fairness ==
  /\ WF_vars(App) /\ WF_vars(Worker) /\ WF_vars(Answer)
  /\ \A t \in Threads : WF_vars(Stop(t) \/ SetRequestEvent(t))

Spec == Init /\ [][Next]_vars /\ Fairness

-----------------------------------------------------------------------------
(* What a synchronous request promises.                                    *)

\* Type invariant.
TypeOK ==
  /\ state \in {"STOPPED", "STARTING", "STARTED", "STOPPING"}
  /\ progress \in {"DONE", "WAITING", "ERROR", "CLOSE"}
  /\ body \in Seq(Nat) /\ result \in Nat
  /\ op \in [name : {"start", "request", "open"}, r : Nat, ok : BOOLEAN]
  /\ budget \in [Events -> Nat]

\* When SendRequest() has returned TRUE, the header and the body that the
\* application reads are the answer to its request and to no earlier one, also
\* after a timeout, a connection that broke or one that was made anew; and they
\* stay until the next call.
OwnAnswer ==
  At(A, "idle") /\ op.name = "request" /\ op.ok => result = op.r /\ body = <<op.r>>

\* A call returns, without a timeout to end it, if the server answers or the
\* connection ends: no wake-up is lost between CleanupRequestResult() and the
\* wait.  (OnConnect that returns HR_ERROR is followed by no OnClose.)
RequestReturns == []<>(At(A, "idle") \/ ~fire)
=============================================================================
