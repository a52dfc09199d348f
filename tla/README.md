# A TLA+ verification of HP-Socket for macOS

HP-Socket is a C++ library of TCP, UDP, SSL and HTTP components that call their
user back from worker threads. This directory models its concurrent core and
the protocols above it, checks the models with TLC and proves theorems about
some of them with TLAPS. Paths are relative to `src/hpsocket/src`.

Parse a module with `tlasany M.tla`, check one with
`tlc -workers 2 -config X.cfg M`, prove one with `tlapm XProofs.tla`.

## 1. The system

### 1.1 Components

| component | state it keeps | operations | how it meets the others | correct means |
|---|---|---|---|---|
| `CRingPool` (common/RingBuffer.h) | slots, two cursors | TryPut, TryGet, TryLock, ReleaseLock, Clear | every component parks its free objects in one | an object has one owner and is never lost |
| `CRingCache2` (common/RingBuffer.h) | slots, a generation per slot, a count, the set of ids | AcquireLock, ReleaseLock, Remove, Get, GetAllElementIndexes | the table of connections of servers and agents | an id names one connection, and resolves while that exists |
| `CCASQueueX` (common/RingBuffer.h) | a linked list, a spin lock, a count | PushBack, PopFront, the Unsafe calls of `ReleaseGCObj` | dispatcher commands, objects waiting to be destructed, HTTP's dying connections | each element comes out once, in order; no freed node is touched |
| `CIODispatcher` (common/IODispatcher.cpp) | worker threads, a kqueue, a command pipe, an exit pipe | SendCommand, WorkerProc, Stop | calls its handler (a server, an agent, a node) on its workers | a command that was sent is handled or destructed; Stop() ends |
| `CRWLock` (common/RWLock.cpp) | counters, a mutex, two condition variables | WaitToRead, WaitToWrite, ReadDone, WriteDone | the index set of `CRingCache2`, the locks of UDP connections | a writer is alone; nobody sleeps on a free lock |
| `CHPThreadPool` (HPThreadPool.cpp) | state, threads, tasks | Start, Stop, Submit, AdjustThreadCount | given to the user; tasks may hold socket data | an accepted task runs once, Stop leaves nothing behind |
| `CTcpServer` (TcpServer.cpp) | the listening socket, the table, a pool and a garbage queue of `TSocketObj`, each with locks csIo and csSend, a send list, a pause flag | accept, events, commands, Send, Disconnect, PauseReceive, Stop | handler of the dispatcher, caller of the listener | a connection has its own object, OnClose is last, reading does not stop by itself, what is sent arrives in order |
| `CTcpAgent` (TcpAgent.cpp) | as the server, for outgoing connections | Connect in addition, waiting or not | | OnConnect is first and agrees with Connect(), every attempt ends |
| `CTcpClient`, `CUdpClient`, `CUdpCast` | one connection, one worker, three events | Start, Stop, Send, PauseReceive | callbacks on the worker | OnClose is last, nothing asked for is forgotten, an end is followed by a stop |
| `CUdpServer` (UdpServer.cpp) | connections by address, a receive and a send queue each, two locks each | receive, commands, detection, Send, Disconnect, Stop | the ARQ components lay sessions over it | an address has one connection, what came is handled, Stop() returns |
| `CUdpNode` (UdpNode.cpp) | one socket, a receive queue, a send list | Start, Stop, Send, receive | its workers share both lists | a datagram is sent and told of once; nothing is left for the next Start() |
| ARQ sessions (ArqHelper.h) | two conversation ids, the state of a handshake, a KCP control block | Renew, Check, Receive, Send, Reset | over the UDP server and client | who is ready agrees on the conversation; an attempt ends |
| ikcp (common/kcp/ikcp.c) | queues, windows, acknowledgements | send, recv, input, flush | under the ARQ session | messages arrive whole, once, in order, all of them |
| Pack (MiscHelper.h, TcpPack*.h) | the header expected, the bytes gathered | ParsePack, BeforeUnpause | over the TCP components | packets come whole, in order, none is held back |
| Pull (TcpPull*.h), `CBufferPool` | a cache of buffers by id, free buffers and items | Fetch, Cat, PutCacheBuffer, PutFreeBuffer | over the TCP components | a connection fetches what it received, from a buffer of its own |
| SSL (SSLHelper.h, SSL*.cpp) | a session of OpenSSL and its lock | ProcessHandShake, ProcessReceive, ProcessSend, StartSSLHandShake | over the TCP components | records stay in order, the handshake ends |
| HTTP (HttpHelper.h, Http*.cpp) | a parser, a WebSocket context, a queue of dying connections, the result of a request | Execute, Upgrade, Parse, Release, SendRequest | over the TCP components | frames come whole, what is released is closed, a request gets its own answer |

### 1.2 What is hard

* Lock-free structures: the order of single loads, stores and
  compare-and-swaps decides (`RingBuffer.h`).
* kqueue's `EV_CLEAR` and `EV_DISPATCH` in place of the epoll flags of the
  original: reports are merged, and one event is armed at a time
  (`IODispatcher.cpp`, `TcpServer.cpp:690`).
* An object is reached by id, by event and by command at the same time and is
  reused after it is closed; validity is tested before and after csIo is taken.
* `Stop()` of each component races everything else; in several places a sleep is
  the only thing that orders them (`TcpServer.cpp:214`, `TcpAgent.cpp:186`,
  `UdpServer.cpp:233`, `UdpNode.cpp:255`, `HPThreadPool.cpp:95`).
* Condition variables and events, with timeouts, some notified outside their mutex.
* Datagrams that are lost, duplicated and reordered, and sessions that are
  opened again with the same addresses.
* Streams that are cut anywhere and paused anywhere, with two locks taken in
  two orders.

`PROJECT.json` lists these hazards at their lines, with the properties aimed at
each; section 5 lists those that have none.

## 2. Modules

| module | what it models | kind |
|---|---|---|
| `RingPool`, `ConnectionsProofs` | RingBuffer.h 785-1027 | one action per load, CAS or store; proved |
| `RingCache`, `RingCacheProofs` | RingBuffer.h 391-765 | the same; proved |
| `CasQueue`, `CasQueueProofs` | RingBuffer.h 1039-1245, 1738-1795 | the same; implements `FifoQueue`; proved, with the refinement |
| `FifoQueue` | what a `CCASQueue` promises | abstract |
| `SemRWLock`, `ThreadsProofs` | RWLock.cpp 143-236 | implements `ReadWriteLock`; proved, with the refinement |
| `ReadWriteLock` | what a `CRWLock` promises | abstract |
| `IODispatcher`, `ThreadsProofs` | IODispatcher.cpp | its queue is an instance of `FifoQueue`, so that the two compose through the refinement shown of `CasQueue`; proved |
| `ThreadPool`, `ThreadPoolProofs` | HPThreadPool.cpp | one action per critical section; proved |
| `TcpServer`, `TcpServerProofs` | TcpServer.cpp, SocketHelper.h 429-554 | one action per callback or critical section; uses what the modules above show of the table, the pool and the dispatcher; proved |
| `TcpAgent`, `StreamsProofs` | TcpAgent.cpp | Connect() against the first event, Disconnect and Stop; proved |
| `Client`, `ClientsProofs` | TcpClient.cpp, UdpClient.cpp, UdpCast.cpp | one skeleton, with an operator for each point where the three differ; proved |
| `UdpServer`, `ThreadsProofs` | UdpServer.cpp | lcIo and lcSend as `SemRWLock` shows them; proved |
| `UdpNode`, `ThreadsProofs` | UdpNode.cpp | proved |
| `Arq`, `ClientsProofs` | the handshake of ArqHelper.h | proved |
| `Kcp` | common/kcp/ikcp.c as ArqHelper.h drives it | implements `MessageStream` |
| `MessageStream` | what a reliable stream of messages promises | abstract, with liveness |
| `Pack` | MiscHelper.h, TcpPackServer.h and its siblings | |
| `PullServer`, `ConnectionsProofs` | TcpPullServer.h, TcpPullAgent.h, BufferPool.* | proved, and with it all parts of the run connections |
| `SslSession` | SSLHelper.*, SSLServer.cpp, SSLAgent.cpp, SSLClient.cpp | OpenSSL is external: a handshake of four flights |
| `WebSocket` | HttpHelper.h: Execute, Upgrade, TWSContext | http_parser is external |
| `HttpRelease` | HttpServer.cpp: Release and the cleaner | its queue is what `FifoQueue` promises |
| `HttpSync` | HttpClient.cpp: CHttpSyncClientT | of the client what a request depends on |

Constants, variables and actions carry the source's names where TLA+ allows.
Every module has one program counter per thread (`pc`, `wk[w].pc`, `th[t].pc`...);
its values name the places between two atomic steps. Definitions preceded by
"A bug to be caught" or "Mutant" are not part of any specification: each is a
mapped definition with a plausible mistake in it, and shows that a property notices.

*RingPool.* The slot is read in the same step as the CAS that expects `E_EMPTY`
(either failing has the same effect), but in a step before the CAS that takes an
element. `held` says which thread owns an object outside the ring. Sequence
numbers do not wrap; in the code they are DWORDs.

*RingCache.* An id is a slot plus its generation times the size. `live` are
the ids a caller may remove, `known` those it may ask for, and for ever. `Gens`
is 256 in the code, `SeqMod` 2^32.

*CasQueue.* Nodes are cells that may be allocated again at once after `delete`.
A failed CAS on `m_pTail` changes nothing and is no step. `chain` is a history
variable: the nodes from `m_pHead` to `m_pTail` in the order of the CASes on
`m_pTail`. No guard reads it; `Contents` reads the abstract queue off it, and
`ChainIsLinked` says that the pointers of the heap agree with it, except for the
gap that a half-done push has still to bridge.

*IODispatcher.* `pipe` counts bytes, `active` the reports kqueue has ready,
`batch` what a worker fetched with one `kevent()` call and has still to process.
`Wait` takes all reports at once; "io" stands for a socket event whose callback
may call SendCommand itself. `SendCommands` and timers are left out.

*SemRWLock.* Work under `m_mtx` is one step. `Spurious` wakes a waiting thread
for no reason.

*ThreadPool.* What happens under `m_mtx` or `m_cs` is one step, except creating
threads, where WorkerProc reads the same data without `m_cs`. `SleepEnough`
says whether the 15 ms of Stop suffice; `StopFrom` where Start may be when Stop
comes.

*TcpServer.* A connection and its id are one (`RingCache` justifies that), a
packet is its number in the order Send accepted it, a chunk received only
counts. `Settled` is the effect of `m_dwFreeSocketObjLockTime`: an object is
reused only when no thread remembers it. `Filter` gives the one event armed:
`-1 | -2 = -1`. `Pack` and `SslSession` model what overrides its callbacks.

*TcpAgent, UdpServer, Client.* What happens of its own accord, a call, a
datagram, an error, is drawn from a budget: a function from kinds of events to
how often each may still come. Init chooses a budget, so a run explores each
scenario with everything that can race in it. `Client` numbers its
connections. Of what one leaves to the next `NothingForgotten` says that `m_evStop` and the list
of packets are not among it when Start() prepares; a late `m_evRecv` may be (section 3).
Connect() of an agent may return FALSE after an accepted OnConnect: paused in it, with nothing
pending, the connection has no event to be armed with, CtlFD fails, and it is closed without OnClose
(TcpAgent.cpp:376-387); `ConnectIsTold` allows that and says so.

*UdpNode.* `extra` is what empty datagrams add to the length of the send list. A
worker told of a command goes on until none is left, as ProcessCommand() does.

*Arq.* Datagrams are a set: what is in it may be delivered any number of times, in any
order, or be dropped. Time is what the code compares: `due` and `age`.

*Kcp.* A fragment is its message and the number of those that follow; windows,
fast retransmission, congestion window, probes and duplicates are there. Times are
not: a retransmission may be due in any flush.

*Pack, WebSocket, SslSession.* A byte is [what it belongs to, its place in it], so
that the order and wholeness of what is handed over can be stated. What is read
is any prefix of what has arrived. http_parser sets `upgrade` where a header ends, and Execute() looks at
it after each piece, before `http_errno`: a connection is upgraded although its message
is not complete, and although a callback of that message returned HPR_ERROR. Of the
callbacks there is OnMessageComplete, and that any of them may refuse.

*PullServer.* Bytes carry the id of the connection that received them, so that what
a buffer keeps from an earlier connection is seen. They are added item by item
(`Cat`, a pass of the loop in TItemListT::Cat), and the buffer's length grows after
the last: another thread may see the items of a buffer before its length.
`DropByte` takes one byte of the first item at a time.

*SslSession.* The handshake is four flights, OpenSSL one step per call. A story says
which component it is of, whether the handshake starts by itself, and what
is sent, received, found bad or closed meanwhile.

*HttpRelease.* Time passes when nothing else can happen; an entry is due when its time
has come. The cleaner that tested HasStarted() before Stop() goes on a round more. *HttpSync.* Of the client there is what a request depends on: its state, the
connection, the answers under way. `Patient` applications wait, after a timeout, until
the client has stopped.

## 3. Runs

Components that share nothing are checked in one run: `Init` chooses which part
runs, the others rest in their initial states, and each part has its own
fairness. What such a run explores is the sum of its parts, not their product.
An `MCx` module instantiates the parts, names the symmetry sets and the budgets,
and says of each part's properties which name they go under in the run.
Every passing run explores its whole state space.

| run | part | instance | what it shows |
|---|---|---|---|
| connections | ring | 2 threads, 2 objects, 2 slots, 3 puts | `Exclusive`, `NoneLost`, `LockOwned`: the ring fills, empties, wraps, and a put meets a locked slot |
| | life | 2 connections, 2 objects, 2 workers, 1 caller | `LifeOwnObject`, `LifeCloseIsLast`, with objects reused |
| | flow | 1 connection, 4 sends, pauses or resumes of 2 threads, a socket that takes 1 packet | `FlowReadIsArmed`, `FlowSentInOrder` |
| | pull | 3 connections in 2 slots, 3 bytes, a pool of 1 buffer, items of 2 bytes | `BufferIsOwn` and `FreeIsEmpty` (in `LifeOwnObject`), `FetchedInOrder` (in `FlowSentInOrder`) |
| ring_cache | cache | 3 threads, 2 slots, 2 generations, sequence mod 3 | `IdsDistinct`, `CountExact`, `IndexesExact`, `LiveResolves`, although generations and the cursor wrap |
| | threads | 2 workers, 2 submitters, one with a timeout, 3 tasks, all policies, Stop anywhere in Start | `AcceptedOnce` |
| cas_queue | | 3 threads, 3 values, 4 cells | `HeapIsSafe`, and `IsFifo`, the refinement of `FifoQueue` |
| threads | lock | 3 threads, 3 locks each, depth 3 | `NoLostWakeup`, `IsReadWriteLock` (refinement), `WaitReturns` |
| | threads | 2 workers, 2 submitters, 3 tasks, queue of 1, one adjustment, `TRP_WAIT_FOR` | `CleanStop`, `AcceptedRuns`, `WaitForReturns` |
| | dispatcher | 2 workers that may send too, 2 other senders, 2 commands, Stop() at any time | `StopIsClean`, `SentIsHandled` |
| | udp | 1 address, 2 workers, 8 budgets | `UdpCloseIsLast`, `ReceivedIsHandled`, `UdpStopReturns` but for the dispatcher's join |
| | node | 2 workers, 3 datagrams out, one of them empty, 6 budgets | the same three of liveness, `StopIsClean` |
| streams | server, stopping | 1 connection, 2 sends or disconnects of 2 threads, a socket that does not block, Stop() at any time | `SentReachesWire`, `StopReturns` but for the dispatcher's join |
| | agent | 2 connections, 4 budgets | `ConnectIsTold`, `ConnectResolved`, of Stop() the same |
| | ssl | 4 stories | `LayersInOrder`, `Settles` |
| | pack | 3 sequences of packets, 3 pauses, 2 workers, 2 callers | `LayersInOrder`, `NothingHeldBack` |
| | websocket | 5 streams, cut in every way; one upgrades with a message that has a body, which `FramesInOrder` exempts where it is cut inside that body | `LayersInOrder` |
| | release | 2 connections, 2 threads | `LayersInOrder`, `HttpSettles` (`ReleasedIsClosed`) |
| | sync | 4 budgets | `LayersInOrder` (`OwnAnswer`), `HttpSettles` (`RequestReturns`) |
| clients | client | TCP, UDP and cast, 2 callers, 6 budgets | `NothingForgotten`, `ClientCloseIsLast`, `EndReached` |
| | arq | 2 sessions of the client, 1 of the server | `Agreement`, `CompleteIsMutual`, `HandshakeResolved` |
| | kcp | 3 fragments in messages of up to 2, any losses, one duplicate | `IsMessageStream`, the refinement of `MessageStream` |

A name such as `LayersInOrder` conjoins what the modules state for themselves
(`S!WireInOrder`, `K!PacksInOrder`, `H!FramesInOrder`, ...), with their type
invariants; the comment of each says what it conjoins.

Six more runs each check one property that a comment or the interface states
and the code does not keep:

| run | property | instance |
|---|---|---|
| dispatcher_exit | `StopReturns` | 2 workers, 2 senders, 2 commands |
| tcp_server_stuck | `SentReachesWire` | 1 connection, 2 sends, a socket that takes 1 packet |
| udp_server_stuck | `ErrorIsTold` | 1 address, one sendto() that fails |
| client_early | `CloseIsLast` | a TCP client that connects asynchronously while another thread stops it |
| ssl_client_stuck | `Settles` | a client that starts its handshake by hand |
| web_socket_refused | `ErrorCloses` | one frame, refused by the listener |

### Bounds

`MaxSeq` (RingPool) stops new calls after that many puts: 3 is more than the ring
holds, so a slot is reused; the proofs need no bound. `Gens`, `SeqMod` are moduli,
not bounds: everything wraps, and the part has no other limit. `Cmds`, `Tasks`,
`Values` are each used once (values return to the thread that popped them and are
pushed again); with two commands one is handled while the other is queued, and a
callback may send it. `MaxOps`, `MaxDepth` (SemRWLock) bound the locks a thread
takes and nests. `MaxAdjust`, `MaxOps`, `MaxIn` bound calls and arrivals; two
workers and two callers make every pair of steps race. `Room` is the socket's send
buffer, `MaxWrites` is `MAX_CONTINUE_WRITES`, `MaxReads` `MAX_CONTINUE_READS`,
`PoolCap` the capacity of `m_lsFreeSocket`: 0 sends objects to the garbage queue, 1
to the pool. Budgets and stories bound what happens of its own accord; each was
chosen so that one hazard occurs with everything that can race it: a disconnect
during Connect(), an end during a pause, a Stop() during each, a second Start()
after it. `Attempts` is `m_dwDetectAttempts`. `MaxReleases` 2 is two threads
releasing one connection. `Sizes` hold packets of no, of one and of the greatest
length and one too long; `Streams` bodies longer than the mask, extended lengths, no
body, a bad request, a tunnel and an upgrade with a body. `MaxSess` bounds the sessions of a side, and
datagrams are lost while no more than `MaxLossy` sessions have been opened; those of
every session may be delayed, copied and reordered. In Kcp `MaxSent`, `MaxNet` and
`MaxDup` bound fragments, datagrams under way and copies: three fragments fill a
window of two, and one datagram lost of three is both retransmitted fast and
acknowledged out of order. `PullConns` 3 over `PullSize` 2 slots reuses a slot, and
its buffers with it.

### Fairness

Weak fairness per thread, for the steps inside a call or inside a worker's loop,
since the scheduler runs every runnable thread; never for starting a call, for a
timeout or for a spurious wake-up. kqueue hands an event to some idle worker, so
that taking one is fair for the workers together (`\E w : Take(w)`), not for each.
In `SemRWLock` a holder eventually releases. In `ThreadPool`, tasks end. Handlers
return; a peer reads what it was sent (`PeerRead`, `PeerReads`), goes on with an SSL
handshake (`PeerFlight`), and an HTTP server answers or closes (`Answer`): the
properties would be false of peers that never do. Peers need not connect, send or
close. Strong fairness is assumed in `Arq` and `Kcp` alone, of what is sent again
and again (`Retried`, `FlushAll`): a network that drops every copy of a datagram
delivers nothing. That `m_ioDispatcher.Stop()` returns is assumed nowhere: it joins workers
that may never hear of it (run dispatcher_exit), so the step by which the Stop() of TcpServer,
TcpAgent, UdpServer or UdpNode leaves it is not fair. `WaitReturns` of the lock holds because calls are bounded: a
stream of writers may starve readers, as the predicate at RWLock.cpp:169 intends.

`CHECK_DEADLOCK FALSE` is stated where a system may come to rest: nobody is obliged
to call, a budget is used up, Stop returned. Only the threads of `CasQueue` can
always go on, and its run checks deadlock. Rest in a bad state is found by the
liveness properties instead.

### Where code and documentation part

`PROJECT.json` (`findings`) quotes what comments or the interface say instead:

* dispatcher_exit: `m_evExit` is registered with `EV_CLEAR` (IODispatcher.cpp:66)
  and `Stop` writes one byte per worker. When kevent() reports them together
  only one worker leaves, and `Stop` joins the other for ever. With one worker
  `StopReturns` holds.
* tcp_server_stuck: `EVFILT_WRITE | EVFILT_READ` is `EVFILT_READ`
  (TcpServer.cpp:690). After a blocked write nothing arms the write event, and
  what Send accepted stays pending while the peer sends nothing.
* udp_server_stuck: after a sendto() that fails, the worker asks to write a lock
  it holds for reading (UdpServer.cpp:1011, SocketHelper.h:664) and waits for itself.
* client_early: `SetConnected()` writes the state without its lock
  (TcpClient.h:144), over that of a `Stop()` that came meanwhile.
* ssl_client_stuck: `StartSSLHandShake()` of a client locks `m_csSend` twice
  (SSLClient.cpp:118, SSLHelper.h:393).
* web_socket_refused: the `hr` of a WebSocket body hides the one returned
  (HttpHelper.h:280), so `HR_ERROR` closes nothing.

The same models break other statements of the documentation or of assertions.
They are no runs of their own; TLC shows each with the module's constants as
said, its specification `Spec`, and the property alone:

| module | constants | property | what happens |
|---|---|---|---|
| RingCache | 2 threads, `Size = 1`, `Gens = 4`, `SeqMod = 2` | `GetOwnObject` | between Get's test of the generation and its read of the slot the id is removed and the slot reused: the object of another connection comes with GR_VALID (RingBuffer.h:493-499) |
| IODispatcher | 2 workers, 2 senders, 2 commands, `PipeCap = 2`, `Stops = FALSE` | `PipeDrains` | merged reports leave bytes in `m_evCmd`; a full pipe blocks SendCommand. IODispatcher.cpp:51 calls it a counting event |
| SemRWLock | 3 threads, `MaxOps = 2`, `MaxDepth = 2` | `ActiveAsCommented` | two readers make `m_nActive` 2; RWLock.h:86 says -1, 0 or 1 |
| the same | `NestedReads = TRUE` | `WaitReturns` | a reader that locks for reading again waits behind a writer that waits for it (RWLock.cpp:169); RWLock.h:126 calls reading reentrant |
| ThreadPool | 1 worker, 3 submitters, 4 tasks, `WAIT_FOR`, `Finite = {s1}`, `Targets = {1}`, `MaxAdjust = 0`, `StopFrom = {}` | `WaitForReturns` | a submitter that reports its timeout took the notification another one waits for (HPThreadPool.cpp:259) |
| ThreadPool | 1 worker, 1 submitter, 1 task, `MaxQueue = 0`, `CALL_FAIL`, `StopFrom = {"done"}` | `StopReturns` | the last worker notifies `m_sem` between Stop's test and its wait (HPThreadPool.cpp:449) |
| the same | `StopFrom = {"adj_enter", "set", "done"}` | `AcceptedRuns` | Start writes SS_STARTED over a pool that Stop has emptied (HPThreadPool.cpp:85) |
| ThreadPool | 1 worker, 2 submitters, `CALLER_RUN`, `StopFrom = {}` | `RanIsFreed` | the caller runs a socket task, Submit says TRUE, nobody destroys the task (HPThreadPool.cpp:194) |
| ThreadPool | 2 workers, `WAIT_FOR`, `Targets = {1, 2}`, `MaxAdjust = 0`, `SleepEnough = FALSE` | `CleanStop` | the assertions at HPThreadPool.cpp:123-124 rest on a sleep of 15 ms |
| TcpServer | those of `TcpServerStuck.cfg` with `MaxOps`, `MaxIn` and `MaxWrites` 1 | `HandShakeFirst` | a Send from OnAccept lets a worker arm reading; OnReceive may precede OnHandShake (TcpServer.cpp:834) |
| the same | | `HandShakeErrorCloses` | OnHandShake's HR_ERROR closes without OnClose (TcpServer.cpp:838); SocketInterface.h:1486 says it causes OnClose |
| PullServer | `Remembers = TRUE` | `FetchedInOrder` | an application that keeps the id of a closed connection fetches what the next one in its slot received (TcpPullServer.h:49) |
| SslSession | a server's story with `auto |-> FALSE` | `Settles` | `StartSSLHandShake()` and the worker take `csSend` and `m_csSend` in opposite orders (SSLServer.cpp:151) |
| HttpSync | `Patient = FALSE` | `OwnAnswer` | a request that follows a timeout at once gets the OnClose of the connection before (HttpClient.cpp:169) |
| UdpNode | one empty datagram, a failing sendto(), a stop | `[]<>(stop = "none")` | what an empty datagram counts is not taken back where its sendto() fails: the worker sends itself commands and never hears of Stop() (UdpNode.cpp:633) |
| UdpNode | two sends and a block | `[]<>(sndBuff = <<>>)` | the OR of the filters again: nobody hears that the socket may be written (UdpNode.cpp:615) |
| Client | 2 callers, one budget: `start` and `pause` 2, `async`, `data` and `stop` 1 | `CloseIsLast` | a `PauseReceive(FALSE)` that outlives `Stop()` sets `m_evRecv` of the next, still connecting client: OnReceive comes before OnConnect (TcpClient.cpp:503, 331) |
| WebSocket | `Streams` as in `MCStreams`, `FramesInOrder` without its `UpgradedEarly` | `FramesInOrder` | an upgrade whose body is cut is upgraded where the piece ends, and `TWSContext` takes the rest of the body for frames (HttpHelper.h:393, http_parser.c:1703-1713) |
| the same | | `failed = 0 => pc # "idle"` | HPR_ERROR of OnHeadersComplete or OnBody of a message that upgrades does not close the connection (HttpHelper.h:393-395) |
| Pack | `PacksInOrder` also after HR_ERROR | `PacksInOrder` | `BeforeUnpause()` has left csIo when its HR_ERROR closes the connection (TcpServer.cpp:730): another worker parses on with a `TPackInfo` that was not moved on |

Where a property of a passing run exempts such a case, its comment says so by
name (`Overcounted`, `Patient`, `failed`, `UpgradedEarly`). `InDispatcherStop` is the one that
four modules share: their Stop() is in `m_ioDispatcher.Stop()`, with two workers, and may stay there for ever as
dispatcher_exit shows; `StopReturns`, `UdpStopReturns`, `ConnectResolved` and, of UdpNode,
`SentIsHandled` say nothing of a Stop() that does. What they do say is that Stop() gets that far:
connections are closed, nobody is waited for in vain.

## 4. Proofs

Each of the proof modules proves an inductive invariant or several (`IInv`, which
the component's module or its proof module defines, `Inv` and `ClientInv` of `ClientsProofs`, `MCInv` of
`ConnectionsProofs`, `PoolInv` and `StopInv` of `ThreadPoolProofs`, `DispInv`,
`NodeInv` and `UdpInv` of `ThreadsProofs`, `AgentInv` of `StreamsProofs`), and from it the properties that the runs check. TLC
evaluated each on the instance of its run before it was proved.

| module | theorems | for every |
|---|---|---|
| `RingCacheProofs` | `CacheInvariance`, `CacheTypeOK`, `CacheIdsDistinct`, `CacheNeverRefused`, `CacheLiveResolves`, `CacheIndexesExact`, `CacheCountExact`, `ThreadsAcceptOnce` | finite set of threads, size, number of generations, modulus of the cursor |
| `CasQueueProofs` | `QueueInvariance`, `QueueHeapIsSafe`, `QueueIsFifo` | finite set of threads, set of values and of cells |
| `ThreadsProofs` | `LockInvariance`, `LockTypeOK`, `LockNoLostWakeup`, `LockIsReadWriteLock`, `ThreadsCleanStop`, `ThreadsStopIsClean`, `ThreadsUdpCloseIsLast` | set of threads, number and depth of locks, with nested reads or without; finite set of workers and callers of the dispatcher, set of commands, capacity of the pipe, with Stop() or without; finite set of datagrams, any of them empty, number of reads in a row and of calls and failures of each kind; set of workers, addresses and ids of the UDP server, attempts of its detection, number of calls and events of each kind; `ThreadsCleanStop` as below |
| `ClientsProofs` | `ArqInvariance`, `ArqTypeOK`, `ArqAgreement`, `ArqCompleteIsMutual`, `ClientsNothingForgotten`, `ClientsCloseIsLast` | number of sessions a side may open, loss while any number of them is open; for the clients the set of callers and of kinds, attempts of the detection, number of calls and events of each kind |
| `TcpServerProofs` | `ServerInvariance`, `ServerTypeOK`, `ServerOwnsObjects`, `ServerCloseIsLast`, `ServerGoneWasClosed`, `ServerReadIsArmed`, `ServerSentInOrder` | set of workers, callers, connections and objects, any of the calls, number of them, of bytes in and of writes in a row, room of the socket and capacity of the pool, with Stop() or without |
| `ThreadPoolProofs` | `PoolAcceptedOnce`, `PoolCleanStop` | finite set of threads, set of submitters and of tasks, limit of the queue, policy, time limits of the submitters, counts asked for and number of calls; `PoolAcceptedOnce` with Stop() at any time, `PoolCleanStop` as below |
| `ConnectionsProofs` | `Invariance`, `PoolTypeOK`, `PoolExclusive`, `PoolNoneLost`, `PoolLockOwned`, `PoolWindow`, `ConnectionsInvariance`, `ConnectionsOwnObject`, `ConnectionsCloseIsLast`, `ConnectionsReadIsArmed`, `ConnectionsInOrder` | for the ring of `RingPool`: set of threads and of objects, size, number of calls; for the two server parts as for `TcpServerProofs`; for the pull server: set of workers and of buffers, number of slots, of connections and of bytes, capacity of an item |
| `StreamsProofs` | `StreamsConnectIsTold` | set of workers, callers and connections of the agent, number of calls and events of each kind |

The assumptions are the named ones of the modules: a size of at least one,
at least two generations, finitely many threads (RingCache, CasQueue, ThreadPool,
IODispatcher, whose counts are cardinalities) and datagrams (UdpNode), thread counts
above zero and enough threads for them (ThreadPool), marks that are no objects, ids,
addresses, workers, commands or datagrams, two sides that differ (Arq),
calls that are among the four modelled (TcpServer), a worker that is no caller (Client), items of at least one byte and an
application that does not fetch by the id of a closed connection (`~Remembers`;
section 3 shows what happens when it does). Of a client it is assumed that nobody calls
Stop() while a Start() is under way (client_early is such a Stop()), and that an
application that connects with `bAsyncConnect` does not pause: a PauseReceive() may be
overlong, as section 3 shows, and the code has no guard against it. `ClientAssumption` of
`MCClients` says both. The bounds of the runs (`MaxSeq`, `MaxOps`,
`MaxDepth`, `MaxSess`, `MaxLossy`, `MaxIn`, `MaxWrites`) play no part in any proof
beyond their being numbers.

*RingPool.* A put that has passed HasPutSpace must still be inside the window
when it moves `m_seqPut`, and a get whose CAS succeeds must take an object
nobody holds. `IInv` adds what a call remembers. `PutMemory`: the object to be put
is still its caller's, the `seqPut` it read is not ahead of `m_seqPut`, and once
space was seen it is less than `m_seqGet + m_dwSize`, which stays true since
`m_seqGet` only grows. `GetMemory`: the `seqGet` it read is behind `m_seqPut`, what
it is about to swap out is an object, and what it locked is in its hands. Each
action has a lemma; steps that touch no slot share `QuietStep`.

*RingCache.* `NeverRefused` needs that an id made in one step still resolves some
steps later. So `IInv` says who holds a slot: a thread from its compare-and-swap
to the store that publishes or frees the slot, and again from the moment it
invalidates the object (`SlotsHeld`, with the value the slot then has). Distinct
holders hold distinct slots, and none the slot of a live id
(`HoldersDistinct`); hence only the holder advances a slot's generation, and the
holder's id resolves until it does (`OwnersResolve`). `LocalStep` reduces an action
to its own thread: what the other threads hold is left alone. That an id gives
back its slot and generation is arithmetic (`MadeId`, `MadeSlot`). `CountExact`
follows by cardinalities: every step moves `m_dwCount` by what it moves the
number of full slots less the threads in between (`CountStep`); the count is not
negative because those threads inject into the full slots (`BalanceBounds`).
That generations wrap is covered: an id may come back when its slot was used
256 times, but only after the earlier connection with it is gone.

*CasQueue.* A cell is free, in the chain, in the hands of the push that made it, or
in those of the pop that took it out, and never in two of these (`ChainApart`,
`MadeApart`, `PoppedApart`): this is what makes `delete` safe although the cell
may be allocated again at once. What is hard is `prev`, the old `m_pTail` that a push
has swung away from and links only later: a pop could have deleted it. `LinksKnown`
says that it is still in the chain, just before the push's own node, and that the
link between the two is the missing one; so `m_pHead` cannot have moved over it, since
Move and GcPeek go on only where `next` is set. The chain then changes in two
ways only, at its end by a swing and at its front by a move, and `ChainIsLinked`
follows. `Counted` says what `m_iSize` is at any time: the length of the chain, less
the pushes that have not counted yet, plus the pops that have not. `QueueIsFifo`
maps each step to one of `FifoQueue`: a swing is the abstract push, linking makes
its element visible, a move is the pop, the two counts settle; all else stutters.

*SemRWLock.* `WaitersCounted` and `LocksCounted` say what the counters count: the
waiting threads, and in `m_nActive` the read locks while nobody owns the lock, or
below zero the write locks of the owner, who is then alone. Without them a
counter says nothing about who holds the lock, and a step of ReadDone could not
be shown to free it for the right thread. The counts are cardinalities of
finite sets, of waiters and of pairs of a thread and a lock number, that change by
one element per step. `LockIsReadWriteLock` maps every step to one of
`ReadWriteLock` or to a stutter.

*Arq.* A side is ready for the conversation that its peer's datagrams told it of, and
those may come from a session that is over. `learned` and `fired` record which pairs of
conversations a side has stored and reported. `Inv` says that a side has no
session or the one opened last (`Current`), that a session stores one peer in
its life (`LearnedOnce`), that who is ready has fired (`ReadyFired`), and what a
datagram says: its sender had stored it, or fired it, when it was sent
(`Truthful`). Since `learned` and `fired` only grow, datagrams stay truthful whatever
becomes of their sender, and loss, copies and any order of delivery leave the
invariant alone. `FiredLearned`, from which `Agreement` follows, is then what a side may
conclude from a truthful datagram that names its own session, and `CompleteIsMutual`
what it may conclude from one that reports completion.

*TcpServer.* Each property needs those before it, so `IInv` has layers. `Held`: a
thread's object stays the object of the connection the thread means, because
an object is taken anew only when `Settled`. `Life`: a valid object is in use and its
socket open, it is published or a worker is about to publish it; two
workers never close one object (`ClosingOne`), since whoever turns validity off does so
once, under csIo and csSend; `UnderIo` says who holds csIo. `Told`: a
connection has had no OnClose while its object is valid or its closer has still to
fire it; whoever took validity away fires it once, and nobody reads without
validity, so no OnReceive follows. `Ordered`: what Send accepted is the wire, then
the packet in the hands of the one worker that writes, then the buffer, numbered
without a gap; a worker that puts a packet back in front must be the one that took
it. `StaysArmed`: a valid object that is not paused is armed, or some worker, call or
command will arm it; here a command is removed from the queue only by a
worker that then holds the object. `StopOrder` says that nothing is published once
the listening socket is closed. `WorkerIInv`, `ClosingIInv` and `CallIInv` state
what an action of a worker, of a closing worker and of a caller must leave alone; each action
shows that it does, and then the few conjuncts that it disturbs.

*ThreadPool.* `PoolInv` says where a task is (`Placed`): in the queue, in a worker's hands
or among those run or destructed, in one of these, and in one exactly if it was accepted;
no two positions, workers or submitters have the same task (`Apart`), and a
submitter's task is not accepted yet (`Unaccepted`), so that `Accept` and `CallerRun`
never take a task twice. A step that leaves the tasks where they are
is dealt with once (`TasksStayInv`). `StopInv` is about Stop() and holds only if
Stop() comes when Start() is over and sleeps long enough (`SleepEnough`,
`StopFrom = {"done"}`; section 3 shows what happens otherwise). `Phases` says which of Start, Stop
and AdjustThreadCount may be where. `Surplus` counts: the threads
that are more than `m_dwThreadCount` are not more than the workers that are awake and
the notifications still owed, so that a thread that is asleep is never superfluous for
good. A thread that leaves saw an empty queue; since Stop() slept until nobody was
leaving, the first to leave after it saw the queue empty after the state said
STOPPING, and Submit adds nothing from then on (`Emptied`). That is why `tasks` is empty
when the last thread has gone, although neither test is under the other's lock.
`ThreadsAcceptOnce` and `ThreadsCleanStop` take both to the runs, in whose modules
the pool is one instance among others.

*IODispatcher.* `DispBytes` says that each report of a pipe, waiting or in a worker's
batch, has a byte of its own: `kevent()` merges reports and gives the merged one to one
worker, so there are never more reports than bytes, and the branches of
ProcessCommand and ProcessExit for an empty pipe are dead. `DispPlaced` says where a
command is: not sent yet, in a caller's hands, in the queue, in a worker's hands, handled or
destructed, and in one of these only. `DispCounted` says what `m_iSize` is at any time, as
in CasQueue, and `DispCalls` ties an element that is not linked to the one call that is
about to link it. `DispStages` is about Stop(): when it drains the queue the callers
are gone and the workers have been joined, so no call is half done, `m_iSize` is the
length and every element is linked (`AllLinked`). That is why the loop of PopFront,
which ends at the first element it cannot take, leaves none behind.

*UdpNode.* `NodePlaced` says where a datagram is: in `m_sndBuff`, in the hands of one worker or
told of, and while the node runs in one of these if Send() took it. That a worker puts a
datagram back in front does not matter to it, but that it is the only one to have it
does. `NodeCounted` is an inequality: what the list counts as extra length covers the
empty datagrams in the list and in the workers' hands. It would be false as an
equation, since a sendto() that fails takes nothing back (section 3), and it is what
makes a list with datagrams pending, whichever of them are empty. `NodeStages` says
what each step of Stop() may rely on: from "shutdown" on all workers have left, so
none has a datagram to put back after ReleaseFreeBuffer.

*UdpServer.* A connection is found by its address, and its lcIo keeps who makes it, who
reads for it and who closes it apart. `UdpWorker` says what a worker may count on from one
step to the next: who makes a connection or refuses it has lcIo for writing, who fires
OnReceive has it for reading and OnAccept has returned; nobody fires a callback for
a connection that is not valid, and who fires OnClose has made it invalid. `UdpConn` is the
same seen from the connection: a writer of lcIo is at a step that needs it, a valid
connection has had no OnClose, and unless its maker still has lcIo it was accepted.
`UdpMapped` says that two workers never close one connection, and that an id in use is
what `m_mpClientAddr` leads to from its address, or is about to be entered by
its maker; so the erase of `CloseClientSocketObj()` never takes the entry of
a later connection with the same address.

*TcpAgent.* What makes `ConnectIsTold` hard is that a connection may be published, have events
and commands and even be closed by a worker before Connect() returns. `AgentThread` says what a thread at
work for a connection may count on: from the step that takes csIo to the one that frees it
the object names that thread, what was heard fits the step it is at, and Connect() has not
returned while its thread has csIo. `AgentConn` says the same of a connection whose csIo is free, by what
Connect() said of it: nothing heard if it said nothing yet, OnConnect and a refusal at most
if it failed, or an accepted OnConnect and no OnClose, and otherwise a stream that is open or ended. `AgentStep` then reduces
an action to its thread and its connection: others at work for the same connection can only be waiting for csIo.

*Client.* What Stop() takes apart and what a late step of someone else still does are the
difficulty: any caller, the worker itself and a Start() that failed may stop, the three events
belong to the component and not to the connection, and a client is started again. `ClientCalm` says
that one thread at a time starts or stops, since CheckStarting and CheckStoping
change `m_enState` under its lock; `ClientStart` and `ClientStop` what that thread may
count on, and about the worker beside it: there is none before it is created, and whoever resets the
component has joined it. `Told` are the stops that have set `m_evStop` and wait; outside of
them the event is not set (`ClientWorker`), so that a client never starts with the end of the
one before. `ClientHeard` fits what was heard to `m_bConnected` and to the
threads that are in OnConnect. `ClientArmed` is the claim of `NothingForgotten` about a worker in its loop: what is to be
sent or received is armed, or its event is set, or a caller is about to set it.
`ClientNet` separates the clients that connect asynchronously from those that may be
paused, so that no event makes the worker read before OnConnect. `ClientOrder` is to the
list of packets what `Ordered` is to a server's, with the one packet in the worker's hands (`Held`),
and lets the notification of a cast's end follow it; `ClientFails` bounds what the
detection counts. `ClientAside`, `ClientWalks` and `ClientLeaves` deal
once with the steps of a caller, of the worker in its loop and on its way out.

*PullServer.* `PullInv` says who serves which connection and that two living
connections have two slots (`Serving`, `SlotsApart`), that the buffer found by
an id is the one the id belongs to, and a buffer with an id is in the cache or in a
worker's hands (`Identified`), that a buffer without one is empty (`Emptied`), and
where the bytes are (`Delivered`): the buffer's length, what the worker has
still to add and what was fetched sum up to what was received (`Accounted`), and the
items hold exactly the bytes between the last one fetched and the last one added,
each item starting where the one before it ends (`Chained`). Adding bytes touches the
last item only and taking them the first, so both are shown without induction
over the list (`CatChained`, `DropChained`).

*MCConnections.* The parts share no variable, so `MCInv` says of the part that runs
what its own proofs say; `TcpServerProofs` is instantiated twice, as the server is, and
its lemmas are used under the substitution.

Checked by TLC only: `Kcp` and its refinement of `MessageStream`, `Pack`, `SslSession`,
`WebSocket`, `HttpRelease` and `HttpSync`; in terms of the runs, of the safety properties
`LayersInOrder` alone, for which no inductive invariant has been worked out yet. All liveness is: fairness and ENABLED are
beyond the prover, and so is induction over data with an operator parameter. No
module uses RECURSIVE, so all of them can be proved about.

## 5. Assumptions and what is left out

* Memory is sequentially consistent: the code uses full-barrier intrinsics for
  the CASes, and plain volatile accesses beside them.
* DWORD cursors of `CRingPool` do not wrap within one call.
* A pointer found by id is not used longer than `m_dwFreeSocketObjLockTime`.
* File descriptors are not numbers that the system reuses: a kevent on a
  descriptor closed meanwhile has no effect in the model. In the code HandleAccept
  and OnAfterProcessIo may arm one that belongs to another connection
  (TcpServer.cpp:842).
* The sleeps of the several `Stop()` (15, 30, 70 and 100 ms) outlast what they wait
  for. A DNS lookup longer than `WaitFor(100)` of TcpAgent.cpp:186 leaves a
  connection, a delayed Send() uses a pipe that UdpNode.cpp:255 has deleted.
* OpenSSL calls on one session are single steps. In the code SSL_read() runs without
  the lock that SSL_write() takes (SSLSession's `m_csSend`): undefined.
* A pulled connection is fetched from in callbacks only: beside Cat() or a close on
  another thread `TItemList` is undefined (TcpPullServer.h:79).
* A packed connection is resumed after its handshake only: before it there is no
  `TPackInfo` (TcpPackServer.h:122).
* Applications leave a connection alone before its SSL handshake when it starts by
  itself: Send() would send what it is given as it is (SSLServer.cpp:82).
* An HTTP server answers each request at most once: a second answer, or one with status 1xx, would
  be taken for that of the next request (HttpClient.cpp:187). HR_ERROR of
  OnConnect closes without OnClose, and Start() waits for its timeout (HttpClient.cpp:163).
* `HttpRelease` leaves an entry that Release() pushes after Stop() has emptied the
  queue to the next start, where the code's VERIFY fails (HttpServer.cpp:110); a
  packet in a worker's hands is not pending, so that the cleaner may cut it
  (HttpServer.cpp:179).
* `UdpServer` and `UdpNode` arm what the code arms: after a datagram that blocked,
  reading ends with the next report (UdpServer.cpp:1021, UdpNode.cpp:615); their
  liveness properties count what was received and asked for. Error codes that
  `SendPackets` returns where it means FALSE (UdpServer.cpp:1101) are read by nobody in the model.
* One Start() of a node at a time: a Stop() during it is undone (UdpNode.cpp:41).
* ikcp_input() does not compare the conversation (ikcp.c:931); one session of KCP is
  modelled. Sequence numbers do not wrap at 2^32, the window fits its 16 bits.

Not modelled, and why:

* Interfaces (`SocketInterface.h`, `HPSocket.h`), the classes that only forward to
  another, the C interface (`4C/`) and the factories: they hold no state of their own. They are
  a fifth of the lines.
* http_parser, cryptography, compression, encodings, and the formatting of
  headers, cookies and addresses: pure functions of text. http_parser is an oracle
  that says where a message ends.
* Options, statistics, timers of the dispatcher, `SendCommands`, failures to
  allocate or to create a thread, Stop with a limit, DisconnectLongConnections and
  DisconnectSilenceConnections of TCP, SendFile, SSL contexts and certificates.
* `CMutexRWLock`: no build file defines `_USE_MUTEX_RW_LOCK`.
* Requests and responses of HTTP beyond what Upgrade, Release and the synchronous
  client depend on; the pull client; tests and demos.

## 6. Plan

Done, in this order: RingPool and RingCache with their proofs, CasQueue over
FifoQueue, SemRWLock over ReadWriteLock with its proof, IODispatcher, ThreadPool,
TcpServer; then Arq with its proof, Kcp over MessageStream, UdpServer, TcpAgent,
Client, SslSession, Pack, WebSocket, HttpRelease, UdpNode, HttpSync, PullServer; then
the proofs of CasQueue with its refinement, of TcpServer, of PullServer and of the
whole of MCConnections, of ThreadPool, IODispatcher, UdpNode, UdpServer, TcpAgent and Client.

Next theorems: the parts of `LayersInOrder`, one at a time, from `Pack`; then the steps of
`Kcp` as steps of `MessageStream`.

Next modules: the pull client; requests and responses of HTTP over one connection;
Stop with a limit and the disconnection of long and silent connections in `TcpServer`.
