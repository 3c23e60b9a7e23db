# TLA+ verification of DCJ_RTC

DCJ_RTC is a small WebRTC media system: a browser page asks a Go web service to
publish a stream, the web service asks a C++ media server over a private TCP
protocol, and the media server answers with an SDP offer. This directory holds
TLA+ models of the parts that carry the logic, TLC configurations that check
them on small instances, and TLAPS proofs for every instance.

Paths below are relative to the repository root.

## 1. Inventory

| Component | State | Operations | Talks to |
|---|---|---|---|
| Lock-free queue, `xrtc_server/src/base/lock_free_queue.h` | linked list `first`, `divider`, `last`; `_size` | `produce`, `consume`, `empty`, `size` | used by the signaling workers (`_q_conn`) and the rtc workers (`_q_msg`), always with a wake-up pipe |
| Event loop, `base/event_loop.cpp` | libev loop, one watcher per descriptor or timer | start, stop, io events, timers | runs all callbacks of one thread, one at a time |
| Sockets, `base/socket.cpp` | none | create, accept, read, write | kernel |
| Signaling server, `server/signaling_server.cpp` | listening socket, `_next_worker_id`, workers, notify pipe | accept and dispatch, stop, join | hands descriptors to the signaling workers |
| Signaling workers, `server/signaling_worker.cpp`, `tcp_connection.*` | `_conns` by descriptor, `TcpConnection` objects with timer and query buffer, queues of new connections and of answers | new connection, read, parse, request, write, time out, close, deliver an answer | RtcServer (requests), rtc workers (answers) |
| RTC server, `server/rtc_server.cpp` | message queue under a mutex, pipe, certificate, rtc workers | submit, check or renew the certificate, forward by CRC32 of the stream name | rtc workers |
| RTC workers, `server/rtc_worker.cpp` | lock-free message queue, pipe, stream manager | process a push, answer | the signaling worker that asked |
| Streams, `stream/` | `_push_streams` by name | create a push stream | peer connection |
| Peer connection and SDP, `pc/`, `ice/` | session description | make an offer, print it | - |
| Message format, `base/xhead.h`, `base/xrtcserver_def.h` | header, `RtcMsg` | - | shared by all of the above |
| Process, `main.cpp` | the global servers | initialise, start, SIGINT/SIGTERM | all |
| Logging, `base/log.cpp` | two message queues, a writer thread | log, rotate, stop | all |
| Configuration, `base/conf.cpp` | a record read once | load | - |
| Web gateway, `signaling/src` (Go) | round-robin selector, one goroutine per HTTP request | push request, push page, static files | media server over short TCP connections |
| Push page, `signaling/static/js/push.js` | peer connection, local stream, offer | start, stop, answer | gateway, browser extension |
| Screen-share demo, `screen_share/` | two local peer connections, extension ports | start, call, hang up | - |

How a push request travels: browser -> `pushAction.Execute` -> `xrpc.Client.Do` ->
accept thread -> signaling worker (`_read_conn`, `_process_request`) -> `RtcServer`
-> `RtcWorker` chosen by the stream name -> `RtcStreamManager` / `PeerConnection` ->
the same signaling worker (`_response_server_offer`, `_write_conn`) -> gateway ->
browser.

Every hand-over between C++ threads has the same shape: put the item into the
receiver's queue, then write one integer into the receiver's pipe with a
*blocking* `write`; the receiver's event loop takes one item per integer.

### What is hard here, and what correctness means

- **Queue.** `produce` and `consume` run in two threads over plain pointers.
  Correct: no access to a deleted or invisible node, no leak, a `consume` made for
  a token always finds its item, items come out in order.
- **Pipeline.** Three threads in a cycle, queue and pipe updated separately, writes
  that block, a certificate renewed under way. Correct: one token per item, no null
  pop, per-stream order, answers back to the asking worker, no request stuck, no
  circular wait below a bound on the load.
- **Connections.** Descriptors and heap addresses are reused, a descriptor is closed
  twice, answers come back late, timers fire in between. Correct: the table never
  dangles, descriptors are returned, an answer goes to the client that asked.
- **Reading and writing.** Requests come in pieces, answers go out in pieces, one
  watcher with a mask serves both. Correct: each complete request is handled once, as
  soon as it is complete; answers are sent whole and in order; nobody waits for ever.
- **Streams and offers.** Correct: one stream per name; every part of an offer is
  consistent with the others and with the request.
- **Gateway.** Goroutines share the selector; a call fails in many places; a media
  server may never answer. Correct: one reply per request, no connection left open,
  every request ends.
- **Start and stop.** A signal may come at any moment and on any thread; the handler
  logs; pipes are closed while other threads still write to them. Correct: a QUIT ends
  the process, what was handed to a worker is handled first, nothing kills the process.
- **Log.** Two queues, one string stream, two files that may be moved away and streams
  that may fail unnoticed. Correct: no message twice, out of order or in the wrong file,
  none lost but to a stream that has failed, and the thread catches up.
- **Push page.** Callbacks fire after the state they need has gone or been replaced.
  Correct: stop reaches everything that has been opened, answers belong to their offers.

`PROJECT.json` lists the hazards at their lines, with the properties that cover them.

## 2. Modules

| Module | Models | Composition |
|---|---|---|
| `FifoChannel` | abstract: a channel that hands items over once, in order | implemented by `LockFreeQueue` |
| `LockFreeQueue` | `lock_free_queue.h` with the wake-up pipe, under weak memory | |
| `RtcBackend` | abstract: what a signaling worker is promised by everything behind `RtcServer::send_rtc_msg` | implemented by `RtcPipeline`, instantiated by `SignalingConn` |
| `RtcPipeline` | signaling workers, `RtcServer`, rtc workers and the accept thread, with queues, pipes and the certificate | queues are sequences, justified by `LockFreeQueue`'s refinement |
| `SignalingConn` | accept thread, connection table, `TcpConnection` objects, timers, descriptors | uses `RtcBackend` for the rest of the server |
| `QueryBuffer` | `_read_conn` and `_process_query_buffer`, byte counts only, with sds' `sdsMakeRoomFor` and `sdsIncrLen`; all lengths are `int`s of a given width and wrap around | the detail behind `SignalingConn`'s `Read*` actions |
| `ReplyWriter` | `_add_reply`, `_write_conn`, `sock_write_data`, `start_io_event` and `stop_io_event` of one connection, byte by byte | extends `QueryBuffer` to both directions of a connection; the detail behind `SignalingConn`'s `Write` |
| `PushOffer` | `create_push_stream`, `create_offer`, `to_string` | the detail behind `RtcPipeline`'s `RwAnswer` |
| `PushGateway` | the Go service: `entry`, `Execute`, `Call`, `Do`, the selector | the client of the media server |
| `PushPage` | `push.js` and the capture extension's two scripts | extends `PushGateway`: the page is its client |
| `XrtcLog` | `OnLogMessage` and the log thread (queue, string stream, file), log rotation, opens and writes that fail, locks the signal handler may wait for | |
| `Lifecycle` | `main`, start, notify, `_stop` and join of `SignalingServer` and its workers, the signal handler | extends `XrtcLog`; requests and answers are counts |
| `*Proofs` | TLAPS proofs about the module they are named after; `ReplyWriterProofs` also those about `QueryBuffer` alone | |
| `MC*` | constants and symmetry for TLC | |

State and actions carry the source's names where TLA+ allows it (`woeker` and
`create_push_stream` included). The `map` in `PROJECT.json` gives the lines behind
each definition. Operators that no action uses and whose names say what they get
wrong (`TrimToLast`, `EndCloseKeepsEntry`, ...) are deliberate faults: put in place
of the definition after them they make a property fail, which shows that it
constrains the code.

### Modelling decisions

- *Granularity.* A thread's step is what it does between two points at which another
  thread can see or change shared state. In `LockFreeQueue` that is one load or store;
  in `RtcPipeline` the queue operation and the pipe write are two steps; in
  `SignalingConn` a callback is one step, except that a close is two (the two
  `close(fd)` calls). In `ReplyWriter` each turn of `_write_conn`'s loop is a step. In
  `Lifecycle` the two `close` calls of a pipe are two steps, since a write in between
  gets SIGPIPE; creating the server's thread and assigning `_thread` are two. In
  `PushPage` a step is one callback, which is how a page runs. In `XrtcLog`
  emptying a queue into the string stream (under the lock) and writing the stream to the
  file (outside it) are two steps, so that threads log, files are moved and the process
  ends in between; the handler may interrupt the log thread when only a part of the
  queue has gone to the stream.
- *Memory.* The queue's pointers are neither atomic nor locked. The other thread may
  see a store late and in any order until the next sequentially consistent operation
  (`++_size`, `--_size`) or pipe write. `NextReadable` and the `saw*` variables make
  a load of something not yet visible a fault. The destructor is left out: `main`
  never deletes a server.
- *Missing return values.* `_process_request` and others fall off the end of a
  non-void function. The model lets the caller see any value. A compiler that turns
  this into a trap would stop the process instead.
- *Kernel.* Descriptors are given out lowest first. Reads and writes fail when the
  peer has hung up or the descriptor is closed; `EAGAIN` on a read (no data after a
  readiness event) has no effect and is left out. Writes in `SignalingConn` are
  whole; `ReplyWriter` has the partial ones. A write that returns `EAGAIN` changes
  nothing and is a stuttering step of the loop, which is then held up until the client
  reads. SIGPIPE is nowhere ignored, so a write to a gone peer may end the process.
- *Signals.* Any thread may run the handler. If that thread is inside `RTC_LOG`, or is
  the log thread with a queue's lock, it waits for ever for a lock of its own (`stuck`,
  `held`); the main thread can be there only in the handler of another signal. After a
  pipe is closed a late write fails with `EBADF`; that its number might have been
  reused by then is left out.
- *Held workers.* A callback need not return: `_process_query_buffer` does not once a
  request has been followed by 65535 bytes (lines 272-295), `_write_conn` does not while
  a client with an answer queued does not read (47-65), and a `notify` waits for room in
  a pipe. `QueryBuffer`, `ReplyWriter` and `RtcPipeline` have the three loops in detail;
  `SignalingConn` and `Lifecycle` have a set `wedged` of workers that such a loop holds.
  `Wedge` may put a worker there whenever it serves such a client, and nothing is bound
  to let it go again (`Unwedge` has no fairness). `Trickle` lets a client send byte after
  byte, each of which sets `last_active_time` (250), so that its connection never counts
  as idle.
- *Lengths.* `read_len`, `qb_len` and sds' `len` and `free` are `int`s: a body length
  beyond `INT_MAX` becomes a negative read length, and a buffer of more than `INT_MAX`
  bytes has a negative length, for which `sdsIncrLen` writes before the buffer (the
  process may die or go on) and which the parser, comparing it as a `size_t`, takes for
  enough.
- *Log streams.* A stream whose `open` or write failed stays unusable and swallows what
  it is given until its file is found missing again and opened anew. A write that fails
  may have taken a part of the text.
- *Heap.* `new TcpConnection` may return any address that is not in use, in
  particular one just freed.
- *SDP text.* A text is what its reader takes from it: groups, sections, payloads,
  and the set of attribute lines. Random ICE credentials are one value.
- *Deadlines* in the gateway may pass at any time, also when the data are there.

## 3. Runs

| Run | Question | Result |
|---|---|---|
| `queue` | is the queue safe, leak-free, FIFO, and is every item taken? | holds (4 items) |
| `pipeline` | do tokens and messages stay in step, streams in order, answers with the right worker; is every request settled? | holds |
| `blocking` | can the blocking writes lock the threads up? | not below the stated load; with one request more they can |
| `conn` | is the table sound, are descriptors returned, when may an answer go astray? | holds, given the conditions in `UnambiguousAnswers` |
| `conn_liveness` | does every descriptor come back in the end? | holds, with the conditions below |
| `query_buffer` | is a request handled once, however it is cut; are answers sent whole, and do they leave? | holds, with the conditions below |
| `push_offer` | are offers consistent, and do they fit the answer's buffer? | holds |
| `gateway` | replies, connections, shares and termination in the Go service; does the page's stop reach everything, do its answers belong to their offers? | holds, as long as pushes of one page do not overlap |
| `shutdown` | does a QUIT stop the server, in order and quietly; what does the log lose meanwhile? | holds, with the conditions below |
| `certificate` | is the certificate a message points to still held when it is used? | **violated** |
| `double_close` | does an answer reach the client that asked? | **violated** |
| `stream_map` | is there at most one stream per name? | **violated** |

The three violations are recorded under `findings` with the comment each one
contradicts:

- `certificate`: `RtcMsg` carries `_certificate.get()`. The next message may find the
  certificate expired, replace and thereby free it before the rtc worker has used the
  pointer.
- `double_close`: `_close_conn` closes the descriptor and `~TcpConnection` closes it
  again. If the accept thread was given it in between, a stranger's connection is
  closed, and its descriptor goes to a third client.
- `stream_map`: `create_push_stream` looks for an old stream of the same name in a
  map that nothing ever fills.

Several properties hold under a condition that the code does not ensure. Each
condition names what goes wrong without it:

- `UnambiguousAnswers` (`~reused`): after a close, the next connection can get the
  same descriptor and the same heap address, and the answer to the old request is
  queued on it.
- `ParsedExactly` (`arrived < ShortLink + body_len`): once 65535 bytes more than the
  body have arrived the same request is handled again and again and
  `_process_query_buffer` never returns. A `body_len` beyond `INT_MAX` makes a
  negative read length, which aborts the process or closes the connection. `arrived >
  MaxInt`: once more bytes have come in than the buffer's `int` length can count, a
  request may be taken to be complete too early or be handled again; so header and body
  that together exceed `INT_MAX` are not handled exactly.
- `DescriptorsReturned` (`wedged`, `trickling`): a worker that is held in a callback runs
  no timer and closes nothing, and a client that sends a byte in time keeps its
  descriptor. The property is stated for each worker and client: only the worker that has
  the descriptor must not be held for good and only the client behind it must stop
  trickling, so that other workers and clients cannot do it any harm. TLC finds a
  counterexample when either condition is left out.
- `ReplyIntact` (`~torn`): after a partial write `_write_conn` sends the beginning of
  the answer again and leaves its end out.
- `ReadsGoOn`, `AnswerLeaves` (`stalled`): a client that stops reading keeps its worker
  in `_write_conn`, with all the worker's connections.
- `QuietStop` (`sigs > 1`, `late`): a second signal or a late answer between the two
  `close` calls of a pipe kills the process with SIGPIPE.
- `QuitIsHonoured` (`srvSet`, `stuck`, `wedged`): a QUIT that the server's thread reads before
  `start` has assigned `_thread` is lost; a handler that waits for its own thread's
  lock never writes it, and stops everybody who logs; a worker that is held in a callback
  for good never reads QUIT, and `join` waits for it for ever.
- `LogExact` (`lost`): what goes to a stream that has failed is gone. It counts text in
  the string stream and the queues as kept, which it is in a living process: `main`
  returns without stopping the log, so what is there when the process ends, or when the
  log thread is jammed with a queue's lock (`held`), is never written.
- `LogKeepsUp` (`held`, `up`): a log thread jammed with a queue's lock stops, and so does
  the log at the end of the process. It says that text leaves queue and stream and that a
  moved file's stream is replaced or found unusable, not that the new open succeeds.
- `StopReaches`, `AnswersItsOffer` (`overlapped`, `denied`): a second push before all
  of the first has ended leaves the first one's capture and peer connection out of
  reach and may set its answer on the wrong peer connection; a refused microphone
  leaves the screen captured.

Smaller things the models show without a property of their own: `generic_accept`
closes the listening socket when `accept` fails (`AcceptFails`); `_new_conn` leaves an
object behind when the peer's name cannot be had (`NewConnFails`); `Execute` goes on
after a uid that does not parse, so two JSON documents are written and the request
still reaches the media server, and a uid of 0 panics (`ParamErrors`, `ZeroUid`); two
overlapping calls of `PickServer` may be given the same server (`FairShare`'s
condition).

### Bounds, and why they are enough

- `queue`: 4 items let the producer trim zero, one and several nodes and run up to
  four items ahead. The theorems remove the bound.
- `pipeline`: 2 signaling and 2 rtc workers, 3 requests of which two name the same
  stream and can come through different workers, 2 certificates (one renewal), 1 new
  connection, pipes of one token so that every write blocks in some behaviour.
- `blocking`: one worker of each kind, since more workers only add threads outside the
  circle; pipes of two tokens; 6 requests and 3 connections, one request below the
  second bound of `NoCircularWait`. Making pipes one token smaller (the fault
  `PipeFullOneEarly`) already gives a circle, so the bound is tight. Real pipes hold
  16384 integers.
- `conn`: 3 clients on 2 descriptors and 2 workers: a descriptor is reused by the
  same and by another worker, twice in a row and within a close, and `accept` runs out
  of descriptors. Clients and addresses are symmetric. No client is `Unruly` there:
  holding a worker or trickling only takes steps away from a safety property (the proofs
  allow for it). In `conn_liveness` 2 clients on one descriptor, without symmetry, may
  both flood, stall and trickle.
- `query_buffer`: a header of 2 bytes, a mark of 4 instead of 65535, `int`s up to 7 and 9
  bytes in all. A body of 0 is rejected; one of 1 passes the mark long before an `int`
  overflows; with one of 5 the buffer's `free` wraps around and its length does before
  the mark is reached; header and body of 6 together do not fit an `int`, and neither
  does a body of 8. `SDS_MAX_PREALLOC` is 3, so that the buffer grows by doubling and by
  the fixed amount. `MaxRequests` caps the endless loop behind the mark. Two answers of up
  to 2 bytes and a send buffer of 1, so that writes are whole, partial and held up, and
  one answer follows another. The theorems about the reading side hold for all sizes.
- `push_offer`: 2 names, 4 requests; an offer depends on one request only.
- `gateway`: 2 requests, 2 servers: two calls of `PickServer` overlap, the selector
  wraps around, and a second push of the page comes before, during and after the end
  of the first. The theorems about the gateway hold for any numbers.
- `shutdown`: 2 workers and, in any mixture, 3 events from outside (`MaxEvents`:
  connections, signals, messages logged, files moved away): one connection for each
  worker and a signal, a signal and another in every phase of the stop, three messages
  of either severity, two with a rotation before, between or after them. Besides, clients
  may hold and release the workers, and every open and write may fail. The theorems
  remove the bound.

All runs end in states where nothing is left to do, so deadlock is not an error:
`EveryItemTaken`, `EveryRequestSettled`, `DescriptorsReturned`, `ReadsGoOn`,
`AnswerLeaves`, `EveryRequestEnds`, `QuitIsHonoured` and `LogKeepsUp` say that they do
not end too early.

### Fairness

- Queue, pipeline: each thread runs, so weak fairness of each thread's steps; the
  memory system lets stores through eventually. Nothing forces a client to send, a
  certificate to expire or a connection to arrive.
- Connections: an event loop that is not held in a callback runs (`WF(Event(w))`), and a
  repeating timer of a connection that is idle is served (`WF(Timeout)`). Both steps are
  disabled while the worker is `wedged`, `Timeout` also while the client trickles, and
  nothing is fair about either: a worker may be held for ever and a client may trickle
  for ever, which is why `DescriptorsReturned` names these cases. Clients need not do
  anything, and neither need the backend.
- Query buffer and reply writer: the worker runs, and each side of the connection gets
  its turn, since libev serves both kinds of event; a client that has not stalled
  reads. It need not send, and it may stall or hang up at any time.
- Gateway: goroutines run and deadlines pass (`WF(Handler(r))`); the media servers
  owe nothing, and nothing is asked of the page, its user or the browser.
- Shutdown: main, the server's thread, the log thread and each worker that is not
  `wedged` run. Nothing makes clients send, rtc workers answer, signals arrive or messages
  be logged, and nothing lets a held worker go: `QuitIsHonoured` assumes that from some
  time on none is held.

## 4. Proofs

Proved with TLAPS (SMT, Zenon, LS4), for every value of the constants that satisfies
the named assumptions.

**`LockFreeQueueProofs`** from `MaxItemsAssumption` (a natural number):
`TypeCorrect`, `NoFault` (`MemorySafe`), `WakeupsFindItems` (`NoMissedWakeup`),
`NoLeak` (`NothingLeaks`), `SizeIsBacklog` (`SizeCountsBacklog`) and `Refinement`
(`IsFifo`, i.e. the queue implements `FifoChannel`). None of these is inductive
alone. The invariant adds the order of the pointers (first <= what the producer sees
of divider <= divider <= what the consumer sees of last <= last), what is visible at
each program point, and *Accounting*: of the items released so far (past `++_size`,
hence visible), the ones beyond `divider` are as many as the tokens in the pipe, plus
the one whose token is yet to be written, plus the one whose token has just been
read. It follows that a consumer that has read a token finds `last` beyond `divider`
and steps to a node it can see.

**`ReplyWriterProofs`**, the parser alone, from `SizesAssumption`: `TypeCorrect`, `RequestsExact`
(`ParsedExactly`), `ReadsAlwaysFit` (`ReadsFit`). The invariant describes the
three stages of a connection (header not parsed, body awaited, request handled) by
`currentState`, `bytes_expected`, `bytes_processed` and `requests`, and how full the
buffer is when control is back in the event loop. That a body longer than an `int` is
never handled needs two more facts: the buffer holds less than two headers while the
header is awaited, and nothing is read while the read length is negative. For lengths that
wrap around it says that the length stands for no more bytes than have arrived
(`Unwrapped`), and that `free` is what is left of the memory, cut down to an `int`: a
negative `free`, which `sdsMakeRoomFor` takes for room enough, does stand for more bytes
than a read can ask for (`ReadRoom`).

**`ReplyWriterProofs`** from `WriterAssumption` and `SizesAssumption`, both
directions of a connection (`IoSpec`): `RepliesArriveIntact` (`ReplyIntact`),
`MaskFollowsQueue` (`MaskMatchesQueue`), and `RequestsExactWithReplies`
(`ParsedExactly` and `ReadsFit` with answers, timeouts and failing writes in
between, which is the specification the run checks). `MaskMatchesQueue` speaks of the
time between callbacks only; the invariant says what the mask is while `_write_conn`
runs and while a request is parsed. For `ReplyIntact` it says that the queue holds the
answers from some point on, in order, and that the bytes sent end with the last byte
of the answer before that point. `WholeAnswer` is the lemma: a whole answer behind
such a stream gives such a stream. "The answers, one after the other" is stated by the
byte that follows a byte (`NextByte`), not by concatenating all answers, since what a
recursive function computes cannot be proved here; TLC has found both forms equal on
every state of the run.

`ReplyIntact` says nothing once a `write()` has been partial. `AnswersCounted` does:
even then the stream can be cut into pieces, one for each answer that has left the
queue and in their order, none shorter than its answer, with `cur_pos` bytes of the
answer under way behind them (`Counted`). So what is lost is the content of an answer,
never its place: answers are not interleaved, and `_write_conn` drops none before
`write()` has taken as many bytes as it has. The proof needs `Fresh`, that `_write_conn`
never begins with a count left over, which is why `cur_pos` may be a local variable.
`CutGrows` is the lemma for a `write()`: it either lengthens the piece under way or ends
it. The pieces are given by where they end, so that nothing has to be summed up.

**`PushOfferProofs`** from `ConstantsAssumption`, for any names and any number of
requests: `PayloadsInvariant` (`PayloadsDescribed`), `ReceivesInvariant`
(`ReceivesWhatIsPushed`), `IceInvariant` (`IceOnlyWithDtls`), `AnswerFitsInvariant`
(`AnswerFits`), `TablesDescribed` and `StreamsPileUp`. The invariant is short (the last
answer is the offer for the last request); the work is in what `to_string` makes of a
media description. `SectionLines` says which lines of each kind a section has, for any
description. From it follows `TablesDescribed`: whatever codecs are added to a table,
each payload type is described as long as every retransmission codec names a codec of
its table that is none itself; the two tables of `codec_info.h` are instances.
`AnswerFits` counts lines: three for a transport, at most two and one for each kind of
feedback for a codec, at most 18 lines and 2080 characters in all. `AnswerSize` is
written with cardinalities and not as a sum over the lines, which would be a recursion;
TLC has found both equal in every state. `StreamsPileUp` extends the finding about
`OneStreamPerName`: the map is always empty, so every stream ever created is alive.

**`PushGatewayProofs`** from `GatewayAssumption`: `TypeCorrect`, `OneReply`
(`DocumentsPerRequest`), `NoConnectionLeak` (`ConnectionsClosed`), `EvenShare`
(`FairShare`). The invariant adds `DocsSoFar`: how many documents have been written at
each program point of `Execute`, and that a server has been picked before dialling.
`FairShare` has an invariant of its own: the load of every server is the number of
whole rounds, plus one for the servers from 1 to the one last given, where a goroutine
between the two halves of `PickServer` has moved the position but given nothing yet;
without overlap there is at most one such goroutine, and it has not picked before.

**`PushPageProofs`** from `PageAssumption` (`None` is no request, uid or answer) and
the gateway's: `PageUsesGateway` (the page's specification implies the gateway's, so
that all of the above holds under the page), `StopIsComplete` (`StopReaches`) and
`AnswersMatch` (`AnswersItsOffer`). A push is *live* from the screen dialog until its
tracks are stopped, whatever has become of its peer connection. Unless pushes overlap,
one push is live, the page's `pc` is that push's or null, and a push that waits for an
answer has asked its own connection. That a peer connection exists only where a server
has sent an offer comes from `DocumentsPerRequest` and from `NoDocument`: a request
that is no push, or panicked, has been sent no document.

**`RtcPipelineProofs`** from `ConstantsAssumption`, for any number of signaling and rtc
workers, requests, streams, connections and certificates, any checksum and any pipe
size: `TypeCorrect`, `NoNullPop` (`NullPopUnreachable`), `OneTokenEach`
(`TokenPerMessage`), `Certificates` (`OfferHasCertificate`), `Ordered`
(`StreamsInOrder`), `NoDeadlock` (`NoCircularWait`) and `Refinement`
(`ImplementsBackend`). The invariant has four parts. *Accounts*: each queue is as long
as its pipe's tokens and the threads between push and notify are many. *Order*: what is
further along the way to the same rtc worker was submitted earlier; since a request is
submitted once, this also says that no message is in two places. *Certified*: what is
in an rtc worker's queue has a certificate. *Gone* and *Answers*: a request given up is
nowhere any more, and an answer waits for, or has reached, the worker that asked. With
these the cases of `Status` exclude one another, and `BackendStep` maps each step to a
step of `RtcBackend` or a stutter. For `NoCircularWait` the messages in a circle are
counted: they are in disjoint places, so they are at most all requests and connections.
`SettledOnce` is an action property, drawn from `BackendStep`: a request that has been
delivered or given up stays so, and `msg->woeker` never changes once a request is sent.
`NoStandstill` is the part of `EveryRequestSettled` that needs no fairness: below the
bounds of `NoCircularWait` the threads are never all waiting (for a token, or for room in
a pipe) while a request is unsettled or a connection not taken. It rests on one more
invariant, `Accounted` (a request that was read is in a queue, with a thread or
settled), and on two cases: if RtcServer waits for a token, the accounts make every
queue empty; if it waits for room, the waits form a circle. What a thread waits for is
spelled out by its guards (`SwWaits`, `RsWaits`, `RwWaits`, `AcceptWaits`); that these
are the states in which its actions are disabled was checked by TLC with `ENABLED` on
both instances of the module.

**`SignalingConnProofs`** from `ConstantsAssumption`, for any number of clients,
workers, descriptors and addresses: `TypeCorrect`, `TableStaysSound` (`TableSound`),
`NoLeak` (`NoFdLeak`), `AnswersUnambiguous` (`UnambiguousAnswers`), `UsesBackend`. The invariant has
parts that hold always (entries of `_conns` lead to live objects, a worker closes only
a live object of its own, no descriptor leaks), parts that hold until a `close` hits a
stranger's descriptor (each live object is in the table and owns its descriptor, a
client has one descriptor and one object), and parts that hold until, moreover, an
address is reused under a message (the object a message names is the one its request
came from). Held workers and trickling clients change none of it (`OnlyDisturbed`). The
steps are of six kinds (`StepKinds`) for the table and the descriptors; each part is
shown for each kind. `UsesBackend` says that the connections
use the rest of the server only through steps of `RtcBackend`, the specification that
`RtcPipeline` is proved to implement: the two halves of the server fit together.

**`LifecycleProofs`** from `LifecycleAssumption`: `StopsInOrder`
(`StopInOrder`), `StopsQuietly` (`QuietStop`), `LogIsExact` (`LogExact`). For the stop
the invariant says which workers have not been asked to quit (no QUIT in their pipes),
that what is owed to a worker is in its pipe in front of its QUIT, and that all workers
before the one being joined have ended; for SIGPIPE, that a pipe is half closed only
after a signal, and that a late answer belongs to a request that was pending when the
worker read QUIT; for the log, that the string stream is empty between passes, so that
what it holds belongs to one severity. `MovedOn`, `OneMore` and `CutOut` are the lemmas
about files, stream and queue read one after the other: moving messages on changes
nothing, a new message goes behind all others, and a stream that fails cuts a piece out
of the middle and leaves the order.

Every inductive invariant was checked by TLC on the module's run before it was proved.
The type invariants of `LockFreeQueue`, `QueryBuffer` and `PushGateway` are proved and
not part of a run.

The constant `None` stands for "nothing" and the proofs need it to differ from what it
stands in for; the assumptions say so. No other assumption is stronger than "a natural
number", "not zero" or "a finite set", except that the header is shorter than the
"short link" mark, that lengths are bounded by the widths of their types, and that
there are at least as many heap addresses as clients.

## 5. Only model-checked

- Liveness (`EveryItemTaken`, `EveryRequestSettled`, `DescriptorsReturned`,
  `ReadsGoOn`, `AnswerLeaves`, `EveryRequestEnds`, `QuitIsHonoured`, `LogKeepsUp`):
  fairness and `ENABLED` are out of the prover's reach. Of `EveryRequestSettled` the
  safety half, `NoStandstill`, is proved.

Every invariant that a run checks is proved.

## 6. Not modelled, and why

- Vendored code: `xrtc_server/thirdlib`, `signaling/src/third_lib`, `adapter.js`,
  `adapet.js`, jQuery. Where `src/` relies on it, it is an external action.
- Configuration files: read once, no later state.
- Byte layout of the header, JSON text, SDP wording, log wording.
- Empty handlers (pull, answer, stop) of the rtc worker: they change nothing.
- The stop paths of `RtcServer`, the rtc workers and the log, and all destructors of
  servers: nothing calls them. What the C++ runtime destroys after `main` while rtc
  threads are still running.
- The screen-share demo: a static file server and a page with two peer connections of
  its own that talk to no other part. Its use of the extension is the push page's.
- The push page's template and the static files: one action, `OtherPath`.

## 7. Plan

Done, in this order: queue and its proofs; pipeline; connections; parser and its
proofs; offers; gateway and its proofs; the writing side of a connection and the
widths of its lengths; start, stop and log; the push page; the proofs about pipeline,
connections, start and stop, log, writing side, push page and offers. Left: `ScreenShare`, the
demo page's two peer connections, if it grows into something the system uses.

The safety properties of all runs and the refinements are proved. Should a new
codec or line be added to the offer, `TablesDescribed` and the counts in `OfferLines`
say what has to be looked at again.

## 8. Running it

    tlc -workers 2 -config MCLockFreeQueue.cfg MCLockFreeQueue
    tlapm LockFreeQueueProofs.tla

and likewise for the other modules. The longest runs (`MCSignalingConn.cfg` with
1.25 million states, `MCRtcPipeline.cfg`, `MCLifecycle.cfg`) take about two minutes each.
