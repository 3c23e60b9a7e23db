----------------------------- MODULE Lifecycle -----------------------------
(***************************************************************************)
(* Start and stop of the media server: main.cpp, and the start, notify,    *)
(* _stop and join of SignalingServer and its workers, with the log.        *)
(*                                                                         *)
(* main initialises the log, the signaling server (which starts its        *)
(* workers) and the rtc server, installs the handlers of SIGINT and        *)
(* SIGTERM, starts the two servers and joins the signaling server's        *)
(* thread.  The handler writes QUIT into that thread's pipe.  The thread   *)
(* closes its descriptors and stops and joins one worker after the other.  *)
(* RtcServer, its workers and the log thread are never stopped; they end   *)
(* with the process.                                                       *)
(*                                                                         *)
(* A pipe's ends are closed one after the other.  A write in between gets  *)
(* SIGPIPE, which nobody ignores; afterwards it fails with EBADF.          *)
(***************************************************************************)
EXTENDS XrtcLog

CONSTANTS NumSig,        \* worker_num of signaling_server.yaml
          MaxEvents      \* bound on what comes from outside, as counted below

ASSUME LifecycleAssumption ==
    NumSig \in Nat \ {0} /\ MaxEvents \in Nat

Workers == 0 .. NumSig - 1

VARIABLES
    status,      \* "up", or how the process has ended
    main,        \* the next thing main does: "log", "workers", "rtc", "signal",
                 \* "start", "assign", "start rtc", "join"
    started,     \* signaling workers created so far
    srv,         \* the signaling server's thread
    srvSet,      \* has start() assigned SignalingServer::_thread?
    srvPipe,     \* QUIT tokens in its pipe
    stopping,    \* the worker _stop is at
    worker,      \* each worker's thread
    wPipe,       \* the tokens in its pipe
    handled,     \* tokens it has processed
    owed,        \* tokens that were written to its pipe before QUIT
    idleConns,   \* connections whose request it has not read
    pending,     \* its requests that have not been answered
    accepted,    \* _next_worker_id
    rtcUp,       \* has RtcServer been started?
    late,        \* has a worker stopped with requests pending?
    wedged,      \* workers that do not get back to their event loops
    sigs         \* signals sent

mainVars   == <<main, started, rtcUp>>
srvVars    == <<srv, srvSet, srvPipe, stopping, accepted>>
workerVars == <<worker, wPipe, handled, owed, idleConns, pending, late>>
asideVars  == <<wedged, sigs>>
lifeVars   == <<status, mainVars, srvVars, workerVars, asideVars>>
vars       == <<lifeVars, logVars>>

up == status = "up"

\* Connections, signals, messages to log and rotations of a log file so far.
outside == accepted + sigs + logged["info"] + logged["wf"] + moves

\* A step that logs waits for the global lock.
CanLog == stuck = <<>>

Init ==
    /\ status = "up" /\ main = "log" /\ started = 0 /\ rtcUp = FALSE
    /\ srv = "none" /\ srvSet = FALSE /\ srvPipe = 0 /\ stopping = 0 /\ accepted = 0
    /\ worker = [w \in Workers |-> "none"] /\ wPipe = [w \in Workers |-> <<>>]
    /\ handled = [w \in Workers |-> 0] /\ owed = [w \in Workers |-> 0]
    /\ idleConns = [w \in Workers |-> 0] /\ pending = [w \in Workers |-> 0]
    /\ late = FALSE /\ wedged = {} /\ sigs = 0
    /\ LogInit

(***************************************************************************)
(* main                                                                    *)
(***************************************************************************)

\* One initialisation fails: main returns -1.  The workers' part may fail for
\* no reason at all, since SignalingServerWorker::init returns no value.
InitFails ==
    /\ main \in {"log", "workers", "rtc"}
    /\ status' = "failed"
    /\ UNCHANGED <<mainVars, srvVars, workerVars, asideVars, logVars>>

InitLog ==
    /\ main = "log" /\ main' = "workers" /\ StartLog
    /\ UNCHANGED <<status, started, rtcUp, srvVars, workerVars, asideVars>>

CreateWorker ==
    /\ main = "workers" /\ started < NumSig /\ CanLog
    /\ started' = started + 1
    /\ worker' = [worker EXCEPT ![started] = "run"]
    /\ UNCHANGED <<status, main, rtcUp, srvVars, wPipe, handled, owed, idleConns, pending,
                   late, asideVars, logVars>>

\* SignalingServer::init returns, and later RtcServer::init.
InitServers ==
    /\ \/ main = "workers" /\ started = NumSig /\ main' = "rtc"
       \/ main = "rtc" /\ main' = "signal"
    /\ UNCHANGED <<status, started, rtcUp, srvVars, workerVars, asideVars, logVars>>

InstallHandlers ==
    /\ main = "signal" /\ main' = "start"
    /\ UNCHANGED <<status, started, rtcUp, srvVars, workerVars, asideVars, logVars>>

\* SignalingServer::start: the new thread runs ...
StartThread ==
    /\ main = "start" /\ main' = "assign" /\ srv' = "run"
    /\ UNCHANGED <<status, started, rtcUp, srvSet, srvPipe, stopping, accepted, workerVars,
                   asideVars, logVars>>

\* ... before _thread is assigned.
AssignThread ==
    /\ main = "assign" /\ main' = "start rtc" /\ srvSet' = TRUE
    /\ UNCHANGED <<status, started, rtcUp, srv, srvPipe, stopping, accepted, workerVars, asideVars,
                   logVars>>

StartRtc ==
    /\ main = "start rtc" /\ main' = "join" /\ rtcUp' = TRUE
    /\ UNCHANGED <<status, started, srvVars, workerVars, asideVars, logVars>>

\* join() and the end of main: the other threads end with the process, and
\* what is still in the log's queues is gone.
JoinServer ==
    /\ main = "join" /\ srv = "done"
    /\ status' = "exited"
    /\ UNCHANGED <<mainVars, srvVars, workerVars, asideVars, logVars>>

Main ==
    /\ up
    /\ \/ InitFails \/ InitLog \/ CreateWorker \/ InitServers \/ InstallHandlers
       \/ StartThread \/ AssignThread \/ StartRtc \/ JoinServer

(***************************************************************************)
(* The signaling server's thread                                           *)
(***************************************************************************)

\* accept_new_conn and _dispatch_new_conn
Dispatch ==
    /\ srv = "run" /\ CanLog /\ outside < MaxEvents
    /\ accepted' = accepted + 1
    /\ wPipe' = [wPipe EXCEPT ![accepted % NumSig] = Append(@, "NEW_CONN")]
    /\ UNCHANGED <<status, mainVars, srv, srvSet, srvPipe, stopping, worker, handled, owed,
                   idleConns, pending, late, asideVars, logVars>>

\* QUIT is read: _stop does nothing as long as _thread is null, and the token
\* is gone.  Otherwise it deletes the watchers and closes the reading end.
ReadQuit ==
    /\ srv = "run" /\ srvPipe > 0
    /\ srvPipe' = srvPipe - 1
    /\ srv' = IF srvSet THEN "closing" ELSE "run"
    /\ UNCHANGED <<status, mainVars, srvSet, stopping, accepted, workerVars, asideVars, logVars>>

\* The writing end and the listening socket are closed.
CloseServer ==
    /\ srv = "closing" /\ srv' = "stopping"
    /\ UNCHANGED <<status, mainVars, srvSet, srvPipe, stopping, accepted, workerVars, asideVars,
                   logVars>>

QuitJumpsQueue ==
    /\ srv = "stopping" /\ CanLog /\ stopping < NumSig /\ srv' = "joining"
    /\ wPipe' = [wPipe EXCEPT ![stopping] = <<"QUIT">> \o @]
    /\ owed' = [owed EXCEPT ![stopping] = handled[stopping] + Len(wPipe[stopping])]
    /\ UNCHANGED <<status, mainVars, srvSet, srvPipe, stopping, accepted, worker, handled,
                   idleConns, pending, late, asideVars, logVars>>

\* worker->stop()
StopWorker ==
    /\ srv = "stopping" /\ CanLog /\ stopping < NumSig /\ srv' = "joining"
    /\ wPipe' = [wPipe EXCEPT ![stopping] = Append(@, "QUIT")]
    /\ owed' = [owed EXCEPT ![stopping] = handled[stopping] + Len(wPipe[stopping])]
    /\ UNCHANGED <<status, mainVars, srvSet, srvPipe, stopping, accepted, worker, handled,
                   idleConns, pending, late, asideVars, logVars>>

JoinByAskingAgain ==
    /\ srv = "joining"
    /\ stopping' = (IF worker[stopping] = "done" THEN stopping + 1 ELSE stopping)
    /\ srv' = (IF worker[stopping] = "done" THEN "stopping" ELSE "joining")
    /\ status' = IF worker[stopping] = "closing" THEN "killed" ELSE status
    /\ UNCHANGED <<mainVars, srvSet, srvPipe, accepted, workerVars, asideVars, logVars>>

\* worker->join()
JoinWorker ==
    /\ srv = "joining" /\ worker[stopping] = "done"
    /\ stopping' = stopping + 1 /\ srv' = "stopping"
    /\ UNCHANGED <<status, mainVars, srvSet, srvPipe, accepted, workerVars, asideVars, logVars>>

\* _stop returns, the loop ends.
EndServer ==
    /\ srv = "stopping" /\ CanLog /\ stopping = NumSig /\ srv' = "done"
    /\ UNCHANGED <<status, mainVars, srvSet, srvPipe, stopping, accepted, workerVars, asideVars,
                   logVars>>

Server ==
    /\ up /\ stuck # <<"srv">>
    /\ Dispatch \/ ReadQuit \/ CloseServer \/ StopWorker \/ JoinWorker \/ EndServer

(***************************************************************************)
(* The workers and what is behind them                                     *)
(***************************************************************************)

\* A connection is taken from _q_conn, or an answer is handed on.
HandleToken(w) ==
    /\ worker[w] = "run" /\ CanLog
    /\ wPipe[w] # <<>> /\ Head(wPipe[w]) # "QUIT"
    /\ wPipe' = [wPipe EXCEPT ![w] = Tail(@)]
    /\ handled' = [handled EXCEPT ![w] = @ + 1]
    /\ idleConns' = [idleConns EXCEPT ![w] = @ + (IF Head(wPipe[w]) = "NEW_CONN" THEN 1 ELSE 0)]
    /\ UNCHANGED <<status, mainVars, srvVars, worker, owed, pending, late, asideVars, logVars>>

\* _stop: the watcher goes, the loop is told to end, the reading end is closed.
\* (_thread is set: a worker's QUIT comes after main has started the server.)
HandleQuit(w) ==
    /\ worker[w] = "run" /\ CanLog
    /\ wPipe[w] # <<>> /\ Head(wPipe[w]) = "QUIT"
    /\ worker' = [worker EXCEPT ![w] = "closing"]
    /\ wPipe' = [wPipe EXCEPT ![w] = <<>>]
    /\ late' = (late \/ pending[w] > 0)
    /\ UNCHANGED <<status, mainVars, srvVars, handled, owed, idleConns, pending, asideVars, logVars>>

\* The writing end is closed; the events of this turn of the loop are served.
CloseWorker(w) ==
    /\ worker[w] = "closing" /\ worker' = [worker EXCEPT ![w] = "last turn"]
    /\ UNCHANGED <<status, mainVars, srvVars, wPipe, handled, owed, idleConns, pending, late,
                   asideVars, logVars>>

EndWorkerWhenAnswered(w) ==
    /\ worker[w] = "last turn" /\ CanLog /\ pending[w] = 0
    /\ worker' = [worker EXCEPT ![w] = "done"]
    /\ UNCHANGED <<status, mainVars, srvVars, wPipe, handled, owed, idleConns, pending, late,
                   asideVars, logVars>>

\* The loop ends and the thread with it.
EndWorker(w) ==
    /\ worker[w] = "last turn" /\ CanLog /\ worker' = [worker EXCEPT ![w] = "done"]
    /\ UNCHANGED <<status, mainVars, srvVars, wPipe, handled, owed, idleConns, pending, late,
                   asideVars, logVars>>

\* A client's request is read and goes to RtcServer.
Request(w) ==
    /\ worker[w] \in {"run", "last turn"} /\ w \notin wedged /\ CanLog /\ idleConns[w] > 0
    /\ idleConns' = [idleConns EXCEPT ![w] = @ - 1]
    /\ pending' = [pending EXCEPT ![w] = @ + 1]
    /\ UNCHANGED <<status, mainVars, srvVars, worker, wPipe, handled, owed, late, asideVars, logVars>>

\* A callback does not return: a client floods the parser (QueryBuffer), stops
\* reading its answer (ReplyWriter), or the pipes are full all round
\* (RtcPipeline).
Wedge(w) ==
    /\ up /\ worker[w] \in {"run", "last turn"} /\ handled[w] > 0
    /\ wedged' = wedged \union {w}
    /\ UNCHANGED <<status, mainVars, srvVars, workerVars, sigs, logVars>>

\* The client reads again, or hangs up.
Unwedge(w) ==
    /\ up /\ w \in wedged /\ wedged' = wedged \ {w}
    /\ UNCHANGED <<status, mainVars, srvVars, workerVars, sigs, logVars>>

Worker(w) ==
    /\ up /\ stuck # <<"worker", w>> /\ w \notin wedged
    /\ HandleToken(w) \/ HandleQuit(w) \/ CloseWorker(w) \/ EndWorker(w)

\* An rtc worker answers: SignalingServerWorker::send_rtc_msg.
Answer(w) ==
    /\ up /\ rtcUp /\ CanLog /\ pending[w] > 0
    /\ pending' = [pending EXCEPT ![w] = @ - 1]
    /\ wPipe' = IF worker[w] = "run" THEN [wPipe EXCEPT ![w] = Append(@, "RTC_MSG")] ELSE wPipe
    /\ status' = IF worker[w] = "closing" THEN "killed" ELSE status
    /\ UNCHANGED <<mainVars, srvVars, worker, handled, owed, idleConns, late, asideVars, logVars>>

(***************************************************************************)
(* Signals                                                                 *)
(***************************************************************************)

Handling == main \in {"start", "assign", "start rtc", "join"}

\* Before the handlers are installed a signal ends the process.
SignalEarly ==
    /\ up /\ ~Handling /\ outside < MaxEvents
    /\ sigs' = sigs + 1 /\ status' = "interrupted"
    /\ UNCHANGED <<mainVars, srvVars, workerVars, wedged, logVars>>

\* process_siganl: a QUIT token, if the server's pipe is still open.
Signal ==
    /\ up /\ Handling /\ outside < MaxEvents /\ CanLog
    /\ sigs' = sigs + 1
    /\ srvPipe' = IF srv \in {"none", "run"} THEN srvPipe + 1 ELSE srvPipe
    /\ status' = IF srv = "closing" THEN "killed" ELSE status
    /\ UNCHANGED <<mainVars, srv, srvSet, stopping, accepted, workerVars, wedged, logVars>>

\* Threads that may be inside RTC_LOG, and the log thread.  main is there only
\* while it runs the handler of another signal.
Interruptible ==
    {<<"main">>, <<"log">>} \union (IF rtcUp THEN {<<"rtc">>} ELSE {})
      \union (IF srv \in {"run", "stopping"} THEN {<<"srv">>} ELSE {})
      \union {<<"worker", w>> : w \in {v \in Workers : worker[v] \in {"run", "closing", "last turn"}}}

\* process_siganl on a thread that holds a lock it needs.
SignalJams(t) ==
    /\ up /\ Handling
    /\ LET n == IF t = <<"main">> THEN 2 ELSE 1
       IN  outside + n <= MaxEvents /\ sigs' = sigs + n
    /\ \E q \in Severities \union {"none"} : Jam(t, q)
    /\ UNCHANGED <<status, mainVars, srvVars, workerVars, wedged>>

Logging ==
    /\ up
    /\ LogThread \/ (outside < MaxEvents /\ \E s \in Severities : OnLogMessage(s) \/ MoveFile(s))
    /\ UNCHANGED lifeVars

Next ==
    \/ Main \/ Server \/ \E w \in Workers : Worker(w) \/ (up /\ Request(w)) \/ Answer(w)
    \/ \E w \in Workers : Wedge(w) \/ Unwedge(w)
    \/ SignalEarly \/ Signal \/ \E t \in Interruptible : SignalJams(t)
    \/ Logging

\* Threads run, except for a worker that is held up in a callback.  Nothing
\* makes clients send, read or hang up, rtc workers answer, signals arrive or
\* messages be logged.
Fairness ==
    /\ WF_vars(Main) /\ WF_vars(Server) /\ \A w \in Workers : WF_vars(Worker(w))
    /\ WF_vars(up /\ LogThread /\ UNCHANGED lifeVars)

Spec     == Init /\ [][Next]_vars
FairSpec == Spec /\ Fairness

(***************************************************************************)
(* Properties.                                                             *)
(***************************************************************************)

\* main returns 0 only when every worker has ended by itself, and a worker ends
\* only after it has handled every connection and every answer that was handed
\* to it before its QUIT, however they were interleaved.
StopInOrder ==
    /\ status = "exited" => \A w \in Workers : worker[w] = "done"
    /\ \A w \in Workers : worker[w] = "done" => handled[w] >= owed[w]

\* Stopping does not kill the process with SIGPIPE, unless a second signal or
\* an answer to a request that a worker left behind comes between the two
\* close() calls of a pipe.
QuietStop ==
    status = "killed" => sigs > 1 \/ late

\* A QUIT that is in the pipe once start() has assigned _thread ends the
\* process, if no callback of a worker holds it up for good: _stop waits for
\* every worker, and for nothing else, such as answers that never come.  (Before
\* that it is read and lost; and a handler that waits for its own thread's lock
\* blocks everybody.)
QuitIsHonoured ==
    <>[](wedged = {}) => ((srvPipe > 0 /\ srvSet) ~> (~up \/ stuck # <<>>))

\* As long as the process lives and no jammed thread keeps a queue's lock, the
\* log catches up when messages and rotations pause, which the bounds make them
\* do, also while nobody else can log: everything queued goes to its stream, and
\* a file that has been moved away is replaced or its stream found unusable.
LogKeepsUp == LogBehind ~> (~LogBehind \/ ~up \/ held # "none")
=============================================================================
