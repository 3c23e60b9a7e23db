------------------------------ MODULE XrtcLog ------------------------------
(***************************************************************************)
(* The log (base/log.cpp): RTC_LOG hands a message to OnLogMessage under   *)
(* the logging library's global lock; it goes to one of two queues, and a  *)
(* thread of its own empties each queue into a string stream under the     *)
(* queue's lock and writes the stream to the queue's file outside it.      *)
(* Either file may be moved away (log rotation); the thread looks for it   *)
(* at the start of every pass and opens a new one.  Nobody looks whether   *)
(* that open() or a write succeeds: a stream that has failed swallows what *)
(* it is given until its file is gone and a new one has been opened.       *)
(*                                                                         *)
(* SIGINT's handler logs too.  A thread it interrupts inside RTC_LOG waits *)
(* for a lock of its own.  The log thread, interrupted while it holds a    *)
(* queue's lock, waits for the same lock or for a thread that waits for    *)
(* it.  Either way nobody can log any more (`stuck'), and a queue whose    *)
(* lock is kept (`held') is never emptied again.  What is then in the      *)
(* queue or the string stream, or when the process ends, is not written.   *)
(***************************************************************************)
EXTENDS Integers, Sequences

\* Below LS_WARNING, and from it on.
Severities == {"info", "wf"}

VARIABLES
    logged,    \* messages given to OnLogMessage, per severity
    queue,     \* _log_queue and _log_queue_wf
    ss,        \* the log thread's string stream
    written,   \* what is in the files of the severity, the ones moved away first
    present,   \* does the path name a file?
    good,      \* is the output stream usable?
    lost,      \* messages that an unusable stream has swallowed
    moves,     \* times a file has been moved
    logAt,     \* where the log thread is; "none" before it is started
    stuck,     \* the thread that waits for itself, <<>> if there is none
    held       \* the queue whose lock it keeps, or "none"

fileVars == <<written, present, good, lost, moves>>
logVars  == <<logged, queue, ss, fileVars, logAt, stuck, held>>

LogInit ==
    /\ logged = [s \in Severities |-> 0] /\ queue = [s \in Severities |-> <<>>]
    /\ ss = <<>>
    /\ written = [s \in Severities |-> <<>>]
    /\ present = [s \in Severities |-> TRUE] /\ moves = 0
    /\ good = [s \in Severities |-> TRUE] /\ lost = [s \in Severities |-> 0]
    /\ logAt = "none" /\ stuck = <<>> /\ held = "none"

\* XrtcLog::start
StartLog ==
    /\ logAt = "none" /\ logAt' = "check"
    /\ UNCHANGED <<logged, queue, ss, fileVars, stuck, held>>

\* RTC_LOG and OnLogMessage, from any thread.
OnLogMessage(s) ==
    /\ stuck = <<>>
    /\ logged' = [logged EXCEPT ![s] = @ + 1]
    /\ queue' = [queue EXCEPT ![s] = Append(@, <<s, logged'[s]>>)]
    /\ UNCHANGED <<ss, fileVars, logAt, stuck, held>>

\* The log is rotated from outside.  What is written before the next check goes
\* to the end of the file that was moved.
MoveFile(s) ==
    /\ present[s]
    /\ moves' = moves + 1
    /\ present' = [present EXCEPT ![s] = FALSE]
    /\ UNCHANGED <<logged, queue, ss, written, good, lost, logAt, stuck, held>>

CheckFirstFile ==
    /\ logAt = "check" /\ logAt' = "info"
    /\ \E opens \in [Severities -> BOOLEAN] :
          /\ present' = [present EXCEPT !["info"] = @ \/ opens["info"]]
          /\ good' = [good EXCEPT !["info"] = IF present["info"] THEN @ ELSE opens["info"]]
    /\ UNCHANGED <<logged, queue, ss, written, lost, moves, stuck, held>>

\* A file that has gone is closed and opened anew, which may fail.
CheckFiles ==
    /\ logAt = "check" /\ logAt' = "info"
    /\ \E opens \in [Severities -> BOOLEAN] :
          /\ present' = [s \in Severities |-> present[s] \/ opens[s]]
          /\ good' = [s \in Severities |-> IF present[s] THEN good[s] ELSE opens[s]]
    /\ UNCHANGED <<logged, queue, ss, written, lost, moves, stuck, held>>

\* Where the log thread is once it has released the lock of queue s.
Writing(s) == IF s = "info" THEN "write info" ELSE "write wf"

\* The first n messages of queue s go to ss.
TakeMessages(s, n) ==
    /\ queue' = [queue EXCEPT ![s] = SubSeq(@, n + 1, Len(@))]
    /\ ss' = ss \o SubSeq(queue[s], 1, n)

\* The queue is emptied into ss under its lock.
TakeQueue(s) ==
    /\ logAt = s /\ held # s /\ logAt' = Writing(s)
    /\ TakeMessages(s, Len(queue[s]))
    /\ UNCHANGED <<logged, fileVars, stuck, held>>

KeepStream(text) == text

\* ss.str("")
ClearStream(text) == <<>>

\* ss goes to the open file, wherever that is by now, and is cleared.  A write
\* that fails (a full disk) takes a part of it; none is made for an empty queue.
WriteStream(s) ==
    /\ logAt = Writing(s) /\ logAt' = IF s = "info" THEN "wf" ELSE "check"
    /\ \E n \in (IF good[s] THEN 0 .. Len(ss) ELSE {0}) :
          /\ written' = [written EXCEPT ![s] = @ \o SubSeq(ss, 1, n)]
          /\ good' = [good EXCEPT ![s] = @ /\ n = Len(ss)]
          /\ lost' = [lost EXCEPT ![s] = @ + Len(ss) - n]
    /\ ss' = ClearStream(ss)
    /\ UNCHANGED <<logged, queue, present, moves, stuck, held>>

\* One step of the log thread, which needs no lock but those of the queues.
LogThread ==
    CheckFiles \/ \E s \in Severities : TakeQueue(s) \/ WriteStream(s)

\* The handler interrupts thread t inside RTC_LOG, or the log thread while it
\* empties a queue; the queue whose lock t holds is q.
Jam(t, q) ==
    /\ stuck = <<>> /\ stuck' = t /\ held' = q
    /\ IF t = <<"log">>
       THEN q = logAt /\ q \in Severities /\ \E n \in 0 .. Len(queue[q]) : TakeMessages(q, n)
       ELSE UNCHANGED <<queue, ss>>
    /\ UNCHANGED <<logged, fileVars, logAt>>

(***************************************************************************)
(* Properties.                                                             *)
(***************************************************************************)

\* What the string stream holds of severity s.
Streamed(s) == IF logAt \in {s, Writing(s)} THEN ss ELSE <<>>

\* The log thread has something to do: messages have not gone to their stream,
\* or a stream still writes to a file that was moved away.
LogBehind ==
    \E s \in Severities :
        queue[s] # <<>> \/ Streamed(s) # <<>> \/ (good[s] /\ ~present[s])

\* The messages of severity s that have not been swallowed: the files of s, one
\* after the other, the string stream and the queue.
Kept(s) == written[s] \o Streamed(s) \o queue[s]

\* Nothing is repeated, reordered or written to the wrong file, and nothing
\* vanishes but what a stream that has failed swallowed: the files of a
\* severity, the string stream and the queue together hold messages logged with
\* it, in the order in which they were logged, and as many as were not lost.
LogExact ==
    \A s \in Severities :
        /\ \A i \in DOMAIN Kept(s) : Kept(s)[i][1] = s /\ Kept(s)[i][2] <= logged[s]
        /\ \A i, j \in DOMAIN Kept(s) : i < j => Kept(s)[i][2] < Kept(s)[j][2]
        /\ Len(Kept(s)) + lost[s] = logged[s]
=============================================================================
