-------------------------- MODULE LifecycleProofs --------------------------
(***************************************************************************)
(* Proofs about the stop of the media server and about its log, for any    *)
(* number of workers, connections, signals and messages.                   *)
(*                                                                         *)
(* Order of the stop (Stop): what could go wrong is that a worker is told  *)
(* to quit twice, or that tokens overtake its QUIT.  So the invariant says *)
(* which workers have not been asked yet (they have no QUIT in their       *)
(* pipes), that at least `owed' tokens are handled up to any QUIT in a     *)
(* pipe, and that all workers before `stopping' have ended.                *)
(*                                                                         *)
(* SIGPIPE (Quiet): the server's thread closes its pipe only after a       *)
(* signal, and an answer is written to a half-closed pipe only if its      *)
(* request was already pending when the worker read QUIT.                  *)
(*                                                                         *)
(* The log (Exact): the string stream is empty whenever the log thread is  *)
(* not at a queue, so what it holds belongs to one severity; moving        *)
(* messages on leaves files, stream and queue, one after the other, the    *)
(* same, and a stream that fails cuts a piece out of the middle.           *)
(***************************************************************************)
EXTENDS Lifecycle, SequenceTheorems, TLAPS

Tokens == {"NEW_CONN", "RTC_MSG", "QUIT"}

WorkerTypes ==
    /\ worker \in [Workers -> {"none", "run", "closing", "last turn", "done"}]
    /\ wPipe \in [Workers -> Seq(Tokens)]
    /\ handled \in [Workers -> Nat] /\ owed \in [Workers -> Nat]
    /\ idleConns \in [Workers -> Nat] /\ pending \in [Workers -> Nat]

ServerTypes ==
    /\ started \in 0 .. NumSig /\ accepted \in Nat /\ stopping \in 0 .. NumSig
    /\ srvPipe \in Nat /\ sigs \in Nat

\* _stop has not come to worker w.
Unasked(w) == w > stopping \/ (w = stopping /\ srv # "joining")

\* A worker that has not been asked to stop has no QUIT in its pipe and runs,
\* or has not been created.
Undisturbed ==
    \A w \in Workers : Unasked(w) =>
        /\ worker[w] \in {"none", "run"}
        /\ \A i \in DOMAIN wPipe[w] : wPipe[w][i] # "QUIT"

\* QUIT comes after everything that is owed, and ends the worker only then.
InTurn ==
    \A w \in Workers :
        /\ \A i \in DOMAIN wPipe[w] : wPipe[w][i] = "QUIT" => handled[w] + i > owed[w]
        /\ worker[w] \in {"closing", "last turn", "done"} => handled[w] >= owed[w]

\* Workers before `stopping' have ended; the server's thread ends after all.
Joined ==
    /\ \A w \in Workers : w < stopping => worker[w] = "done"
    /\ srv = "done" => stopping = NumSig
    /\ srv = "joining" => stopping \in Workers
    /\ status = "exited" => srv = "done"
    /\ main \in {"log", "workers", "rtc", "signal", "start"} => srv = "none" /\ stopping = 0

Stop == Undisturbed /\ InTurn /\ Joined

\* The server's thread is asked to stop by signals only, and a worker that is
\* closing its pipe either has no requests pending or has been noted as late.
Quiet ==
    /\ srv \notin {"none", "run"} \/ srvPipe > 0 => sigs > 0
    /\ \A w \in Workers : worker[w] = "closing" /\ pending[w] > 0 => late
    /\ QuietStop

\* A line of the log: its severity and number.
Entries == Severities \X Nat

LogTypes ==
    /\ logged \in [Severities -> Nat] /\ lost \in [Severities -> Nat]
    /\ queue \in [Severities -> Seq(Entries)] /\ ss \in Seq(Entries)
    /\ written \in [Severities -> Seq(Entries)]

\* Between the passes nothing is in the string stream.
Cleared == logAt \in {"none", "check"} => ss = <<>>

Exact == LogTypes /\ Cleared /\ LogExact

LInv == WorkerTypes /\ ServerTypes /\ Stop /\ Quiet /\ Exact

(***************************************************************************)
(* Pipes.                                                                  *)
(***************************************************************************)

\* Token t comes last in w's pipe, and everything else stays where it is.
Grown(w, t) ==
    /\ \A v \in Workers : v # w => wPipe'[v] = wPipe[v]
    /\ \A i \in DOMAIN wPipe'[w] :
          \/ i \in DOMAIN wPipe[w] /\ wPipe'[w][i] = wPipe[w][i]
          \/ i = Len(wPipe[w]) + 1 /\ wPipe'[w][i] = t

\* What writing a token does to the pipes.
LEMMA PutToken ==
  ASSUME WorkerTypes, NEW w \in Workers, NEW t \in Tokens,
         wPipe' = [wPipe EXCEPT ![w] = Append(@, t)]
  PROVE  wPipe' \in [Workers -> Seq(Tokens)] /\ Len(wPipe[w]) \in Nat /\ Grown(w, t)
<1>1. wPipe \in [Workers -> Seq(Tokens)]  BY DEF WorkerTypes
<1>2. /\ wPipe'[w] = Append(wPipe[w], t) /\ wPipe[w] \in Seq(Tokens)
      /\ \A v \in Workers : v # w => wPipe'[v] = wPipe[v]
    BY <1>1
<1>3. /\ DOMAIN wPipe[w] = 1 .. Len(wPipe[w]) /\ Len(wPipe[w]) \in Nat
      /\ DOMAIN wPipe'[w] = 1 .. Len(wPipe[w]) + 1 /\ wPipe'[w][Len(wPipe[w]) + 1] = t
      /\ \A i \in 1 .. Len(wPipe[w]) : wPipe'[w][i] = wPipe[w][i]
      /\ wPipe'[w] \in Seq(Tokens)
    BY <1>2, LenProperties, AppendProperties
<1>4. wPipe' \in [Workers -> Seq(Tokens)]  BY <1>1, <1>2, <1>3
<1> QED  BY <1>2, <1>3, <1>4 DEF Grown

\* A sequence without its head.
LEMMA TailOf ==
  ASSUME NEW S, NEW s \in Seq(S), s # <<>>
  PROVE  /\ Tail(s) \in Seq(S)
         /\ \A i \in DOMAIN Tail(s) : i \in Nat /\ i + 1 \in DOMAIN s /\ Tail(s)[i] = s[i + 1]
<1>1. /\ Tail(s) \in Seq(S) /\ Len(Tail(s)) = Len(s) - 1
      /\ \A i \in 1 .. Len(Tail(s)) : Tail(s)[i] = s[i + 1]
    BY HeadTailProperties
<1>2. /\ DOMAIN s = 1 .. Len(s) /\ Len(s) \in Nat
      /\ DOMAIN Tail(s) = 1 .. Len(Tail(s)) /\ Len(Tail(s)) \in Nat
    BY <1>1, LenProperties
<1> QED  BY <1>1, <1>2

\* What reading a token does to the pipes.
LEMMA TakeToken ==
  ASSUME WorkerTypes, NEW w \in Workers, wPipe[w] # <<>>,
         wPipe' = [wPipe EXCEPT ![w] = Tail(@)]
  PROVE  /\ wPipe' \in [Workers -> Seq(Tokens)]
         /\ \A v \in Workers : v # w => wPipe'[v] = wPipe[v]
         /\ \A i \in DOMAIN wPipe'[w] :
               i \in Nat /\ i + 1 \in DOMAIN wPipe[w] /\ wPipe'[w][i] = wPipe[w][i + 1]
<1>1. wPipe \in [Workers -> Seq(Tokens)]  BY DEF WorkerTypes
<1>2. /\ wPipe'[w] = Tail(wPipe[w]) /\ wPipe[w] \in Seq(Tokens)
      /\ \A v \in Workers : v # w => wPipe'[v] = wPipe[v]
    BY <1>1
<1>3. /\ Tail(wPipe[w]) \in Seq(Tokens)
      /\ \A i \in DOMAIN Tail(wPipe[w]) :
            /\ i \in Nat /\ i + 1 \in DOMAIN wPipe[w]
            /\ Tail(wPipe[w])[i] = wPipe[w][i + 1]
    BY <1>2, TailOf, Zenon
<1>4. wPipe' \in [Workers -> Seq(Tokens)]  BY <1>1, <1>2, <1>3
<1> QED  BY <1>2, <1>3, <1>4

\* The next token of a pipe.
LEMMA FirstToken ==
  ASSUME WorkerTypes, NEW w \in Workers, wPipe[w] # <<>>
  PROVE  1 \in DOMAIN wPipe[w] /\ Head(wPipe[w]) = wPipe[w][1]
<1>1. wPipe[w] \in Seq(Tokens)  BY DEF WorkerTypes
<1> QED  BY <1>1, LenProperties, EmptySeq, HeadTailProperties

\* A pipe that is closed is empty.
LEMMA DropTokens ==
  ASSUME WorkerTypes, NEW w \in Workers, wPipe' = [wPipe EXCEPT ![w] = <<>>]
  PROVE  /\ wPipe' \in [Workers -> Seq(Tokens)]
         /\ \A v \in Workers : v # w => wPipe'[v] = wPipe[v]
         /\ DOMAIN wPipe'[w] = {}
<1>1. wPipe \in [Workers -> Seq(Tokens)]  BY DEF WorkerTypes
<1>2. <<>> \in Seq(Tokens) /\ DOMAIN <<>> = {}  BY EmptySeq
<1> QED  BY <1>1, <1>2

(***************************************************************************)
(* What the steps change.                                                  *)
(***************************************************************************)

\* The steps that touch no worker, nor the server's thread.
Aside ==
    /\ UNCHANGED <<worker, wPipe, handled, owed, srv, stopping, accepted>>
    /\ status' = "exited" => status = "exited" \/ srv = "done"
    /\ main' \in {"log", "workers", "rtc", "signal", "start"} =>
          main \in {"log", "workers", "rtc", "signal", "start"}

\* Every step is one of these.
LEMMA LifeKinds ==
  ASSUME [Next]_vars
  PROVE  \/ Aside \/ CreateWorker \/ StartThread \/ Dispatch
         \/ ReadQuit \/ CloseServer \/ StopWorker \/ JoinWorker \/ EndServer
         \/ \E w \in Workers : \/ HandleToken(w) \/ HandleQuit(w) \/ CloseWorker(w)
                               \/ EndWorker(w) \/ Answer(w)
<1> USE DEF mainVars, srvVars, workerVars, asideVars, lifeVars, Aside
<1>1. ASSUME InitFails \/ InitLog \/ InitServers \/ InstallHandlers \/ JoinServer
      PROVE  Aside
    BY <1>1 DEF InitFails, InitLog, InitServers, InstallHandlers, JoinServer
<1>2. ASSUME AssignThread \/ StartRtc PROVE Aside
    BY <1>2 DEF AssignThread, StartRtc
<1>3. ASSUME NEW w \in Workers, Request(w) PROVE Aside  BY <1>3 DEF Request
<1>4. ASSUME SignalEarly \/ Signal PROVE Aside
    BY <1>4 DEF SignalEarly, Signal, up
<1>5. ASSUME NEW t, SignalJams(t) PROVE Aside  BY <1>5 DEF SignalJams
<1>6. ASSUME Logging PROVE Aside  BY <1>6 DEF Logging
<1>7. ASSUME UNCHANGED vars PROVE Aside  BY <1>7 DEF vars
<1>8. ASSUME NEW w \in Workers, Wedge(w) \/ Unwedge(w) PROVE Aside
    BY <1>8 DEF Wedge, Unwedge
<1> HIDE DEF Aside
<1> QED  BY <1>1, <1>2, <1>3, <1>4, <1>5, <1>6, <1>7, <1>8, Zenon DEF Next, Main, Server, Worker

\* The workers, as numbers.
LEMMA WorkerNumbers ==
  ASSUME ServerTypes
  PROVE  /\ NumSig \in Nat \ {0} /\ stopping \in Nat /\ stopping <= NumSig
         /\ started \in Nat
         /\ \A w \in Workers : w \in Nat /\ w < NumSig
         /\ \A w \in Nat : w < NumSig => w \in Workers
         /\ accepted % NumSig \in Workers
<1>1. NumSig \in Nat \ {0}  BY LifecycleAssumption
<1>2. stopping \in Nat /\ stopping <= NumSig /\ started \in Nat /\ accepted \in Nat
    BY <1>1 DEF ServerTypes
<1>3. \A w \in Workers : w \in Nat /\ w < NumSig  BY <1>1 DEF Workers
<1>4. \A w \in Nat : w < NumSig => w \in Workers  BY <1>1 DEF Workers
<1>5. accepted % NumSig \in Nat /\ accepted % NumSig < NumSig  BY <1>1, <1>2
<1> QED  BY <1>1, <1>2, <1>3, <1>4, <1>5

(***************************************************************************)
(* The order of the stop.                                                  *)
(***************************************************************************)

\* Steps that leave the pipes and counters alone, and no worker behind.
LEMMA StopKept ==
  ASSUME WorkerTypes, Stop, UNCHANGED <<wPipe, handled, owed>>,
         \A w \in Workers : Unasked(w)' => Unasked(w) /\ worker'[w] \in {"none", "run"},
         \A w \in Workers :
            worker'[w] \in {"closing", "last turn", "done"} =>
                worker[w] \in {"closing", "last turn", "done"},
         Joined'
  PROVE  Stop'
<1>1. wPipe' = wPipe /\ handled' = handled /\ owed' = owed  OBVIOUS
<1>2. Undisturbed'  BY <1>1 DEF Stop, Undisturbed
<1>3. InTurn'  BY <1>1 DEF Stop, InTurn
<1> QED  BY <1>2, <1>3 DEF Stop

\* Every step keeps the order of the stop.
LEMMA StopStep ==
  ASSUME WorkerTypes, ServerTypes, Stop, [Next]_vars
  PROVE  Stop'
<1>0. /\ worker \in [Workers -> {"none", "run", "closing", "last turn", "done"}]
      /\ handled \in [Workers -> Nat] /\ owed \in [Workers -> Nat]
    BY DEF WorkerTypes
<1>a. Undisturbed  BY DEF Stop
<1>b. InTurn  BY DEF Stop
<1>c. Joined  BY DEF Stop
<1> USE DEF mainVars, srvVars, workerVars
<1>1. CASE Aside
    <2>1. UNCHANGED <<worker, wPipe, handled, owed, srv, stopping>>  BY <1>1 DEF Aside
    <2>2. Joined'  BY <1>c, <1>1 DEF Aside, Joined
    <2> QED  BY <1>a, <2>1, <2>2, StopKept DEF Unasked, Undisturbed
<1>2. CASE CreateWorker
    <2>1. /\ main = "workers" /\ started < NumSig
          /\ worker' = [worker EXCEPT ![started] = "run"]
          /\ UNCHANGED <<wPipe, handled, owed, srv, stopping, status, main>>
        BY <1>2 DEF CreateWorker
    <2>2. stopping = 0 /\ srv = "none"  BY <1>c, <2>1 DEF Joined
    <2>3. Joined'  BY <1>c, WorkerNumbers, <2>1, <2>2 DEF Joined
    <2>4. \A w \in Workers : Unasked(w)' => Unasked(w) /\ worker'[w] \in {"none", "run"}
        BY <1>a, <2>1 DEF Unasked, Undisturbed
    <2>5. \A w \in Workers : worker'[w] # "run" => worker'[w] = worker[w]
        BY <1>0, <2>1
    <2> QED  BY <2>1, <2>3, <2>4, <2>5, StopKept
<1>3. CASE StartThread
    <2>1. /\ main = "start" /\ main' = "assign" /\ srv' = "run"
          /\ UNCHANGED <<worker, wPipe, handled, owed, stopping, status>>
        BY <1>3 DEF StartThread
    <2>2. srv = "none"  BY <1>c, <2>1 DEF Joined
    <2>3. Joined'  BY <1>c, <2>1, <2>2 DEF Joined
    <2>4. \A w \in Workers : Unasked(w)' => Unasked(w)  BY <2>1, <2>2 DEF Unasked
    <2> QED  BY <1>a, <2>1, <2>3, <2>4, StopKept DEF Undisturbed
<1>4. CASE ReadQuit \/ CloseServer
    <2>1. /\ srv \in {"run", "closing"} /\ srv' \in {"run", "closing", "stopping"}
          /\ UNCHANGED <<worker, wPipe, handled, owed, stopping, status, main>>
        BY <1>4 DEF ReadQuit, CloseServer
    <2>2. Joined'  BY <1>c, <2>1 DEF Joined
    <2>3. \A w \in Workers : Unasked(w)' => Unasked(w)  BY <2>1 DEF Unasked
    <2> QED  BY <1>a, <2>1, <2>2, <2>3, StopKept DEF Undisturbed
<1>5. CASE JoinWorker
    <2>1. /\ srv = "joining" /\ worker[stopping] = "done"
          /\ stopping' = stopping + 1 /\ srv' = "stopping"
          /\ UNCHANGED <<worker, wPipe, handled, owed, status, main>>
        BY <1>5 DEF JoinWorker
    <2>2. Joined'  BY <1>c, WorkerNumbers, <2>1 DEF Joined
    <2>3. \A w \in Workers : Unasked(w)' => Unasked(w)
        BY WorkerNumbers, <2>1 DEF Unasked
    <2> QED  BY <1>a, <2>1, <2>2, <2>3, StopKept DEF Undisturbed
<1>6. CASE EndServer
    <2>1. /\ srv = "stopping" /\ stopping = NumSig /\ srv' = "done"
          /\ UNCHANGED <<worker, wPipe, handled, owed, stopping, status, main>>
        BY <1>6 DEF EndServer
    <2>2. Joined'  BY <1>c, <2>1 DEF Joined
    <2>3. \A w \in Workers : Unasked(w)' => Unasked(w)  BY <2>1 DEF Unasked
    <2> QED  BY <1>a, <2>1, <2>2, <2>3, StopKept DEF Undisturbed
<1>7. ASSUME NEW w \in Workers, CloseWorker(w) \/ EndWorker(w) PROVE Stop'
    <2>1. /\ worker[w] \in {"closing", "last turn"}
          /\ \/ worker' = [worker EXCEPT ![w] = "last turn"]
             \/ worker' = [worker EXCEPT ![w] = "done"]
          /\ UNCHANGED <<wPipe, handled, owed, srv, stopping, status, main>>
        BY <1>7 DEF CloseWorker, EndWorker
    <2>2. \A v \in Workers : \/ v # w /\ worker'[v] = worker[v]
                             \/ v = w /\ worker'[v] \in {"last turn", "done"}
        BY <1>0, <2>1
    <2>3. \A v \in Workers : worker[v] = "done" => worker'[v] = "done"
        BY <2>1, <2>2
    <2>4. Joined'  BY <1>c, <2>1, <2>3 DEF Joined
    <2>5. \A v \in Workers : Unasked(v)' => Unasked(v) /\ worker'[v] \in {"none", "run"}
        BY <1>a, <2>1, <2>2 DEF Unasked, Undisturbed
    <2> QED  BY <2>1, <2>2, <2>4, <2>5, StopKept
<1>8. ASSUME NEW w \in Workers, NEW t \in Tokens \ {"QUIT"},
             wPipe' = [wPipe EXCEPT ![w] = Append(@, t)],
             UNCHANGED <<worker, handled, owed, srv, stopping>>, Joined'
      PROVE  Stop'
    <2>1. /\ \A v \in Workers : v # w => wPipe'[v] = wPipe[v]
          /\ \A i \in DOMAIN wPipe'[w] :
                \/ i \in DOMAIN wPipe[w] /\ wPipe'[w][i] = wPipe[w][i]
                \/ i = Len(wPipe[w]) + 1 /\ wPipe'[w][i] = t
        <3>1. t \in Tokens /\ wPipe' = [wPipe EXCEPT ![w] = Append(@, t)]  BY <1>8
        <3>2. Grown(w, t)  BY <3>1, PutToken, Zenon
        <3> QED  BY <3>2 DEF Grown
    <2>2. \A v \in Workers : \A i \in DOMAIN wPipe'[v] :
             wPipe'[v][i] = "QUIT" => i \in DOMAIN wPipe[v] /\ wPipe[v][i] = "QUIT"
        BY <1>8, <2>1
    <2>3. Undisturbed'  BY <1>a, <1>8, <2>2 DEF Undisturbed, Unasked
    <2>4. InTurn'  BY <1>0, <1>b, <1>8, <2>2 DEF InTurn
    <2> QED  BY <1>8, <2>3, <2>4 DEF Stop
<1>9. CASE Dispatch
    <2>1. /\ wPipe' = [wPipe EXCEPT ![accepted % NumSig] = Append(@, "NEW_CONN")]
          /\ UNCHANGED <<worker, handled, owed, srv, stopping, status, main>>
        BY <1>9 DEF Dispatch
    <2>2. PICK w \in Workers : w = accepted % NumSig  BY WorkerNumbers
    <2>3. Joined'  BY <1>c, <2>1 DEF Joined
    <2>4. wPipe' = [wPipe EXCEPT ![w] = Append(@, "NEW_CONN")]  BY <2>1, <2>2
    <2>5. "NEW_CONN" \in Tokens \ {"QUIT"}  BY DEF Tokens
    <2> QED  BY <1>8, <2>1, <2>3, <2>4, <2>5
<1>10. ASSUME NEW w \in Workers, Answer(w) PROVE Stop'
    <2>1. /\ wPipe' = IF worker[w] = "run" THEN [wPipe EXCEPT ![w] = Append(@, "RTC_MSG")]
                      ELSE wPipe
          /\ status = "up" /\ status' \in {"up", "killed"}
          /\ UNCHANGED <<worker, handled, owed, srv, stopping, main>>
        BY <1>10 DEF Answer, up
    <2>2. Joined'  BY <1>c, <2>1 DEF Joined
    <2>3. CASE worker[w] = "run"  BY <1>8, <2>1, <2>2, <2>3 DEF Tokens
    <2>4. CASE worker[w] # "run"
        BY <1>a, <2>1, <2>2, <2>4, StopKept DEF Unasked, Undisturbed
    <2> QED  BY <2>3, <2>4
<1>11. CASE StopWorker
    <2>1. /\ srv = "stopping" /\ stopping < NumSig /\ srv' = "joining"
          /\ wPipe' = [wPipe EXCEPT ![stopping] = Append(@, "QUIT")]
          /\ owed' = [owed EXCEPT ![stopping] = handled[stopping] + Len(wPipe[stopping])]
          /\ UNCHANGED <<worker, handled, stopping, status, main>>
        BY <1>11 DEF StopWorker
    <2>2. stopping \in Workers  BY WorkerNumbers, <2>1
    <2>3. /\ \A v \in Workers : v # stopping => wPipe'[v] = wPipe[v]
          /\ Len(wPipe[stopping]) \in Nat
          /\ \A i \in DOMAIN wPipe'[stopping] :
                \/ i \in DOMAIN wPipe[stopping] /\ wPipe'[stopping][i] = wPipe[stopping][i]
                \/ i = Len(wPipe[stopping]) + 1 /\ wPipe'[stopping][i] = "QUIT"
        <3>1. Len(wPipe[stopping]) \in Nat /\ Grown(stopping, "QUIT")
            BY <2>1, <2>2, PutToken, Zenon DEF Tokens
        <3> QED  BY <3>1 DEF Grown
    <2>4. /\ worker[stopping] \in {"none", "run"}
          /\ \A i \in DOMAIN wPipe[stopping] : wPipe[stopping][i] # "QUIT"
        BY <1>a, <2>1, <2>2 DEF Undisturbed, Unasked
    <2>5. Joined'  BY <1>c, <2>1, <2>2 DEF Joined
    <2>6. Undisturbed'
        <3> SUFFICES ASSUME NEW v \in Workers, Unasked(v)'
                     PROVE  /\ worker'[v] \in {"none", "run"}
                            /\ \A i \in DOMAIN wPipe'[v] : wPipe'[v][i] # "QUIT"
            BY DEF Undisturbed
        <3>1. Unasked(v) /\ v # stopping
            BY WorkerNumbers, <2>1 DEF Unasked
        <3> QED  BY <1>a, <2>1, <2>3, <3>1 DEF Undisturbed
    <2>7. InTurn'
        <3> SUFFICES ASSUME NEW v \in Workers
                     PROVE  /\ \A i \in DOMAIN wPipe'[v] :
                                  wPipe'[v][i] = "QUIT" => handled'[v] + i > owed'[v]
                            /\ worker'[v] \in {"closing", "last turn", "done"} =>
                                  handled'[v] >= owed'[v]
            BY DEF InTurn
        <3>1. CASE v = stopping
            <4>1. owed'[v] = handled[v] + Len(wPipe[v]) /\ handled'[v] = handled[v]
                  /\ handled[v] \in Nat
                BY <1>0, <2>1, <3>1
            <4>2. \A i \in DOMAIN wPipe'[v] : wPipe'[v][i] = "QUIT" => i = Len(wPipe[v]) + 1
                BY <2>3, <2>4, <3>1
            <4>3. handled[v] + (Len(wPipe[v]) + 1) > handled[v] + Len(wPipe[v])
                BY <2>3, <3>1, <4>1
            <4>4. worker'[v] \notin {"closing", "last turn", "done"}  BY <2>1, <2>4, <3>1
            <4> QED  BY <4>1, <4>2, <4>3, <4>4
        <3>2. CASE v # stopping
            <4>1. owed'[v] = owed[v] /\ handled'[v] = handled[v] /\ wPipe'[v] = wPipe[v]
                  /\ worker'[v] = worker[v]
                BY <1>0, <2>1, <2>3, <3>2
            <4> QED  BY <1>0, <1>b, <4>1 DEF InTurn
        <3> QED  BY <3>1, <3>2
    <2> QED  BY <2>5, <2>6, <2>7 DEF Stop
<1>12. ASSUME NEW w \in Workers, HandleToken(w) PROVE Stop'
    <2>1. /\ wPipe[w] # <<>> /\ wPipe' = [wPipe EXCEPT ![w] = Tail(@)]
          /\ worker[w] = "run" /\ handled' = [handled EXCEPT ![w] = @ + 1]
          /\ UNCHANGED <<worker, owed, srv, stopping, status, main>>
        BY <1>12 DEF HandleToken
    <2>2. /\ \A v \in Workers : v # w => wPipe'[v] = wPipe[v]
          /\ \A i \in DOMAIN wPipe'[w] :
                i \in Nat /\ i + 1 \in DOMAIN wPipe[w] /\ wPipe'[w][i] = wPipe[w][i + 1]
        BY <2>1, TakeToken, Zenon
    <2>3. handled'[w] = handled[w] + 1 /\ \A v \in Workers : v # w => handled'[v] = handled[v]
        BY <1>0, <2>1
    <2>4. Joined'  BY <1>c, <2>1 DEF Joined
    <2>5. Undisturbed'
        <3> SUFFICES ASSUME NEW v \in Workers, Unasked(v)
                     PROVE  /\ worker[v] \in {"none", "run"}
                            /\ \A i \in DOMAIN wPipe'[v] : wPipe'[v][i] # "QUIT"
            BY <2>1 DEF Undisturbed, Unasked
        <3> QED  BY <1>a, <2>2 DEF Undisturbed
    <2>6. InTurn'
        <3> SUFFICES ASSUME NEW v \in Workers
                     PROVE  /\ \A i \in DOMAIN wPipe'[v] :
                                  wPipe'[v][i] = "QUIT" => handled'[v] + i > owed[v]
                            /\ worker[v] \in {"closing", "last turn", "done"} =>
                                  handled'[v] >= owed[v]
            BY <2>1 DEF InTurn
        <3>1. CASE v = w
            <4> SUFFICES ASSUME NEW i \in DOMAIN wPipe'[v], wPipe'[v][i] = "QUIT"
                         PROVE  handled'[v] + i > owed[v]
                BY <2>1, <3>1
            <4>1. i \in Nat /\ i + 1 \in DOMAIN wPipe[w] /\ wPipe[w][i + 1] = "QUIT"
                BY <2>2, <3>1
            <4>2. handled[w] + (i + 1) > owed[w]  BY <1>0, <1>b, <4>1 DEF InTurn
            <4>3. handled[w] \in Nat /\ owed[w] \in Nat  BY <1>0
            <4>4. (handled[w] + 1) + i > owed[w]  BY <4>1, <4>2, <4>3
            <4> QED  BY <2>3, <3>1, <4>4
        <3>2. CASE v # w  BY <1>0, <1>b, <2>2, <2>3, <3>2 DEF InTurn
        <3> QED  BY <3>1, <3>2
    <2> QED  BY <2>4, <2>5, <2>6 DEF Stop
<1>13. ASSUME NEW w \in Workers, HandleQuit(w) PROVE Stop'
    <2>1. /\ wPipe[w] # <<>> /\ Head(wPipe[w]) = "QUIT" /\ wPipe' = [wPipe EXCEPT ![w] = <<>>]
          /\ worker[w] = "run" /\ worker' = [worker EXCEPT ![w] = "closing"]
          /\ UNCHANGED <<handled, owed, srv, stopping, status, main>>
        BY <1>13 DEF HandleQuit
    <2>2. 1 \in DOMAIN wPipe[w] /\ wPipe[w][1] = "QUIT"  BY <2>1, FirstToken
    <2>3. handled[w] >= owed[w] /\ ~Unasked(w)
        <3>1. handled[w] + 1 > owed[w]  BY <1>b, <2>2 DEF InTurn
        <3>2. handled[w] \in Nat /\ owed[w] \in Nat  BY <1>0
        <3>3. ~Unasked(w)  BY <1>a, <2>2 DEF Undisturbed
        <3> QED  BY <3>1, <3>2, <3>3
    <2>4. DOMAIN wPipe'[w] = {} /\ \A v \in Workers : v # w => wPipe'[v] = wPipe[v]
        BY <2>1, DropTokens, Zenon
    <2>5. worker'[w] = "closing" /\ \A v \in Workers : v # w => worker'[v] = worker[v]
        BY <1>0, <2>1
    <2>6. Joined'
        <3>1. \A v \in Workers : worker[v] = "done" => worker'[v] = "done"  BY <2>1, <2>5
        <3> QED  BY <1>c, <2>1, <3>1 DEF Joined
    <2>7. Undisturbed'  BY <1>a, <2>1, <2>3, <2>4, <2>5 DEF Undisturbed, Unasked
    <2>8. InTurn'  BY <1>0, <1>b, <2>1, <2>3, <2>4, <2>5 DEF InTurn
    <2> QED  BY <2>6, <2>7, <2>8 DEF Stop
<1> QED  BY <1>1, <1>2, <1>3, <1>4, <1>5, <1>6, <1>7, <1>9, <1>10, <1>11, <1>12, <1>13,
            LifeKinds, Zenon

(***************************************************************************)
(* Types and counters.                                                     *)
(***************************************************************************)

\* Every step keeps the types of the workers and their pipes.
LEMMA WorkerTypesStep ==
  ASSUME WorkerTypes, ServerTypes, [Next]_vars
  PROVE  WorkerTypes'
<1> USE DEF mainVars, srvVars, workerVars, asideVars, lifeVars
<1>0. /\ worker \in [Workers -> {"none", "run", "closing", "last turn", "done"}]
      /\ wPipe \in [Workers -> Seq(Tokens)]
      /\ handled \in [Workers -> Nat] /\ owed \in [Workers -> Nat]
      /\ idleConns \in [Workers -> Nat] /\ pending \in [Workers -> Nat]
    BY DEF WorkerTypes
<1>n. /\ handled \in [Workers -> Nat]
      /\ idleConns \in [Workers -> Nat] /\ pending \in [Workers -> Nat]
    BY <1>0
<1>1. ASSUME UNCHANGED workerVars PROVE WorkerTypes'
    BY <1>0, <1>1 DEF WorkerTypes
<1>2. ASSUME InitFails \/ InitLog \/ InitServers \/ InstallHandlers \/ StartThread
             \/ AssignThread \/ StartRtc \/ JoinServer
      PROVE  UNCHANGED workerVars
    BY <1>2 DEF InitFails, InitLog, InitServers, InstallHandlers, StartThread, AssignThread,
       StartRtc, JoinServer
<1>3. ASSUME ReadQuit \/ CloseServer \/ JoinWorker \/ EndServer PROVE UNCHANGED workerVars
    BY <1>3 DEF ReadQuit, CloseServer, JoinWorker, EndServer
<1>4. ASSUME SignalEarly \/ Signal \/ Logging \/ UNCHANGED vars PROVE UNCHANGED workerVars
    BY <1>4 DEF SignalEarly, Signal, Logging, vars
<1>5. ASSUME NEW t, SignalJams(t) PROVE UNCHANGED workerVars  BY <1>5 DEF SignalJams
<1>w. ASSUME NEW w \in Workers, Wedge(w) \/ Unwedge(w) PROVE UNCHANGED workerVars
    BY <1>w DEF Wedge, Unwedge
<1>6. CASE CreateWorker
    <2>1. worker' = [worker EXCEPT ![started] = "run"]
          /\ UNCHANGED <<wPipe, handled, owed, idleConns, pending>>
        BY <1>6 DEF CreateWorker
    <2> QED  BY <1>0, <2>1 DEF WorkerTypes
<1>7. CASE Dispatch
    <2>1. PICK w \in Workers : w = accepted % NumSig  BY WorkerNumbers
    <2>2. wPipe' = [wPipe EXCEPT ![w] = Append(@, "NEW_CONN")]
          /\ UNCHANGED <<worker, handled, owed, idleConns, pending>>
        BY <1>7, <2>1 DEF Dispatch
    <2>3. wPipe' \in [Workers -> Seq(Tokens)]  BY <2>2, PutToken, Zenon DEF Tokens
    <2> QED  BY <1>0, <2>2, <2>3 DEF WorkerTypes
<1>8. CASE StopWorker
    <2>1. /\ stopping < NumSig /\ wPipe' = [wPipe EXCEPT ![stopping] = Append(@, "QUIT")]
          /\ owed' = [owed EXCEPT ![stopping] = handled[stopping] + Len(wPipe[stopping])]
          /\ UNCHANGED <<worker, handled, idleConns, pending>>
        BY <1>8 DEF StopWorker
    <2>2. stopping \in Workers  BY <2>1, WorkerNumbers
    <2>3. wPipe' \in [Workers -> Seq(Tokens)] /\ Len(wPipe[stopping]) \in Nat
        BY <2>1, <2>2, PutToken, Zenon DEF Tokens
    <2>4. owed' \in [Workers -> Nat]
        <3>1. handled[stopping] + Len(wPipe[stopping]) \in Nat  BY <1>n, <2>2, <2>3
        <3> QED  BY <1>0, <2>1, <3>1
    <2> QED  BY <1>0, <2>1, <2>3, <2>4 DEF WorkerTypes
<1>9. ASSUME NEW w \in Workers, HandleToken(w) PROVE WorkerTypes'
    <2>1. /\ wPipe[w] # <<>> /\ wPipe' = [wPipe EXCEPT ![w] = Tail(@)]
          /\ handled' = [handled EXCEPT ![w] = @ + 1]
          /\ \/ idleConns' = [idleConns EXCEPT ![w] = @ + 1]
             \/ idleConns' = [idleConns EXCEPT ![w] = @ + 0]
          /\ UNCHANGED <<worker, owed, pending>>
        BY <1>9 DEF HandleToken
    <2>2. wPipe' \in [Workers -> Seq(Tokens)]  BY <2>1, TakeToken, Zenon
    <2>3. handled' \in [Workers -> Nat]  BY <1>n, <2>1
    <2>4. idleConns' \in [Workers -> Nat]  BY <1>n, <2>1
    <2> QED  BY <1>0, <2>1, <2>2, <2>3, <2>4 DEF WorkerTypes
<1>10. ASSUME NEW w \in Workers, HandleQuit(w) PROVE WorkerTypes'
    <2>1. /\ wPipe' = [wPipe EXCEPT ![w] = <<>>] /\ worker' = [worker EXCEPT ![w] = "closing"]
          /\ UNCHANGED <<handled, owed, idleConns, pending>>
        BY <1>10 DEF HandleQuit
    <2>2. wPipe' \in [Workers -> Seq(Tokens)]  BY <2>1, DropTokens, Zenon
    <2> QED  BY <1>0, <2>1, <2>2 DEF WorkerTypes
<1>11. ASSUME NEW w \in Workers, CloseWorker(w) \/ EndWorker(w) PROVE WorkerTypes'
    <2>1. /\ \/ worker' = [worker EXCEPT ![w] = "last turn"]
             \/ worker' = [worker EXCEPT ![w] = "done"]
          /\ UNCHANGED <<wPipe, handled, owed, idleConns, pending>>
        BY <1>11 DEF CloseWorker, EndWorker
    <2> QED  BY <1>0, <2>1 DEF WorkerTypes
<1>12. ASSUME NEW w \in Workers, Request(w) PROVE WorkerTypes'
    <2>1. /\ idleConns[w] > 0 /\ idleConns' = [idleConns EXCEPT ![w] = @ - 1]
          /\ pending' = [pending EXCEPT ![w] = @ + 1]
          /\ UNCHANGED <<worker, wPipe, handled, owed>>
        BY <1>12 DEF Request
    <2>2. idleConns' \in [Workers -> Nat]  BY <1>n, <2>1
    <2>3. pending' \in [Workers -> Nat]  BY <1>n, <2>1
    <2> QED  BY <1>0, <2>1, <2>2, <2>3 DEF WorkerTypes
<1>13. ASSUME NEW w \in Workers, Answer(w) PROVE WorkerTypes'
    <2>1. /\ pending[w] > 0 /\ pending' = [pending EXCEPT ![w] = @ - 1]
          /\ \/ wPipe' = [wPipe EXCEPT ![w] = Append(@, "RTC_MSG")]
             \/ wPipe' = wPipe
          /\ UNCHANGED <<worker, handled, owed, idleConns>>
        BY <1>13 DEF Answer
    <2>2. pending' \in [Workers -> Nat]  BY <1>n, <2>1
    <2>3. "RTC_MSG" \in Tokens  BY DEF Tokens
    <2>4. wPipe' \in [Workers -> Seq(Tokens)]  BY <1>0, <2>1, <2>3, PutToken, Zenon
    <2> QED  BY <1>0, <2>1, <2>2, <2>4 DEF WorkerTypes
<1> QED  BY <1>1, <1>2, <1>3, <1>4, <1>5, <1>6, <1>7, <1>8, <1>9, <1>10, <1>11, <1>12,
            <1>13, <1>w, Zenon DEF Next, Main, Server, Worker

\* The counters of main and of the server's thread.
LEMMA ServerTypesStep ==
  ASSUME ServerTypes, Joined, [Next]_vars
  PROVE  ServerTypes'
<1> USE DEF mainVars, srvVars, workerVars, asideVars, lifeVars
<1>0. /\ started \in 0 .. NumSig /\ accepted \in Nat /\ stopping \in 0 .. NumSig
      /\ srvPipe \in Nat /\ sigs \in Nat /\ NumSig \in Nat
    BY LifecycleAssumption DEF ServerTypes
<1>1. ASSUME UNCHANGED <<started, accepted, stopping, srvPipe, sigs>> PROVE ServerTypes'
    BY <1>0, <1>1 DEF ServerTypes
<1>2. ASSUME InitFails \/ InitLog \/ InitServers \/ InstallHandlers \/ StartThread
             \/ AssignThread \/ StartRtc \/ JoinServer
      PROVE  ServerTypes'
    BY <1>1, <1>2 DEF InitFails, InitLog, InitServers, InstallHandlers, StartThread,
       AssignThread, StartRtc, JoinServer
<1>3. ASSUME CreateWorker \/ Dispatch \/ ReadQuit PROVE ServerTypes'
    BY <1>0, <1>3 DEF CreateWorker, Dispatch, ReadQuit, ServerTypes
<1>4. ASSUME CloseServer \/ StopWorker \/ EndServer PROVE ServerTypes'
    BY <1>1, <1>4 DEF CloseServer, StopWorker, EndServer
<1>5. ASSUME JoinWorker PROVE ServerTypes'
    <2>1. /\ srv = "joining" /\ stopping' = stopping + 1
          /\ UNCHANGED <<started, accepted, srvPipe, sigs>>
        BY <1>5 DEF JoinWorker
    <2>2. stopping \in 0 .. NumSig - 1  BY <2>1 DEF Joined, Workers
    <2> QED  BY <1>0, <2>1, <2>2 DEF ServerTypes
<1>6. ASSUME NEW w \in Workers,
             \/ HandleToken(w) \/ HandleQuit(w) \/ CloseWorker(w) \/ EndWorker(w)
             \/ Request(w) \/ Answer(w) \/ Wedge(w) \/ Unwedge(w)
      PROVE  ServerTypes'
    BY <1>1, <1>6 DEF HandleToken, HandleQuit, CloseWorker, EndWorker, Request, Answer, Wedge,
       Unwedge
<1>7. ASSUME SignalEarly \/ Signal PROVE ServerTypes'
    BY <1>0, <1>7 DEF SignalEarly, Signal, ServerTypes
<1>8. ASSUME NEW t, SignalJams(t) PROVE ServerTypes'
    BY <1>0, <1>8 DEF SignalJams, ServerTypes
<1>9. ASSUME Logging \/ UNCHANGED vars PROVE ServerTypes'
    BY <1>1, <1>9 DEF Logging, vars
<1> QED  BY <1>2, <1>3, <1>4, <1>5, <1>6, <1>7, <1>8, <1>9, Zenon
         DEF Next, Main, Server, Worker

(***************************************************************************)
(* SIGPIPE.                                                                *)
(***************************************************************************)

\* Every step keeps the reasons for a SIGPIPE.
LEMMA QuietStep ==
  ASSUME WorkerTypes, ServerTypes, Joined, Quiet, [Next]_vars
  PROVE  Quiet'
<1> USE DEF mainVars, srvVars, workerVars, asideVars, lifeVars
<1>0. /\ srvPipe \in Nat /\ sigs \in Nat /\ pending \in [Workers -> Nat]
      /\ worker \in [Workers -> {"none", "run", "closing", "last turn", "done"}]
    BY DEF ServerTypes, WorkerTypes
<1>n. srvPipe \in Nat /\ sigs \in Nat  BY <1>0
<1>a. srv \notin {"none", "run"} \/ srvPipe > 0 => sigs > 0  BY DEF Quiet
<1>b. \A w \in Workers : worker[w] = "closing" /\ pending[w] > 0 => late  BY DEF Quiet
<1>c. status = "killed" => sigs > 1 \/ late  BY DEF Quiet, QuietStop
\* The parts of the goal.
<1> DEFINE P == (srv \notin {"none", "run"} \/ srvPipe > 0 => sigs > 0)'
           Q == (\A w \in Workers : worker[w] = "closing" /\ pending[w] > 0 => late)'
           R == (status = "killed" => sigs > 1 \/ late)'
<1>1. ASSUME P, Q, R PROVE Quiet'  BY <1>1 DEF Quiet, QuietStop
<1>2. ASSUME UNCHANGED <<srv, srvPipe, sigs>> PROVE P  BY <1>2, <1>a
<1>3. ASSUME UNCHANGED workerVars PROVE Q
    <2>1. worker' = worker /\ pending' = pending /\ late' = late  BY <1>3
    <2> QED  BY <1>b, <2>1
<1>4. ASSUME UNCHANGED late, sigs' \in Nat, sigs' >= sigs, status' = "killed" => status = "killed"
      PROVE  R
    BY <1>c, <1>4, <1>n
<1>5. ASSUME InitFails \/ InitLog \/ CreateWorker \/ InitServers \/ InstallHandlers
             \/ StartThread \/ AssignThread \/ StartRtc \/ JoinServer
      PROVE  Quiet'
    <2>1. /\ UNCHANGED <<srvPipe, sigs, pending, late>>
          /\ srv' = srv \/ srv' = "run"
          /\ status' = "killed" => status = "killed"
        BY <1>5 DEF InitFails, InitLog, CreateWorker, InitServers, InstallHandlers,
           StartThread, AssignThread, StartRtc, JoinServer
    <2>2. worker' = worker \/ worker' = [worker EXCEPT ![started] = "run"]
        BY <1>5 DEF InitFails, InitLog, CreateWorker, InitServers, InstallHandlers,
           StartThread, AssignThread, StartRtc, JoinServer
    <2>3. \A w \in Workers : worker'[w] = "closing" => worker[w] = "closing"
        BY <1>0, <2>2
    <2>4. P  BY <1>a, <2>1
    <2>5. Q  BY <1>b, <2>1, <2>3
    <2>6. R  BY <1>n, <1>4, <2>1
    <2> QED  BY <1>1, <2>4, <2>5, <2>6
<1>6. ASSUME Dispatch \/ ReadQuit \/ CloseServer \/ StopWorker \/ JoinWorker \/ EndServer
      PROVE  Quiet'
    <2>1. /\ UNCHANGED <<status, worker, pending, late, sigs>>
          /\ \/ srv \notin {"none", "run"} /\ srvPipe' = srvPipe
             \/ srv' = srv /\ srvPipe' = srvPipe
             \/ srvPipe > 0
        BY <1>6 DEF Dispatch, ReadQuit, CloseServer, StopWorker, JoinWorker, EndServer
    <2>2. P  BY <1>a, <2>1
    <2>3. Q  BY <1>b, <2>1
    <2>4. R  BY <1>n, <1>4, <2>1
    <2> QED  BY <1>1, <2>2, <2>3, <2>4
<1>7. ASSUME NEW w \in Workers,
             HandleToken(w) \/ CloseWorker(w) \/ EndWorker(w) \/ Request(w)
      PROVE  Quiet'
    <2>1. UNCHANGED <<status, srv, srvPipe, late, sigs>>
        BY <1>7 DEF HandleToken, CloseWorker, EndWorker, Request
    <2>2. \A v \in Workers : worker'[v] = "closing" =>
             worker[v] = "closing" /\ pending'[v] = pending[v]
        BY <1>0, <1>7 DEF HandleToken, CloseWorker, EndWorker, Request
    <2>3. P  BY <1>2, <2>1
    <2>4. Q  BY <1>b, <2>1, <2>2
    <2>5. R  BY <1>n, <1>4, <2>1
    <2> QED  BY <1>1, <2>3, <2>4, <2>5
<1>8. ASSUME NEW w \in Workers, HandleQuit(w) PROVE Quiet'
    <2>1. /\ UNCHANGED <<status, srv, srvPipe, pending, sigs>>
          /\ worker' = [worker EXCEPT ![w] = "closing"]
        BY <1>8 DEF HandleQuit
    <2>2. late' = (late \/ pending[w] > 0)  BY <1>8, Zenon DEF HandleQuit
    <2>3. (late => late') /\ (pending[w] > 0 => late')  BY <2>2, Zenon
    <2>4. \A v \in Workers : v # w => worker'[v] = worker[v]  BY <1>0, <2>1
    <2>5. P  BY <1>2, <2>1
    <2>6. Q  BY <1>b, <2>1, <2>3, <2>4
    <2>7. R  BY <1>c, <2>1, <2>3
    <2> QED  BY <1>1, <2>5, <2>6, <2>7
<1>9. ASSUME NEW w \in Workers, Answer(w) PROVE Quiet'
    <2>1. /\ pending[w] > 0 /\ pending' = [pending EXCEPT ![w] = @ - 1]
          /\ status' = (IF worker[w] = "closing" THEN "killed" ELSE status)
          /\ UNCHANGED <<srv, srvPipe, worker, late, sigs>>
        BY <1>9 DEF Answer
    <2>2. \A v \in Workers : pending'[v] > 0 => pending[v] > 0  BY <1>0, <2>1
    <2>3. P  BY <1>2, <2>1
    <2>4. Q  BY <1>b, <2>1, <2>2
    <2>5. R  BY <1>b, <1>c, <2>1
    <2> QED  BY <1>1, <2>3, <2>4, <2>5
<1>10. ASSUME SignalEarly \/ Logging \/ UNCHANGED vars PROVE Quiet'
    <2>1. /\ UNCHANGED <<srv, srvPipe>> /\ UNCHANGED workerVars
          /\ sigs' = sigs \/ sigs' = sigs + 1
          /\ status' = "killed" => status = "killed"
        BY <1>10 DEF SignalEarly, Logging, vars
    <2>2. P  BY <1>n, <1>a, <2>1
    <2>3. Q  BY <1>3, <2>1
    <2>4. R  BY <1>n, <1>4, <2>1
    <2> QED  BY <1>1, <2>2, <2>3, <2>4
<1>11. ASSUME Signal PROVE Quiet'
    <2>1. /\ sigs' = sigs + 1 /\ UNCHANGED workerVars
          /\ status' = "killed" => status = "killed" \/ srv = "closing"
        BY <1>11 DEF Signal
    <2>2. P  BY <1>n, <2>1
    <2>3. Q  BY <1>3, <2>1
    <2>4. late' = late  BY <2>1
    <2>5. R  BY <1>n, <1>a, <1>c, <2>1, <2>4
    <2> QED  BY <1>1, <2>2, <2>3, <2>5
<1>12. ASSUME NEW t, SignalJams(t) PROVE Quiet'
    <2>1. /\ UNCHANGED <<status, srv, srvPipe>> /\ UNCHANGED workerVars
          /\ sigs' = sigs + 2 \/ sigs' = sigs + 1
        BY <1>12 DEF SignalJams
    <2>2. P  BY <1>n, <1>a, <2>1
    <2>3. Q  BY <1>3, <2>1
    <2>4. R  BY <1>n, <1>4, <2>1
    <2> QED  BY <1>1, <2>2, <2>3, <2>4
<1>13. ASSUME NEW w \in Workers, Wedge(w) \/ Unwedge(w) PROVE Quiet'
    <2>1. UNCHANGED <<status, srv, srvPipe, sigs>> /\ UNCHANGED workerVars
        BY <1>13 DEF Wedge, Unwedge
    <2>2. P  BY <1>2, <2>1
    <2>3. Q  BY <1>3, <2>1
    <2>4. R  BY <1>n, <1>4, <2>1
    <2> QED  BY <1>1, <2>2, <2>3, <2>4
<1> QED  BY <1>5, <1>6, <1>7, <1>8, <1>9, <1>10, <1>11, <1>12, <1>13, Zenon
         DEF Next, Main, Server, Worker

(***************************************************************************)
(* The log.                                                                *)
(***************************************************************************)

\* The messages of k are of severity s, at most n and in ascending order.
InOrder(k, s, n) ==
    /\ \A i \in DOMAIN k : k[i][1] = s /\ k[i][2] <= n
    /\ \A i, j \in DOMAIN k : i < j => k[i][2] < k[j][2]

\* What LogExact says of one severity.
Account(s) == InOrder(Kept(s), s, logged[s]) /\ Len(Kept(s)) + lost[s] = logged[s]

\* Files, string stream and queue, one after the other.
All(a, b, q) == a \o b \o q

\* The same with the last two put together first.
AllRight(a, b, q) == a \o (b \o q)

\* Sequences of log lines, put together.
LEMMA Concats ==
  /\ \A a, b \in Seq(Entries) : a \o b \in Seq(Entries) /\ Len(a \o b) = Len(a) + Len(b)
  /\ \A a, b \in Seq(Entries) : \A i \in 1 .. Len(a) + Len(b) :
        (a \o b)[i] = IF i <= Len(a) THEN a[i] ELSE b[i - Len(a)]
<1>1. ASSUME NEW a \in Seq(Entries), NEW b \in Seq(Entries)
      PROVE  /\ a \o b \in Seq(Entries) /\ Len(a \o b) = Len(a) + Len(b)
             /\ \A i \in 1 .. Len(a) + Len(b) :
                   (a \o b)[i] = IF i <= Len(a) THEN a[i] ELSE b[i - Len(a)]
    BY ConcatProperties
<1> QED  BY <1>1, Zenon

\* It does not matter which are put together first.
LEMMA Joins ==
  ASSUME NEW a \in Seq(Entries), NEW b \in Seq(Entries), NEW c \in Seq(Entries)
  PROVE  All(a, b, c) = AllRight(a, b, c)
<1> QED  BY ConcatAssociative DEF All, AllRight

\* Three sequences, one after the other.
LEMMA ThreeParts ==
  ASSUME NEW a \in Seq(Entries), NEW b \in Seq(Entries), NEW c \in Seq(Entries)
  PROVE  /\ a \o b \o c \in Seq(Entries) /\ Len(a \o b \o c) = Len(a) + Len(b) + Len(c)
         /\ DOMAIN (a \o b \o c) = 1 .. Len(a) + Len(b) + Len(c)
         /\ \A i \in 1 .. Len(a) + Len(b) + Len(c) :
               (a \o b \o c)[i] = IF i <= Len(a) THEN a[i]
                                  ELSE IF i <= Len(a) + Len(b) THEN b[i - Len(a)]
                                  ELSE c[i - (Len(a) + Len(b))]
<1>1. Len(a) \in Nat /\ Len(b) \in Nat /\ Len(c) \in Nat  BY LenProperties
<1> DEFINE d == a \o b
<1>2. /\ d \in Seq(Entries) /\ Len(d) = Len(a) + Len(b)
      /\ \A i \in 1 .. Len(a) + Len(b) : d[i] = IF i <= Len(a) THEN a[i] ELSE b[i - Len(a)]
    BY ConcatProperties
<1> HIDE DEF d
<1>3. /\ d \o c \in Seq(Entries) /\ Len(d \o c) = Len(d) + Len(c)
      /\ \A i \in 1 .. Len(d) + Len(c) :
            (d \o c)[i] = IF i <= Len(d) THEN d[i] ELSE c[i - Len(d)]
    BY <1>2, Concats, Zenon
<1>4. DOMAIN (d \o c) = 1 .. Len(d \o c)  BY <1>3, LenProperties
<1>5. ASSUME NEW i \in 1 .. Len(a) + Len(b) + Len(c)
      PROVE  (d \o c)[i] = IF i <= Len(a) THEN a[i]
                           ELSE IF i <= Len(a) + Len(b) THEN b[i - Len(a)]
                           ELSE c[i - (Len(a) + Len(b))]
    BY <1>1, <1>2, <1>3
<1> QED  BY <1>2, <1>3, <1>4, <1>5 DEF d

\* A part of a sequence, and the parts put together.
LEMMA Halves ==
  ASSUME NEW q \in Seq(Entries), NEW n \in 0 .. Len(q)
  PROVE  /\ SubSeq(q, 1, n) \in Seq(Entries) /\ SubSeq(q, n + 1, Len(q)) \in Seq(Entries)
         /\ Len(SubSeq(q, 1, n)) = n /\ \A i \in 1 .. n : SubSeq(q, 1, n)[i] = q[i]
         /\ SubSeq(q, 1, n) \o SubSeq(q, n + 1, Len(q)) = q
<1>1. Len(q) \in Nat /\ n \in Nat /\ n <= Len(q) /\ \A i \in 1 .. Len(q) : q[i] \in Entries
    BY LenProperties
<1>2. /\ SubSeq(q, 1, n) \in Seq(Entries)
      /\ Len(SubSeq(q, 1, n)) = IF 1 <= n THEN n - 1 + 1 ELSE 0
      /\ \A i \in 1 .. n - 1 + 1 : SubSeq(q, 1, n)[i] = q[1 + i - 1]
    <2>1. \A i \in 1 .. n : q[i] \in Entries  BY <1>1
    <2> QED  BY <1>1, <2>1, SubSeqProperties
<1>3. SubSeq(q, n + 1, Len(q)) \in Seq(Entries)
    <2>1. \A i \in n + 1 .. Len(q) : q[i] \in Entries  BY <1>1
    <2>2. n + 1 \in Int /\ Len(q) \in Int  BY <1>1
    <2> QED  BY <2>1, <2>2, SubSeqProperties
<1>4. SubSeq(q, 1, n) \o SubSeq(q, n + 1, Len(q)) = SubSeq(q, 1, Len(q))
    <2>1. 1 \in 1 .. Len(q) + 1 /\ n \in 1 - 1 .. Len(q) /\ Len(q) \in n .. Len(q)  BY <1>1
    <2> QED  BY <2>1, ConcatAdjacentSubSeq
<1>5. SubSeq(q, 1, Len(q)) = q  BY SubSeqFull
<1>6. Len(SubSeq(q, 1, n)) = n  BY <1>1, <1>2
<1>7. \A i \in 1 .. n : SubSeq(q, 1, n)[i] = q[i]
    <2>1. \A i \in 1 .. n : i \in 1 .. n - 1 + 1 /\ 1 + i - 1 = i  BY <1>1
    <2> QED  BY <1>2, <2>1
<1> QED  BY <1>2, <1>3, <1>4, <1>5, <1>6, <1>7

\* Messages that move on from q to b stay in their places.
LEMMA MovedOn ==
  ASSUME NEW a \in Seq(Entries), NEW b \in Seq(Entries), NEW q \in Seq(Entries),
         NEW n \in 0 .. Len(q)
  PROVE  /\ b \o SubSeq(q, 1, n) \in Seq(Entries)
         /\ All(a, b \o SubSeq(q, 1, n), SubSeq(q, n + 1, Len(q))) = All(a, b, q)
<1>1. PICK x \in Seq(Entries) : x = SubSeq(q, 1, n)  BY Halves
<1>2. PICK y \in Seq(Entries) : y = SubSeq(q, n + 1, Len(q))  BY Halves
<1>3. x \o y = q  BY <1>1, <1>2, Halves
<1>4. b \o x \in Seq(Entries)  BY Concats, Zenon
<1>5. PICK c \in Seq(Entries) : c = b \o x  BY <1>4
<1>6. All(a, c, y) = AllRight(a, c, y)  BY Joins, Zenon
<1>7. All(b, x, y) = AllRight(b, x, y)  BY Joins, Zenon
<1>8. All(a, b, q) = AllRight(a, b, q)  BY Joins, Zenon
<1>9. c \o y = b \o q  BY <1>3, <1>5, <1>7, Zenon DEF All, AllRight
<1>10. All(a, b \o x, y) = All(a, b, q)  BY <1>5, <1>6, <1>8, <1>9, Zenon DEF AllRight
<1> QED  BY <1>1, <1>2, <1>4, <1>10, Zenon

\* The next message goes behind all others.
LEMMA OneMore ==
  ASSUME NEW s \in Severities, NEW n \in Nat, NEW a \in Seq(Entries), NEW b \in Seq(Entries),
         NEW q \in Seq(Entries), InOrder(All(a, b, q), s, n)
  PROVE  /\ Append(q, <<s, n + 1>>) \in Seq(Entries)
         /\ InOrder(All(a, b, Append(q, <<s, n + 1>>)), s, n + 1)
         /\ Len(All(a, b, Append(q, <<s, n + 1>>))) = Len(All(a, b, q)) + 1
<1>1. PICK e \in Entries : e = <<s, n + 1>>
    <2>1. <<s, n + 1>> \in Entries  BY DEF Entries
    <2> QED  BY <2>1
<1>2. e[1] = s /\ e[2] = n + 1  BY <1>1
<1> DEFINE k == a \o b \o q
           l == k \o <<e>>
<1>3. k \in Seq(Entries) /\ <<e>> \in Seq(Entries) /\ Len(<<e>>) = 1 /\ <<e>>[1] = e
    BY ThreeParts
<1>4. Append(q, e) \in Seq(Entries) /\ a \o b \o Append(q, e) = l
    <2>1. Append(q, e) = q \o <<e>>  BY AppendIsConcat
    <2>2. a \o b \in Seq(Entries)  BY ConcatProperties
    <2>3. ((a \o b) \o q) \o <<e>> = (a \o b) \o (q \o <<e>>)
        <3>1. PICK c \in Seq(Entries) : c = <<e>>  BY <1>3, Zenon
        <3>2. PICK d \in Seq(Entries) : d = a \o b  BY <2>2
        <3>3. All(d, q, c) = AllRight(d, q, c)  BY Joins, Zenon
        <3> QED  BY <3>1, <3>2, <3>3, Zenon DEF All, AllRight
    <2> QED  BY <2>1, <2>3, AppendProperties
<1>o. InOrder(k, s, n)  BY DEF All
<1> HIDE DEF k
<1>5. /\ l \in Seq(Entries) /\ Len(l) = Len(k) + 1 /\ Len(k) \in Nat
      /\ DOMAIN k = 1 .. Len(k) /\ DOMAIN l = 1 .. Len(k) + 1
    BY <1>3, ConcatProperties, LenProperties
<1>6. \A i \in 1 .. Len(k) + 1 : l[i] = IF i <= Len(k) THEN k[i] ELSE e
    <2>1. \A i \in 1 .. Len(k) + 1 : l[i] = IF i <= Len(k) THEN k[i] ELSE <<e>>[i - Len(k)]
        BY <1>3, ConcatProperties
    <2>2. \A i \in 1 .. Len(k) + 1 : ~(i <= Len(k)) => i - Len(k) = 1  BY <1>5
    <2> QED  BY <1>3, <2>1, <2>2
<1> HIDE DEF l
<1>7. \A i \in 1 .. Len(k) : k[i][1] = s /\ k[i][2] \in Nat /\ k[i][2] <= n
    <2>1. \A i \in 1 .. Len(k) : k[i] \in Entries  BY <1>3, LenProperties
    <2> QED  BY <1>o, <1>5, <2>1 DEF InOrder, Entries
<1>8. \A i \in DOMAIN l : l[i][1] = s /\ l[i][2] <= n + 1
    BY <1>2, <1>5, <1>6, <1>7
<1>9. ASSUME NEW i \in DOMAIN l, NEW j \in DOMAIN l, i < j PROVE l[i][2] < l[j][2]
    <2>1. i \in 1 .. Len(k) /\ l[i] = k[i]  BY <1>5, <1>6, <1>9
    <2>2. CASE j <= Len(k)
        <3>1. j \in 1 .. Len(k) /\ l[j] = k[j]  BY <1>5, <1>6, <2>2
        <3> QED  BY <1>o, <1>5, <1>9, <2>1, <3>1 DEF InOrder
    <2>3. CASE ~(j <= Len(k))
        <3>1. l[j] = e  BY <1>5, <1>6, <2>3
        <3> QED  BY <1>2, <1>7, <2>1, <3>1
    <2> QED  BY <2>2, <2>3
<1>10. InOrder(l, s, n + 1)  BY <1>8, <1>9 DEF InOrder
<1> QED  BY <1>1, <1>4, <1>5, <1>10 DEF k, All

\* What is left when the end of the middle part is lost is still in order.
LEMMA CutOut ==
  ASSUME NEW s \in Severities, NEW m \in Nat, NEW a \in Seq(Entries), NEW b \in Seq(Entries),
         NEW q \in Seq(Entries), NEW n \in 0 .. Len(b), InOrder(All(a, b, q), s, m)
  PROVE  /\ a \o SubSeq(b, 1, n) \in Seq(Entries)
         /\ InOrder(All(a, SubSeq(b, 1, n), q), s, m)
         /\ Len(All(a, SubSeq(b, 1, n), q)) + (Len(b) - n) = Len(All(a, b, q))
<1> DEFINE x == SubSeq(b, 1, n)
           k == a \o b \o q
           l == a \o x \o q
           f(i) == IF i <= Len(a) + n THEN i ELSE i + (Len(b) - n)
<1>1. x \in Seq(Entries) /\ Len(x) = n /\ \A i \in 1 .. n : x[i] = b[i]  BY Halves
<1>o. InOrder(k, s, m)  BY DEF All
<1>2. Len(a) \in Nat /\ Len(b) \in Nat /\ Len(q) \in Nat /\ n \in Nat /\ n <= Len(b)
    BY LenProperties
<1> HIDE DEF x
<1>3. /\ k \in Seq(Entries) /\ Len(k) = Len(a) + Len(b) + Len(q)
      /\ DOMAIN k = 1 .. Len(a) + Len(b) + Len(q)
      /\ \A i \in 1 .. Len(a) + Len(b) + Len(q) :
            k[i] = IF i <= Len(a) THEN a[i]
                   ELSE IF i <= Len(a) + Len(b) THEN b[i - Len(a)]
                   ELSE q[i - (Len(a) + Len(b))]
    BY ThreeParts
<1>4. /\ l \in Seq(Entries) /\ Len(l) = Len(a) + n + Len(q)
      /\ DOMAIN l = 1 .. Len(a) + n + Len(q)
      /\ \A i \in 1 .. Len(a) + n + Len(q) :
            l[i] = IF i <= Len(a) THEN a[i]
                   ELSE IF i <= Len(a) + n THEN x[i - Len(a)]
                   ELSE q[i - (Len(a) + n)]
    <2>1. x \in Seq(Entries) /\ Len(x) = n  BY <1>1
    <2>2. /\ a \o x \o q \in Seq(Entries) /\ Len(a \o x \o q) = Len(a) + Len(x) + Len(q)
          /\ DOMAIN (a \o x \o q) = 1 .. Len(a) + Len(x) + Len(q)
          /\ \A i \in 1 .. Len(a) + Len(x) + Len(q) :
                (a \o x \o q)[i] = IF i <= Len(a) THEN a[i]
                                   ELSE IF i <= Len(a) + Len(x) THEN x[i - Len(a)]
                                   ELSE q[i - (Len(a) + Len(x))]
        <3>1. x \in Seq(Entries)  BY <2>1
        <3> QED  BY <3>1, ThreeParts, Zenon
    <2> QED  BY <2>1, <2>2, Zenon
<1> HIDE DEF k, l
<1>5. \A i \in DOMAIN l : f(i) \in DOMAIN k /\ l[i] = k[f(i)]
    <2> SUFFICES ASSUME NEW i \in DOMAIN l PROVE f(i) \in DOMAIN k /\ l[i] = k[f(i)]
        OBVIOUS
    <2>1. i \in 1 .. Len(a) + n + Len(q)  BY <1>4
    <2>2. f(i) \in 1 .. Len(a) + Len(b) + Len(q)  BY <1>2, <2>1
    <2>3. CASE i <= Len(a)
        <3>1. f(i) = i  BY <1>2, <2>1, <2>3
        <3>2. l[i] = a[i]  BY <1>4, <2>1, <2>3
        <3>3. k[f(i)] = a[i]  BY <1>3, <2>2, <2>3, <3>1
        <3> QED  BY <1>3, <2>2, <3>2, <3>3
    <2>4. CASE i > Len(a) /\ i <= Len(a) + n
        <3>1. i - Len(a) \in 1 .. n /\ f(i) = i /\ i <= Len(a) + Len(b) /\ ~(i <= Len(a))
            BY <1>2, <2>1, <2>4
        <3>2. l[i] = x[i - Len(a)]  BY <1>4, <2>1, <2>4, <3>1
        <3>3. k[f(i)] = b[i - Len(a)]  BY <1>3, <2>2, <3>1
        <3> QED  BY <1>1, <1>3, <2>2, <3>1, <3>2, <3>3
    <2>5. CASE i > Len(a) + n
        <3>1. /\ f(i) = i + (Len(b) - n) /\ ~(f(i) <= Len(a)) /\ ~(f(i) <= Len(a) + Len(b))
              /\ f(i) - (Len(a) + Len(b)) = i - (Len(a) + n)
              /\ ~(i <= Len(a)) /\ ~(i <= Len(a) + n)
            BY <1>2, <2>1, <2>5
        <3>2. l[i] = q[i - (Len(a) + n)]  BY <1>4, <2>1, <3>1
        <3>3. k[f(i)] = q[f(i) - (Len(a) + Len(b))]  BY <1>3, <2>2, <3>1
        <3> QED  BY <1>3, <2>2, <3>1, <3>2, <3>3
    <2> QED  BY <1>2, <2>1, <2>3, <2>4, <2>5
<1>6. \A i, j \in DOMAIN l : i < j => f(i) < f(j)  BY <1>2, <1>4
<1> HIDE DEF f
<1>7. InOrder(l, s, m)  BY <1>o, <1>5, <1>6 DEF InOrder
<1>8. a \o x \in Seq(Entries)  BY <1>1, ConcatProperties
<1>9. Len(l) + (Len(b) - n) = Len(k)  BY <1>2, <1>3, <1>4
<1> QED  BY <1>7, <1>8, <1>9 DEF x, k, l, All

\* Which steps the log sees.
LEMMA LogKinds ==
  ASSUME [Next]_vars
  PROVE  \/ UNCHANGED <<logged, queue, ss, written, lost, logAt>>
         \/ StartLog \/ CheckFiles
         \/ \E s \in Severities : OnLogMessage(s) \/ TakeQueue(s) \/ WriteStream(s)
         \/ \E q : Jam(<<"log">>, q)
<1> DEFINE A == UNCHANGED <<logged, queue, ss, written, lost, logAt>>
           J == \E q : Jam(<<"log">>, q)
<1> USE DEF logVars, fileVars
<1>1. ASSUME InitFails \/ CreateWorker \/ InitServers \/ InstallHandlers
             \/ StartThread \/ AssignThread \/ StartRtc \/ JoinServer
      PROVE  A
    BY <1>1 DEF InitFails, CreateWorker, InitServers, InstallHandlers,
       StartThread, AssignThread, StartRtc, JoinServer
<1>0. ASSUME InitLog PROVE StartLog  BY <1>0 DEF InitLog
<1>2. ASSUME Dispatch \/ ReadQuit \/ CloseServer \/ StopWorker \/ JoinWorker \/ EndServer
      PROVE  A
    BY <1>2 DEF Dispatch, ReadQuit, CloseServer, StopWorker, JoinWorker, EndServer
<1>3. ASSUME NEW w \in Workers,
             \/ HandleToken(w) \/ HandleQuit(w) \/ CloseWorker(w) \/ EndWorker(w)
             \/ Request(w) \/ Answer(w) \/ Wedge(w) \/ Unwedge(w)
      PROVE  A
    BY <1>3 DEF HandleToken, HandleQuit, CloseWorker, EndWorker, Request, Answer, Wedge, Unwedge
<1>4. ASSUME SignalEarly \/ Signal \/ UNCHANGED vars PROVE A
    BY <1>4 DEF SignalEarly, Signal, vars
<1>5. ASSUME NEW t, SignalJams(t) PROVE A \/ J
    <2>1. PICK q : Jam(t, q)  BY <1>5 DEF SignalJams
    <2>2. CASE t = <<"log">>  BY <2>1, <2>2
    <2>3. CASE t # <<"log">>  BY <2>1, <2>3 DEF Jam
    <2> QED  BY <2>2, <2>3
<1>7. ASSUME NEW s \in Severities, MoveFile(s) PROVE A  BY <1>7 DEF MoveFile
<1> HIDE DEF A, J
<1>8. \/ A \/ StartLog \/ CheckFiles \/ J
      \/ \E s \in Severities : OnLogMessage(s) \/ TakeQueue(s) \/ WriteStream(s)
    BY <1>0, <1>1, <1>2, <1>3, <1>4, <1>5, <1>7, Zenon
    DEF Next, Main, Server, Worker, Logging, LogThread
<1> QED  BY <1>8 DEF A, J

\* LogExact and the account of each severity are the same.
LEMMA Accounts == LogExact <=> \A s \in Severities : Account(s)
<1> QED  BY Zenon DEF LogExact, Account, InOrder

\* The parts of an account have their types.
LEMMA AccountTypes ==
  ASSUME LogTypes, NEW s \in Severities
  PROVE  /\ written[s] \in Seq(Entries) /\ queue[s] \in Seq(Entries) /\ ss \in Seq(Entries)
         /\ Streamed(s) \in Seq(Entries) /\ logged[s] \in Nat /\ lost[s] \in Nat
<1>1. <<>> \in Seq(Entries)  BY EmptySeq
<1> QED  BY <1>1 DEF LogTypes, Streamed

\* The log thread is at one queue at a time.
LEMMA Places ==
  ASSUME NEW s \in Severities, NEW r \in Severities, r # s
  PROVE  s \notin {r, Writing(r)} /\ Writing(s) \notin {r, Writing(r)}
<1>1. CASE s = "info"
    <2>1. r = "wf"  BY <1>1 DEF Severities
    <2> QED  BY <1>1, <2>1 DEF Writing
<1>2. CASE s = "wf"
    <2>1. r = "info"  BY <1>2 DEF Severities
    <2> QED  BY <1>2, <2>1 DEF Writing
<1> QED  BY <1>1, <1>2 DEF Severities

\* A severity whose messages stay in their places.
LEMMA SameAccount ==
  ASSUME NEW s, Account(s), Kept(s)' = Kept(s), logged'[s] = logged[s], lost'[s] = lost[s]
  PROVE  Account(s)'
<1> QED  BY DEF Account, InOrder

\* Messages of severity s move from its queue to the string stream.
LEMMA TakeStep ==
  ASSUME Exact, NEW s \in Severities, NEW n \in 0 .. Len(queue[s]), TakeMessages(s, n),
         logAt = s, logAt' \in {s, Writing(s)}, UNCHANGED <<logged, written, lost>>
  PROVE  Exact'
<1>1. LogTypes /\ LogExact  BY DEF Exact
<1>2. /\ written[s] \in Seq(Entries) /\ queue[s] \in Seq(Entries) /\ ss \in Seq(Entries)
    BY <1>1, AccountTypes
<1>3. /\ queue' = [queue EXCEPT ![s] = SubSeq(queue[s], n + 1, Len(queue[s]))]
      /\ ss' = ss \o SubSeq(queue[s], 1, n)
    BY DEF TakeMessages
<1>4. /\ ss' \in Seq(Entries) /\ SubSeq(queue[s], n + 1, Len(queue[s])) \in Seq(Entries)
      /\ written[s] \o ss' \o SubSeq(queue[s], n + 1, Len(queue[s])) = written[s] \o ss \o queue[s]
    <2>1. /\ ss \o SubSeq(queue[s], 1, n) \in Seq(Entries)
          /\ written[s] \o (ss \o SubSeq(queue[s], 1, n)) \o SubSeq(queue[s], n + 1, Len(queue[s]))
                = written[s] \o ss \o queue[s]
        <3>1. /\ ss \o SubSeq(queue[s], 1, n) \in Seq(Entries)
              /\ All(written[s], ss \o SubSeq(queue[s], 1, n),
                     SubSeq(queue[s], n + 1, Len(queue[s]))) = All(written[s], ss, queue[s])
            BY <1>2, MovedOn, Zenon
        <3> QED  BY <3>1, Zenon DEF All
    <2>2. SubSeq(queue[s], n + 1, Len(queue[s])) \in Seq(Entries)  BY <1>2, Halves, Zenon
    <2> QED  BY <1>3, <2>1, <2>2, Zenon
<1>5. LogTypes'  BY <1>1, <1>3, <1>4 DEF LogTypes
<1>6. Cleared'  BY DEF Cleared, Severities, Writing
<1>7. ASSUME NEW r \in Severities PROVE Account(r)'
    <2>1. Account(r)  BY <1>1, Accounts
    <2>2. CASE r = s
        <3>1. Streamed(s) = ss /\ Streamed(s)' = ss'  BY DEF Streamed
        <3>2. queue'[s] = SubSeq(queue[s], n + 1, Len(queue[s]))
            BY <1>1, <1>3 DEF LogTypes
        <3>3. Kept(s)' = Kept(s)  BY <1>4, <3>1, <3>2 DEF Kept
        <3> QED  BY <2>1, <2>2, <3>3, SameAccount
    <2>3. CASE r # s
        <3>1. queue'[r] = queue[r]  BY <1>1, <1>3, <2>3 DEF LogTypes
        <3>2. logAt \notin {r, Writing(r)} /\ logAt' \notin {r, Writing(r)}
            BY <2>3, Places
        <3>3. Streamed(r) = <<>> /\ Streamed(r)' = <<>>  BY <3>2 DEF Streamed
        <3>4. Kept(r)' = Kept(r)  BY <3>1, <3>3 DEF Kept
        <3> QED  BY <2>1, <3>4, SameAccount
    <2> QED  BY <2>2, <2>3
<1>8. LogExact'  BY <1>7, Accounts DEF LogExact, Account, InOrder
<1> QED  BY <1>5, <1>6, <1>8 DEF Exact

\* A message is queued.
LEMMA QueueStep ==
  ASSUME Exact, NEW s \in Severities, OnLogMessage(s) PROVE Exact'
<1>1. LogTypes /\ Cleared /\ LogExact  BY DEF Exact
<1>2. /\ written[s] \in Seq(Entries) /\ queue[s] \in Seq(Entries)
      /\ Streamed(s) \in Seq(Entries) /\ lost[s] \in Nat
    BY <1>1, AccountTypes
<1>3. PICK n \in Nat : n = logged[s]  BY <1>1, AccountTypes
<1>4. logged' = [logged EXCEPT ![s] = n + 1] /\ UNCHANGED <<ss, written, lost, logAt>>
    BY <1>3 DEF OnLogMessage, fileVars
<1>5. logged'[s] = n + 1 /\ \A r \in Severities : r # s => logged'[r] = logged[r]
    BY <1>1, <1>4 DEF LogTypes
<1>6. queue' = [queue EXCEPT ![s] = Append(queue[s], <<s, n + 1>>)]
    BY <1>5 DEF OnLogMessage
<1>7. Account(s) /\ InOrder(Kept(s), s, n) /\ Len(Kept(s)) + lost[s] = n
    BY <1>1, <1>3, Accounts DEF Account
<1>8. /\ Append(queue[s], <<s, n + 1>>) \in Seq(Entries)
      /\ InOrder(written[s] \o Streamed(s) \o Append(queue[s], <<s, n + 1>>), s, n + 1)
      /\ Len(written[s] \o Streamed(s) \o Append(queue[s], <<s, n + 1>>)) = Len(Kept(s)) + 1
    <2>1. InOrder(All(written[s], Streamed(s), queue[s]), s, n)  BY <1>7 DEF Kept, All
    <2>2. /\ Append(queue[s], <<s, n + 1>>) \in Seq(Entries)
          /\ InOrder(All(written[s], Streamed(s), Append(queue[s], <<s, n + 1>>)), s, n + 1)
          /\ Len(All(written[s], Streamed(s), Append(queue[s], <<s, n + 1>>)))
                = Len(All(written[s], Streamed(s), queue[s])) + 1
        BY <1>2, <2>1, OneMore
    <2> QED  BY <2>2, Zenon DEF Kept, All
<1>9. LogTypes'  BY <1>1, <1>4, <1>6, <1>8 DEF LogTypes
<1>10. ASSUME NEW r \in Severities PROVE Account(r)'
    <2>1. Account(r)  BY <1>1, Accounts
    <2>2. Streamed(r)' = Streamed(r)  BY <1>4 DEF Streamed
    <2>3. CASE r = s
        <3>1. Kept(s)' = written[s] \o Streamed(s) \o Append(queue[s], <<s, n + 1>>)
            BY <1>1, <1>4, <1>6, <2>2, <2>3 DEF Kept, LogTypes
        <3>2. InOrder(Kept(s)', s, logged'[s])  BY <1>5, <1>8, <3>1
        <3>3. Len(Kept(s)) \in Nat
            <4>1. Kept(s) \in Seq(Entries)  BY <1>2, ThreeParts DEF Kept
            <4> QED  BY <4>1, LenProperties
        <3>4. Len(Kept(s)') + lost'[s] = logged'[s]
            <4>1. /\ Len(Kept(s)') = Len(Kept(s)) + 1 /\ lost'[s] = lost[s]
                  /\ logged'[s] = n + 1 /\ Len(Kept(s)) + lost[s] = n
                BY <1>4, <1>5, <1>7, <1>8, <3>1, Zenon
            <4>2. \A x, y \in Nat : x + y = n => x + 1 + y = n + 1  OBVIOUS
            <4> QED  BY <1>2, <3>3, <4>1, <4>2, Zenon
        <3> QED  BY <2>3, <3>2, <3>4 DEF Account, InOrder
    <2>4. CASE r # s
        <3>1. queue'[r] = queue[r]  BY <1>1, <1>6, <2>4 DEF LogTypes
        <3>2. Kept(r)' = Kept(r)  BY <1>4, <2>2, <3>1 DEF Kept
        <3> QED  BY <1>4, <1>5, <2>1, <2>4, <3>2, SameAccount
    <2> QED  BY <2>3, <2>4
<1>11. LogExact'  BY <1>10, Accounts DEF LogExact, Account, InOrder
<1>12. Cleared'  BY <1>1, <1>4 DEF Cleared
<1> QED  BY <1>9, <1>11, <1>12 DEF Exact

\* The string stream goes to a file, or a part of it does.
LEMMA WriteStep ==
  ASSUME Exact, NEW s \in Severities, WriteStream(s) PROVE Exact'
<1>1. LogTypes /\ LogExact  BY DEF Exact
<1>2. /\ written[s] \in Seq(Entries) /\ queue[s] \in Seq(Entries) /\ ss \in Seq(Entries)
      /\ logged[s] \in Nat /\ lost[s] \in Nat /\ Len(ss) \in Nat
    BY <1>1, AccountTypes, LenProperties
<1>3. PICK n \in 0 .. Len(ss) :
          /\ written' = [written EXCEPT ![s] = @ \o SubSeq(ss, 1, n)]
          /\ lost' = [lost EXCEPT ![s] = @ + Len(ss) - n]
    <2>1. PICK n \in (IF good[s] THEN 0 .. Len(ss) ELSE {0}) :
              /\ written' = [written EXCEPT ![s] = @ \o SubSeq(ss, 1, n)]
              /\ lost' = [lost EXCEPT ![s] = @ + Len(ss) - n]
        BY DEF WriteStream
    <2>2. n \in 0 .. Len(ss)  BY <1>2
    <2> QED  BY <2>1, <2>2
<1>4. /\ logAt = Writing(s) /\ logAt' = (IF s = "info" THEN "wf" ELSE "check")
      /\ ss' = <<>> /\ UNCHANGED <<logged, queue>>
    BY DEF WriteStream, ClearStream
<1>5. Streamed(s) = ss  BY <1>4 DEF Streamed
<1>6. Account(s) /\ InOrder(written[s] \o ss \o queue[s], s, logged[s])
      /\ Len(written[s] \o ss \o queue[s]) + lost[s] = logged[s]
    BY <1>1, <1>5, Accounts DEF Account, Kept
<1>7. /\ written[s] \o SubSeq(ss, 1, n) \in Seq(Entries)
      /\ InOrder(written[s] \o SubSeq(ss, 1, n) \o queue[s], s, logged[s])
      /\ Len(written[s] \o SubSeq(ss, 1, n) \o queue[s]) + (Len(ss) - n)
            = Len(written[s] \o ss \o queue[s])
    <2>1. InOrder(All(written[s], ss, queue[s]), s, logged[s])  BY <1>6 DEF All
    <2>2. /\ written[s] \in Seq(Entries) /\ queue[s] \in Seq(Entries) /\ ss \in Seq(Entries)
          /\ logged[s] \in Nat
        BY <1>2
    <2>3. /\ written[s] \o SubSeq(ss, 1, n) \in Seq(Entries)
          /\ InOrder(All(written[s], SubSeq(ss, 1, n), queue[s]), s, logged[s])
          /\ Len(All(written[s], SubSeq(ss, 1, n), queue[s])) + (Len(ss) - n)
                = Len(All(written[s], ss, queue[s]))
        BY <2>1, <2>2, CutOut
    <2> QED  BY <2>3, Zenon DEF All
<1>8. LogTypes'
    <2>1. lost[s] + Len(ss) - n \in Nat  BY <1>2
    <2>2. <<>> \in Seq(Entries)  BY EmptySeq
    <2> QED  BY <1>1, <1>3, <1>4, <1>7, <2>1, <2>2 DEF LogTypes
<1>9. \A r \in Severities : Streamed(r)' = <<>>  BY <1>4 DEF Streamed
<1>10. ASSUME NEW r \in Severities PROVE Account(r)'
    <2>1. Account(r)  BY <1>1, Accounts
    <2>2. CASE r = s
        <3> DEFINE w == written[s] \o SubSeq(ss, 1, n)
                   l == w \o queue[s]
        <3>1. Kept(s)' = w \o <<>> \o queue[s]
            BY <1>1, <1>3, <1>4, <1>9 DEF Kept, LogTypes
        <3>2. w \o <<>> = w  BY <1>7, ConcatEmptySeq
        <3>3. Kept(s)' = l  BY <3>1, <3>2
        <3>4. Len(l) \in Nat /\ Len(written[s] \o ss \o queue[s]) \in Nat
            <4>1. l \in Seq(Entries)  BY <1>2, <1>7, ConcatProperties
            <4>2. written[s] \o ss \o queue[s] \in Seq(Entries)  BY <1>2, ThreeParts
            <4> QED  BY <4>1, <4>2, LenProperties
        <3>5. lost'[s] = lost[s] + Len(ss) - n  BY <1>1, <1>3 DEF LogTypes
        <3>6. InOrder(l, s, logged[s]) /\ Len(l) + (Len(ss) - n) = Len(written[s] \o ss \o queue[s])
            BY <1>7
        <3> HIDE DEF l, w
        <3>7. Len(l) + lost'[s] = logged[s]
            <4>1. PICK x \in Nat : x = Len(l)  BY <3>4
            <4>2. PICK y \in Nat : y = Len(written[s] \o ss \o queue[s])  BY <3>4
            <4>3. PICK u \in Nat : u = Len(ss)  BY <1>2
            <4>4. x + (u - n) = y  BY <3>6, <4>1, <4>2, <4>3, Zenon
            <4>5. y + lost[s] = logged[s]  BY <1>6, <4>2, Zenon
            <4>6. n \in Nat /\ lost[s] \in Nat /\ logged[s] \in Nat  BY <1>2
            <4>7. x + (lost[s] + u - n) = logged[s]  BY <4>4, <4>5, <4>6
            <4> QED  BY <3>5, <4>1, <4>3, <4>7, Zenon
        <3> QED  BY <1>4, <2>2, <3>3, <3>6, <3>7 DEF Account, InOrder
    <2>3. CASE r # s
        <3>1. written'[r] = written[r] /\ lost'[r] = lost[r]
            BY <1>1, <1>3, <2>3 DEF LogTypes
        <3>2. logAt \notin {r, Writing(r)}  BY <1>4, <2>3, Places
        <3>3. Streamed(r) = <<>>  BY <3>2 DEF Streamed
        <3>4. Kept(r)' = Kept(r)  BY <1>4, <1>9, <3>1, <3>3 DEF Kept
        <3> QED  BY <1>4, <2>1, <3>1, <3>4, SameAccount
    <2> QED  BY <2>2, <2>3
<1>11. LogExact'  BY <1>10, Accounts DEF LogExact, Account, InOrder
<1>12. Cleared'  BY <1>4 DEF Cleared
<1> QED  BY <1>8, <1>11, <1>12 DEF Exact

\* Every step keeps the accounts of the log.
LEMMA ExactStep ==
  ASSUME Exact, [Next]_vars
  PROVE  Exact'
<1>1. CASE UNCHANGED <<logged, queue, ss, written, lost, logAt>>
    <2>1. \A r \in Severities : Kept(r)' = Kept(r)  BY <1>1 DEF Kept, Streamed
    <2>2. \A r \in Severities : Account(r)'  BY <1>1, <2>1, Accounts, SameAccount DEF Exact
    <2>3. LogExact'  BY <2>2 DEF LogExact, Account, InOrder
    <2> QED  BY <1>1, <2>3 DEF Exact, LogTypes, Cleared
<1>2. CASE StartLog \/ CheckFiles
    <2>1. /\ UNCHANGED <<logged, queue, ss, written, lost>> /\ logAt \in {"none", "check"}
        BY <1>2 DEF StartLog, CheckFiles, fileVars
    <2>2. ss = <<>> /\ ss' = <<>>  BY <2>1 DEF Exact, Cleared
    <2>3. \A r \in Severities : Kept(r)' = Kept(r)  BY <2>1, <2>2 DEF Kept, Streamed
    <2>4. \A r \in Severities : Account(r)'  BY <2>1, <2>3, Accounts, SameAccount DEF Exact
    <2>5. LogExact'  BY <2>4 DEF LogExact, Account, InOrder
    <2> QED  BY <2>1, <2>2, <2>5 DEF Exact, LogTypes, Cleared
<1>3. ASSUME NEW s \in Severities, TakeQueue(s) PROVE Exact'
    <2>1. /\ logAt = s /\ logAt' = Writing(s) /\ TakeMessages(s, Len(queue[s]))
          /\ UNCHANGED <<logged, written, lost>>
        BY <1>3 DEF TakeQueue, fileVars
    <2>2. Len(queue[s]) \in 0 .. Len(queue[s])
        <3>1. queue[s] \in Seq(Entries)  BY AccountTypes DEF Exact
        <3> QED  BY <3>1, LenProperties
    <2> QED  BY <2>1, <2>2, TakeStep
<1>4. ASSUME NEW q, Jam(<<"log">>, q) PROVE Exact'
    <2>1. /\ q = logAt /\ q \in Severities
          /\ \E n \in 0 .. Len(queue[q]) : TakeMessages(q, n)
          /\ UNCHANGED <<logged, written, lost, logAt>>
        BY <1>4 DEF Jam, fileVars
    <2> QED  BY <2>1, TakeStep
<1> QED  BY <1>1, <1>2, <1>3, <1>4, LogKinds, QueueStep, WriteStep

(***************************************************************************)
(* The theorems.                                                           *)
(***************************************************************************)

\* When main starts, nothing has been started or logged.
LEMMA LInvInit == Init => LInv
<1> SUFFICES ASSUME Init PROVE LInv
    OBVIOUS
<1>1. WorkerTypes  BY EmptySeq DEF Init, WorkerTypes
<1>2. ServerTypes  BY LifecycleAssumption DEF Init, ServerTypes
<1>3. \A w \in Workers : wPipe[w] = <<>> /\ worker[w] = "none" /\ DOMAIN wPipe[w] = {}
    BY DEF Init
<1>4. Undisturbed /\ InTurn  BY <1>3 DEF Undisturbed, InTurn
<1>5. Joined
    <2>1. stopping = 0 /\ srv = "none" /\ status = "up"  BY DEF Init
    <2>2. \A w \in Workers : ~(w < 0)  BY WorkerNumbers, <1>2
    <2> QED  BY <2>1, <2>2 DEF Joined
<1>6. Quiet  BY <1>3 DEF Init, Quiet, QuietStop
<1>7. Exact
    <2>1. LogTypes /\ Cleared  BY EmptySeq DEF Init, LogInit, LogTypes, Cleared
    <2>2. \A s \in Severities : Kept(s) = <<>> /\ logged[s] = 0 /\ lost[s] = 0
        BY ConcatEmptySeq, EmptySeq DEF Init, LogInit, Kept, Streamed
    <2>3. Len(<<>>) = 0 /\ DOMAIN <<>> = {}  BY EmptySeq
    <2> QED  BY <2>1, <2>2, <2>3 DEF Exact, LogExact
<1> QED  BY <1>1, <1>2, <1>4, <1>5, <1>6, <1>7 DEF LInv, Stop

\* The invariant of the whole process.
THEOREM LifecycleInvariance == Spec => []LInv
<1>1. LInv /\ [Next]_vars => LInv'
    <2> SUFFICES ASSUME LInv, [Next]_vars PROVE LInv'
        OBVIOUS
    <2>1. WorkerTypes /\ ServerTypes /\ Stop /\ Joined /\ Quiet /\ Exact  BY DEF LInv, Stop
    <2> QED  BY <2>1, WorkerTypesStep, ServerTypesStep, StopStep, QuietStep, ExactStep
             DEF LInv
<1> QED  BY <1>1, LInvInit, PTL DEF Spec

\* main returns 0 only when every worker has ended, and a worker ends only after
\* it has handled every token that was written to its pipe before QUIT.
THEOREM StopsInOrder == Spec => []StopInOrder
<1>1. LInv => StopInOrder
    <2> SUFFICES ASSUME LInv PROVE StopInOrder
        OBVIOUS
    <2>1. InTurn /\ Joined /\ ServerTypes  BY DEF LInv, Stop
    <2>2. ASSUME status = "exited", NEW w \in Workers PROVE worker[w] = "done"
        <3>1. stopping = NumSig  BY <2>1, <2>2 DEF Joined
        <3>2. w < stopping  BY <2>1, <3>1, WorkerNumbers
        <3> QED  BY <2>1, <3>2 DEF Joined
    <2> QED  BY <2>1, <2>2 DEF StopInOrder, InTurn
<1> QED  BY <1>1, LifecycleInvariance, PTL

\* SIGPIPE ends the process only if a second signal or the answer to a request
\* that a worker left behind comes between the two close() calls of a pipe.
THEOREM StopsQuietly == Spec => []QuietStop
<1>1. LInv => QuietStop  BY DEF LInv, Quiet
<1> QED  BY <1>1, LifecycleInvariance, PTL

\* The log's files, string stream and queues hold messages in the order in which
\* they were logged, each once and in its place, and all but those a failed
\* stream swallowed, through rotations, jammed threads and signals.
THEOREM LogIsExact == Spec => []LogExact
<1>1. LInv => LogExact  BY DEF LInv, Exact
<1> QED  BY <1>1, LifecycleInvariance, PTL
=============================================================================
