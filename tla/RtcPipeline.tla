---------------------------- MODULE RtcPipeline ----------------------------
(***************************************************************************)
(* The threads a push request passes through (xrtc_server/src/server):     *)
(* a signaling worker -> RtcServer -> the RtcWorker its stream hashes to   *)
(* -> the same signaling worker.  Each hand-over puts the message into the *)
(* receiver's queue and then writes a token into the receiver's pipe; the  *)
(* receiver's event loop takes one message per token.  Queue and pipe are  *)
(* separate steps, and the write blocks while the pipe is full, so threads *)
(* may wait for each other in a circle.  The accept thread hands new       *)
(* connections to the signaling workers through the same pipes.            *)
(*                                                                         *)
(* The mutex-protected std::queues and the LockFreeQueues are sequences:   *)
(* LockFreeQueueProofs shows that the latter are FIFO channels.            *)
(***************************************************************************)
EXTENDS Integers, Sequences, FiniteSets

CONSTANTS Msgs,        \* the push requests that clients send
          Streams,     \* stream names
          StreamOf,    \* the stream each request names
          NumSig,      \* number of signaling workers (worker_num)
          NumRtc,      \* number of rtc workers (worker_num)
          Crc32,       \* checksum of each stream name
          PipeCap,     \* tokens that fit into a pipe
          MaxConns,    \* bound on the number of accepted connections
          MaxCerts,    \* bound on the number of certificates generated
          None

ASSUME ConstantsAssumption ==
    /\ IsFiniteSet(Msgs) /\ None \notin Msgs \union 0 .. NumSig - 1
    /\ StreamOf \in [Msgs -> Streams] /\ Crc32 \in [Streams -> Nat]
    /\ NumSig \in Nat \ {0} /\ NumRtc \in Nat \ {0} /\ PipeCap \in Nat \ {0}
    /\ MaxConns \in Nat /\ MaxCerts \in Nat \ {0}

SigWorkers == 0 .. NumSig - 1
RtcWorkers == 0 .. NumRtc - 1

VARIABLES
    unsent,      \* requests no signaling worker has read from its socket yet
    woeker,      \* msg->woeker, the signaling worker that read the request
    swBusy,      \* signaling workers between push_msg and the end of notify
    rsQueue, rsTokens,   \* RtcServer::_q_msg and its pipe
    rsAt, rsMsg,         \* where the RtcServer thread is, with which message
    cert, expired,       \* _certificate (0: null) and whether it has expired
    nextCert,            \* identity of the next certificate generated
    certOf,              \* msg->certificate, a raw pointer
    rwQueue, rwTokens,   \* RtcWorker::_q_msg and its pipe
    rwAt, rwMsg,         \* where each RtcWorker thread is
    swQueue,             \* SignalingServerWorker::_q_rtc_msg
    swPipe,              \* its pipe: NEW_CONN and RTC_MSG tokens
    connQueue,           \* its _q_conn, as a number of descriptors
    accepted,            \* _next_worker_id
    acceptTo,            \* the worker the accept thread has to notify
    dropped, delivered,  \* requests given up, and answers that came back
    submitted, created   \* the order of the submissions and of the streams

swVars     == <<unsent, woeker, swBusy, swQueue, swPipe, connQueue, delivered, submitted>>
rsVars     == <<rsQueue, rsTokens, rsAt, rsMsg, cert, expired, nextCert, certOf, dropped>>
rwVars     == <<rwQueue, rwTokens, rwAt, rwMsg, created>>
acceptVars == <<accepted, acceptTo>>
vars == <<swVars, rsVars, rwVars, acceptVars>>

\* RtcServer::init generates the first certificate or the program does not start.
Init ==
    /\ unsent = Msgs /\ woeker = [m \in Msgs |-> None] /\ swBusy = {}
    /\ rsQueue = <<>> /\ rsTokens = 0 /\ rsAt = "idle" /\ rsMsg = None
    /\ cert = 1 /\ expired = FALSE /\ nextCert = 2
    /\ certOf = [m \in Msgs |-> 0]
    /\ rwQueue = [r \in RtcWorkers |-> <<>>] /\ rwTokens = [r \in RtcWorkers |-> 0]
    /\ rwAt = [r \in RtcWorkers |-> "idle"] /\ rwMsg = [r \in RtcWorkers |-> None]
    /\ swQueue = [w \in SigWorkers |-> <<>>] /\ swPipe = [w \in SigWorkers |-> <<>>]
    /\ connQueue = [w \in SigWorkers |-> 0]
    /\ accepted = 0 /\ acceptTo = None
    /\ dropped = {} /\ delivered = {}
    /\ submitted = <<>> /\ created = <<>>

PipeFullOneEarly(tokens) == tokens >= PipeCap - 1

\* write() to a pipe blocks while this holds.
PipeFull(tokens) == tokens >= PipeCap

(***************************************************************************)
(* A signaling worker's event loop: requests from its connections, and the *)
(* tokens in its pipe.                                                     *)
(***************************************************************************)

\* _process_push: fill in the message and put it into RtcServer's queue.
SwPush(w, m) ==
    /\ w \notin swBusy /\ m \in unsent
    /\ unsent' = unsent \ {m} /\ woeker' = [woeker EXCEPT ![m] = w]
    /\ rsQueue' = Append(rsQueue, m) /\ swBusy' = swBusy \union {w}
    /\ submitted' = Append(submitted, m)
    /\ UNCHANGED <<swQueue, swPipe, connQueue, delivered, rsTokens, rsAt, rsMsg, cert,
                   expired, nextCert, certOf, dropped, rwVars, acceptVars>>

SwNotifyTwice(w) ==
    /\ w \in swBusy /\ ~PipeFull(rsTokens)
    /\ rsTokens' = rsTokens + 2 /\ swBusy' = swBusy \ {w}
    /\ UNCHANGED <<unsent, woeker, swQueue, swPipe, connQueue, delivered, submitted,
                   rsQueue, rsAt, rsMsg, cert, expired, nextCert, certOf, dropped,
                   rwVars, acceptVars>>

\* RtcServer::notify(RTC_MSG), still on the signaling worker's thread.
SwNotify(w) ==
    /\ w \in swBusy /\ ~PipeFull(rsTokens)
    /\ rsTokens' = rsTokens + 1 /\ swBusy' = swBusy \ {w}
    /\ UNCHANGED <<unsent, woeker, swQueue, swPipe, connQueue, delivered, submitted,
                   rsQueue, rsAt, rsMsg, cert, expired, nextCert, certOf, dropped,
                   rwVars, acceptVars>>

\* _process_notify(RTC_MSG): pop_rtc_msg, nothing to do if it returns null.
SwTakeMsg(w) ==
    /\ w \notin swBusy /\ swPipe[w] # <<>> /\ Head(swPipe[w]) = "RTC_MSG"
    /\ swPipe' = [swPipe EXCEPT ![w] = Tail(@)]
    /\ IF swQueue[w] = <<>>
       THEN UNCHANGED <<swQueue, delivered>>
       ELSE /\ swQueue' = [swQueue EXCEPT ![w] = Tail(@)]
            /\ delivered' = delivered \union {<<Head(swQueue[w]), w>>}
    /\ UNCHANGED <<unsent, woeker, swBusy, connQueue, submitted, rsVars, rwVars,
                   acceptVars>>

\* _process_notify(NEW_CONN): consume a descriptor, if there is one.
SwTakeConn(w) ==
    /\ w \notin swBusy /\ swPipe[w] # <<>> /\ Head(swPipe[w]) = "NEW_CONN"
    /\ swPipe' = [swPipe EXCEPT ![w] = Tail(@)]
    /\ connQueue' = [connQueue EXCEPT ![w] = IF @ = 0 THEN 0 ELSE @ - 1]
    /\ UNCHANGED <<unsent, woeker, swBusy, swQueue, delivered, submitted, rsVars,
                   rwVars, acceptVars>>

(***************************************************************************)
(* The RtcServer thread.                                                   *)
(***************************************************************************)

\* pop_msg and msg->to_string(), which comes before the test for null.
RsTake ==
    /\ rsAt = "idle" /\ rsTokens > 0
    /\ rsTokens' = rsTokens - 1
    /\ IF rsQueue = <<>>
       THEN rsAt' = "fault" /\ UNCHANGED <<rsQueue, rsMsg>>
       ELSE rsAt' = "check" /\ rsMsg' = Head(rsQueue) /\ rsQueue' = Tail(rsQueue)
    /\ UNCHANGED <<swVars, cert, expired, nextCert, certOf, dropped, rwVars, acceptVars>>

RtcWorkerBySender(m) == woeker[m] % NumRtc

\* _get_worker
RtcWorkerOf(m) == Crc32[StreamOf[m]] % NumRtc

\* The rest of _process_rtc_msg with the certificate c: set it and produce.
Forward(c) ==
    /\ certOf' = [certOf EXCEPT ![rsMsg] = c]
    /\ rwQueue' = [rwQueue EXCEPT ![RtcWorkerOf(rsMsg)] = Append(@, rsMsg)]
    /\ rsAt' = "notify"
    /\ UNCHANGED <<rsMsg, dropped, rsQueue, rsTokens, swVars, rwTokens, rwAt, rwMsg,
                   created, acceptVars>>

RsKeepCert ==
    /\ rsAt = "check" /\ cert # 0 /\ ~expired
    /\ Forward(cert)
    /\ UNCHANGED <<cert, expired, nextCert>>

\* _generate_and_check_certificate replaces the certificate, freeing the old one.
RsNewCert ==
    /\ rsAt = "check" /\ (cert = 0 \/ expired) /\ nextCert <= MaxCerts
    /\ cert' = nextCert /\ nextCert' = nextCert + 1 /\ expired' = FALSE
    /\ Forward(nextCert)

ForwardWithoutCert ==
    /\ rsAt = "check" /\ (cert = 0 \/ expired)
    /\ cert' = 0 /\ expired' = FALSE
    /\ Forward(0)
    /\ UNCHANGED nextCert

\* GenerateCertificate returns null: the message is dropped, nobody is told.
RsNoCert ==
    /\ rsAt = "check" /\ (cert = 0 \/ expired)
    /\ cert' = 0 /\ expired' = FALSE
    /\ dropped' = dropped \union {rsMsg} /\ rsAt' = "idle" /\ rsMsg' = None
    /\ UNCHANGED <<rsQueue, rsTokens, nextCert, certOf, swVars, rwVars, acceptVars>>

RsNotifyForgotten ==
    /\ rsAt = "notify"
    /\ rsAt' = "idle" /\ rsMsg' = None
    /\ UNCHANGED <<rsQueue, rsTokens, cert, expired, nextCert, certOf, dropped,
                   swVars, rwVars, acceptVars>>

\* RtcWorker::notify(RTC_MSG), still on the RtcServer thread.
RsNotify ==
    LET r == RtcWorkerOf(rsMsg)
    IN  /\ rsAt = "notify" /\ ~PipeFull(rwTokens[r])
        /\ rwTokens' = [rwTokens EXCEPT ![r] = @ + 1]
        /\ rsAt' = "idle" /\ rsMsg' = None
        /\ UNCHANGED <<rsQueue, rsTokens, cert, expired, nextCert, certOf, dropped,
                       swVars, rwQueue, rwAt, rwMsg, created, acceptVars>>

\* Time passes: HasExpired(now) becomes true of the current certificate.
Expire ==
    /\ cert # 0 /\ ~expired /\ nextCert <= MaxCerts
    /\ expired' = TRUE
    /\ UNCHANGED <<rsQueue, rsTokens, rsAt, rsMsg, cert, nextCert, certOf, dropped,
                   swVars, rwVars, acceptVars>>

(***************************************************************************)
(* An rtc worker thread.                                                   *)
(***************************************************************************)

\* pop_msg; _process_rtc_msg returns if it fails.
RwTake(r) ==
    /\ rwAt[r] = "idle" /\ rwTokens[r] > 0
    /\ rwTokens' = [rwTokens EXCEPT ![r] = @ - 1]
    /\ IF rwQueue[r] = <<>>
       THEN UNCHANGED <<rwQueue, rwAt, rwMsg>>
       ELSE /\ rwMsg' = [rwMsg EXCEPT ![r] = Head(rwQueue[r])]
            /\ rwQueue' = [rwQueue EXCEPT ![r] = Tail(@)]
            /\ rwAt' = [rwAt EXCEPT ![r] = "push"]
    /\ UNCHANGED <<created, swVars, rsVars, acceptVars>>

RwAnswerNextWorker(r) ==
    LET m == rwMsg[r]
        w == (woeker[m] + 1) % NumSig
    IN  /\ rwAt[r] = "push"
        /\ created' = Append(created, m)
        /\ swQueue' = [swQueue EXCEPT ![w] = Append(@, m)]
        /\ rwAt' = [rwAt EXCEPT ![r] = "notify"]
        /\ UNCHANGED <<unsent, woeker, swBusy, swPipe, connQueue, delivered, submitted,
                       rsVars, rwQueue, rwTokens, rwMsg, acceptVars>>

\* _process_push: create_push_stream (which always returns 0), push_rtc_msg.
RwAnswer(r) ==
    LET m == rwMsg[r]
    IN  /\ rwAt[r] = "push"
        /\ created' = Append(created, m)
        /\ swQueue' = [swQueue EXCEPT ![woeker[m]] = Append(@, m)]
        /\ rwAt' = [rwAt EXCEPT ![r] = "notify"]
        /\ UNCHANGED <<unsent, woeker, swBusy, swPipe, connQueue, delivered, submitted,
                       rsVars, rwQueue, rwTokens, rwMsg, acceptVars>>

RwNotifyUnblocked(r) ==
    LET w == woeker[rwMsg[r]]
    IN  /\ rwAt[r] = "notify"
        /\ swPipe' = [swPipe EXCEPT ![w] = Append(@, "RTC_MSG")]
        /\ rwAt' = [rwAt EXCEPT ![r] = "idle"] /\ rwMsg' = [rwMsg EXCEPT ![r] = None]
        /\ UNCHANGED <<unsent, woeker, swBusy, swQueue, connQueue, delivered, submitted,
                       rsVars, rwQueue, rwTokens, created, acceptVars>>

\* SignalingServerWorker::notify(RTC_MSG), still on the rtc worker's thread.
RwNotify(r) ==
    LET w == woeker[rwMsg[r]]
    IN  /\ rwAt[r] = "notify" /\ ~PipeFull(Len(swPipe[w]))
        /\ swPipe' = [swPipe EXCEPT ![w] = Append(@, "RTC_MSG")]
        /\ rwAt' = [rwAt EXCEPT ![r] = "idle"] /\ rwMsg' = [rwMsg EXCEPT ![r] = None]
        /\ UNCHANGED <<unsent, woeker, swBusy, swQueue, connQueue, delivered, submitted,
                       rsVars, rwQueue, rwTokens, created, acceptVars>>

(***************************************************************************)
(* The accept thread: _dispatch_new_conn and notify_new_conn.              *)
(***************************************************************************)

AcceptPush ==
    /\ acceptTo = None /\ accepted < MaxConns
    /\ acceptTo' = accepted % NumSig /\ accepted' = accepted + 1
    /\ connQueue' = [connQueue EXCEPT ![accepted % NumSig] = @ + 1]
    /\ UNCHANGED <<unsent, woeker, swBusy, swQueue, swPipe, delivered, submitted, rsVars,
                   rwVars>>

AcceptNotifyNext ==
    LET w == accepted % NumSig
    IN  /\ acceptTo # None /\ ~PipeFull(Len(swPipe[w]))
        /\ swPipe' = [swPipe EXCEPT ![w] = Append(@, "NEW_CONN")]
        /\ acceptTo' = None
        /\ UNCHANGED <<accepted, unsent, woeker, swBusy, swQueue, connQueue, delivered,
                       submitted, rsVars, rwVars>>

AcceptNotify ==
    /\ acceptTo # None /\ ~PipeFull(Len(swPipe[acceptTo]))
    /\ swPipe' = [swPipe EXCEPT ![acceptTo] = Append(@, "NEW_CONN")]
    /\ acceptTo' = None
    /\ UNCHANGED <<accepted, unsent, woeker, swBusy, swQueue, connQueue, delivered,
                   submitted, rsVars, rwVars>>

SwHandle(w) == SwNotify(w) \/ SwTakeMsg(w) \/ SwTakeConn(w)
RsHandle    == RsTake \/ RsKeepCert \/ RsNewCert \/ RsNoCert \/ RsNotify
RwHandle(r) == RwTake(r) \/ RwAnswer(r) \/ RwNotify(r)

Next ==
    \/ \E w \in SigWorkers : SwHandle(w) \/ \E m \in Msgs : SwPush(w, m)
    \/ RsHandle \/ Expire
    \/ \E r \in RtcWorkers : RwHandle(r)
    \/ AcceptPush \/ AcceptNotify

\* Every thread is scheduled.  Clients need not send, time need not pass far
\* enough for a certificate to expire.
Fairness ==
    /\ \A w \in SigWorkers : WF_vars(SwHandle(w))
    /\ WF_vars(RsHandle)
    /\ \A r \in RtcWorkers : WF_vars(RwHandle(r))
    /\ WF_vars(AcceptNotify)

Spec     == Init /\ [][Next]_vars
FairSpec == Spec /\ Fairness

(***************************************************************************)
(* Properties.                                                             *)
(***************************************************************************)

SwTypeOK ==
    /\ unsent \subseteq Msgs /\ woeker \in [Msgs -> SigWorkers \union {None}]
    /\ swBusy \subseteq SigWorkers
    /\ swQueue \in [SigWorkers -> Seq(Msgs)]
    /\ swPipe \in [SigWorkers -> Seq({"NEW_CONN", "RTC_MSG"})]
    /\ \A w \in SigWorkers : Len(swPipe[w]) <= PipeCap
    /\ connQueue \in [SigWorkers -> Nat]
    /\ delivered \subseteq Msgs \X SigWorkers /\ submitted \in Seq(Msgs)

RsTypeOK ==
    /\ rsQueue \in Seq(Msgs) /\ rsTokens \in 0 .. PipeCap
    /\ rsAt \in {"idle", "check", "notify", "fault"} /\ rsMsg \in Msgs \union {None}
    /\ cert \in 0 .. MaxCerts /\ nextCert \in 1 .. MaxCerts + 1
    /\ certOf \in [Msgs -> 0 .. MaxCerts] /\ dropped \subseteq Msgs

RwTypeOK ==
    /\ rwQueue \in [RtcWorkers -> Seq(Msgs)] /\ rwTokens \in [RtcWorkers -> 0 .. PipeCap]
    /\ rwAt \in [RtcWorkers -> {"idle", "push", "notify"}]
    /\ rwMsg \in [RtcWorkers -> Msgs \union {None}] /\ created \in Seq(Msgs)

\* Every variable keeps its type, and no pipe holds more than fits into it.
TypeOK ==
    /\ SwTypeOK /\ RsTypeOK /\ expired \in BOOLEAN /\ RwTypeOK
    /\ accepted \in 0 .. MaxConns /\ acceptTo \in SigWorkers \union {None}

\* RtcServer::_process_rtc_msg calls msg->to_string() before it tests msg for
\* null: pop_msg must never come back empty-handed.
NullPopUnreachable == rsAt # "fault"

Tokens(w, kind)  == Cardinality({i \in DOMAIN swPipe[w] : swPipe[w][i] = kind})
Notifying(r, w)  == rwAt[r] = "notify" /\ woeker[rwMsg[r]] = w
RsNotifying(r)   == rsAt = "notify" /\ RtcWorkerOf(rsMsg) = r

\* Every queue holds exactly one item for each token in its pipe and for each
\* thread that has yet to write one, so no message or descriptor is stranded
\* and no handler wakes up for nothing.
TokenPerMessage ==
    /\ Len(rsQueue) = rsTokens + Cardinality(swBusy)
    /\ \A r \in RtcWorkers :
          Len(rwQueue[r]) = rwTokens[r] + (IF RsNotifying(r) THEN 1 ELSE 0)
    /\ \A w \in SigWorkers :
          /\ Len(swQueue[w]) = Tokens(w, "RTC_MSG")
                               + Cardinality({r \in RtcWorkers : Notifying(r, w)})
          /\ connQueue[w] = Tokens(w, "NEW_CONN") + (IF acceptTo = w THEN 1 ELSE 0)

\* Pushes that name the same stream are processed in the order they were
\* submitted, whichever signaling workers they came through: the stream that
\* stays is that of the last request.
StreamsInOrder ==
    \A i, j \in DOMAIN created :
        /\ i < j
        /\ StreamOf[created[i]] = StreamOf[created[j]]
        => \E k, l \in DOMAIN submitted :
              /\ k < l
              /\ submitted[k] = created[i]
              /\ submitted[l] = created[j]

\* An rtc worker never creates an offer without a certificate, even after a
\* failed attempt to renew it.
OfferHasCertificate ==
    \A r \in RtcWorkers : rwAt[r] = "push" => certOf[rwMsg[r]] # 0

\* A signaling worker, RtcServer and an rtc worker each blocked in a write to
\* the next one's pipe.
CircularWait ==
    \E w \in SigWorkers, r \in RtcWorkers :
        /\ w \in swBusy /\ PipeFull(rsTokens)
        /\ RsNotifying(r) /\ PipeFull(rwTokens[r])
        /\ Notifying(r, w) /\ PipeFull(Len(swPipe[w]))

\* The blocking writes cannot lock the threads up as long as the requests and
\* new connections are fewer than the three pipes and the three threads of a
\* circle hold, or the requests fewer than they hold besides new connections.
NoCircularWait ==
    \/ Cardinality(Msgs) + MaxConns < 3 * PipeCap + 3
    \/ Cardinality(Msgs) < 2 * PipeCap + 3
    => ~CircularWait

\* What the signaling workers see is the contract of RtcBackend.
Status(m) ==
    CASE m \in unsent  -> "new"
      [] m \in dropped -> "dropped"
      [] \E w \in SigWorkers : <<m, w>> \in delivered ->
           IF <<m, woeker[m]>> \in delivered THEN "delivered" ELSE "misdelivered"
      [] m \notin unsent /\ \E i \in DOMAIN swQueue[woeker[m]] : swQueue[woeker[m]][i] = m
           -> "answered"
      [] OTHER -> "pending"

Backend == INSTANCE RtcBackend
             WITH status <- [m \in Msgs |-> Status(m)], origin <- woeker

\* The pipeline implements RtcBackend: every answer goes, once, to the worker
\* that submitted the request.
ImplementsBackend == Backend!Spec

\* Every request that is submitted is answered or given up for want of a
\* certificate; none gets stuck between the threads.
EveryRequestSettled ==
    \A m \in Msgs :
        m \notin unsent ~> (m \in dropped \/ <<m, woeker[m]>> \in delivered)

\* "Check whether the certificate has expired" (rtc_server.cpp): the check is
\* there so that the offer is made with a certificate that is still held.
CertificateStillAlive ==
    \A r \in RtcWorkers : rwAt[r] = "push" => certOf[rwMsg[r]] = cert
=============================================================================
