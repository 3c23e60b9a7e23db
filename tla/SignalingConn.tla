--------------------------- MODULE SignalingConn ---------------------------
(***************************************************************************)
(* The TCP connections of the signaling server: the accept thread          *)
(* (signaling_server.cpp), the signaling worker threads                    *)
(* (signaling_worker.cpp) and their TcpConnection objects, over a kernel   *)
(* descriptor table and a heap that both give out what has just been given *)
(* back.  A worker runs one event at a time to its end, except that        *)
(* closing a connection is two steps: close(fd) in _close_conn, and        *)
(* another close(fd) when ~TcpConnection runs.  The accept thread may be   *)
(* given the same descriptor in between.                                   *)
(*                                                                         *)
(* What a client sends is abstracted to what _process_request makes of it  *)
(* (QueryBuffer has the bytes); what happens to a push request behind      *)
(* RtcServer::send_rtc_msg is RtcBackend.                                  *)
(***************************************************************************)
EXTENDS Integers, Sequences, FiniteSets

CONSTANTS Clients,       \* a client connects once and sends one request
          NumSig,        \* number of signaling workers
          MaxFd,         \* descriptors 1 .. MaxFd are left for connections
          Addrs,         \* addresses at which a TcpConnection can be allocated
          Unruly,        \* clients that may flood, stall or trickle
          None

Workers == 0 .. NumSig - 1
Fds     == 1 .. MaxFd

TcpConnection == [worker : Workers, fd : Fds, client : Clients, asked : BOOLEAN,
                  replies : SUBSET Clients, timer : BOOLEAN]

\* The RtcMsg fields with which an answer finds its connection.
MsgConn == [conn : Addrs, fd : Fds]

ASSUME ConstantsAssumption ==
    /\ NumSig \in Nat \ {0} /\ MaxFd \in Nat \ {0}
    /\ IsFiniteSet(Clients) /\ Unruly \subseteq Clients
    /\ Cardinality(Addrs) >= Cardinality(Clients)
    /\ None \notin Clients \union Addrs \union TcpConnection

\* A push request, or anything else: bytes that do not parse, other commands.
Kinds   == {"push", "other"}

VARIABLES
    socket,      \* each client's end: "on" or "hup" (it has hung up)
    sent,        \* the request in the socket's buffer, "none" or "read"
    listening,   \* is the listening socket open?
    backlog,     \* clients waiting to be accepted
    fds,         \* the client behind each descriptor, None if it is free
    accepted,    \* _next_worker_id
    inbox,       \* descriptors handed to each worker (_q_conn and its tokens)
    conns,       \* each worker's _conns
    objs,        \* the TcpConnection at each address, None if there is none
    reg,         \* descriptors for which each worker's loop gets events
    closing,     \* the object each worker is half-way through closing
    status, origin,   \* RtcBackend's state; a client is its own request
    msg,         \* conn and fd of each request's RtcMsg
    got,         \* the requests whose answers each client has received
    wedged,      \* workers that do not come back from a callback
    trickling,   \* clients that send a few bytes again and again
    stray,       \* has a close() hit a connection other than the object's?
    reused       \* has an address been reused while a message refers to it?

kernelVars  == <<fds, reg, stray>>
clientVars  == <<socket, sent, got>>
acceptVars  == <<listening, backlog, accepted>>
backendVars == <<status, origin>>
connVars    == <<conns, objs, closing>>
holdVars    == <<wedged, trickling>>
vars == <<kernelVars, clientVars, acceptVars, backendVars, connVars, inbox, msg, reused,
          holdVars>>

Rtc == INSTANCE RtcBackend WITH Msgs <- Clients, SigWorkers <- Workers

Init ==
    /\ socket = [c \in Clients |-> "on"] /\ sent = [c \in Clients |-> "none"]
    /\ listening = TRUE /\ backlog = Clients
    /\ fds = [f \in Fds |-> None] /\ accepted = 0
    /\ inbox = [w \in Workers |-> <<>>]
    /\ conns = [w \in Workers |-> [f \in Fds |-> None]]
    /\ objs = [a \in Addrs |-> None]
    /\ reg = [w \in Workers |-> {}] /\ closing = [w \in Workers |-> None]
    /\ Rtc!Init
    /\ msg = [c \in Clients |-> None]
    /\ got = [c \in Clients |-> {}]
    /\ wedged = {} /\ trickling = {}
    /\ stray = FALSE /\ reused = FALSE

(***************************************************************************)
(* The clients.  All of them are waiting to be accepted from the start:    *)
(* one that connects, sends or hangs up before it is accepted cannot be    *)
(* told from one that does so right then or right after.                   *)
(***************************************************************************)

Send(c, kind) ==
    /\ socket[c] = "on" /\ sent[c] = "none" /\ c \notin backlog
    /\ sent' = [sent EXCEPT ![c] = kind]
    /\ UNCHANGED <<kernelVars, socket, got, acceptVars, backendVars, connVars, inbox, msg,
                   reused, holdVars>>

HangUp(c) ==
    /\ socket[c] = "on" /\ c \notin backlog
    /\ socket' = [socket EXCEPT ![c] = "hup"]
    /\ trickling' = trickling \ {c}
    /\ UNCHANGED <<kernelVars, sent, got, acceptVars, backendVars, connVars, inbox, msg,
                   reused, wedged>>

\* The client starts or stops to send its bytes one by one, each in time to put
\* off the time-out of its connection.
Trickle(c) ==
    /\ c \in Unruly /\ socket[c] = "on" /\ c \notin backlog
    /\ trickling' = IF c \in trickling THEN trickling \ {c} ELSE trickling \union {c}
    /\ UNCHANGED <<kernelVars, clientVars, acceptVars, backendVars, connVars, inbox, msg,
                   reused, wedged>>

(***************************************************************************)
(* The accept thread: accept_new_conn and _dispatch_new_conn.              *)
(***************************************************************************)

Free == {f \in Fds : fds[f] = None}

\* _dispatch_new_conn: the workers take turns.
NextWorker == accepted % NumSig

\* The kernel gives out the lowest free descriptor.
Accept(c) ==
    /\ listening /\ c \in backlog /\ Free # {}
    /\ LET fd == CHOOSE f \in Free : \A g \in Free : f <= g
       IN  /\ fds' = [fds EXCEPT ![fd] = c]
           /\ inbox' = [inbox EXCEPT ![NextWorker] = Append(@, fd)]
    /\ accepted' = accepted + 1 /\ backlog' = backlog \ {c}
    /\ UNCHANGED <<reg, stray, clientVars, listening, backendVars, connVars, msg, reused,
                   holdVars>>

AcceptUnchecked ==
    /\ listening /\ backlog # {} /\ Free = {}
    /\ inbox' = [inbox EXCEPT ![NextWorker] = Append(@, -1)]
    /\ accepted' = accepted + 1
    /\ UNCHANGED <<kernelVars, clientVars, listening, backlog, backendVars, connVars, msg,
                   reused, holdVars>>

\* accept() fails for want of a descriptor: generic_accept closes the
\* listening socket, and the watcher never fires again.
AcceptFails ==
    /\ listening /\ backlog # {} /\ Free = {}
    /\ listening' = FALSE
    /\ UNCHANGED <<kernelVars, clientVars, backlog, accepted, backendVars, connVars,
                   inbox, msg, reused, holdVars>>

(***************************************************************************)
(* The workers.  idle(w): the event loop is free to run the next callback. *)
(***************************************************************************)

idle(w) == closing[w] = None /\ w \notin wedged

\* close(fd): the descriptor is free and no event loop hears of it any more.
CloseFd(fd) ==
    /\ fds' = [fds EXCEPT ![fd] = None]
    /\ reg' = [w \in Workers |-> reg[w] \ {fd}]

\* start_io_event: worker w's loop gets events for the descriptor.
Watch(w, fd) == reg' = [reg EXCEPT ![w] = @ \union {fd}]

\* The descriptor is closed or its peer is: system calls on it fail.
PeerGone(fd) == fds[fd] # None => socket[fds[fd]] = "hup"

\* A close(fd) on behalf of object o that hits somebody else's connection.
IsStray(o) == fds[o.fd] \notin {None, o.client}

NewConnKeepsFd(w) ==
    LET fd == Head(inbox[w])
    IN  /\ idle(w) /\ inbox[w] # <<>>
        /\ inbox' = [inbox EXCEPT ![w] = Tail(@)]
        /\ PeerGone(fd)
        /\ UNCHANGED <<kernelVars, clientVars, acceptVars, backendVars, connVars, msg,
                       reused, holdVars>>

\* _new_conn when a socket option or the peer's name cannot be had: the
\* descriptor is closed.  In the second case the object has already been
\* allocated and is left behind, without a timer.
NewConnFails(w) ==
    LET fd == Head(inbox[w])
    IN  /\ idle(w) /\ inbox[w] # <<>>
        /\ inbox' = [inbox EXCEPT ![w] = Tail(@)]
        /\ PeerGone(fd)
        /\ CloseFd(fd)
        /\ \/ UNCHANGED objs
           \/ /\ fds[fd] # None
              /\ \E a \in {x \in Addrs : objs[x] = None} :
                    objs' = [objs EXCEPT ![a] =
                       [worker |-> w, fd |-> fd, client |-> fds[fd], asked |-> FALSE,
                        replies |-> {}, timer |-> FALSE]]
        /\ UNCHANGED <<stray, clientVars, acceptVars, backendVars, conns, closing, msg,
                       reused, holdVars>>

NewConnWithoutTimer(w) ==
    LET fd == Head(inbox[w])
    IN  /\ idle(w) /\ inbox[w] # <<>> /\ fds[fd] # None
        /\ inbox' = [inbox EXCEPT ![w] = Tail(@)]
        /\ \E a \in {x \in Addrs : objs[x] = None} :
              /\ objs' = [objs EXCEPT ![a] =
                    [worker |-> w, fd |-> fd, client |-> fds[fd], asked |-> FALSE,
                     replies |-> {}, timer |-> FALSE]]
              /\ conns' = [conns EXCEPT ![w][fd] = a]
        /\ Watch(w, fd)
        /\ UNCHANGED <<fds, stray, clientVars, acceptVars, backendVars, closing, msg,
                       reused, holdVars>>

\* _new_conn when all goes well.  The allocator may return any free address.
NewConn(w) ==
    LET fd == Head(inbox[w])
    IN  /\ idle(w) /\ inbox[w] # <<>> /\ fds[fd] # None
        /\ inbox' = [inbox EXCEPT ![w] = Tail(@)]
        /\ \E a \in {x \in Addrs : objs[x] = None} :
              /\ objs' = [objs EXCEPT ![a] =
                    [worker |-> w, fd |-> fd, client |-> fds[fd], asked |-> FALSE,
                     replies |-> {}, timer |-> TRUE]]
              /\ conns' = [conns EXCEPT ![w][fd] = a]
              /\ reused' = (reused \/ \E c \in Clients :
                    /\ status[c] \in {"pending", "answered"} /\ msg[c].conn = a)
        /\ Watch(w, fd)
        /\ UNCHANGED <<fds, stray, clientVars, acceptVars, backendVars, closing, msg,
                       holdVars>>

\* _close_conn, first half: close(c->fd).
BeginClose(w, a) ==
    /\ closing' = [closing EXCEPT ![w] = a]
    /\ CloseFd(objs[a].fd)
    /\ stray' = (stray \/ IsStray(objs[a]))

\* ~TcpConnection closes the descriptor, as _close_conn already has.
Delete(a) ==
    /\ objs' = [objs EXCEPT ![a] = None]
    /\ CloseFd(objs[a].fd)
    /\ stray' = (stray \/ IsStray(objs[a]))

EndCloseKeepsEntry(w) ==
    LET a == closing[w]
    IN  /\ a # None
        /\ closing' = [closing EXCEPT ![w] = None]
        /\ Delete(a)
        /\ UNCHANGED <<conns, clientVars, acceptVars, backendVars, inbox, msg, reused,
                       holdVars>>

\* _close_conn, second half: _remove_conn drops the watchers and the table
\* entry and deletes the object, whose destructor closes the descriptor again.
EndClose(w) ==
    LET a == closing[w]
    IN  /\ a # None
        /\ closing' = [closing EXCEPT ![w] = None]
        /\ conns' = [conns EXCEPT ![w][objs[a].fd] = None]
        /\ Delete(a)
        /\ UNCHANGED <<clientVars, acceptVars, backendVars, inbox, msg, reused, holdVars>>

\* _read_conn has set last_active_time since the timer last went off.
KeptActive(a) ==
    LET w  == objs[a].worker
        fd == objs[a].fd
    IN  fd \in reg[w] /\ conns[w][fd] = a /\ fds[fd] \in trickling

\* conn_timer_cb: the connection has been idle for too long.
Timeout(w, a) ==
    /\ idle(w) /\ objs[a] # None /\ objs[a].worker = w /\ objs[a].timer
    /\ ~KeptActive(a)
    /\ BeginClose(w, a)
    /\ UNCHANGED <<clientVars, acceptVars, backendVars, conns, objs, inbox, msg, reused,
                   holdVars>>

\* An event for fd finds the connection in the table (else it is ignored).
Ready(w, fd) == idle(w) /\ fd \in reg[w] /\ conns[w][fd] # None

\* sock_read_data returns -1: an error, or the end of the stream.
ReadError(fd) ==
    fds[fd] # None => socket[fds[fd]] = "hup" /\ sent[fds[fd]] \in {"none", "read"}

\* _read_conn gets an error or the end of the stream, or a request that
\* _process_request rejects: the connection is closed.
ReadFails(w, fd) ==
    /\ Ready(w, fd)
    /\ \/ ReadError(fd) /\ UNCHANGED sent
       \/ /\ fds[fd] # None /\ sent[fds[fd]] = "other"
          /\ ~objs[conns[w][fd]].asked
          /\ sent' = [sent EXCEPT ![fds[fd]] = "read"]
    /\ BeginClose(w, conns[w][fd])
    /\ UNCHANGED <<socket, got, acceptVars, backendVars, conns, objs, inbox, msg, reused,
                   holdVars>>

\* _process_push: the message remembers the object and the descriptor.
ReadPush(w, fd) ==
    LET a == conns[w][fd]
        c == fds[fd]
    IN  /\ Ready(w, fd) /\ c # None /\ sent[c] = "push" /\ ~objs[a].asked
        /\ sent' = [sent EXCEPT ![c] = "read"]
        /\ objs' = [objs EXCEPT ![a].asked = TRUE]
        /\ msg' = [msg EXCEPT ![c] = [conn |-> a, fd |-> fd]]
        /\ Rtc!Submit(c, w)
        /\ UNCHANGED <<kernelVars, socket, got, acceptVars, conns, closing, inbox, reused,
                       holdVars>>

\* A command other than push: _process_request ends without a return statement,
\* so the caller may also see 0 and keep the connection.  Whatever comes after
\* the first request is read and ignored.
ReadIgnored(w, fd) ==
    LET a == conns[w][fd]
        c == fds[fd]
    IN  /\ Ready(w, fd) /\ c # None
        /\ sent[c] = "other" \/ (objs[a].asked /\ sent[c] \in Kinds)
        /\ sent' = [sent EXCEPT ![c] = "read"]
        /\ objs' = [objs EXCEPT ![a].asked = TRUE]
        /\ UNCHANGED <<kernelVars, socket, got, acceptVars, backendVars, conns, closing,
                       inbox, msg, reused, holdVars>>

SameFd(w, m) == conns[w][m.fd] # None

\* Does the table still hold the connection the request came from?
SameConn(w, m) == conns[w][m.fd] = m.conn

\* _process_rtc_msg and _response_server_offer: the answer is queued on the
\* connection and the loop is asked for WRITE events, or it is thrown away.
Deliver(w, c) ==
    LET m == msg[c]
    IN  /\ idle(w) /\ Rtc!Deliver(c, w)
        /\ \/ ~SameConn(w, m) /\ UNCHANGED <<objs, reg>>
           \/ /\ SameConn(w, m)
              /\ objs' = [objs EXCEPT ![conns[w][m.fd]].replies = @ \union {c}]
              /\ Watch(w, m.fd)
        /\ UNCHANGED <<fds, stray, clientVars, acceptVars, conns, closing, inbox, msg,
                       reused, holdVars>>

\* _write_conn: everything queued goes out and WRITE events are stopped.
Write(w, fd) ==
    LET a == conns[w][fd]
    IN  /\ Ready(w, fd) /\ objs[a].replies # {} /\ fds[fd] # None
        /\ got' = [got EXCEPT ![fds[fd]] = @ \union objs[a].replies]
        /\ objs' = [objs EXCEPT ![a].replies = {}]
        /\ UNCHANGED <<kernelVars, socket, sent, acceptVars, backendVars, conns, closing,
                       inbox, msg, reused, holdVars>>

\* _write_conn gets an error.
WriteFails(w, fd) ==
    /\ Ready(w, fd) /\ objs[conns[w][fd]].replies # {}
    /\ PeerGone(fd)
    /\ BeginClose(w, conns[w][fd])
    /\ UNCHANGED <<clientVars, acceptVars, backendVars, conns, objs, inbox, msg, reused,
                   holdVars>>

\* The client keeps the worker in the callback: it has sent so much after its
\* request that _process_query_buffer handles the request over and over, it does
\* not read what _write_conn tries to send, or the pipe to the server is full.
Wedge(w) ==
    /\ \E fd \in Fds :
          Ready(w, fd) /\ fds[fd] \in Unruly /\ objs[conns[w][fd]].asked
    /\ wedged' = wedged \union {w}
    /\ UNCHANGED <<kernelVars, clientVars, acceptVars, backendVars, connVars, inbox, msg,
                   reused, trickling>>

\* The client reads again or hangs up, or the pipe is emptied; there is no end to
\* a request that is handled over and over.
Unwedge(w) ==
    /\ w \in wedged /\ wedged' = wedged \ {w}
    /\ UNCHANGED <<kernelVars, clientVars, acceptVars, backendVars, connVars, inbox, msg,
                   reused, trickling>>

\* The other threads: the request is answered or dropped.
BackendStep(c) ==
    /\ Rtc!Answer(c) \/ Rtc!Drop(c)
    /\ UNCHANGED <<kernelVars, clientVars, acceptVars, connVars, inbox, msg, reused,
                   holdVars>>

Client(c) == HangUp(c) \/ \E kind \in Kinds : Send(c, kind)

Event(w) ==
    \/ NewConn(w) \/ NewConnFails(w)
    \/ \E c \in Clients : Deliver(w, c)
    \/ \E fd \in Fds : \/ ReadFails(w, fd) \/ ReadPush(w, fd) \/ ReadIgnored(w, fd)
                       \/ Write(w, fd) \/ WriteFails(w, fd)

Disturbance ==
    \/ \E c \in Clients : Trickle(c)
    \/ \E w \in Workers : Wedge(w) \/ Unwedge(w)

Next ==
    \/ \E c \in Clients : Client(c) \/ Accept(c) \/ BackendStep(c)
    \/ AcceptFails
    \/ \E w \in Workers : Event(w) \/ EndClose(w) \/ \E a \in Addrs : Timeout(w, a)
    \/ Disturbance

\* An event loop that is not held in a callback runs, and the timer of every
\* connection goes off again and again.  Nothing makes a client stop what it does
\* or lets a worker go that is held.
Fairness ==
    \A w \in Workers :
        /\ WF_vars(Event(w))
        /\ WF_vars(EndClose(w))
        /\ \A a \in Addrs : WF_vars(Timeout(w, a))

Spec     == Init /\ [][Next]_vars
FairSpec == Spec /\ Fairness

(***************************************************************************)
(* Properties.                                                             *)
(***************************************************************************)

ConnTypeOK ==
    /\ fds \in [Fds -> Clients \union {None}] /\ inbox \in [Workers -> Seq(Fds)]
    /\ conns \in [Workers -> [Fds -> Addrs \union {None}]]
    /\ objs \in [Addrs -> TcpConnection \union {None}]
    /\ reg \in [Workers -> SUBSET Fds] /\ closing \in [Workers -> Addrs \union {None}]

ClientTypeOK ==
    /\ socket \in [Clients -> {"on", "hup"}]
    /\ sent \in [Clients -> Kinds \union {"none", "read"}]
    /\ backlog \subseteq Clients /\ accepted \in Nat
    /\ got \in [Clients -> SUBSET Clients]

MsgTypeOK ==
    /\ status \in [Clients -> Rtc!Statuses] /\ origin \in [Clients -> Workers \union {None}]
    /\ msg \in [Clients -> MsgConn \union {None}]

\* Every variable keeps its type.
TypeOK ==
    /\ ConnTypeOK /\ ClientTypeOK /\ MsgTypeOK
    /\ listening \in BOOLEAN /\ stray \in BOOLEAN /\ reused \in BOOLEAN
    /\ wedged \subseteq Workers /\ trickling \subseteq Unruly

\* An entry of _conns never dangles: whatever order timers, reads, writes and
\* re-used descriptors come in, it points to a live object of that worker and
\* descriptor.  And unless a stray close() has mixed up descriptors, no
\* connection with a timer is missing from the table.
TableSound ==
    /\ \A w \in Workers, fd \in Fds :
          LET a == conns[w][fd]
          IN  a # None => objs[a] # None /\ objs[a].worker = w /\ objs[a].fd = fd
    /\ ~stray => \A a \in Addrs :
          objs[a] # None /\ objs[a].timer => conns[objs[a].worker][objs[a].fd] = a

\* No descriptor leaks: an open one is on its way to a worker or belongs to an
\* object whose timer will close it.
NoFdLeak ==
    \A fd \in Fds : fds[fd] # None =>
        \/ \E w \in Workers : \E i \in DOMAIN inbox[w] : inbox[w][i] = fd
        \/ \E a \in Addrs : objs[a] # None /\ objs[a].fd = fd /\ objs[a].timer

\* As long as no close() has hit a stranger's descriptor and no address has
\* been reused under a message, conn + fd does locate the connection: an answer
\* is queued only for the client that asked and only once its header has been
\* read, and it is written to nobody else.
UnambiguousAnswers ==
    ~stray /\ ~reused =>
        /\ \A a \in Addrs : objs[a] # None /\ objs[a].replies # {} =>
              objs[a].asked /\ objs[a].replies = {objs[a].client}
        /\ \A c \in Clients : got[c] \subseteq {c}

\* Worker w has the descriptor: as a number in its inbox, or with a timer.
Serves(w, fd) ==
    \/ \E i \in DOMAIN inbox[w] : inbox[w][i] = fd
    \/ \E a \in Addrs : /\ objs[a] # None /\ objs[a].worker = w
                        /\ objs[a].fd = fd /\ objs[a].timer

\* A worker gives back every descriptor it has, even if the client neither sends
\* anything nor hangs up, and whatever other clients and other workers do: all it
\* takes is that from some time on the worker is not held in a callback and this
\* client does not put off its time-out with another byte.
DescriptorsReturned ==
    \A w \in Workers, c \in Clients, fd \in Fds :
        <>[](w \notin wedged /\ c \notin trickling) =>
            ((fds[fd] = c /\ Serves(w, fd)) ~> (fds[fd] # c))

\* "conn + fd locates the connection" (signaling_worker.cpp:439): even if no
\* address is reused, the answer is written to the client that asked.
OfferReachesRequester == ~reused => \A c \in Clients : got[c] \subseteq {c}
=============================================================================
