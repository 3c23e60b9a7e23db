---------------------------- MODULE ReplyWriter ----------------------------
(***************************************************************************)
(* Both directions of one connection of a signaling worker.  QueryBuffer   *)
(* is the reading side; this module adds the answers: they are queued on   *)
(* the connection (_response_server_offer, _add_reply), written by         *)
(* _write_conn when the loop reports the socket writable, and the WRITE    *)
(* bit of the watcher is set and cleared on the way (event_loop.cpp).      *)
(*                                                                         *)
(* Each byte of an answer is a pair <<answer, offset>>.  The kernel's send *)
(* buffer has room for SndBuf bytes; the client reads from it, may stop    *)
(* reading for good, and may hang up.  _write_conn is a loop that ends     *)
(* only when the queue is empty or write() fails, so while it runs the     *)
(* worker does nothing else.                                               *)
(***************************************************************************)
EXTENDS QueryBuffer, Sequences, Functions

CONSTANTS MaxReplies,    \* bound on the answers queued on the connection
          MaxSize,       \* bound on the size of an answer
          SndBuf         \* size of the socket's send buffer

ASSUME WriterAssumption ==
    MaxReplies \in Nat /\ MaxSize \in Nat \ {0} /\ SndBuf \in Nat \ {0}

VARIABLES
    replies,      \* sizes of all answers ever queued, in order
    reply_msgs,   \* the queue, as positions in replies
    cur_pos,      \* _write_conn's local variable
    writing,      \* is the worker inside _write_conn?
    events,       \* the watcher's mask
    sndbuf,       \* bytes in the kernel's send buffer
    received,     \* bytes the client has read
    stalled,      \* has the client stopped reading?
    torn          \* has write() ever taken only a part of what it was given?

queueVars  == <<replies, reply_msgs, cur_pos>>
socketVars == <<sndbuf, received, stalled>>
writerVars == <<queueVars, writing, events, socketVars, torn>>
allVars    == <<vars, writerVars>>

WriterInit ==
    /\ replies = <<>> /\ reply_msgs = <<>> /\ cur_pos = 0
    /\ writing = FALSE /\ events = {"READ"}
    /\ sndbuf = <<>> /\ received = <<>> /\ stalled = FALSE /\ torn = FALSE

\* The event loop is free to run the next callback of this connection.
idle == at = "loop" /\ ~writing

start_io_event(mask) == events' = events \union mask

stop_all_events(mask) == events' = {}

\* The watcher is stopped, and started again with what is left of its mask.
stop_io_event(mask) == events' = events \ mask

(***************************************************************************)
(* Answers.                                                                *)
(***************************************************************************)

AnswerUnwatched ==
    /\ idle /\ Len(replies) < MaxReplies
    /\ \E size \in 1 .. MaxSize : replies' = Append(replies, size)
    /\ reply_msgs' = Append(reply_msgs, Len(replies'))
    /\ UNCHANGED <<vars, cur_pos, writing, events, socketVars, torn>>

\* _response_server_offer and _add_reply.  The answer may also be one to a
\* connection that had the same address and descriptor before (SignalingConn).
Answer ==
    /\ idle /\ Len(replies) < MaxReplies
    /\ \E size \in 1 .. MaxSize : replies' = Append(replies, size)
    /\ reply_msgs' = Append(reply_msgs, Len(replies'))
    /\ start_io_event({"WRITE"})
    /\ UNCHANGED <<vars, cur_pos, writing, socketVars, torn>>

room == SndBuf - Len(sndbuf)

\* conn_io_cb: the socket is writable, or an error is pending on it.
BeginWrite ==
    /\ idle /\ "WRITE" \in events /\ (room > 0 \/ hup)
    /\ writing' = TRUE /\ cur_pos' = 0
    /\ UNCHANGED <<vars, replies, reply_msgs, events, socketVars, torn>>

\* The first n bytes of an answer.
Bytes(msg, n) == [i \in 1 .. n |-> <<msg, i>>]

AccountOffByOne(n) ==
    IF n + cur_pos > replies[Head(reply_msgs)]
    THEN cur_pos' = 0 /\ reply_msgs' = Tail(reply_msgs)
    ELSE cur_pos' = cur_pos + n /\ UNCHANGED reply_msgs

\* What _write_conn makes of a write() of n bytes: the answer is done when the
\* sum of what write() has returned for it reaches its size.
Account(n) ==
    IF n + cur_pos >= replies[Head(reply_msgs)]
    THEN cur_pos' = 0 /\ reply_msgs' = Tail(reply_msgs)
    ELSE cur_pos' = cur_pos + n /\ UNCHANGED reply_msgs

\* sock_write_data takes n bytes, always from the start of the answer.
WriteSome ==
    /\ writing /\ reply_msgs # <<>> /\ ~hup
    /\ LET msg == Head(reply_msgs)
       IN  \E n \in 1 .. room :
             /\ n <= replies[msg]
             /\ sndbuf' = sndbuf \o Bytes(msg, n)
             /\ Account(n)
             /\ torn' = (torn \/ n < replies[msg])
    /\ UNCHANGED <<vars, replies, writing, events, received, stalled>>

\* The peer has gone.  SIGPIPE is neither ignored nor masked, so that write()
\* may end the process; when it only returns an error the connection is closed.
WriteFails ==
    /\ writing /\ reply_msgs # <<>> /\ hup
    /\ at' \in {"closed", "dead"}
    /\ writing' = FALSE /\ reply_msgs' = <<>>
    /\ UNCHANGED <<clientVars, bufVars, parseVars, replies, cur_pos, events, socketVars, torn>>

\* The loop is over.  (A write() that returns EAGAIN only goes round again.)
EndWrite ==
    /\ writing /\ reply_msgs = <<>>
    /\ writing' = FALSE /\ stop_io_event({"WRITE"})
    /\ UNCHANGED <<vars, queueVars, socketVars, torn>>

\* _process_timeout: the connection is closed with whatever it has queued.
Timeout ==
    /\ idle
    /\ at' = "closed" /\ reply_msgs' = <<>>
    /\ UNCHANGED <<clientVars, bufVars, parseVars, replies, cur_pos, writing, events,
                   socketVars, torn>>

(***************************************************************************)
(* The client.                                                             *)
(***************************************************************************)

ClientReads ==
    /\ sndbuf # <<>> /\ ~stalled /\ ~hup
    /\ received' = received \o sndbuf /\ sndbuf' = <<>>
    /\ UNCHANGED <<vars, queueVars, writing, events, stalled, torn>>

Stall ==
    /\ at = "loop" /\ ~stalled /\ stalled' = TRUE
    /\ UNCHANGED <<vars, queueVars, writing, events, sndbuf, received, torn>>

(***************************************************************************)
(* The whole connection.                                                   *)
(***************************************************************************)

\* The reading side runs between two calls of _write_conn.  Closing the
\* connection deletes what is queued on it.
ReadSide ==
    /\ ~writing /\ (at = "loop" => "READ" \in events) /\ Worker
    /\ reply_msgs' = IF at' \in {"closed", "dead"} THEN <<>> ELSE reply_msgs
    /\ UNCHANGED <<replies, cur_pos, writing, events, socketVars, torn>>

open == at \in {"loop", "parse"}

Arrivals == open /\ (Arrive \/ HangUp) /\ UNCHANGED writerVars

WriteSide == BeginWrite \/ WriteSome \/ WriteFails \/ EndWrite

IoNext == ReadSide \/ WriteSide \/ Answer \/ Timeout \/ Arrivals \/ ClientReads \/ Stall

IoInit == Init /\ WriterInit

\* The worker runs and does not stay away from a writable socket; a client that
\* has not stalled reads.
IoSpec ==
    /\ IoInit /\ [][IoNext]_allVars
    /\ WF_allVars(ReadSide) /\ WF_allVars(WriteSide) /\ WF_allVars(ClientReads)

(***************************************************************************)
(* Properties.                                                             *)
(***************************************************************************)

\* All that the client has read or can read.
stream == received \o sndbuf

\* The byte behind b in the answers, one after the other.
NextByte(b) == IF b[2] < replies[b[1]] THEN <<b[1], b[2] + 1>> ELSE <<b[1] + 1, 1>>

\* w is a beginning of the answers, one after the other.
BeginsReplies(w) ==
    /\ w # <<>> => w[1] = <<1, 1>>
    /\ \A i \in 1 .. Len(w) - 1 : w[i + 1] = NextByte(w[i])
    /\ \A i \in DOMAIN w : w[i][1] \in DOMAIN replies

\* A request that has arrived in full is handled or its connection closed: the
\* last bytes never sit in the socket or the buffer unnoticed, also while
\* answers are written - unless the client has stopped reading them, which holds
\* up the worker's reads as well.
ReadsGoOn ==
    (arrived >= XHEAD_SIZE + body_len)
        ~> (requests > 0 \/ at \in {"closed", "dead"} \/ stalled)

\* What the client can read is the answers in their order, byte by byte, and
\* nothing that has left the queue is missing from it - unless a write() took
\* only a part: then the rest of the answer is not sent, its beginning is.
ReplyIntact ==
    ~torn =>
        /\ BeginsReplies(stream)
        /\ \A m \in DOMAIN replies :
              at = "loop" /\ m \notin Range(reply_msgs)
              => <<m, replies[m]>> \in Range(stream)

\* Between two callbacks the loop waits for the socket to be writable exactly
\* when something is queued, and always for it to be readable: an answer is
\* never forgotten, the loop never spins on an idle socket, and writing never
\* turns reading off.
MaskMatchesQueue ==
    idle => events = {"READ"} \union (IF reply_msgs = <<>> THEN {} ELSE {"WRITE"})

\* An answer that has been queued leaves the queue, because it has been written
\* or because the connection is closed.  There are two ways to hold it up, and
\* with it all connections of the worker: a client that stops reading, for then
\* _write_conn spins on EAGAIN; and one that sends ShortLink bytes beyond its
\* header, or more than an int can count, for then _process_query_buffer never
\* returns.
AnswerLeaves ==
    (reply_msgs # <<>>)
        ~> (reply_msgs = <<>> \/ stalled \/ arrived >= ShortLink + body_len \/ arrived > MaxInt)
=============================================================================
