---------------------------- MODULE QueryBuffer ----------------------------
(***************************************************************************)
(* How a signaling worker turns the bytes of a connection into a request:  *)
(* _read_conn and _process_query_buffer (signaling_worker.cpp) with        *)
(* TcpConnection's querybuf, bytes_expected, bytes_processed and           *)
(* currentState.  Bytes arrive in pieces of any size.  querybuf is never   *)
(* shortened: the header stays at its start, the body behind it, and       *)
(* "short link" handling means that bytes_processed is set so high that    *)
(* nothing more is parsed.  Only lengths are modelled, so a buffer is the  *)
(* number of its bytes, as its sds header counts them: in an int, which    *)
(* wraps around.  The build defines NDEBUG, so sds.cc's assertions on the  *)
(* header are not compiled.  Memory is taken to suffice for a read whose   *)
(* length fits an int.                                                     *)
(***************************************************************************)
EXTENDS Integers

CONSTANTS XHEAD_SIZE,    \* length of the header
          ShortLink,     \* bytes_processed after a request: 65535
          MaxInt,        \* largest int; body_len and bytes_expected are unsigned
          SDS_MAX_PREALLOC,
          Bodies,        \* the values of head->body_len
          MaxBytes,      \* bound on what a client sends in all
          MaxRequests    \* bound on the turns of a parsing loop that never ends

ASSUME SizesAssumption ==
    /\ XHEAD_SIZE \in Nat \ {0} /\ ShortLink \in Nat
    /\ MaxBytes \in Nat /\ MaxRequests \in Nat \ {0}
    /\ XHEAD_SIZE < ShortLink
    /\ MaxInt \in Nat /\ 2 * XHEAD_SIZE <= MaxInt
    /\ SDS_MAX_PREALLOC \in Nat /\ SDS_MAX_PREALLOC <= MaxInt
    /\ Bodies \subseteq 0 .. 2 * MaxInt + 1

VARIABLES
    body_len, magic_ok,   \* what the client's header says
    arrived,              \* bytes that have reached the socket so far
    hup,                  \* has the client closed its end?
    querybuf, free,       \* the buffer's sds header: its len and its free
    allocated,            \* bytes for which the buffer has memory
    bytes_expected, bytes_processed, currentState,
    at,                   \* "loop" (event loop), "parse", "closed", or "dead"
                          \* (the process)
    requests              \* calls of _process_request

clientVars == <<body_len, magic_ok, arrived, hup>>
parseVars  == <<bytes_expected, bytes_processed, currentState, requests>>
bufVars    == <<querybuf, free, allocated>>
vars == <<clientVars, bufVars, parseVars, at>>

Init ==
    /\ body_len \in Bodies /\ magic_ok \in BOOLEAN
    /\ arrived = 0 /\ hup = FALSE
    /\ querybuf = 0 /\ free = 0 /\ allocated = 0
    /\ bytes_expected = XHEAD_SIZE /\ bytes_processed = 0
    /\ currentState = "STATE_HEAD" /\ at = "loop" /\ requests = 0

Arrive ==
    /\ ~hup
    /\ \E n \in arrived + 1 .. MaxBytes : arrived' = n
    /\ UNCHANGED <<body_len, magic_ok, hup, bufVars, parseVars, at>>

HangUp ==
    /\ ~hup /\ hup' = TRUE
    /\ UNCHANGED <<body_len, magic_ok, arrived, bufVars, parseVars, at>>

\* A number stored in an int: what does not fit wraps around.
ToInt(n) ==
    IF n > MaxInt THEN n - 2 * (MaxInt + 1)
    ELSE IF n < -(MaxInt + 1) THEN n + 2 * (MaxInt + 1) ELSE n

\* int read_len = conn->bytes_expected
read_len == ToInt(bytes_expected)

\* read() returns at most what was asked for and at least one byte.
Readable == {n \in 1 .. read_len : querybuf + n <= arrived}

\* sdsMakeRoomFor: is there room already?  A negative free is a huge size_t.
HasRoom == free < 0 \/ free >= read_len

\* Its new length otherwise, doubled or with SDS_MAX_PREALLOC bytes to spare.
newlen ==
    IF querybuf + read_len < SDS_MAX_PREALLOC THEN 2 * (querybuf + read_len)
    ELSE querybuf + read_len + SDS_MAX_PREALLOC

RoomUngrown == [allocated |-> allocated, free |-> free]

\* The buffer's memory and its free after sdsMakeRoomFor.
Room ==
    IF HasRoom THEN [allocated |-> allocated, free |-> free]
    ELSE [allocated |-> newlen, free |-> ToInt(newlen - querybuf)]

\* _read_conn: append what read() returns, sdsIncrLen, then
\* _process_query_buffer.  A len that wraps around is negative, and sdsIncrLen
\* then stores its 0 byte that far before the buffer, which may be the end of
\* the process.
Read ==
    /\ at = "loop"
    /\ \E n \in Readable :
          /\ querybuf' = ToInt(querybuf + n)
          /\ free' = ToInt(Room.free - n)
          /\ at' \in (IF querybuf + n > MaxInt THEN {"parse", "dead"} ELSE {"parse"})
    /\ allocated' = Room.allocated
    /\ UNCHANGED <<clientVars, parseVars>>

\* _read_conn at the end of the stream, or after a reset, which also discards
\* what has not been read.
ReadEof ==
    /\ at = "loop" /\ hup
    /\ at' = "closed"
    /\ UNCHANGED <<clientVars, bufVars, parseVars>>

\* A negative read_len becomes a huge size_t.  sdsMakeRoomFor may want more
\* memory than there is, which aborts the process; otherwise read() refuses the
\* length, which closes the connection.
ReadOverlong ==
    /\ at = "loop" /\ (arrived > querybuf \/ hup) /\ read_len < 0
    /\ at' \in {"closed", "dead"}
    /\ UNCHANGED <<clientVars, bufVars, parseVars>>

MoreThanEnough == querybuf < 0 \/ querybuf > bytes_expected + bytes_processed

\* The condition of _process_query_buffer's loop.  sdslen is a size_t: a
\* negative len is more than anything.
Enough == querybuf < 0 \/ querybuf >= bytes_expected + bytes_processed

ParseHeadUncounted ==
    /\ at = "parse" /\ Enough /\ currentState = "STATE_HEAD" /\ magic_ok
    /\ currentState' = "STATE_BODY"
    /\ bytes_processed' = 0 /\ bytes_expected' = body_len
    /\ UNCHANGED <<clientVars, bufVars, requests, at>>

ParseHead ==
    /\ at = "parse" /\ Enough /\ currentState = "STATE_HEAD" /\ magic_ok
    /\ currentState' = "STATE_BODY"
    /\ bytes_processed' = XHEAD_SIZE /\ bytes_expected' = body_len
    /\ UNCHANGED <<clientVars, bufVars, requests, at>>

BadMagic ==
    /\ at = "parse" /\ Enough /\ currentState = "STATE_HEAD" /\ ~magic_ok
    /\ at' = "closed"
    /\ UNCHANGED <<clientVars, bufVars, parseVars>>

RequestMayBeEmpty ==
    /\ at = "parse" /\ Enough /\ currentState = "STATE_BODY"
    /\ requests < MaxRequests
    /\ requests' = requests + 1 /\ bytes_processed' = ShortLink
    /\ UNCHANGED <<clientVars, bufVars, bytes_expected, currentState, at>>

\* _process_request accepts the body; an empty one is not JSON.
Request ==
    /\ at = "parse" /\ Enough /\ currentState = "STATE_BODY" /\ body_len > 0
    /\ requests < MaxRequests
    /\ requests' = requests + 1 /\ bytes_processed' = ShortLink
    /\ UNCHANGED <<clientVars, bufVars, bytes_expected, currentState, at>>

\* _process_request rejects the body: the connection is closed.
RequestFails ==
    /\ at = "parse" /\ Enough /\ currentState = "STATE_BODY"
    /\ requests < MaxRequests
    /\ requests' = requests + 1 /\ at' = "closed"
    /\ UNCHANGED <<clientVars, bufVars, bytes_expected, bytes_processed,
                   currentState>>

EndParse ==
    /\ at = "parse" /\ ~Enough
    /\ at' = "loop"
    /\ UNCHANGED <<clientVars, bufVars, parseVars>>

Worker == Read \/ ReadEof \/ ReadOverlong \/ ParseHead \/ BadMagic \/ Request \/ RequestFails \/ EndParse
Next   == Arrive \/ HangUp \/ Worker

Spec == Init /\ [][Next]_vars

(***************************************************************************)
(* Properties.                                                             *)
(***************************************************************************)

\* Every variable keeps its type.
TypeOK ==
    /\ body_len \in Bodies /\ magic_ok \in BOOLEAN
    /\ arrived \in 0 .. MaxBytes /\ hup \in BOOLEAN
    /\ querybuf \in -(MaxInt + 1) .. MaxInt /\ free \in -(MaxInt + 1) .. MaxInt
    /\ allocated \in Nat
    /\ bytes_expected \in Nat /\ bytes_processed \in Nat
    /\ currentState \in {"STATE_HEAD", "STATE_BODY"}
    /\ at \in {"loop", "parse", "closed", "dead"}
    /\ requests \in 0 .. MaxRequests

\* However the bytes are cut into reads, a connection that goes back to the
\* event loop has handled its request exactly once if all of it is in the
\* buffer and not at all otherwise, until so much more has arrived that
\* bytes_processed no longer stops the parser.  A body whose length does not
\* fit an int is never taken for a request.  Only when more bytes have arrived
\* than the buffer's int length can count may a request be taken to be complete
\* too early, or be handled again before the mark is reached.
ParsedExactly ==
    /\ at = "loop" /\ arrived < ShortLink + body_len =>
          requests = (IF querybuf >= XHEAD_SIZE + body_len THEN 1 ELSE 0)
    /\ requests > 0 =>
          body_len <= MaxInt /\ (arrived >= XHEAD_SIZE + body_len \/ arrived > MaxInt)
    /\ requests > 1 => arrived >= ShortLink + body_len \/ arrived > MaxInt

\* The number of bytes a length stands for, its wrapping around undone.
Unwrapped(n) == IF n < 0 THEN n + 2 * (MaxInt + 1) ELSE n

\* read() is never asked for 0 bytes, for sock_read_data would take the result 0
\* for the end of the stream and the connection would be closed; and what it
\* has stored lies within the buffer's memory, also where free has wrapped
\* around and sdsMakeRoomFor no longer makes room, and where len has.
ReadsFit ==
    /\ at = "loop" => bytes_expected > 0
    /\ Unwrapped(querybuf) <= allocated
=============================================================================
