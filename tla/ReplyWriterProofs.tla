------------------------- MODULE ReplyWriterProofs -------------------------
(***************************************************************************)
(* Proofs about both directions of a connection, for every size of the     *)
(* send buffer, every number and size of answers and every way in which    *)
(* reads, writes, arrivals, answers and timeouts interleave.               *)
(*                                                                         *)
(* The parser's invariant Inv is kept by the writing side, which touches   *)
(* the reading side only to close the connection.  Mask ties the watcher's *)
(* mask to the queue, and to _write_conn while it runs.  Queue and Whole   *)
(* say where the border between written and queued answers is: the queue   *)
(* begins right behind the answer with whose last byte the stream ends.    *)
(***************************************************************************)
EXTENDS ReplyWriter, SequenceTheorems, TLAPS

(***************************************************************************)
(* The reading side alone: for every header size, body length and way of   *)
(* cutting the bytes into reads, a request is handled exactly when it is   *)
(* complete, as long as an int can count its bytes.  The inductive         *)
(* invariant ties bytes_expected and bytes_processed to the stage of the   *)
(* parse, and the two ints of the buffer's header to its memory: free is   *)
(* what is left of the memory, wrapped around, so that it is negative only *)
(* where more is left than any read can ask for.  What makes ParsedExactly *)
(* hold is the last part: a connection is back in the event loop only when *)
(* the parsing loop's condition is false, hence never with a wrapped len.  *)
(***************************************************************************)

\* The header has not been parsed.
InHead ==
    /\ currentState = "STATE_HEAD" /\ requests = 0
    /\ bytes_expected = XHEAD_SIZE /\ bytes_processed = 0
    /\ querybuf >= 0 /\ querybuf < 2 * XHEAD_SIZE /\ (at = "loop" => querybuf < XHEAD_SIZE)

\* The header has been parsed, the request has not been handled.
InBody ==
    /\ currentState = "STATE_BODY" /\ requests = 0
    /\ bytes_expected = body_len /\ bytes_processed = XHEAD_SIZE
    /\ querybuf < 0 \/ querybuf >= XHEAD_SIZE
    /\ body_len > MaxInt => querybuf >= 0 /\ querybuf < XHEAD_SIZE + body_len

\* The request has been handled.
Handled ==
    /\ currentState = "STATE_BODY" /\ requests > 0 /\ body_len > 0
    /\ bytes_expected = body_len /\ bytes_processed = ShortLink
    /\ querybuf < 0 \/ querybuf >= XHEAD_SIZE + body_len
    /\ requests > 1 => querybuf < 0 \/ querybuf >= ShortLink + body_len

\* The memory left behind the bytes of the buffer.
left == allocated - Unwrapped(querybuf)

\* The header of the buffer and its memory.
Buffer ==
    /\ Unwrapped(querybuf) <= arrived
    /\ left >= 0 /\ left <= 2 * MaxInt + 1 /\ free = ToInt(left)

\* No request without its bytes, unless there are more than an int can count.
HasItsBytes ==
    /\ requests > 0 =>
          body_len <= MaxInt /\ (arrived >= XHEAD_SIZE + body_len \/ arrived > MaxInt)
    /\ requests > 1 => arrived >= ShortLink + body_len \/ arrived > MaxInt

Inv ==
    /\ TypeOK /\ Buffer /\ HasItsBytes
    /\ at \in {"loop", "parse"} => InHead \/ InBody \/ Handled
    /\ at = "loop" => ~Enough

USE SizesAssumption

\* A connection that has just been accepted satisfies the invariant.
LEMMA InitInv == Init => Inv
<1> SUFFICES ASSUME Init PROVE Inv
  OBVIOUS
<1>1. TypeOK
  <2>1. magic_ok \in BOOLEAN /\ hup \in BOOLEAN
    BY Zenon DEF Init
  <2>2. /\ arrived \in 0 .. MaxBytes /\ querybuf \in -(MaxInt + 1) .. MaxInt
        /\ free \in -(MaxInt + 1) .. MaxInt /\ allocated \in Nat /\ requests \in 0 .. MaxRequests
    BY DEF Init
  <2>3. bytes_expected \in Nat /\ bytes_processed \in Nat
    BY DEF Init
  <2> QED
    BY <2>1, <2>2, <2>3, Zenon DEF Init, TypeOK
<1>2. InHead /\ ~Enough
  BY DEF Init, InHead, Enough
<1>3. Buffer /\ HasItsBytes
  BY DEF Init, Buffer, left, Unwrapped, ToInt, HasItsBytes
<1> QED
  BY <1>1, <1>2, <1>3 DEF Inv

\* What a read finds, and leaves, in the buffer's header and memory.
LEMMA ReadRoom ==
    ASSUME Inv, NEW n \in Readable, at = "loop",
           querybuf' = ToInt(querybuf + n), free' = ToInt(Room.free - n),
           allocated' = Room.allocated, arrived' = arrived
    PROVE  /\ Buffer' /\ querybuf' \in -(MaxInt + 1) .. MaxInt
           /\ free' \in -(MaxInt + 1) .. MaxInt /\ allocated' \in Nat
           /\ n \in Nat /\ n > 0 /\ n <= read_len /\ n <= MaxInt /\ querybuf >= 0 /\ querybuf + n <= arrived
<1>0. arrived \in Nat /\ querybuf \in -(MaxInt + 1) .. MaxInt /\ allocated \in Nat /\ bytes_expected \in Nat
    BY DEF Inv, TypeOK
<1>1. querybuf >= 0  BY <1>0 DEF Inv, Enough, TypeOK
<1>2. read_len \in Int /\ read_len <= MaxInt /\ n \in Nat /\ n > 0 /\ n <= read_len
    <2>1. bytes_expected <= 2 * MaxInt + 1
        <3>1. body_len \in Nat /\ body_len <= 2 * MaxInt + 1  BY DEF Inv, TypeOK
        <3> QED  BY <3>1 DEF Inv, InHead, InBody, Handled
    <2>2. read_len \in Int /\ read_len <= MaxInt  BY <1>0, <2>1 DEF read_len, ToInt
    <2> QED  BY <2>2 DEF Readable
<1>3. querybuf + n <= arrived /\ querybuf + n <= 2 * MaxInt
    BY <1>0, <1>2 DEF Readable
<1>4. /\ allocated - querybuf >= 0 /\ allocated - querybuf <= 2 * MaxInt + 1
      /\ free = ToInt(allocated - querybuf)
    BY <1>0, <1>1 DEF Inv, Buffer, left, Unwrapped
<1>5. /\ Room.allocated \in Nat /\ Room.allocated - querybuf >= n
      /\ Room.allocated - querybuf <= 2 * MaxInt + 1
      /\ Room.free = ToInt(Room.allocated - querybuf)
    <2>1. CASE HasRoom
        <3>1. Room.allocated = allocated /\ Room.free = free  BY <2>1 DEF Room
        <3>2. free < 0 \/ free >= read_len  BY <2>1 DEF HasRoom
        <3>3. allocated - querybuf >= n  BY <1>0, <1>2, <1>4, <3>2 DEF ToInt
        <3> QED  BY <1>0, <1>4, <3>1, <3>3
    <2>2. CASE ~HasRoom
        <3>1. Room.allocated = newlen /\ Room.free = ToInt(newlen - querybuf)
            BY <2>2 DEF Room
        <3>2. newlen \in Nat /\ newlen - querybuf >= n /\ newlen - querybuf <= 2 * MaxInt + 1
            BY <1>0, <1>1, <1>2 DEF newlen
        <3> QED  BY <3>1, <3>2
    <2> QED  BY <2>1, <2>2
<1>6. Unwrapped(querybuf') = querybuf + n /\ querybuf' \in -(MaxInt + 1) .. MaxInt
    BY <1>0, <1>1, <1>2, <1>3 DEF Unwrapped, ToInt
<1>7. left' = Room.allocated - (querybuf + n)  BY <1>6 DEF left, Unwrapped
<1>8. ToInt(Room.free - n) = ToInt(Room.allocated - (querybuf + n))
    BY <1>0, <1>2, <1>5 DEF ToInt
<1>9. free' \in -(MaxInt + 1) .. MaxInt
    BY <1>0, <1>2, <1>5, <1>8 DEF ToInt
<1>10. Buffer'
    <2>1. Unwrapped(querybuf)' = Unwrapped(querybuf')  BY DEF Unwrapped
    <2>2. (ToInt(left))' = ToInt(left')  BY DEF ToInt
    <2>3. left' >= 0 /\ left' <= 2 * MaxInt + 1  BY <1>0, <1>2, <1>5, <1>7
    <2>4. free' = ToInt(left')  BY <1>7, <1>8
    <2> QED  BY <1>3, <1>6, <2>1, <2>2, <2>3, <2>4 DEF Buffer
<1> QED  BY <1>1, <1>2, <1>3, <1>5, <1>6, <1>9, <1>10

\* A step that leaves the buffer and what arrived, or only adds arrivals.
LEMMA SameBuffer ==
    ASSUME Inv, UNCHANGED bufVars, arrived' \in Nat, arrived' >= arrived PROVE Buffer'
<1>1. querybuf \in Int /\ allocated \in Nat /\ arrived \in Nat  BY DEF Inv, TypeOK
<1> QED  BY <1>1 DEF Inv, Buffer, left, Unwrapped, ToInt, bufVars

\* Every arrival, read and turn of the parsing loop keeps the invariant.
LEMMA NextInv == Inv /\ [Next]_vars => Inv'
<1> SUFFICES ASSUME Inv, [Next]_vars PROVE Inv'
  OBVIOUS
<1> USE DEF clientVars, parseVars
<1>0. /\ arrived \in Nat /\ querybuf \in -(MaxInt + 1) .. MaxInt
      /\ body_len \in Nat /\ body_len <= 2 * MaxInt + 1 /\ MaxBytes \in Nat
      /\ querybuf < 0 => arrived > MaxInt
      /\ querybuf >= 0 => querybuf <= arrived
  <2>1. arrived \in Nat /\ querybuf \in -(MaxInt + 1) .. MaxInt /\ body_len \in Nat
        /\ body_len <= 2 * MaxInt + 1
    BY DEF Inv, TypeOK
  <2> QED  BY <2>1 DEF Inv, Buffer, Unwrapped
<1>1. CASE Arrive
  <2>1. arrived' \in arrived + 1 .. MaxBytes /\ UNCHANGED bufVars  BY <1>1 DEF Arrive
  <2>2. Buffer'  BY <1>0, <2>1, SameBuffer
  <2> QED
    BY <1>0, <1>1, <2>1, <2>2
    DEF Arrive, Inv, TypeOK, HasItsBytes, InHead, InBody, Handled, Enough, bufVars
<1>3. CASE Read
  <2>1. PICK n \in Readable :
            /\ querybuf' = ToInt(querybuf + n) /\ free' = ToInt(Room.free - n)
            /\ at' \in (IF querybuf + n > MaxInt THEN {"parse", "dead"} ELSE {"parse"})
    BY <1>3 DEF Read
  <2>2. at = "loop" /\ allocated' = Room.allocated /\ UNCHANGED <<clientVars, parseVars>>
    BY <1>3 DEF Read
  <2>3. /\ Buffer' /\ querybuf' \in -(MaxInt + 1) .. MaxInt
        /\ free' \in -(MaxInt + 1) .. MaxInt /\ allocated' \in Nat
        /\ n \in Nat /\ n > 0 /\ n <= read_len /\ n <= MaxInt /\ querybuf >= 0 /\ querybuf + n <= arrived
    BY <2>1, <2>2, ReadRoom
  <2>4. at' \in {"parse", "dead"}  BY <2>1
  <2>5. TypeOK' /\ HasItsBytes'
    BY <2>2, <2>3, <2>4 DEF Inv, TypeOK, HasItsBytes
  <2>6. InHead \/ InBody \/ Handled  BY <2>2 DEF Inv
  <2>7. CASE InHead
    <3>1. read_len = XHEAD_SIZE  BY <2>7 DEF InHead, read_len, ToInt
    <3>2. querybuf < XHEAD_SIZE  BY <2>2, <2>7 DEF InHead
    <3>3. querybuf' = querybuf + n  BY <1>0, <2>1, <2>3, <3>1, <3>2 DEF ToInt
    <3>4. InHead'  BY <1>0, <2>2, <2>3, <2>4, <2>7, <3>1, <3>2, <3>3 DEF InHead
    <3> QED  BY <2>3, <2>4, <2>5, <3>4 DEF Inv
  <2>8. CASE InBody
    <3>1. body_len <= MaxInt
      BY <1>0, <2>3, <2>8 DEF InBody, read_len, ToInt
    <3>2. querybuf' < 0 \/ querybuf' >= XHEAD_SIZE
      BY <1>0, <2>1, <2>3, <2>8 DEF InBody, ToInt
    <3>3. InBody'  BY <1>0, <2>2, <2>8, <3>1, <3>2 DEF InBody
    <3> QED  BY <2>3, <2>4, <2>5, <3>3 DEF Inv
  <2>9. CASE Handled
    <3>1. querybuf' < 0 \/ querybuf' >= XHEAD_SIZE + body_len
      BY <1>0, <2>1, <2>3, <2>9 DEF Handled, ToInt
    <3>2. querybuf >= ShortLink + body_len =>
              querybuf' < 0 \/ querybuf' >= ShortLink + body_len
      BY <1>0, <2>1, <2>3 DEF ToInt
    <3>3. UNCHANGED <<body_len, requests, bytes_expected, bytes_processed, currentState>>
      BY <2>2
    <3>4. requests > 1 => querybuf >= ShortLink + body_len
      BY <1>0, <2>3, <2>9 DEF Handled
    <3>5. Handled'  BY <2>9, <3>1, <3>2, <3>3, <3>4 DEF Handled
    <3> QED  BY <2>3, <2>4, <2>5, <3>5 DEF Inv
  <2> QED  BY <2>6, <2>7, <2>8, <2>9
<1>4. CASE ~Arrive /\ ~Read
  <2>1. UNCHANGED bufVars /\ arrived' = arrived
    BY <1>4 DEF Next, Worker, HangUp, ReadEof, ReadOverlong, ParseHead, BadMagic, Request,
                RequestFails, EndParse, vars
  <2>2. Buffer'  BY <1>0, <2>1, SameBuffer
  <2> USE DEF Inv, TypeOK, HasItsBytes, InHead, InBody, Handled, Enough, bufVars
  <2>3. CASE HangUp
    BY <1>0, <2>2, <2>3 DEF HangUp
  <2>4. CASE ReadEof
    BY <1>0, <2>2, <2>4 DEF ReadEof
  <2>5. CASE ReadOverlong
    BY <1>0, <2>2, <2>5 DEF ReadOverlong
  <2>6. CASE ParseHead
    BY <1>0, <2>2, <2>6 DEF ParseHead
  <2>7. CASE BadMagic
    BY <1>0, <2>2, <2>7 DEF BadMagic
  <2>8. CASE Request
    BY <1>0, <2>2, <2>8 DEF Request
  <2>9. CASE RequestFails
    BY <1>0, <2>2, <2>9 DEF RequestFails
  <2>10. CASE EndParse
    BY <1>0, <2>2, <2>10 DEF EndParse
  <2>11. CASE UNCHANGED vars
    BY <1>0, <2>2, <2>11 DEF vars
  <2> QED
    BY <1>4, <2>3, <2>4, <2>5, <2>6, <2>7, <2>8, <2>9, <2>10, <2>11 DEF Next, Worker
<1> QED
  BY <1>1, <1>3, <1>4

\* The invariant holds throughout.
THEOREM Invariance == Spec => []Inv
  BY InitInv, NextInv, PTL DEF Spec

\* For all sizes: every variable keeps its type.
THEOREM TypeCorrect == Spec => []TypeOK
<1>1. Inv => TypeOK
  BY DEF Inv
<1> QED
  BY <1>1, Invariance, PTL

\* What the invariant says of requests.
LEMMA ParsesExactly == ASSUME Inv PROVE ParsedExactly
<1>1. /\ arrived \in Nat /\ querybuf \in Int /\ body_len \in Nat /\ requests \in Nat
      /\ querybuf >= 0 => querybuf <= arrived
    BY DEF Inv, TypeOK, Buffer, Unwrapped
<1>2. ASSUME at = "loop", arrived < ShortLink + body_len
      PROVE  requests = (IF querybuf >= XHEAD_SIZE + body_len THEN 1 ELSE 0)
    <2>1. querybuf >= 0 /\ querybuf < bytes_expected + bytes_processed
        BY <1>1, <1>2 DEF Inv, Enough, TypeOK
    <2>2. querybuf <= MaxInt  BY DEF Inv, TypeOK
    <2>3. CASE Handled
        BY <1>1, <1>2, <2>1, <2>3 DEF Handled, Inv, HasItsBytes
    <2>4. CASE InHead \/ InBody
        BY <1>1, <1>2, <2>1, <2>4 DEF InHead, InBody
    <2> QED  BY <1>2, <2>3, <2>4 DEF Inv
<1> QED  BY <1>2 DEF Inv, HasItsBytes, ParsedExactly

\* For all sizes: a request is handled once when it is complete, never before,
\* and not again before bytes_processed stops stopping the parser.
THEOREM RequestsExact == Spec => []ParsedExactly
<1>1. Inv => ParsedExactly
  BY ParsesExactly
<1> QED
  BY <1>1, Invariance, PTL

\* What the invariant says of reads.
LEMMA FitsRead == ASSUME Inv PROVE ReadsFit
<1>1. arrived \in Nat /\ querybuf \in Int /\ body_len \in Nat /\ allocated \in Nat
    BY DEF Inv, TypeOK
<1>2. Unwrapped(querybuf) <= allocated
    BY <1>1 DEF Inv, Buffer, left, Unwrapped
<1>3. ASSUME at = "loop" PROVE bytes_expected > 0
    BY <1>1, <1>3 DEF Inv, InHead, InBody, Handled, Enough
<1> QED  BY <1>2, <1>3 DEF ReadsFit

\* For all sizes: no read asks for 0 bytes or stores any outside the buffer.
THEOREM ReadsAlwaysFit == Spec => []ReadsFit
<1>1. Inv => ReadsFit
  BY FitsRead
<1> QED
  BY <1>1, Invariance, PTL

(***************************************************************************)
(* Both directions.                                                        *)
(***************************************************************************)

Byte == Nat \X Nat

\* The writer's variables keep their types.
WriterTypes ==
    /\ replies \in Seq(Nat \ {0}) /\ reply_msgs \in Seq(Nat) /\ cur_pos \in Nat
    /\ sndbuf \in Seq(Byte) /\ received \in Seq(Byte)
    /\ writing \in BOOLEAN /\ torn \in BOOLEAN

\* The watcher's mask, while _write_conn runs and while it does not.
Mask ==
    /\ writing => at = "loop" /\ events = {"READ", "WRITE"}
    /\ open /\ ~writing =>
          events = {"READ"} \union (IF reply_msgs = <<>> THEN {} ELSE {"WRITE"})

\* The number of answers that have left the queue of an open connection.
gone == Len(replies) - Len(reply_msgs)

\* The queue holds the answers that have not left it, in their order.
Queue ==
    /\ Len(reply_msgs) <= Len(replies)
    /\ \A i \in 1 .. Len(reply_msgs) : reply_msgs[i] = gone + i

\* w ends with the last byte of answer k, or is empty before the first.
EndsWith(w, k) ==
    IF k = 0 THEN w = <<>> ELSE w # <<>> /\ w[Len(w)] = <<k, replies[k]>>

\* Every write() so far has taken a whole answer.
Whole ==
    /\ cur_pos = 0 /\ BeginsReplies(stream)
    /\ open => /\ EndsWith(stream, gone)
               /\ \A m \in 1 .. gone : <<m, replies[m]>> \in Range(stream)

WInv == Inv /\ WriterTypes /\ Mask /\ (open => Queue) /\ (~torn => Whole)

(***************************************************************************)
(* The bytes of whole answers.                                             *)
(***************************************************************************)

\* The parts of a pair.
LEMMA PairParts ==
    ASSUME NEW x, NEW y, NEW z, z = <<x, y>> PROVE z[1] = x /\ z[2] = y
<1> QED  OBVIOUS

\* Bytes behind those in the send buffer are behind all of the stream.
LEMMA Behind ==
    ASSUME NEW a \in Seq(Byte), NEW b \in Seq(Byte), NEW c \in Seq(Byte)
    PROVE  a \o (b \o c) = (a \o b) \o c
<1>1. (a \o b) \o c = a \o (b \o c)  BY ConcatAssociative
<1> QED  BY <1>1

\* An answer written in full behind the answers before it.
LEMMA WholeAnswer ==
    ASSUME replies \in Seq(Nat \ {0}), NEW w \in Seq(Byte), BeginsReplies(w),
           NEW k \in Nat, k < Len(replies), EndsWith(w, k),
           NEW v, v = w \o Bytes(k + 1, replies[k + 1])
    PROVE  /\ v \in Seq(Byte) /\ BeginsReplies(v) /\ EndsWith(v, k + 1)
           /\ Range(w) \subseteq Range(v) /\ <<k + 1, replies[k + 1]>> \in Range(v)
<1> DEFINE n == replies[k + 1]
           b == Bytes(k + 1, n)
<1>1. n \in Nat \ {0} /\ k + 1 \in 1 .. Len(replies)
    OBVIOUS
<1>2. /\ b \in Seq(Byte) /\ Len(b) = n
      /\ \A i \in 1 .. n : b[i] = <<k + 1, i>>
    <2>1. b = [i \in 1 .. n |-> <<k + 1, i>>]  BY DEF Bytes
    <2>2. \A i \in 1 .. n : <<k + 1, i>> \in Byte  BY <1>1 DEF Byte
    <2> HIDE DEF n, b
    <2> QED  BY <1>1, <2>1, <2>2
<1> HIDE DEF n, b
<1>3. v = w \o b  BY DEF n, b
<1>4. /\ v \in Seq(Byte) /\ Len(v) = Len(w) + n
      /\ \A i \in 1 .. Len(w) : v[i] = w[i]
      /\ \A i \in Len(w) + 1 .. Len(w) + n : v[i] = b[i - Len(w)]
    <2>1. /\ w \o b \in Seq(Byte) /\ Len(w \o b) = Len(w) + Len(b)
          /\ \A i \in 1 .. Len(w) + Len(b) :
                (w \o b)[i] = IF i <= Len(w) THEN w[i] ELSE b[i - Len(w)]
        BY <1>2, ConcatProperties
    <2>2. Len(w) \in Nat /\ n \in Nat /\ Len(b) = n  BY <1>1, <1>2
    <2>3. \A i \in 1 .. Len(w) : i \in 1 .. Len(w) + n /\ i <= Len(w)
        BY <2>2
    <2>4. \A i \in Len(w) + 1 .. Len(w) + n : i \in 1 .. Len(w) + n /\ ~(i <= Len(w))
        BY <2>2
    <2> QED  BY <1>3, <2>1, <2>2, <2>3, <2>4, Zenon
<1>5. \A i \in Len(w) + 1 .. Len(v) : v[i] = <<k + 1, i - Len(w)>>
    <2> SUFFICES ASSUME NEW i \in Len(w) + 1 .. Len(v) PROVE v[i] = <<k + 1, i - Len(w)>>
        OBVIOUS
    <2>1. i - Len(w) \in 1 .. n  BY <1>1, <1>4
    <2> QED  BY <1>2, <1>4, <2>1
<1>6. Len(w) \in Nat /\ Len(v) \in Nat /\ Len(v) > Len(w)
    BY <1>1, <1>4
<1>7. v # <<>> /\ v[Len(v)] = <<k + 1, n>>
    <2>1. Len(v) \in Len(w) + 1 .. Len(v) /\ Len(v) - Len(w) = n
        BY <1>1, <1>4, <1>6
    <2>2. v[Len(v)] = <<k + 1, Len(v) - Len(w)>>  BY <1>5, <2>1, Zenon
    <2> QED  BY <1>6, <2>1, <2>2
<1>8. v[1] = <<1, 1>>
    <2>1. CASE k = 0
        <3>1. Len(w) = 0  BY <2>1 DEF EndsWith
        <3> QED  BY <1>5, <1>6, <2>1, <3>1
    <2>2. CASE k # 0
        <3>1. w # <<>> /\ Len(w) >= 1  BY <2>2 DEF EndsWith
        <3> QED  BY <1>4, <3>1 DEF BeginsReplies
    <2> QED  BY <2>1, <2>2
<1>9. ASSUME NEW i \in 1 .. Len(v) - 1 PROVE v[i + 1] = NextByte(v[i])
    <2>1. CASE i < Len(w)
        <3>1. i \in 1 .. Len(w) - 1 /\ i \in 1 .. Len(w) /\ i + 1 \in 1 .. Len(w)
            BY <1>6, <2>1
        <3> QED  BY <1>4, <3>1 DEF BeginsReplies
    <2>2. CASE i = Len(w)
        <3>1. k # 0 /\ w[Len(w)] = <<k, replies[k]>>
            BY <2>2, <1>6 DEF EndsWith
        <3>2. v[i] = <<k, replies[k]>>  BY <1>4, <1>6, <2>2, <3>1
        <3>3. replies[k] \in Nat  BY <3>1
        <3>4. v[i][1] = k /\ v[i][2] = replies[k]
            BY <3>2, PairParts, Zenon
        <3>5. ~(replies[k] < replies[k])
            <4>1. \A x \in Nat : ~(x < x)  OBVIOUS
            <4> QED  BY <3>3, <4>1, Zenon
        <3>6. v[i][1] = k /\ ~(v[i][2] < replies[v[i][1]])
            BY <3>4, <3>5, Zenon
        <3>7. NextByte(v[i]) = <<k + 1, 1>>  BY <3>6, Zenon DEF NextByte
        <3>8. i + 1 \in Len(w) + 1 .. Len(v) /\ (i + 1) - Len(w) = 1
            BY <1>6, <2>2
        <3>9. v[i + 1] = <<k + 1, 1>>  BY <1>5, <3>8
        <3> QED  BY <3>7, <3>9
    <2>3. CASE i > Len(w)
        <3>1. /\ i \in Len(w) + 1 .. Len(v) /\ i + 1 \in Len(w) + 1 .. Len(v)
              /\ i - Len(w) \in Nat /\ i - Len(w) < n
              /\ (i + 1) - Len(w) = (i - Len(w)) + 1
            BY <1>1, <1>4, <1>6, <2>3
        <3>2. v[i] = <<k + 1, i - Len(w)>> /\ v[i + 1] = <<k + 1, (i + 1) - Len(w)>>
            BY <1>5, <3>1, Zenon
        <3>3. v[i][1] = k + 1 /\ v[i][2] = i - Len(w) /\ v[i][2] < replies[v[i][1]]
            BY <3>1, <3>2 DEF n
        <3>4. NextByte(v[i]) = <<k + 1, (i - Len(w)) + 1>>
            BY <3>3, Zenon DEF NextByte
        <3> QED  BY <3>1, <3>2, <3>4
    <2>4. i < Len(w) \/ i = Len(w) \/ i > Len(w)  BY <1>6
    <2> QED  BY <2>1, <2>2, <2>3, <2>4, Zenon
<1>10. ASSUME NEW i \in DOMAIN v PROVE v[i][1] \in DOMAIN replies
    <2>1. i \in 1 .. Len(v)  BY <1>4
    <2>2. CASE i <= Len(w)
        <3>1. i \in 1 .. Len(w) /\ i \in DOMAIN w  BY <1>6, <2>1, <2>2
        <3> QED  BY <1>4, <3>1 DEF BeginsReplies
    <2>3. CASE i > Len(w)
        <3>0. i \in Len(w) + 1 .. Len(v)  BY <1>6, <2>1, <2>3
        <3>1. v[i] = <<k + 1, i - Len(w)>>  BY <1>5, <3>0, Zenon
        <3> QED  BY <1>1, <3>1
    <2> QED  BY <1>6, <2>1, <2>2, <2>3
<1>11. BeginsReplies(v)
    BY <1>8, <1>9, <1>10, Zenon DEF BeginsReplies
<1>12. Range(w) \subseteq Range(v) /\ <<k + 1, n>> \in Range(v)
    <2>1. DOMAIN w = 1 .. Len(w) /\ DOMAIN v = 1 .. Len(v)  BY <1>4
    <2>2. Len(v) \in DOMAIN v /\ DOMAIN w \subseteq DOMAIN v  BY <1>6, <2>1
    <2>3. \A i \in DOMAIN w : v[i] = w[i]  BY <1>4, <2>1
    <2> QED  BY <1>7, <2>2, <2>3 DEF Range
<1>13. EndsWith(v, k + 1)
    <2>1. k + 1 # 0  OBVIOUS
    <2> QED  BY <1>7, <2>1 DEF EndsWith, n
<1> QED  BY <1>4, <1>11, <1>12, <1>13 DEF n

(***************************************************************************)
(* The steps.                                                              *)
(***************************************************************************)

\* A connection that has just been accepted has no answers.
LEMMA WriterInitInv == IoInit => WInv
<1> SUFFICES ASSUME IoInit PROVE WInv
    OBVIOUS
<1>1. Inv  BY InitInv DEF IoInit
<1>2. /\ replies = <<>> /\ reply_msgs = <<>> /\ cur_pos = 0 /\ writing = FALSE
      /\ events = {"READ"} /\ sndbuf = <<>> /\ received = <<>> /\ torn = FALSE
    BY DEF IoInit, WriterInit
<1>3. WriterTypes
    <2>1. writing \in BOOLEAN /\ torn \in BOOLEAN  BY <1>2, Zenon
    <2> QED  BY <1>2, <2>1 DEF WriterTypes
<1>4. Mask  BY <1>2 DEF Mask
<1>5. stream = <<>> /\ gone = 0  BY <1>2 DEF stream, gone
<1>6. Queue  BY <1>2 DEF Queue
<1>7. Whole  BY <1>2, <1>5 DEF Whole, BeginsReplies, EndsWith
<1> QED  BY <1>1, <1>3, <1>4, <1>6, <1>7 DEF WInv

\* A connection that is closed keeps the reading side's invariant.
LEMMA Closes ==
    ASSUME Inv, at' \in {"closed", "dead"}, UNCHANGED <<clientVars, bufVars, parseVars>>
    PROVE  Inv'
<1>1. arrived' = arrived /\ arrived \in Nat  BY DEF Inv, TypeOK, clientVars
<1>2. Buffer'  BY <1>1, SameBuffer
<1> QED  BY <1>2 DEF Inv, TypeOK, HasItsBytes, Enough, clientVars, bufVars, parseVars

\* Once closed it owes nothing but what is on its way; what is on its way stays.
LEMMA ClosedStep ==
    ASSUME WInv, Inv', at' \in {"closed", "dead"}, writing' = FALSE, reply_msgs' = <<>>,
           UNCHANGED <<replies, cur_pos, sndbuf, received, torn>>
    PROVE  WInv'
<1>1. ~open'  BY DEF open
<1>2. WriterTypes'
    <2>1. writing' \in BOOLEAN  BY Zenon
    <2>2. reply_msgs' \in Seq(Nat)  OBVIOUS
    <2> QED  BY <2>1, <2>2 DEF WInv, WriterTypes
<1>3. Mask'  BY <1>1 DEF Mask
<1>4. ~torn' => Whole'
    BY <1>1 DEF WInv, Whole, stream, BeginsReplies, NextByte
<1> QED  BY <1>1, <1>2, <1>3, <1>4 DEF WInv

\* A step that leaves the queue and the bytes alone and keeps the mask in order.
LEMMA SameAnswers ==
    ASSUME WInv, Inv', open' => open, UNCHANGED <<replies, reply_msgs, torn, received, sndbuf>>,
           writing' \in BOOLEAN, cur_pos' \in {0, cur_pos}, Mask'
    PROVE  WInv'
<1>1. WriterTypes'  BY DEF WInv, WriterTypes
<1>2. UNCHANGED <<gone, stream>>  BY DEF gone, stream
<1>3. open' => Queue'  BY <1>2 DEF WInv, Queue
<1>4. ~torn' => Whole'
    BY <1>2 DEF WInv, Whole, BeginsReplies, NextByte, EndsWith
<1> QED  BY <1>1, <1>3, <1>4 DEF WInv

\* The reading side and the loop: the queue is as it was, or the connection closed.
LEMMA ReadSideStep == ASSUME WInv, ReadSide PROVE WInv'
<1>1. Inv'  BY NextInv DEF ReadSide, Next, WInv
<1>2. /\ ~writing /\ UNCHANGED <<replies, cur_pos, writing, events, sndbuf, received, torn>>
      /\ reply_msgs' = IF at' \in {"closed", "dead"} THEN <<>> ELSE reply_msgs
    BY DEF ReadSide, socketVars
<1>3. at \in {"loop", "parse"}
    BY DEF ReadSide, Worker, Read, ReadEof, ReadOverlong, ParseHead, BadMagic, Request,
           RequestFails, EndParse
<1>4. CASE at' \in {"closed", "dead"}
    <2>1. writing' = FALSE  BY <1>2, Zenon DEF WInv, WriterTypes
    <2> QED  BY <1>1, <1>2, <1>4, <2>1, ClosedStep
<1>5. CASE at' \notin {"closed", "dead"}
    <2>1. Mask'  BY <1>2, <1>3, <1>5 DEF WInv, Mask, open
    <2>2. open  BY <1>3 DEF open
    <2>3. writing' \in BOOLEAN  BY <1>2 DEF WInv, WriterTypes
    <2> QED  BY <1>1, <1>2, <1>5, <2>1, <2>2, <2>3, SameAnswers
<1> QED  BY <1>4, <1>5

\* Bytes that arrive, a hang-up, a client that stalls, a writable socket.
LEMMA QuietStep ==
    ASSUME WInv, Arrivals \/ Stall \/ BeginWrite \/ UNCHANGED allVars PROVE WInv'
<1>1. CASE Arrivals
    <2>1. Inv'  BY <1>1, NextInv DEF Arrivals, Next, WInv
    <2>2. UNCHANGED <<writerVars, at>>  BY <1>1 DEF Arrivals, Arrive, HangUp
    <2>3. Mask'  BY <2>2 DEF WInv, Mask, open, writerVars, queueVars
    <2> QED
        BY <2>1, <2>2, <2>3, SameAnswers
        DEF writerVars, queueVars, socketVars, open, WInv, WriterTypes
<1>2. CASE Stall \/ UNCHANGED allVars
    <2>1. UNCHANGED <<vars, replies, reply_msgs, cur_pos, writing, events, sndbuf, received, torn>>
        BY <1>2 DEF Stall, allVars, writerVars, queueVars, socketVars
    <2>2. Inv'  BY <2>1, NextInv DEF WInv
    <2>3. Mask' /\ (open' => open)  BY <2>1 DEF WInv, Mask, open, vars
    <2> QED
        BY <2>1, <2>2, <2>3, SameAnswers DEF WInv, WriterTypes
<1>3. CASE BeginWrite
    <2>1. /\ at = "loop" /\ ~writing /\ "WRITE" \in events /\ writing' = TRUE /\ cur_pos' = 0
          /\ UNCHANGED <<vars, replies, reply_msgs, events, sndbuf, received, torn>>
        BY <1>3 DEF BeginWrite, idle, socketVars
    <2>2. Inv'  BY <2>1, NextInv DEF WInv
    <2>3. events = {"READ", "WRITE"}  BY <2>1 DEF WInv, Mask, open
    <2>4. Mask' /\ (open' => open)  BY <2>1, <2>3 DEF Mask, open, vars
    <2>5. writing' \in BOOLEAN  BY <2>1, Zenon
    <2> QED  BY <2>1, <2>2, <2>4, <2>5, SameAnswers
<1> QED  BY <1>1, <1>2, <1>3

\* _process_timeout, and a write() that fails.
LEMMA CloseStep == ASSUME WInv, Timeout \/ WriteFails PROVE WInv'
<1>1. /\ at' \in {"closed", "dead"} /\ reply_msgs' = <<>>
      /\ UNCHANGED <<clientVars, bufVars, parseVars>>
      /\ UNCHANGED <<replies, cur_pos, sndbuf, received, torn>>
      /\ writing' = FALSE \/ (~writing /\ writing' = writing)
    BY DEF Timeout, WriteFails, idle, socketVars
<1>2. writing' = FALSE  BY <1>1, Zenon DEF WInv, WriterTypes
<1> QED  BY <1>1, <1>2, Closes, ClosedStep DEF WInv

\* _write_conn is done.
LEMMA EndWriteStep == ASSUME WInv, EndWrite PROVE WInv'
<1>1. /\ writing /\ reply_msgs = <<>> /\ writing' = FALSE /\ events' = events \ {"WRITE"}
      /\ UNCHANGED <<vars, replies, reply_msgs, cur_pos, sndbuf, received, torn>>
    BY DEF EndWrite, stop_io_event, queueVars, socketVars
<1>2. Inv'  BY <1>1, NextInv DEF WInv
<1>3. events = {"READ", "WRITE"}  BY <1>1 DEF WInv, Mask
<1>4. Mask' /\ (open' => open)  BY <1>1, <1>3 DEF Mask, open, vars
<1>5. writing' \in BOOLEAN  BY <1>1, Zenon
<1> QED  BY <1>1, <1>2, <1>4, <1>5, SameAnswers

\* The client reads: what it can read is the same.
LEMMA ClientReadsStep == ASSUME WInv, ClientReads PROVE WInv'
<1>1. /\ received' = received \o sndbuf /\ sndbuf' = <<>>
      /\ UNCHANGED <<vars, replies, reply_msgs, cur_pos, writing, events, torn>>
    BY DEF ClientReads, queueVars
<1>2. sndbuf \in Seq(Byte) /\ received \in Seq(Byte)  BY DEF WInv, WriterTypes
<1>3. received' \in Seq(Byte) /\ sndbuf' \in Seq(Byte)
    BY <1>1, <1>2, ConcatProperties
<1>4. stream' = stream
    BY <1>1, <1>2, <1>3, ConcatEmptySeq DEF stream
<1>5. Inv'  BY <1>1, NextInv DEF WInv
<1>6. Mask' /\ (open' = open)  BY <1>1 DEF WInv, Mask, open, vars
<1>7. WriterTypes'  BY <1>1, <1>3 DEF WInv, WriterTypes
<1>8. gone' = gone  BY <1>1 DEF gone
<1>9. open' => Queue'  BY <1>1, <1>6, <1>8 DEF WInv, Queue
<1>10. ~torn' => Whole'
    BY <1>1, <1>4, <1>6, <1>8 DEF WInv, Whole, BeginsReplies, NextByte, EndsWith
<1> QED  BY <1>5, <1>6, <1>7, <1>9, <1>10 DEF WInv

\* An answer is queued behind the others.
LEMMA AnswerStep == ASSUME WInv, Answer PROVE WInv'
<1>1. /\ at = "loop" /\ ~writing
      /\ reply_msgs' = Append(reply_msgs, Len(replies')) /\ events' = events \union {"WRITE"}
      /\ UNCHANGED <<vars, cur_pos, writing, sndbuf, received, torn>>
    BY DEF Answer, idle, start_io_event, socketVars
<1>2. PICK size \in 1 .. MaxSize : replies' = Append(replies, size)
    BY DEF Answer
<1>3. size \in Nat \ {0}  BY WriterAssumption
<1>4. replies \in Seq(Nat \ {0}) /\ reply_msgs \in Seq(Nat)  BY DEF WInv, WriterTypes
<1>5. /\ replies' \in Seq(Nat \ {0}) /\ Len(replies') = Len(replies) + 1
      /\ \A m \in 1 .. Len(replies) : replies'[m] = replies[m]
    BY <1>2, <1>3, <1>4, AppendProperties
<1>6. Len(replies) \in Nat /\ Len(reply_msgs) \in Nat /\ Len(replies') \in Nat
    BY <1>4, <1>5, LenProperties
<1>7. /\ reply_msgs' \in Seq(Nat) /\ Len(reply_msgs') = Len(reply_msgs) + 1
      /\ \A i \in 1 .. Len(reply_msgs) : reply_msgs'[i] = reply_msgs[i]
      /\ reply_msgs'[Len(reply_msgs) + 1] = Len(replies) + 1 /\ reply_msgs' # <<>>
    BY <1>1, <1>4, <1>5, <1>6, AppendProperties
<1>8. gone' = gone /\ stream' = stream /\ open' = open
    <2>1. gone' = gone  BY <1>5, <1>6, <1>7 DEF gone
    <2> QED  BY <1>1, <2>1 DEF stream, open, vars
<1>9. Inv'  BY <1>1, NextInv DEF WInv
<1>10. WriterTypes'  BY <1>1, <1>5, <1>7 DEF WInv, WriterTypes
<1>11. Mask'
    <2>1. events' = {"READ", "WRITE"}  BY <1>1 DEF WInv, Mask, open
    <2> QED  BY <1>1, <1>7, <2>1 DEF Mask, vars
<1>12. open /\ Queue  BY <1>1 DEF WInv, open
<1>13. Queue'
    <2>1. Len(reply_msgs') <= Len(replies')
        BY <1>5, <1>6, <1>7, <1>12 DEF Queue
    <2>2. ASSUME NEW i \in 1 .. Len(reply_msgs') PROVE reply_msgs'[i] = gone + i
        <3>1. CASE i \in 1 .. Len(reply_msgs)
            BY <1>7, <1>12, <3>1 DEF Queue
        <3>2. CASE i = Len(reply_msgs) + 1
            BY <1>6, <1>7, <3>2 DEF gone
        <3> QED  BY <1>6, <1>7, <3>1, <3>2
    <2> QED  BY <1>8, <2>1, <2>2 DEF Queue
<1>14. ASSUME ~torn PROVE Whole'
    <2>1. Whole /\ EndsWith(stream, gone)  BY <1>12, <1>14 DEF WInv, Whole
    <2>2. gone \in 0 .. Len(replies)  BY <1>6, <1>12 DEF Queue, gone
    <2>3. DOMAIN replies = 1 .. Len(replies) /\ DOMAIN replies' = 1 .. Len(replies')
        BY <1>4, <1>5
    <2>4. DOMAIN replies \subseteq DOMAIN replies'  BY <1>5, <1>6, <2>3
    <2>5. \A m \in DOMAIN replies : replies'[m] = replies[m]  BY <1>5, <2>3
    <2>6. BeginsReplies(stream)'
        <3>1. stream \in Seq(Byte)
            BY ConcatProperties DEF WInv, WriterTypes, stream
        <3>2. DOMAIN stream = 1 .. Len(stream) /\ Len(stream) \in Nat
            BY <3>1
        <3>3. \A i \in 1 .. Len(stream) - 1 : i \in DOMAIN stream  BY <3>2
        <3>4. BeginsReplies(stream)  BY <2>1 DEF Whole
        <3>5. \A i \in DOMAIN stream : replies'[stream[i][1]] = replies[stream[i][1]]
            BY <2>5, <3>4 DEF BeginsReplies
        <3>6. \A i \in 1 .. Len(stream) - 1 : stream[i + 1] = NextByte(stream[i])'
            BY <1>8, <3>3, <3>4, <3>5 DEF BeginsReplies, NextByte
        <3>7. \A i \in DOMAIN stream : stream[i][1] \in DOMAIN replies'
            BY <2>4, <3>4 DEF BeginsReplies
        <3>8. stream # <<>> => stream[1] = <<1, 1>>  BY <3>4 DEF BeginsReplies
        <3>9. /\ stream' # <<>> => stream'[1] = <<1, 1>>
              /\ \A i \in 1 .. Len(stream') - 1 : stream'[i + 1] = NextByte(stream[i])'
              /\ \A i \in DOMAIN stream' : stream'[i][1] \in DOMAIN replies'
            BY <1>8, <3>6, <3>7, <3>8
        <3> QED  BY <3>9 DEF BeginsReplies
    <2>7. EndsWith(stream, gone)'
        <3>1. gone # 0 => gone \in DOMAIN replies  BY <1>6, <2>2, <2>3
        <3> QED  BY <1>8, <2>1, <2>5, <3>1 DEF EndsWith
    <2>8. \A m \in 1 .. gone : m \in DOMAIN replies  BY <1>6, <2>2, <2>3
    <2>9. \A m \in 1 .. gone : <<m, replies'[m]>> \in Range(stream)
        BY <1>12, <2>1, <2>5, <2>8 DEF Whole
    <2> QED  BY <1>1, <1>8, <2>1, <2>6, <2>7, <2>9 DEF Whole
<1> QED  BY <1>1, <1>8, <1>9, <1>10, <1>11, <1>13, <1>14 DEF WInv

\* write() takes some bytes of the first answer in the queue.
LEMMA WriteSomeStep == ASSUME WInv, WriteSome PROVE WInv'
<1>1. /\ writing /\ reply_msgs # <<>>
      /\ UNCHANGED <<vars, replies, writing, events, received>>
    BY DEF WriteSome
<1> DEFINE msg == Head(reply_msgs)
<1>2. PICK n \in 1 .. room : /\ n <= replies[msg] /\ sndbuf' = sndbuf \o Bytes(msg, n)
                             /\ Account(n) /\ torn' = (torn \/ n < replies[msg])
    BY DEF WriteSome
<1>3. at = "loop" /\ events = {"READ", "WRITE"} /\ open /\ Queue
    BY <1>1 DEF WInv, Mask, open
<1>4. replies \in Seq(Nat \ {0}) /\ reply_msgs \in Seq(Nat)
    BY DEF WInv, WriterTypes
<1>5. sndbuf \in Seq(Byte) /\ received \in Seq(Byte) /\ cur_pos \in Nat
    BY DEF WInv, WriterTypes
<1>6. Len(replies) \in Nat /\ Len(reply_msgs) \in Nat /\ Len(reply_msgs) >= 1
    BY <1>1, <1>4
<1>7. /\ msg = gone + 1 /\ gone \in Nat /\ gone < Len(replies)
      /\ gone + 1 \in 1 .. Len(replies)
    <2>1. msg = reply_msgs[1]  BY <1>1, <1>4
    <2>2. 1 \in 1 .. Len(reply_msgs) /\ Len(reply_msgs) <= Len(replies)
        BY <1>3, <1>6 DEF Queue
    <2>3. msg = gone + 1  BY <1>3, <2>1, <2>2 DEF Queue
    <2>4. gone \in Nat /\ gone < Len(replies)  BY <1>6, <2>2 DEF gone
    <2> QED  BY <1>6, <2>3, <2>4
<1>8. replies[msg] \in Nat \ {0}
    <2>1. replies[gone + 1] \in Nat \ {0}  BY <1>4, <1>7
    <2> QED  BY <1>7, <2>1
<1>9. n \in Nat /\ n >= 1
    <2>1. room \in Int  BY <1>5, WriterAssumption DEF room
    <2> QED  BY <2>1
<1>10. Bytes(msg, n) \in Seq(Byte)
    <2>1. \A i \in 1 .. n : <<gone + 1, i>> \in Byte  BY <1>7, <1>9 DEF Byte
    <2>2. Bytes(msg, n) = [i \in 1 .. n |-> <<gone + 1, i>>]  BY <1>7 DEF Bytes
    <2> QED  BY <1>9, <2>1, <2>2
<1> HIDE DEF msg
<1>11. sndbuf' \in Seq(Byte) /\ stream' = stream \o Bytes(msg, n) /\ stream \in Seq(Byte)
    <2>1. received \o (sndbuf \o Bytes(msg, n)) = (received \o sndbuf) \o Bytes(msg, n)
        BY <1>5, <1>10, Behind
    <2>2. sndbuf \o Bytes(msg, n) \in Seq(Byte) /\ received \o sndbuf \in Seq(Byte)
        BY <1>5, <1>10, ConcatProperties
    <2>3. stream' = received \o (sndbuf \o Bytes(msg, n))
        BY <1>1, <1>2 DEF stream
    <2> QED  BY <1>2, <2>1, <2>2, <2>3 DEF stream
<1>12. \/ n + cur_pos >= replies[msg] /\ cur_pos' = 0 /\ reply_msgs' = Tail(reply_msgs)
       \/ ~(n + cur_pos >= replies[msg]) /\ cur_pos' = cur_pos + n /\ reply_msgs' = reply_msgs
    BY <1>2 DEF Account, msg
<1>13. /\ Tail(reply_msgs) \in Seq(Nat) /\ Len(Tail(reply_msgs)) = Len(reply_msgs) - 1
       /\ \A i \in 1 .. Len(reply_msgs) - 1 : Tail(reply_msgs)[i] = reply_msgs[i + 1]
    BY <1>1, <1>4, HeadTailProperties
<1>14. torn' \in BOOLEAN  BY <1>2, Zenon
<1>15. WriterTypes'
    <2>1. cur_pos + n \in Nat /\ 0 \in Nat  BY <1>5, <1>9
    <2>2. cur_pos' \in Nat /\ reply_msgs' \in Seq(Nat)
        BY <1>4, <1>12, <1>13, <2>1, Zenon
    <2> QED  BY <1>1, <1>11, <1>14, <2>2 DEF WInv, WriterTypes
<1>16. Inv'  BY <1>1, NextInv DEF WInv
<1>17. Mask' /\ open'  BY <1>1, <1>3 DEF Mask, open, vars
<1>18. CASE reply_msgs' = reply_msgs /\ ~(n + cur_pos >= replies[msg])
    <2>1. gone' = gone /\ Queue'  BY <1>1, <1>3, <1>18 DEF gone, Queue
    <2>2. n < replies[msg]  BY <1>5, <1>8, <1>9, <1>18
    <2>3. torn'  BY <1>2, <2>2, Zenon
    <2> QED  BY <1>15, <1>16, <1>17, <2>1, <2>3 DEF WInv
<1>19. CASE reply_msgs' = Tail(reply_msgs) /\ cur_pos' = 0
    <2>1. gone' = gone + 1 /\ Len(reply_msgs') = Len(reply_msgs) - 1
        BY <1>1, <1>6, <1>13, <1>19 DEF gone
    <2>2. Queue'
        <3>1. Len(reply_msgs') <= Len(replies')
            BY <1>1, <1>3, <1>6, <2>1 DEF Queue
        <3>2. ASSUME NEW i \in 1 .. Len(reply_msgs') PROVE reply_msgs'[i] = gone' + i
            <4>1. i \in 1 .. Len(reply_msgs) - 1 /\ i + 1 \in 1 .. Len(reply_msgs)
                BY <1>6, <2>1
            <4>2. reply_msgs'[i] = reply_msgs[i + 1]  BY <1>13, <1>19, <4>1
            <4>3. reply_msgs[i + 1] = gone + (i + 1)  BY <1>3, <4>1 DEF Queue
            <4>4. gone + (i + 1) = gone' + i  BY <1>7, <2>1
            <4> QED  BY <4>2, <4>3, <4>4
        <3> QED  BY <3>1, <3>2 DEF Queue
    <2>3. ASSUME ~torn' PROVE Whole'
        <3>1. ~torn /\ ~(n < replies[msg])  BY <1>2, <2>3, Zenon
        <3>2. n = replies[msg]  BY <1>2, <1>8, <1>9, <3>1
        <3>3. /\ BeginsReplies(stream) /\ EndsWith(stream, gone)
              /\ \A m \in 1 .. gone : <<m, replies[m]>> \in Range(stream)
            BY <1>3, <3>1 DEF WInv, Whole
        <3>4. stream' = stream \o Bytes(gone + 1, replies[gone + 1])
            BY <1>7, <1>11, <3>2
        <3>5. /\ BeginsReplies(stream') /\ EndsWith(stream', gone + 1)
              /\ Range(stream) \subseteq Range(stream')
              /\ <<gone + 1, replies[gone + 1]>> \in Range(stream')
            BY <1>4, <1>7, <1>11, <3>3, <3>4, WholeAnswer
        <3>6. BeginsReplies(stream)'
            BY <1>1, <3>5 DEF BeginsReplies, NextByte
        <3>7. EndsWith(stream, gone)'  BY <1>1, <2>1, <3>5 DEF EndsWith
        <3>8. \A m \in 1 .. gone + 1 : m \in 1 .. gone \/ m = gone + 1
            BY <1>7
        <3>9. \A m \in 1 .. gone + 1 : <<m, replies[m]>> \in Range(stream')
            BY <3>3, <3>5, <3>8
        <3> QED  BY <1>1, <1>19, <2>1, <3>6, <3>7, <3>9 DEF Whole
    <2> QED  BY <1>15, <1>16, <1>17, <2>2, <2>3 DEF WInv
<1> QED  BY <1>12, <1>18, <1>19

\* Every step of the connection keeps the invariant.
LEMMA WriterNextInv == WInv /\ [IoNext]_allVars => WInv'
<1> QED
    BY ReadSideStep, QuietStep, CloseStep, EndWriteStep, ClientReadsStep, AnswerStep, WriteSomeStep
    DEF IoNext, WriteSide

\* The invariant holds throughout.
THEOREM WriterInvariance == IoSpec => []WInv
<1> QED  BY WriterInitInv, WriterNextInv, PTL DEF IoSpec

\* For all sizes: between two callbacks the watcher waits for the socket to be
\* writable exactly when an answer is queued, and always for it to be readable.
THEOREM MaskFollowsQueue == IoSpec => []MaskMatchesQueue
<1>1. WInv => MaskMatchesQueue
    BY DEF WInv, Mask, MaskMatchesQueue, idle, open
<1> QED  BY <1>1, WriterInvariance, PTL

\* For all sizes: as long as no write() is partial the client gets the answers
\* whole and in their order, and none that has left the queue is missing.
THEOREM RepliesArriveIntact == IoSpec => []ReplyIntact
<1>1. WInv => ReplyIntact
    <2> SUFFICES ASSUME WInv, ~torn
                 PROVE  /\ BeginsReplies(stream)
                        /\ \A m \in DOMAIN replies :
                              at = "loop" /\ m \notin Range(reply_msgs)
                              => <<m, replies[m]>> \in Range(stream)
        BY DEF ReplyIntact
    <2>1. Whole  BY DEF WInv
    <2>2. ASSUME NEW m \in DOMAIN replies, at = "loop", m \notin Range(reply_msgs)
          PROVE  <<m, replies[m]>> \in Range(stream)
        <3>1. open /\ Queue  BY <2>2 DEF WInv, open
        <3>2. replies \in Seq(Nat \ {0}) /\ reply_msgs \in Seq(Nat)
            BY DEF WInv, WriterTypes
        <3>3. /\ m \in 1 .. Len(replies) /\ Len(replies) \in Nat /\ Len(reply_msgs) \in Nat
              /\ DOMAIN reply_msgs = 1 .. Len(reply_msgs)
            BY <3>2
        <3>4. gone \in Nat  BY <3>1, <3>3 DEF Queue, gone
        <3>5. ~(m > gone)
            <4> SUFFICES ASSUME m > gone PROVE FALSE
                OBVIOUS
            <4>1. m - gone \in 1 .. Len(reply_msgs) /\ gone + (m - gone) = m
                BY <3>3, <3>4 DEF gone
            <4>2. reply_msgs[m - gone] = m  BY <3>1, <4>1 DEF Queue
            <4> QED  BY <2>2, <3>3, <4>1, <4>2 DEF Range
        <3>6. m \in 1 .. gone  BY <3>3, <3>4, <3>5
        <3> QED  BY <2>1, <3>1, <3>6 DEF Whole
    <2> QED  BY <2>1, <2>2 DEF Whole
<1> QED  BY <1>1, WriterInvariance, PTL

\* For all sizes: the reading side is exact also when answers, timeouts and
\* failing writes come in between.
THEOREM RequestsExactWithReplies == IoSpec => [](ParsedExactly /\ ReadsFit)
<1>1. WInv => ParsedExactly /\ ReadsFit
    BY ParsesExactly, FitsRead DEF WInv
<1> QED  BY <1>1, WriterInvariance, PTL

(***************************************************************************)
(* When a write() is partial the bytes of an answer are wrong, but their   *)
(* count is not: the stream can be cut into pieces, one for each answer    *)
(* that has left the queue, in the order of the answers, and no piece is   *)
(* shorter than its answer.  Behind them there are cur_pos bytes of the    *)
(* answer that is being written.  Closing the connection may leave fewer   *)
(* bytes than an answer has only at the very end of the stream.            *)
(***************************************************************************)

\* The pieces of the stream end at e[1], ..., e[k].
Cut(k, e) ==
    /\ e[0] = 0
    /\ \A m \in 1 .. k : /\ e[m] >= e[m - 1] + replies[m]
                         /\ \A i \in e[m - 1] + 1 .. e[m] : stream[i][1] = m
    /\ \A i \in e[k] + 1 .. Len(stream) : stream[i][1] = k + 1
    /\ open => k = gone /\ Len(stream) = e[k] + cur_pos

\* Answers are never interleaved, and _write_conn never drops one from the queue
\* before write() has taken as many bytes as it has.
Counted ==
    \E k \in 0 .. Len(replies) : \E e \in [0 .. k -> 0 .. Len(stream)] : Cut(k, e)

\* cur_pos is 0 whenever _write_conn begins, so that it may be a local variable.
Fresh == open /\ (~writing \/ reply_msgs = <<>>) => cur_pos = 0

\* A step that neither writes nor takes an answer from the queue.
LEMMA CutStays ==
    ASSUME Counted, stream' = stream, Len(replies) \in Nat, Len(replies') \in Nat,
           Len(replies') >= Len(replies),
           \A m \in 1 .. Len(replies) : replies'[m] = replies[m],
           open' => open /\ gone' = gone /\ cur_pos' = cur_pos
    PROVE  Counted'
<1>1. PICK k \in 0 .. Len(replies) : \E e \in [0 .. k -> 0 .. Len(stream)] : Cut(k, e)
    BY DEF Counted
<1>2. PICK e \in [0 .. k -> 0 .. Len(stream)] : Cut(k, e)  BY <1>1
<1>3. k \in 0 .. Len(replies') /\ \A m \in 1 .. k : m \in 1 .. Len(replies)
    OBVIOUS
<1>4. \A m \in 1 .. k : replies'[m] = replies[m]  BY <1>3
<1>5. /\ e[0] = 0
      /\ \A m \in 1 .. k : /\ e[m] >= e[m - 1] + replies[m]
                           /\ \A i \in e[m - 1] + 1 .. e[m] : stream[i][1] = m
      /\ \A i \in e[k] + 1 .. Len(stream) : stream[i][1] = k + 1
      /\ open => k = gone /\ Len(stream) = e[k] + cur_pos
    BY <1>2 DEF Cut
<1>6. \A m \in 1 .. k : e[m] >= e[m - 1] + replies'[m]  BY <1>4, <1>5
<1>7. open' => k = gone' /\ Len(stream') = e[k] + cur_pos'  BY <1>5
<1>8. Cut(k, e)'  BY <1>5, <1>6, <1>7 DEF Cut
<1>9. e \in [0 .. k -> 0 .. Len(stream')]  OBVIOUS
<1> QED  BY <1>3, <1>8, <1>9 DEF Counted

\* n bytes of the answer at the head of the queue behind the pieces.
LEMMA CutGrows ==
    ASSUME Counted, stream \in Seq(Byte), replies \in Seq(Nat \ {0}), cur_pos \in Nat,
           gone \in Nat, gone < Len(replies), open, replies' = replies,
           NEW n \in Nat \ {0}, stream' = stream \o Bytes(gone + 1, n),
           \/ /\ n + cur_pos >= replies[gone + 1] /\ cur_pos' = 0 /\ gone' = gone + 1
           \/ cur_pos' = cur_pos + n /\ gone' = gone
    PROVE  Counted'
<1> DEFINE b == Bytes(gone + 1, n)
<1>1. b \in Seq(Byte) /\ Len(b) = n /\ \A i \in 1 .. n : b[i] = <<gone + 1, i>>
    <2>1. b = [i \in 1 .. n |-> <<gone + 1, i>>]  BY DEF Bytes
    <2>2. \A i \in 1 .. n : <<gone + 1, i>> \in Byte  BY DEF Byte
    <2> HIDE DEF b
    <2> QED  BY <2>1, <2>2
<1>2. /\ Len(stream') = Len(stream) + n
      /\ \A i \in 1 .. Len(stream) : stream'[i] = stream[i]
      /\ \A i \in Len(stream) + 1 .. Len(stream) + n : stream'[i] = b[i - Len(stream)]
    <2> HIDE DEF b
    <2>0. stream' = stream \o b  BY DEF b
    <2>1. /\ Len(stream \o b) = Len(stream) + Len(b)
          /\ \A i \in 1 .. Len(stream) + Len(b) :
                (stream \o b)[i] = IF i <= Len(stream) THEN stream[i] ELSE b[i - Len(stream)]
        BY <1>1, ConcatProperties
    <2>2. Len(stream) \in Nat /\ n \in Nat /\ Len(b) = n  BY <1>1
    <2>3. \A i \in 1 .. Len(stream) : i \in 1 .. Len(stream) + n /\ i <= Len(stream)
        BY <2>2
    <2>4. \A i \in Len(stream) + 1 .. Len(stream) + n :
             i \in 1 .. Len(stream) + n /\ ~(i <= Len(stream))
        BY <2>2
    <2> QED  BY <2>0, <2>1, <2>2, <2>3, <2>4, Zenon
<1>3. Len(stream) \in Nat /\ Len(replies) \in Nat  BY LenProperties
<1>4. \A i \in Len(stream) + 1 .. Len(stream) + n : stream'[i][1] = gone + 1
    <2> SUFFICES ASSUME NEW i \in Len(stream) + 1 .. Len(stream) + n
                 PROVE  stream'[i][1] = gone + 1
        OBVIOUS
    <2>1. i - Len(stream) \in 1 .. n  BY <1>3
    <2>2. stream'[i] = b[i - Len(stream)]  BY <1>2
    <2>3. b[i - Len(stream)] = <<gone + 1, i - Len(stream)>>  BY <1>1, <2>1
    <2> HIDE DEF b
    <2>4. PICK z : z = stream'[i]  OBVIOUS
    <2>5. z = <<gone + 1, i - Len(stream)>>  BY <2>2, <2>3, <2>4
    <2>6. z[1] = gone + 1  BY <2>5
    <2> QED  BY <2>4, <2>6
<1> HIDE DEF b
<1>5. PICK k \in 0 .. Len(replies) : \E e \in [0 .. k -> 0 .. Len(stream)] : Cut(k, e)
    BY DEF Counted
<1>6. PICK e \in [0 .. k -> 0 .. Len(stream)] : Cut(k, e)  BY <1>5
<1>7. /\ e[0] = 0 /\ k = gone /\ Len(stream) = e[k] + cur_pos
      /\ \A m \in 1 .. k : e[m] >= e[m - 1] + replies[m]
      /\ \A m \in 1 .. k : \A i \in e[m - 1] + 1 .. e[m] : stream[i][1] = m
      /\ \A i \in e[k] + 1 .. Len(stream) : stream[i][1] = k + 1
    BY <1>6 DEF Cut
<1>8. /\ \A m \in 0 .. k : e[m] \in Nat /\ e[m] <= Len(stream) /\ e[m] \in 0 .. Len(stream')
      /\ k \in Nat
    BY <1>2, <1>3
\* The bytes of a piece are where they were.
<1>9. \A m \in 1 .. k : \A i \in e[m - 1] + 1 .. e[m] : stream'[i][1] = m
    <2> SUFFICES ASSUME NEW m \in 1 .. k, NEW i \in e[m - 1] + 1 .. e[m]
                 PROVE  stream'[i][1] = m
        OBVIOUS
    <2>1. m - 1 \in 0 .. k /\ m \in 0 .. k  BY <1>8
    <2>2. e[m - 1] \in Nat /\ e[m] \in Nat /\ e[m] <= Len(stream)  BY <1>8, <2>1
    <2>3. i \in 1 .. Len(stream)
        <3>1. \A x, y, l \in Nat : y <= l => x + 1 .. y \subseteq 1 .. l  OBVIOUS
        <3> QED  BY <1>3, <2>2, <3>1, Zenon
    <2> QED  BY <1>2, <1>7, <2>3
\* The bytes behind the pieces are of the answer that is being written.
<1>10. \A i \in e[k] + 1 .. Len(stream') : stream'[i][1] = k + 1
    <2> SUFFICES ASSUME NEW i \in e[k] + 1 .. Len(stream') PROVE stream'[i][1] = k + 1
        OBVIOUS
    <2>0. e[k] \in Nat /\ e[k] <= Len(stream)  BY <1>8
    <2>1. CASE i <= Len(stream)
        <3>1. i \in e[k] + 1 .. Len(stream) /\ i \in 1 .. Len(stream)
            BY <1>3, <2>0, <2>1
        <3> QED  BY <1>2, <1>7, <3>1
    <2>2. CASE ~(i <= Len(stream))
        <3>1. i \in Len(stream) + 1 .. Len(stream) + n  BY <1>2, <1>3, <2>0, <2>2
        <3> QED  BY <1>4, <1>7, <3>1
    <2> QED  BY <2>1, <2>2
<1>11. CASE cur_pos' = cur_pos + n /\ gone' = gone
    <2>1. e \in [0 .. k -> 0 .. Len(stream')]  BY <1>8
    <2>2. Len(stream') = e[k] + cur_pos'
        <3>1. e[k] \in Nat  BY <1>8
        <3> QED  BY <1>2, <1>7, <1>11, <3>1
    <2>3. Cut(k, e)'  BY <1>7, <1>9, <1>10, <1>11, <2>2 DEF Cut
    <2> QED  BY <2>1, <2>3 DEF Counted
<1>12. CASE n + cur_pos >= replies[gone + 1] /\ cur_pos' = 0 /\ gone' = gone + 1
    <2>1. PICK f \in [0 .. k + 1 -> 0 .. Len(stream')] :
             f[k + 1] = Len(stream') /\ f[0] = 0 /\ \A m \in 0 .. k : f[m] = e[m]
        <3> DEFINE g == [m \in 0 .. k + 1 |-> IF m = k + 1 THEN Len(stream') ELSE e[m]]
        <3>1. /\ g[k + 1] = Len(stream') /\ g[0] = 0
              /\ \A m \in 0 .. k : g[m] = e[m]
            BY <1>7, <1>8
        <3>2. g \in [0 .. k + 1 -> 0 .. Len(stream')]
            <4>1. Len(stream') \in 0 .. Len(stream')  BY <1>2, <1>3
            <4>2. \A m \in 0 .. k + 1 : m = k + 1 \/ m \in 0 .. k  BY <1>8
            <4> QED  BY <1>8, <4>1, <4>2
        <3> QED  BY <3>1, <3>2
    <2>3. k + 1 \in 0 .. Len(replies') /\ k + 1 \in Nat  BY <1>3, <1>7
    <2>4. e[k] \in Nat /\ replies[k + 1] \in Nat  BY <1>7, <1>8
    <2>5. f[k + 1] >= f[(k + 1) - 1] + replies'[k + 1]
        <3>1. (k + 1) - 1 = k /\ f[k] = e[k]  BY <1>8, <2>1
        <3>2. Len(stream') >= e[k] + replies[k + 1]
            <4>1. /\ Len(stream') = Len(stream) + n /\ Len(stream) = e[k] + cur_pos
                  /\ n + cur_pos >= replies[k + 1]
                BY <1>2, <1>7, <1>12
            <4>2. \A l, x, c, q, r \in Nat : l = x + c /\ q + c >= r => l + q >= x + r
                OBVIOUS
            <4>3. cur_pos \in Nat /\ n \in Nat  OBVIOUS
            <4>4. Len(stream) + n >= e[k] + replies[k + 1]
                BY <1>3, <2>4, <4>1, <4>2, <4>3, Zenon
            <4> QED  BY <4>1, <4>4, Zenon
        <3> QED  BY <2>1, <3>1, <3>2
    <2>6. \A i \in f[(k + 1) - 1] + 1 .. f[k + 1] : stream'[i][1] = k + 1
        <3>1. (k + 1) - 1 = k /\ f[k] = e[k]  BY <1>8, <2>1
        <3> QED  BY <1>10, <2>1, <3>1
    <2>7. \A m \in 1 .. k : /\ f[m] >= f[m - 1] + replies'[m]
                            /\ \A i \in f[m - 1] + 1 .. f[m] : stream'[i][1] = m
        <3> SUFFICES ASSUME NEW m \in 1 .. k
                     PROVE  /\ f[m] >= f[m - 1] + replies'[m]
                            /\ \A i \in f[m - 1] + 1 .. f[m] : stream'[i][1] = m
            OBVIOUS
        <3>1. m - 1 \in 0 .. k /\ m \in 0 .. k  BY <1>8
        <3>2. f[m] = e[m] /\ f[m - 1] = e[m - 1]  BY <2>1, <3>1
        <3> QED  BY <1>7, <1>9, <3>2
    <2>8. \A m \in 1 .. k + 1 : m \in 1 .. k \/ m = k + 1  BY <1>8
    <2>9. \A m \in 1 .. k + 1 : /\ f[m] >= f[m - 1] + replies'[m]
                                /\ \A i \in f[m - 1] + 1 .. f[m] : stream'[i][1] = m
        BY <2>5, <2>6, <2>7, <2>8
    <2>10. \A i \in f[k + 1] + 1 .. Len(stream') : stream'[i][1] = (k + 1) + 1
        BY <1>2, <1>3, <2>1
    <2>11. k + 1 = gone'  BY <1>7, <1>12
    <2>12. Len(stream') = f[k + 1] + cur_pos'
        <3>1. Len(stream') \in Nat  BY <1>2, <1>3
        <3> QED  BY <1>12, <2>1, <3>1
    <2>13. Cut(k + 1, f)'  BY <2>1, <2>9, <2>10, <2>11, <2>12 DEF Cut
    <2> QED  BY <2>1, <2>3, <2>13 DEF Counted
<1> QED  BY <1>11, <1>12

\* Every step of the connection keeps the count.
LEMMA CountedStep ==
    ASSUME WInv, Counted, Fresh, [IoNext]_allVars PROVE Counted' /\ Fresh'
<1>0. /\ replies \in Seq(Nat \ {0}) /\ reply_msgs \in Seq(Nat) /\ cur_pos \in Nat
      /\ sndbuf \in Seq(Byte) /\ received \in Seq(Byte)
    BY DEF WInv, WriterTypes
<1>1. Len(replies) \in Nat /\ Len(reply_msgs) \in Nat  BY <1>0, LenProperties
\* A step that leaves the answers, the queue, the bytes and the count alone, or
\* closes the connection.
<1>2. ASSUME replies' = replies, sndbuf' = sndbuf, received' = received,
             open' => /\ open /\ reply_msgs' = reply_msgs /\ cur_pos' = cur_pos
                      /\ (~writing' => ~writing \/ reply_msgs = <<>>)
      PROVE  Counted' /\ Fresh'
    <2>1. stream' = stream  BY <1>2 DEF stream
    <2>2. open' => open /\ gone' = gone /\ cur_pos' = cur_pos  BY <1>2 DEF gone
    <2>3. Counted'  BY <1>1, <1>2, <2>1, <2>2, CutStays
    <2>4. Fresh'  BY <1>2 DEF Fresh
    <2> QED  BY <2>3, <2>4
<1>3. CASE ReadSide
    <2>1. /\ ~writing /\ UNCHANGED <<replies, cur_pos, writing, sndbuf, received>>
          /\ reply_msgs' = IF at' \in {"closed", "dead"} THEN <<>> ELSE reply_msgs
        BY <1>3 DEF ReadSide, socketVars
    <2>2. at \in {"loop", "parse"}
        BY <1>3 DEF ReadSide, Worker, Read, ReadEof, ReadOverlong, ParseHead, BadMagic, Request,
               RequestFails, EndParse
    <2>3. open /\ (open' => reply_msgs' = reply_msgs)  BY <2>1, <2>2 DEF open
    <2> QED  BY <1>2, <2>1, <2>3
<1>4. CASE Arrivals \/ Stall \/ UNCHANGED allVars
    <2>1. UNCHANGED <<at, replies, reply_msgs, cur_pos, writing, sndbuf, received>>
        BY <1>4 DEF Arrivals, Arrive, HangUp, Stall, allVars, vars, writerVars, queueVars,
                    socketVars
    <2>2. open' = open  BY <2>1 DEF open
    <2> QED  BY <1>2, <2>1, <2>2
<1>5. CASE BeginWrite
    <2>1. /\ at = "loop" /\ ~writing /\ writing' = TRUE /\ cur_pos' = 0
          /\ UNCHANGED <<at, replies, reply_msgs, sndbuf, received>>
        BY <1>5 DEF BeginWrite, idle, socketVars, vars
    <2>2. open /\ cur_pos = 0  BY <2>1 DEF open, Fresh
    <2> QED  BY <1>2, <2>1, <2>2
<1>6. CASE Timeout \/ WriteFails
    <2>1. at' \in {"closed", "dead"} /\ UNCHANGED <<replies, sndbuf, received>>
        BY <1>6 DEF Timeout, WriteFails, socketVars
    <2>2. ~open'  BY <2>1 DEF open
    <2> QED  BY <1>2, <2>1, <2>2
<1>7. CASE EndWrite
    <2>1. /\ reply_msgs = <<>>
          /\ UNCHANGED <<at, replies, reply_msgs, cur_pos, sndbuf, received>>
        BY <1>7 DEF EndWrite, queueVars, socketVars, vars
    <2>2. open' = open  BY <2>1 DEF open
    <2> QED  BY <1>2, <2>1, <2>2
<1>8. CASE ClientReads
    <2>1. /\ received' = received \o sndbuf /\ sndbuf' = <<>>
          /\ UNCHANGED <<at, replies, reply_msgs, cur_pos, writing>>
        BY <1>8 DEF ClientReads, queueVars, vars
    <2>2. received' \in Seq(Byte)  BY <1>0, <2>1, ConcatProperties
    <2>3. stream' = stream  BY <1>0, <2>1, <2>2, ConcatEmptySeq DEF stream
    <2>4. open' = open /\ gone' = gone  BY <2>1 DEF open, gone
    <2>5. Counted'  BY <1>1, <2>1, <2>3, <2>4, CutStays
    <2>6. Fresh'  BY <2>1, <2>4 DEF Fresh
    <2> QED  BY <2>5, <2>6
<1>9. CASE Answer
    <2>1. /\ at = "loop" /\ ~writing
          /\ reply_msgs' = Append(reply_msgs, Len(replies'))
          /\ UNCHANGED <<at, cur_pos, writing, sndbuf, received>>
        BY <1>9 DEF Answer, idle, socketVars, vars
    <2>2. PICK size \in 1 .. MaxSize : replies' = Append(replies, size)
        BY <1>9 DEF Answer
    <2>3. size \in Nat \ {0}  BY WriterAssumption
    <2>4. /\ Len(replies') = Len(replies) + 1
          /\ \A m \in 1 .. Len(replies) : replies'[m] = replies[m]
        BY <1>0, <2>2, <2>3, AppendProperties
    <2>5. Len(replies') \in Nat  BY <1>1, <2>4
    <2>6. Len(reply_msgs') = Len(reply_msgs) + 1
        BY <1>0, <2>1, <2>5, AppendProperties
    <2>7. gone' = gone  BY <1>1, <2>4, <2>6 DEF gone
    <2>8. stream' = stream /\ open' = open  BY <2>1 DEF stream, open
    <2>9. Len(replies') >= Len(replies)  BY <1>1, <2>4
    <2>10. Counted'  BY <1>1, <2>1, <2>4, <2>5, <2>7, <2>8, <2>9, CutStays
    <2>11. cur_pos = 0  BY <2>1 DEF Fresh, open
    <2>12. Fresh'  BY <2>1, <2>11 DEF Fresh
    <2> QED  BY <2>10, <2>12
<1>10. CASE WriteSome
    <2>1. /\ writing /\ reply_msgs # <<>> /\ UNCHANGED <<at, replies, writing, received>>
        BY <1>10 DEF WriteSome, vars
    <2>2. PICK n \in 1 .. room :
             /\ sndbuf' = sndbuf \o Bytes(Head(reply_msgs), n)
             /\ \/ /\ n + cur_pos >= replies[Head(reply_msgs)]
                   /\ cur_pos' = 0 /\ reply_msgs' = Tail(reply_msgs)
                \/ cur_pos' = cur_pos + n /\ reply_msgs' = reply_msgs
        BY <1>10 DEF WriteSome, Account
    <2>3. open /\ Queue  BY <2>1 DEF WInv, Mask, open
    <2>4. Len(reply_msgs) >= 1  BY <1>0, <2>1
    <2>5. Head(reply_msgs) = gone + 1 /\ gone \in Nat /\ gone < Len(replies)
        <3>1. Head(reply_msgs) = reply_msgs[1]  BY <1>0, <2>1
        <3>2. 1 \in 1 .. Len(reply_msgs) /\ Len(reply_msgs) <= Len(replies)
            BY <1>1, <2>3, <2>4 DEF Queue
        <3>3. Head(reply_msgs) = gone + 1  BY <2>3, <3>1, <3>2 DEF Queue
        <3>4. gone \in Nat /\ gone < Len(replies)  BY <1>1, <2>4, <3>2 DEF gone
        <3> QED  BY <3>3, <3>4
    <2>6. n \in Nat \ {0}
        <3>1. room \in Int  BY <1>0, WriterAssumption DEF room
        <3> QED  BY <3>1
    <2>7. Bytes(gone + 1, n) \in Seq(Byte)
        <3>1. \A i \in 1 .. n : <<gone + 1, i>> \in Byte  BY <2>5, <2>6 DEF Byte
        <3>2. Bytes(gone + 1, n) = [i \in 1 .. n |-> <<gone + 1, i>>]  BY DEF Bytes
        <3> QED  BY <2>6, <3>1, <3>2
    <2>8. stream \in Seq(Byte) /\ stream' = stream \o Bytes(gone + 1, n)
        <3>1. received \o (sndbuf \o Bytes(gone + 1, n)) = (received \o sndbuf) \o Bytes(gone + 1, n)
            BY <1>0, <2>7, Behind
        <3>2. received \o sndbuf \in Seq(Byte)  BY <1>0, ConcatProperties
        <3>3. stream' = received \o (sndbuf \o Bytes(gone + 1, n))
            BY <2>1, <2>2, <2>5 DEF stream
        <3> QED  BY <3>1, <3>2, <3>3 DEF stream
    <2>9. \/ /\ n + cur_pos >= replies[gone + 1] /\ cur_pos' = 0 /\ gone' = gone + 1
          \/ cur_pos' = cur_pos + n /\ gone' = gone
        <3>1. reply_msgs' = reply_msgs => gone' = gone  BY <2>1 DEF gone
        <3>2. Len(Tail(reply_msgs)) = Len(reply_msgs) - 1
            BY <1>0, <2>1, HeadTailProperties
        <3>3. reply_msgs' = Tail(reply_msgs) => gone' = gone + 1
            BY <1>1, <2>1, <3>2 DEF gone
        <3> QED  BY <2>2, <2>5, <3>1, <3>3
    <2>10. Counted'  BY <1>0, <2>1, <2>3, <2>5, <2>6, <2>8, <2>9, CutGrows
    <2>11. Fresh'  BY <2>1, <2>2 DEF Fresh
    <2> QED  BY <2>10, <2>11
<1> QED
    BY <1>3, <1>4, <1>5, <1>6, <1>7, <1>8, <1>9, <1>10 DEF IoNext, WriteSide

\* For all sizes, also when write() takes parts: what the client can read is
\* bytes of the answers in their order, never interleaved; each answer that has
\* left the queue has as many bytes in it as it should have; and _write_conn
\* never begins with a count left over.
THEOREM AnswersCounted == IoSpec => [](Counted /\ Fresh)
<1>1. IoInit => Counted /\ Fresh
    <2> SUFFICES ASSUME IoInit PROVE Counted /\ Fresh
        OBVIOUS
    <2>1. /\ replies = <<>> /\ reply_msgs = <<>> /\ cur_pos = 0
          /\ sndbuf = <<>> /\ received = <<>>
        BY DEF IoInit, WriterInit
    <2>2. stream = <<>> /\ gone = 0 /\ Len(stream) = 0 /\ Len(replies) = 0
        BY <2>1 DEF stream, gone
    <2> DEFINE e == [m \in 0 .. 0 |-> 0]
    <2>3. e \in [0 .. 0 -> 0 .. Len(stream)] /\ e[0] = 0  BY <2>2
    <2> HIDE DEF e
    <2>4. Cut(0, e)  BY <2>1, <2>2, <2>3 DEF Cut
    <2>5. 0 \in 0 .. Len(replies)  BY <2>2
    <2>6. Counted  BY <2>3, <2>4, <2>5 DEF Counted
    <2> QED  BY <2>1, <2>6 DEF Fresh
<1>2. WInv /\ Counted /\ Fresh /\ [IoNext]_allVars => Counted' /\ Fresh'
    BY CountedStep
<1> QED  BY <1>1, <1>2, WriterInvariance, PTL DEF IoSpec
=============================================================================
