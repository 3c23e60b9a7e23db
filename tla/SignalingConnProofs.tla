------------------------ MODULE SignalingConnProofs ------------------------
(***************************************************************************)
(* Proofs about SignalingConn, for any number of clients, workers,         *)
(* descriptors and addresses.  The inductive invariant IInv has four parts *)
(* of decreasing strength of what they ask of the run:                     *)
(*                                                                         *)
(*  - Core holds always: types; entries of _conns lead to live objects; a  *)
(*    worker closes only a live object of its own; a request on its way    *)
(*    has a message.                                                       *)
(*  - NoFdLeak holds always, and is inductive with Core.                   *)
(*  - Sound: until a close() hits a stranger's descriptor, live objects    *)
(*    are in the table and own their descriptors, and a client has one     *)
(*    descriptor and one object at most.  The second close() of a          *)
(*    connection is what can end this: it is harmless only while           *)
(*    accept() has not been given the same descriptor in between.          *)
(*  - Answers: until, moreover, an address is reused under a message, the  *)
(*    object that a message names is the one its request came from.        *)
(*                                                                         *)
(* For connections and descriptors there are six kinds of steps            *)
(* (StepKinds); each part of Sound is shown for each kind.                 *)
(***************************************************************************)
EXTENDS SignalingConn, SequenceTheorems, WellFoundedInduction, TLAPS

\* An object whose idle timer runs.
Live(a) == objs[a] # None /\ objs[a].timer

\* An entry of _conns points to a live object of that worker and descriptor.
Linked ==
    \A w \in Workers, fd \in Fds : conns[w][fd] # None =>
        /\ Live(conns[w][fd])
        /\ objs[conns[w][fd]].worker = w /\ objs[conns[w][fd]].fd = fd

\* A worker closes one of its own live objects.
Closing ==
    \A w \in Workers : closing[w] # None =>
        Live(closing[w]) /\ objs[closing[w]].worker = w

\* A request on its way has a message that names object and descriptor.
InFlight(c) == status[c] \in {"pending", "answered"}

Asked == \A c \in Clients : InFlight(c) => msg[c] \in MsgConn

Core == TypeOK /\ Linked /\ Closing /\ Asked

\* The kernel has a lowest descriptor to give out.
LEMMA LowestFree ==
  ASSUME NEW S, S \subseteq Nat, S # {}
  PROVE  /\ (CHOOSE f \in S : \A g \in S : f <= g) \in S
         /\ \E f \in S : \A g \in S : f <= g
<1> DEFINE R == OpToRel(<, Nat)
<1>1. IsWellFoundedOn(R, Nat)  BY NatLessThanWellFounded, Zenon
<1>2. R = {ss \in Nat \X Nat : ss[1] < ss[2]}  BY Zenon DEF OpToRel
<1> HIDE DEF R
<1>3. PICK f \in S : \A g \in S : ~(<<g, f>> \in R)
    BY <1>1, WFMin, Zenon
<1>4. ASSUME NEW g \in S, g < f PROVE FALSE
    <2>1. g \in Nat /\ f \in Nat  OBVIOUS
    <2>2. <<g, f>> \in R  BY <1>2, <1>4, <2>1
    <2> QED  BY <1>3, <2>2
<1>5. \A g \in S : f <= g  BY <1>4
<1> QED  BY <1>5

\* Nothing is connected at first.
LEMMA CoreInit == Init => Core
<1> SUFFICES ASSUME Init PROVE Core
    OBVIOUS
<1> USE ConstantsAssumption DEF Init, Rtc!Init
<1>1. ConnTypeOK  BY DEF ConnTypeOK
<1>2. ClientTypeOK  BY DEF ClientTypeOK
<1>3. MsgTypeOK  BY DEF MsgTypeOK, Rtc!Statuses
<1>4. /\ listening \in BOOLEAN /\ stray \in BOOLEAN /\ reused \in BOOLEAN
      /\ wedged \subseteq Workers /\ trickling \subseteq Unruly
    BY Zenon
<1>5. Linked /\ Closing /\ Asked  BY DEF Linked, Closing, Asked, InFlight
<1> QED  BY <1>1, <1>2, <1>3, <1>4, <1>5, Zenon DEF Core, TypeOK

\* The object of a table entry, as a record.
LEMMA Entry ==
  ASSUME Core, NEW w \in Workers, NEW fd \in Fds, conns[w][fd] # None
  PROVE  conns[w][fd] \in Addrs /\ objs[conns[w][fd]] \in TcpConnection
  BY DEF Core, TypeOK, ConnTypeOK, Linked, Live

\* What is said to a connection leaves the objects objects.
LEMMA MarkTypes ==
  ASSUME ConnTypeOK, NEW a \in Addrs, objs[a] \in TcpConnection, NEW S \in SUBSET Clients
  PROVE  /\ [objs EXCEPT ![a].asked = TRUE] \in [Addrs -> TcpConnection \union {None}]
         /\ [objs EXCEPT ![a].replies = S] \in [Addrs -> TcpConnection \union {None}]
  BY DEF ConnTypeOK, TcpConnection

\* What NewConn and NewConnFails allocate.
LEMMA AllocTypes ==
  ASSUME ConnTypeOK, NEW a \in Addrs, NEW w \in Workers, NEW fd \in Fds, NEW c \in Clients
  PROVE  /\ [objs EXCEPT ![a] = [worker |-> w, fd |-> fd, client |-> c, asked |-> FALSE,
                replies |-> {}, timer |-> TRUE]] \in [Addrs -> TcpConnection \union {None}]
         /\ [objs EXCEPT ![a] = [worker |-> w, fd |-> fd, client |-> c, asked |-> FALSE,
                replies |-> {}, timer |-> FALSE]] \in [Addrs -> TcpConnection \union {None}]
  BY DEF ConnTypeOK, TcpConnection

\* close() leaves a table of descriptors behind.
LEMMA CloseTypes ==
  ASSUME ConnTypeOK, NEW fd, CloseFd(fd)
  PROVE  (/\ fds \in [Fds -> Clients \union {None}] /\ reg \in [Workers -> SUBSET Fds])'
  BY DEF ConnTypeOK, CloseFd

\* Clients that disturb a worker change nothing but that.
LEMMA OnlyDisturbed ==
  ASSUME Disturbance
  PROVE  UNCHANGED <<kernelVars, clientVars, acceptVars, backendVars, connVars, inbox, msg,
                     reused>>
  BY DEF Disturbance, Trickle, Wedge, Unwedge

\* Which steps may change the flags.
LEMMA Flags ==
  ASSUME [Next]_vars
  PROVE  /\ UNCHANGED listening \/ AcceptFails
         /\ UNCHANGED stray \/ \E w, a : BeginClose(w, a) \/ Delete(a)
         /\ UNCHANGED reused \/ \E w \in Workers : NewConn(w)
<1> DEFINE A == UNCHANGED <<listening, stray, reused>>
           B == UNCHANGED <<listening, reused>> /\ \E w, a : BeginClose(w, a) \/ Delete(a)
<1> USE DEF kernelVars, clientVars, acceptVars, backendVars, connVars, holdVars
<1>1. ASSUME NEW c, Client(c) PROVE A  BY <1>1 DEF Client, Send, HangUp
<1>2. ASSUME NEW c, Accept(c) PROVE A  BY <1>2 DEF Accept
<1>3. ASSUME NEW c, BackendStep(c) PROVE A  BY <1>3 DEF BackendStep
<1>4. ASSUME AcceptFails PROVE UNCHANGED <<stray, reused>>  BY <1>4 DEF AcceptFails
<1>5. ASSUME NEW w, NewConn(w) PROVE UNCHANGED <<listening, stray>>  BY <1>5 DEF NewConn
<1>6. ASSUME NEW w, NewConnFails(w) PROVE A  BY <1>6 DEF NewConnFails
<1>7. ASSUME NEW w, NEW c, Deliver(w, c) PROVE A  BY <1>7 DEF Deliver
<1>8. ASSUME NEW w, NEW fd, ReadPush(w, fd) PROVE A  BY <1>8 DEF ReadPush
<1>9. ASSUME NEW w, NEW fd, ReadIgnored(w, fd) PROVE A  BY <1>9 DEF ReadIgnored
<1>10. ASSUME NEW w, NEW fd, Write(w, fd) PROVE A  BY <1>10 DEF Write
<1>11. ASSUME NEW w, NEW fd, ReadFails(w, fd) PROVE B  BY <1>11 DEF ReadFails
<1>12. ASSUME NEW w, NEW fd, WriteFails(w, fd) PROVE B  BY <1>12 DEF WriteFails
<1>13. ASSUME NEW w, NEW a, Timeout(w, a) PROVE B  BY <1>13 DEF Timeout
<1>14. ASSUME NEW w, EndClose(w) PROVE B  BY <1>14 DEF EndClose
<1>15. ASSUME UNCHANGED vars \/ Disturbance PROVE A  BY <1>15, OnlyDisturbed DEF vars
<1> QED  BY <1>1, <1>2, <1>3, <1>4, <1>5, <1>6, <1>7, <1>8, <1>9, <1>10, <1>11, <1>12,
            <1>13, <1>14, <1>15, Zenon DEF Next, Event

\* Who can be held, and who can trickle.
LEMMA HoldStep ==
  ASSUME wedged \subseteq Workers, trickling \subseteq Unruly, [Next]_vars
  PROVE  wedged' \subseteq Workers /\ trickling' \subseteq Unruly
<1> DEFINE A == UNCHANGED holdVars
<1> USE DEF holdVars
<1>1. ASSUME NEW c, HangUp(c) PROVE wedged' = wedged /\ trickling' \subseteq trickling
    BY <1>1 DEF HangUp
<1>2. ASSUME NEW c, NEW kind, Send(c, kind) PROVE A  BY <1>2 DEF Send
<1>3. ASSUME NEW c, Accept(c) \/ BackendStep(c) PROVE A  BY <1>3 DEF Accept, BackendStep
<1>4. ASSUME AcceptFails \/ UNCHANGED vars PROVE A  BY <1>4 DEF AcceptFails, vars
<1>5. ASSUME NEW w, NewConn(w) \/ NewConnFails(w) \/ EndClose(w) PROVE A
    BY <1>5 DEF NewConn, NewConnFails, EndClose
<1>6. ASSUME NEW w, NEW c, Deliver(w, c) PROVE A  BY <1>6 DEF Deliver
<1>7. ASSUME NEW w, NEW fd, ReadFails(w, fd) \/ ReadPush(w, fd) \/ ReadIgnored(w, fd)
                            \/ Write(w, fd) \/ WriteFails(w, fd)
      PROVE  A
    BY <1>7 DEF ReadFails, ReadPush, ReadIgnored, Write, WriteFails
<1>8. ASSUME NEW w, NEW a, Timeout(w, a) PROVE A  BY <1>8 DEF Timeout
<1>9. ASSUME Disturbance PROVE wedged' \subseteq Workers /\ trickling' \subseteq Unruly
    BY <1>9 DEF Disturbance, Trickle, Wedge, Unwedge
<1> HIDE DEF A
<1>10. A \/ Disturbance \/ \E c \in Clients : HangUp(c)
    BY <1>2, <1>3, <1>4, <1>5, <1>6, <1>7, <1>8, Zenon DEF Next, Event, Client
<1> QED  BY <1>1, <1>9, <1>10 DEF A

\* Every step keeps the types.
LEMMA TypeStep ==
  ASSUME Core, [Next]_vars
  PROVE  TypeOK'
<1> DEFINE Goal == ConnTypeOK' /\ ClientTypeOK' /\ MsgTypeOK'
<1>0. ConnTypeOK /\ ClientTypeOK /\ MsgTypeOK  BY DEF Core, TypeOK
<1> USE DEF kernelVars, clientVars, acceptVars, backendVars, connVars, holdVars
<1>1. ASSUME NEW c \in Clients, Client(c) PROVE Goal
    <2>1. CASE HangUp(c)
        BY <1>0, <2>1 DEF HangUp, ConnTypeOK, ClientTypeOK, MsgTypeOK
    <2>2. ASSUME NEW kind \in Kinds, Send(c, kind) PROVE Goal
        BY <1>0, <2>2 DEF Send, ConnTypeOK, ClientTypeOK, MsgTypeOK
    <2> QED  BY <1>1, <2>1, <2>2, Zenon DEF Client
<1>2. ASSUME NEW c \in Clients, Accept(c) PROVE Goal
    <2>1. Free \subseteq Fds /\ Free \subseteq Nat /\ Free # {}
        BY <1>2 DEF Accept, Free, Fds
    <2>2. PICK fd \in Fds : /\ fds' = [fds EXCEPT ![fd] = c]
                            /\ inbox' = [inbox EXCEPT ![NextWorker] = Append(@, fd)]
        <3>1. (CHOOSE f \in Free : \A g \in Free : f <= g) \in Fds  BY <2>1, LowestFree
        <3> QED  BY <1>2, <3>1 DEF Accept
    <2>3. UNCHANGED <<reg, conns, objs, closing, socket, sent, got, status, origin, msg>>
          /\ accepted' = accepted + 1 /\ backlog' = backlog \ {c}
        BY <1>2 DEF Accept
    <2>4. (inbox \in [Workers -> Seq(Fds)])'
        <3>1. \A w \in Workers : Append(inbox[w], fd) \in Seq(Fds)
            BY <1>0, AppendProperties DEF ConnTypeOK
        <3> QED  BY <1>0, <2>2, <3>1 DEF ConnTypeOK
    <2>5. (fds \in [Fds -> Clients \union {None}])'  BY <1>0, <2>2 DEF ConnTypeOK
    <2>6. ConnTypeOK'  BY <1>0, <2>3, <2>4, <2>5 DEF ConnTypeOK
    <2>7. ClientTypeOK' /\ MsgTypeOK'  BY <1>0, <2>3 DEF ClientTypeOK, MsgTypeOK
    <2> QED  BY <2>6, <2>7
<1>3. ASSUME AcceptFails PROVE Goal
    BY <1>0, <1>3 DEF AcceptFails, ConnTypeOK, ClientTypeOK, MsgTypeOK
<1>4. ASSUME NEW w \in Workers, inbox[w] # <<>>,
             inbox' = [inbox EXCEPT ![w] = Tail(@)]
      PROVE  Head(inbox[w]) \in Fds /\ (inbox \in [Workers -> Seq(Fds)])'
    <2>1. Head(inbox[w]) \in Fds /\ Tail(inbox[w]) \in Seq(Fds)
        BY <1>0, <1>4, HeadTailProperties DEF ConnTypeOK
    <2> QED  BY <1>0, <1>4, <2>1 DEF ConnTypeOK
<1>5. ASSUME NEW w \in Workers, NewConn(w) PROVE Goal
    <2>1. Head(inbox[w]) \in Fds /\ (inbox \in [Workers -> Seq(Fds)])'
        BY <1>4, <1>5 DEF NewConn
    <2>2. PICK fd \in Fds : fd = Head(inbox[w])  BY <2>1
    <2>3. PICK c \in Clients : c = fds[fd]
        BY <1>0, <1>5, <2>2 DEF NewConn, ConnTypeOK
    <2>4. PICK a \in Addrs :
             /\ objs' = [objs EXCEPT ![a] =
                   [worker |-> w, fd |-> fd, client |-> c, asked |-> FALSE,
                    replies |-> {}, timer |-> TRUE]]
             /\ conns' = [conns EXCEPT ![w][fd] = a]
        BY <1>5, <2>2, <2>3 DEF NewConn
    <2>5. /\ reg' = [reg EXCEPT ![w] = @ \union {fd}]
          /\ UNCHANGED <<fds, socket, sent, got, listening, backlog, accepted, status, origin,
                         closing, msg>>
        BY <1>5, <2>2 DEF NewConn, Watch
    <2>6. (objs \in [Addrs -> TcpConnection \union {None}])'
        BY <1>0, <2>4, AllocTypes
    <2>7. (conns \in [Workers -> [Fds -> Addrs \union {None}]])'
        BY <1>0, <2>4 DEF ConnTypeOK
    <2>8. (reg \in [Workers -> SUBSET Fds])'  BY <1>0, <2>5 DEF ConnTypeOK
    <2>9. ConnTypeOK'  BY <1>0, <2>1, <2>5, <2>6, <2>7, <2>8 DEF ConnTypeOK
    <2>10. ClientTypeOK' /\ MsgTypeOK'  BY <1>0, <2>5 DEF ClientTypeOK, MsgTypeOK
    <2> QED  BY <2>9, <2>10
<1>6. ASSUME NEW w \in Workers, NewConnFails(w) PROVE Goal
    <2>1. Head(inbox[w]) \in Fds /\ (inbox \in [Workers -> Seq(Fds)])'
        BY <1>4, <1>6 DEF NewConnFails
    <2>2. PICK fd \in Fds : fd = Head(inbox[w])  BY <2>1
    <2>3. CloseFd(fd) /\ UNCHANGED <<socket, sent, got, listening, backlog, accepted, status,
                                     origin, closing, conns, msg>>
        BY <1>6, <2>2 DEF NewConnFails
    <2>4. (objs \in [Addrs -> TcpConnection \union {None}])'
        <3>1. CASE UNCHANGED objs  BY <1>0, <3>1 DEF ConnTypeOK
        <3>2. ASSUME NEW c \in Clients, NEW a \in Addrs,
                     objs' = [objs EXCEPT ![a] =
                        [worker |-> w, fd |-> fd, client |-> c, asked |-> FALSE,
                         replies |-> {}, timer |-> FALSE]]
              PROVE  (objs \in [Addrs -> TcpConnection \union {None}])'
            BY <1>0, <3>2, AllocTypes
        <3>3. \/ UNCHANGED objs
              \/ \E c \in Clients, a \in Addrs :
                    objs' = [objs EXCEPT ![a] =
                       [worker |-> w, fd |-> fd, client |-> c, asked |-> FALSE,
                        replies |-> {}, timer |-> FALSE]]
            BY <1>0, <1>6, <2>2 DEF NewConnFails, ConnTypeOK
        <3> QED  BY <3>1, <3>2, <3>3
    <2>5. ConnTypeOK'  BY <1>0, <2>1, <2>3, <2>4, CloseTypes DEF ConnTypeOK
    <2>6. ClientTypeOK' /\ MsgTypeOK'  BY <1>0, <2>3 DEF ClientTypeOK, MsgTypeOK
    <2> QED  BY <2>5, <2>6
<1>7. ASSUME NEW w \in Workers, NEW a \in Addrs, BeginClose(w, a),
             UNCHANGED <<socket, got, acceptVars, backendVars, conns, objs, inbox, msg>>,
             (sent \in [Clients -> Kinds \union {"none", "read"}])'
      PROVE  Goal
    <2>1. (/\ fds \in [Fds -> Clients \union {None}] /\ reg \in [Workers -> SUBSET Fds])'
        BY <1>0, <1>7, CloseTypes DEF BeginClose
    <2>2. (closing \in [Workers -> Addrs \union {None}])'
        BY <1>0, <1>7 DEF BeginClose, ConnTypeOK
    <2>3. ConnTypeOK'  BY <1>0, <1>7, <2>1, <2>2 DEF ConnTypeOK
    <2> QED  BY <1>0, <1>7, <2>3 DEF ClientTypeOK, MsgTypeOK
<1>8. ASSUME NEW w \in Workers, NEW a \in Addrs, Timeout(w, a) PROVE Goal
    BY <1>0, <1>7, <1>8 DEF Timeout, ClientTypeOK
<1>9. ASSUME NEW w \in Workers, EndClose(w) PROVE Goal
    <2>1. /\ closing[w] # None /\ closing' = [closing EXCEPT ![w] = None]
          /\ conns' = [conns EXCEPT ![w][objs[closing[w]].fd] = None]
          /\ objs' = [objs EXCEPT ![closing[w]] = None]
          /\ CloseFd(objs[closing[w]].fd)
          /\ UNCHANGED <<socket, sent, got, listening, backlog, accepted, status, origin,
                         inbox, msg>>
        BY <1>9 DEF EndClose, Delete
    <2>2. (/\ fds \in [Fds -> Clients \union {None}] /\ reg \in [Workers -> SUBSET Fds])'
        BY <1>0, <2>1, CloseTypes
    <2>3. objs[closing[w]].fd \in Fds /\ closing[w] \in Addrs
        BY <1>0, <2>1 DEF Core, Closing, Live, ConnTypeOK, TcpConnection
    <2>4. (conns \in [Workers -> [Fds -> Addrs \union {None}]])'
        BY <1>0, <2>1, <2>3 DEF ConnTypeOK
    <2>5. (objs \in [Addrs -> TcpConnection \union {None}])'
        BY <1>0, <2>1, <2>3 DEF ConnTypeOK
    <2>6. (closing \in [Workers -> Addrs \union {None}])'  BY <1>0, <2>1 DEF ConnTypeOK
    <2>7. ConnTypeOK'  BY <1>0, <2>1, <2>2, <2>4, <2>5, <2>6 DEF ConnTypeOK
    <2>8. ClientTypeOK' /\ MsgTypeOK'  BY <1>0, <2>1 DEF ClientTypeOK, MsgTypeOK
    <2> QED  BY <2>7, <2>8
<1>10. ASSUME NEW w \in Workers, NEW fd \in Fds, ReadFails(w, fd) PROVE Goal
    <2>1. conns[w][fd] \in Addrs  BY <1>10, Entry DEF ReadFails, Ready
    <2>2. (sent \in [Clients -> Kinds \union {"none", "read"}])'
        BY <1>0, <1>10 DEF ReadFails, ClientTypeOK
    <2> QED  BY <1>7, <1>10, <2>1, <2>2 DEF ReadFails
<1>11. ASSUME NEW w \in Workers, NEW fd \in Fds, WriteFails(w, fd) PROVE Goal
    <2>1. conns[w][fd] \in Addrs  BY <1>11, Entry DEF WriteFails, Ready
    <2> QED  BY <1>0, <1>7, <1>11, <2>1 DEF WriteFails, ClientTypeOK
<1>12. ASSUME NEW w \in Workers, NEW fd \in Fds, ReadPush(w, fd) PROVE Goal
    <2>1. PICK a \in Addrs : a = conns[w][fd] /\ objs[a] \in TcpConnection
        BY <1>12, Entry DEF ReadPush, Ready
    <2>2. PICK c \in Clients : c = fds[fd]  BY <1>0, <1>12 DEF ReadPush, ConnTypeOK
    <2>3. /\ sent' = [sent EXCEPT ![c] = "read"]
          /\ objs' = [objs EXCEPT ![a].asked = TRUE]
          /\ msg' = [msg EXCEPT ![c] = [conn |-> a, fd |-> fd]]
          /\ status' = [status EXCEPT ![c] = "pending"]
          /\ origin' = [origin EXCEPT ![c] = w]
          /\ UNCHANGED <<fds, reg, socket, got, backlog, accepted, conns, closing, inbox>>
        BY <1>12, <2>1, <2>2 DEF ReadPush, Rtc!Submit
    <2>4. ConnTypeOK'
        <3>1. objs' \in [Addrs -> TcpConnection \union {None}]
            BY <1>0, <2>1, <2>3, MarkTypes
        <3> QED  BY <1>0, <2>3, <3>1 DEF ConnTypeOK
    <2>5. ClientTypeOK'  BY <1>0, <2>3 DEF ClientTypeOK
    <2>6. MsgTypeOK'  BY <1>0, <2>3 DEF MsgTypeOK, MsgConn, Rtc!Statuses
    <2> QED  BY <2>4, <2>5, <2>6
<1>13. ASSUME NEW w \in Workers, NEW fd \in Fds, ReadIgnored(w, fd) PROVE Goal
    <2>1. PICK a \in Addrs : a = conns[w][fd] /\ objs[a] \in TcpConnection
        BY <1>13, Entry DEF ReadIgnored, Ready
    <2>2. /\ objs' = [objs EXCEPT ![a].asked = TRUE]
          /\ sent' = [sent EXCEPT ![fds[fd]] = "read"]
          /\ UNCHANGED <<fds, reg, socket, got, backlog, accepted, conns, closing, inbox,
                         msg, status, origin>>
        BY <1>13, <2>1 DEF ReadIgnored
    <2>3. objs' \in [Addrs -> TcpConnection \union {None}]
        BY <1>0, <2>1, <2>2, MarkTypes
    <2> QED  BY <1>0, <2>2, <2>3 DEF ConnTypeOK, ClientTypeOK, MsgTypeOK
<1>14. ASSUME NEW w \in Workers, NEW c \in Clients, Deliver(w, c) PROVE Goal
    <2>1. /\ status[c] = "answered" /\ status' = [status EXCEPT ![c] = "delivered"]
          /\ UNCHANGED <<origin, fds, socket, sent, got, backlog, accepted, conns, closing,
                         inbox, msg>>
        BY <1>14 DEF Deliver, Rtc!Deliver, Rtc!Move
    <2>2. MsgTypeOK' /\ ClientTypeOK'
        BY <1>0, <2>1 DEF MsgTypeOK, ClientTypeOK, Rtc!Statuses
    <2>3. (objs \in [Addrs -> TcpConnection \union {None}] /\ reg \in [Workers -> SUBSET Fds])'
        <3>1. CASE UNCHANGED <<objs, reg>>  BY <1>0, <3>1 DEF ConnTypeOK
        <3>2. CASE ~UNCHANGED <<objs, reg>>
            <4>1. msg[c].conn \in Addrs /\ msg[c].fd \in Fds
                BY <2>1 DEF Core, Asked, InFlight, MsgConn
            <4>2. PICK fd \in Fds : fd = msg[c].fd  BY <4>1
            <4>3. conns[w][fd] = msg[c].conn
                BY <1>14, <3>2, <4>2 DEF Deliver, SameConn
            <4>4. conns[w][fd] # None  BY <4>1, <4>3, ConstantsAssumption
            <4>5. PICK a \in Addrs : a = conns[w][fd] /\ objs[a] \in TcpConnection
                BY <4>4, Entry
            <4>6. /\ objs' = [objs EXCEPT ![a].replies = @ \union {c}]
                  /\ reg' = [reg EXCEPT ![w] = @ \union {fd}]
                BY <1>14, <3>2, <4>2, <4>5 DEF Deliver, Watch
            <4>7. objs[a].replies \union {c} \in SUBSET Clients  BY <4>5 DEF TcpConnection
            <4>8. objs' \in [Addrs -> TcpConnection \union {None}]
                BY <1>0, <4>5, <4>6, <4>7, MarkTypes
            <4> QED  BY <1>0, <4>6, <4>8 DEF ConnTypeOK
        <3> QED  BY <3>1, <3>2
    <2> QED  BY <1>0, <2>1, <2>2, <2>3 DEF ConnTypeOK
<1>15. ASSUME NEW w \in Workers, NEW fd \in Fds, Write(w, fd) PROVE Goal
    <2>1. PICK a \in Addrs : a = conns[w][fd] /\ objs[a] \in TcpConnection
        BY <1>15, Entry DEF Write, Ready
    <2>2. /\ objs' = [objs EXCEPT ![a].replies = {}]
          /\ got' = [got EXCEPT ![fds[fd]] = @ \union objs[a].replies]
          /\ UNCHANGED <<fds, reg, socket, sent, backlog, accepted, conns, closing, inbox,
                         msg, status, origin>>
        BY <1>15, <2>1 DEF Write
    <2>3. objs' \in [Addrs -> TcpConnection \union {None}]
        BY <1>0, <2>1, <2>2, MarkTypes
    <2>4. objs[a].replies \in SUBSET Clients  BY <2>1 DEF TcpConnection
    <2>5. ClientTypeOK'  BY <1>0, <2>2, <2>4 DEF ClientTypeOK
    <2> QED  BY <1>0, <2>2, <2>3, <2>5 DEF ConnTypeOK, MsgTypeOK
<1>16. ASSUME NEW c \in Clients, BackendStep(c) PROVE Goal
    BY <1>0, <1>16 DEF BackendStep, Rtc!Answer, Rtc!Drop, Rtc!Move, Rtc!Statuses,
       ConnTypeOK, ClientTypeOK, MsgTypeOK
<1>17. ASSUME UNCHANGED vars \/ Disturbance PROVE Goal
    <2>1. UNCHANGED <<kernelVars, clientVars, acceptVars, backendVars, connVars, inbox, msg>>
        BY <1>17, OnlyDisturbed DEF vars
    <2> QED  BY <1>0, <2>1 DEF ConnTypeOK, ClientTypeOK, MsgTypeOK
<1>18. Goal
    BY <1>1, <1>2, <1>3, <1>5, <1>6, <1>8, <1>9, <1>10, <1>11, <1>12, <1>13, <1>14, <1>15,
       <1>16, <1>17, Zenon DEF Next, Event
<1>19. (listening \in BOOLEAN)'  BY Flags, Zenon DEF AcceptFails, Core, TypeOK
<1>20. (stray \in BOOLEAN)'  BY Flags, Zenon DEF BeginClose, Delete, Core, TypeOK
<1>21. (reused \in BOOLEAN)'  BY Flags, Zenon DEF NewConn, Core, TypeOK
<1>22. (wedged \subseteq Workers /\ trickling \subseteq Unruly)'  BY HoldStep DEF Core, TypeOK
<1> QED  BY <1>18, <1>19, <1>20, <1>21, <1>22, Zenon DEF TypeOK

(***************************************************************************)
(* What each kind of step does to the table, the objects and the           *)
(* descriptors.                                                            *)
(***************************************************************************)

\* The objects stay, and so do their worker, descriptor, client and timer.
SameShape ==
    \A a \in Addrs :
        /\ objs'[a] = None <=> objs[a] = None
        /\ Live(a)' <=> Live(a)
        /\ objs[a] # None => /\ objs'[a].worker = objs[a].worker
                             /\ objs'[a].fd = objs[a].fd
                             /\ objs'[a].client = objs[a].client

\* A step that opens and closes nothing.
Quiet == UNCHANGED <<conns, closing, fds, inbox, backlog, stray>> /\ SameShape

\* accept() returns descriptor fd for client c, which goes to worker w.
Accepts(c, fd, w) ==
    /\ c \in backlog /\ fds[fd] = None
    /\ fds' = [fds EXCEPT ![fd] = c] /\ inbox' = [inbox EXCEPT ![w] = Append(@, fd)]
    /\ backlog' = backlog \ {c} /\ UNCHANGED <<conns, objs, closing, stray>>

\* Worker w takes the descriptor fd, behind which is client c.
Takes(w, fd, c) ==
    /\ closing[w] = None /\ inbox[w] # <<>> /\ fd = Head(inbox[w]) /\ c = fds[fd]
    /\ inbox' = [inbox EXCEPT ![w] = Tail(@)]
    /\ UNCHANGED <<closing, backlog, stray>>

\* ... and creates the object a for it, with or without a timer.
Creates(w, fd, c, a, t) ==
    /\ objs[a] = None /\ objs'[a] # None
    /\ objs'[a].worker = w /\ objs'[a].fd = fd /\ objs'[a].client = c
    /\ objs'[a].replies = {} /\ (objs'[a].timer <=> t)
    /\ \A b \in Addrs : b # a => objs'[b] = objs[b]

\* Worker w begins to close its object a.
Begins(w, a) ==
    /\ Live(a) /\ objs[a].worker = w /\ closing[w] = None /\ BeginClose(w, a)
    /\ UNCHANGED <<conns, objs, inbox, backlog>>

\* A descriptor is given out that was free.
LEMMA AcceptEffect ==
  ASSUME Core, NEW c \in Clients, Accept(c)
  PROVE  \E fd \in Fds, w \in Workers : Accepts(c, fd, w)
<1>1. Free \subseteq Fds /\ Free \subseteq Nat /\ Free # {}
    BY DEF Accept, Free, Fds
<1>2. PICK fd \in Free : fd = CHOOSE f \in Free : \A g \in Free : f <= g
    BY <1>1, LowestFree
<1>3. NextWorker \in Workers
    BY ConstantsAssumption DEF NextWorker, Workers, Core, TypeOK, ClientTypeOK
<1>4. Accepts(c, fd, NextWorker)
    BY <1>2 DEF Accept, Accepts, Free, connVars
<1> QED  BY <1>1, <1>3, <1>4

\* A descriptor at the head of the inbox, with the client behind it if it is open.
LEMMA HeadFd ==
  ASSUME Core, NEW w \in Workers, inbox[w] # <<>>
  PROVE  /\ Head(inbox[w]) \in Fds
         /\ fds[Head(inbox[w])] # None => fds[Head(inbox[w])] \in Clients
<1>1. Head(inbox[w]) \in Fds
    BY HeadTailProperties DEF Core, TypeOK, ConnTypeOK
<1> QED  BY <1>1 DEF Core, TypeOK, ConnTypeOK

\* The connection object enters the table.
LEMMA NewConnEffect ==
  ASSUME Core, NEW w \in Workers, NewConn(w)
  PROVE  \E fd \in Fds, c \in Clients, a \in Addrs :
            /\ Takes(w, fd, c) /\ Creates(w, fd, c, a, TRUE)
            /\ conns' = [conns EXCEPT ![w][fd] = a]
            /\ reused' = (reused \/ \E d \in Clients :
                  InFlight(d) /\ msg[d].conn = a)
            /\ UNCHANGED <<fds, status, msg, got>>
<1>1. PICK fd \in Fds : fd = Head(inbox[w]) /\ fds[fd] \in Clients
    BY HeadFd DEF NewConn
<1>2. PICK c \in Clients : c = fds[fd]  BY <1>1
<1>3. Takes(w, fd, c) /\ UNCHANGED <<fds, status, msg, got>>
    BY <1>1, <1>2 DEF NewConn, Takes, idle, acceptVars, backendVars, clientVars
<1> DEFINE o == [worker |-> w, fd |-> fd, client |-> c, asked |-> FALSE, replies |-> {},
                 timer |-> TRUE]
<1>4. PICK a \in Addrs :
         /\ objs[a] = None /\ objs' = [objs EXCEPT ![a] = o]
         /\ conns' = [conns EXCEPT ![w][fd] = a]
         /\ reused' = (reused \/ \E d \in Clients :
               InFlight(d) /\ msg[d].conn = a)
    BY <1>1, <1>2, Zenon DEF NewConn, InFlight
<1>5. o \in TcpConnection  BY DEF TcpConnection
<1>6. Creates(w, fd, c, a, TRUE)
    <2>1. objs'[a] = o /\ \A b \in Addrs : b # a => objs'[b] = objs[b]
        BY <1>4 DEF Core, TypeOK, ConnTypeOK
    <2>2. objs'[a] # None  BY <2>1, <1>5, ConstantsAssumption
    <2> QED  BY <1>4, <2>1, <2>2 DEF Creates
<1> QED  BY <1>3, <1>4, <1>6, Zenon

\* The descriptor is closed, and an object may stay behind outside the table.
LEMMA NewConnFailsEffect ==
  ASSUME Core, NEW w \in Workers, NewConnFails(w)
  PROVE  \E fd \in Fds :
            /\ Takes(w, fd, fds[fd]) /\ CloseFd(fd)
            /\ UNCHANGED objs \/ \E a \in Addrs : Creates(w, fd, fds[fd], a, FALSE)
            /\ UNCHANGED <<conns, status, msg, got, reused>>
<1>1. PICK fd \in Fds : fd = Head(inbox[w])  BY HeadFd DEF NewConnFails
<1>2. Takes(w, fd, fds[fd]) /\ CloseFd(fd) /\ UNCHANGED <<conns, status, msg, got, reused>>
    BY <1>1 DEF NewConnFails, Takes, idle, acceptVars, backendVars, clientVars
<1>3. ASSUME NEW a \in Addrs, fds[fd] # None, objs[a] = None,
             objs' = [objs EXCEPT ![a] =
                [worker |-> w, fd |-> fd, client |-> fds[fd], asked |-> FALSE,
                 replies |-> {}, timer |-> FALSE]]
      PROVE  Creates(w, fd, fds[fd], a, FALSE)
    <2> DEFINE o == [worker |-> w, fd |-> fd, client |-> fds[fd], asked |-> FALSE,
                     replies |-> {}, timer |-> FALSE]
    <2>1. objs'[a] = o /\ \A b \in Addrs : b # a => objs'[b] = objs[b]
        BY <1>3 DEF Core, TypeOK, ConnTypeOK
    <2>2. fds[fd] \in Clients  BY <1>3 DEF Core, TypeOK, ConnTypeOK
    <2>3. o \in TcpConnection  BY <2>2 DEF TcpConnection
    <2>4. objs'[a] # None  BY <2>1, <2>3, ConstantsAssumption
    <2> QED  BY <1>3, <2>1, <2>4 DEF Creates
<1>4. UNCHANGED objs \/ \E a \in Addrs : Creates(w, fd, fds[fd], a, FALSE)
    BY <1>1, <1>3 DEF NewConnFails
<1> QED  BY <1>2, <1>4

\* Requests, answers and writes leave the objects in place.
LEMMA MarkShape ==
  ASSUME Core, NEW a \in Addrs, objs[a] \in TcpConnection, NEW S \in SUBSET Clients,
         \/ objs' = [objs EXCEPT ![a].asked = TRUE]
         \/ objs' = [objs EXCEPT ![a].replies = S]
  PROVE  SameShape
<1>1. objs \in [Addrs -> TcpConnection \union {None}]  BY DEF Core, TypeOK, ConnTypeOK
<1>2. \A b \in Addrs : b # a => objs'[b] = objs[b]  BY <1>1
<1>3. /\ objs'[a].worker = objs[a].worker /\ objs'[a].fd = objs[a].fd
      /\ objs'[a].client = objs[a].client /\ objs'[a].timer = objs[a].timer
    BY <1>1 DEF TcpConnection
<1>4. objs[a] # None  BY ConstantsAssumption
<1>5. objs'[a] # None
    <2>1. CASE objs' = [objs EXCEPT ![a].asked = TRUE]
        <3>1. objs'[a] \in TcpConnection  BY <1>1, <2>1 DEF TcpConnection
        <3> QED  BY <3>1, ConstantsAssumption
    <2>2. CASE objs' = [objs EXCEPT ![a].replies = S]
        <3>1. objs'[a] \in TcpConnection  BY <1>1, <2>2 DEF TcpConnection
        <3> QED  BY <3>1, ConstantsAssumption
    <2> QED  BY <2>1, <2>2
<1> QED  BY <1>2, <1>3, <1>4, <1>5 DEF SameShape, Live

\* The connection an answer is queued on.
LEMMA DeliverEffect ==
  ASSUME Core, NEW w \in Workers, NEW c \in Clients, Deliver(w, c)
  PROVE  /\ status[c] = "answered" /\ closing[w] = None
         /\ UNCHANGED <<conns, closing, fds, inbox, backlog, stray, reused, msg, got>>
         /\ status' = [status EXCEPT ![c] = "delivered"]
         /\ \/ UNCHANGED objs
            \/ \E fd \in Fds, a \in Addrs :
                  /\ msg[c].conn = a /\ conns[w][fd] = a /\ objs[a] \in TcpConnection
                  /\ objs' = [objs EXCEPT ![a].replies = @ \union {c}]
<1>1. /\ status[c] = "answered" /\ closing[w] = None
      /\ UNCHANGED <<conns, closing, fds, inbox, backlog, stray, reused, msg, got>>
      /\ status' = [status EXCEPT ![c] = "delivered"]
    BY DEF Deliver, idle, Rtc!Deliver, Rtc!Move, acceptVars, clientVars
<1>2. CASE ~UNCHANGED objs
    <2>1. PICK fd \in Fds, a \in Addrs : fd = msg[c].fd /\ a = msg[c].conn
        BY <1>1 DEF Core, Asked, InFlight, MsgConn
    <2>2. conns[w][fd] = a  BY <1>2, <2>1 DEF Deliver, SameConn
    <2>3. objs[a] \in TcpConnection  BY <2>1, <2>2, Entry, ConstantsAssumption
    <2>4. objs' = [objs EXCEPT ![a].replies = @ \union {c}]
        BY <1>2, <2>1, <2>2 DEF Deliver
    <2> QED  BY <1>1, <2>1, <2>2, <2>3, <2>4
<1> QED  BY <1>1, <1>2

\* Every step is one of six kinds.
LEMMA StepKinds ==
  ASSUME Core, [Next]_vars
  PROVE  \/ Quiet
         \/ \E c \in Clients, fd \in Fds, w \in Workers : Accepts(c, fd, w)
         \/ \E w \in Workers : NewConn(w) \/ NewConnFails(w) \/ EndClose(w)
         \/ \E w \in Workers, a \in Addrs : Begins(w, a)
<1> USE DEF kernelVars, clientVars, acceptVars, backendVars, connVars, holdVars
<1>1. ASSUME UNCHANGED <<conns, closing, fds, inbox, backlog, stray, objs>> PROVE Quiet
    BY <1>1 DEF Quiet, SameShape, Live
<1>2. ASSUME NEW c \in Clients, Client(c) \/ BackendStep(c) PROVE Quiet
    BY <1>1, <1>2 DEF Client, Send, HangUp, BackendStep
<1>3. ASSUME AcceptFails \/ UNCHANGED vars \/ Disturbance PROVE Quiet
    BY <1>1, <1>3, OnlyDisturbed DEF AcceptFails, vars
<1>4. ASSUME NEW w \in Workers, NEW c \in Clients, Deliver(w, c) PROVE Quiet
    <2>1. UNCHANGED <<conns, closing, fds, inbox, backlog, stray>>  BY <1>4, DeliverEffect
    <2>2. ASSUME NEW a \in Addrs, objs[a] \in TcpConnection,
                 objs' = [objs EXCEPT ![a].replies = @ \union {c}]
          PROVE  SameShape
        <3>1. objs[a].replies \union {c} \in SUBSET Clients  BY <2>2 DEF TcpConnection
        <3> QED  BY <2>2, <3>1, MarkShape
    <2>3. CASE UNCHANGED objs  BY <1>1, <2>1, <2>3
    <2>4. CASE ~UNCHANGED objs
        <3>1. SameShape  BY <1>4, <2>2, <2>4, DeliverEffect
        <3> QED  BY <2>1, <3>1 DEF Quiet
    <2> QED  BY <2>3, <2>4
<1>5. ASSUME NEW w \in Workers, NEW fd \in Fds,
             ReadPush(w, fd) \/ ReadIgnored(w, fd) \/ Write(w, fd)
      PROVE  Quiet
    <2>1. UNCHANGED <<conns, closing, fds, inbox, backlog, stray>>
        BY <1>5 DEF ReadPush, ReadIgnored, Write
    <2>2. PICK a \in Addrs : a = conns[w][fd] /\ objs[a] \in TcpConnection
        BY <1>5, Entry DEF ReadPush, ReadIgnored, Write, Ready
    <2>3. \/ objs' = [objs EXCEPT ![a].asked = TRUE]
          \/ objs' = [objs EXCEPT ![a].replies = {}]
        BY <1>5, <2>2 DEF ReadPush, ReadIgnored, Write
    <2> QED  BY <2>1, <2>2, <2>3, MarkShape DEF Quiet
<1>6. ASSUME NEW w \in Workers, NEW fd \in Fds, ReadFails(w, fd) \/ WriteFails(w, fd)
      PROVE  \E a \in Addrs : Begins(w, a)
    <2>1. PICK a \in Addrs : a = conns[w][fd]
        BY <1>6, Entry DEF ReadFails, WriteFails, Ready
    <2>2. Live(a) /\ objs[a].worker = w
        BY <1>6, <2>1 DEF ReadFails, WriteFails, Ready, Core, Linked
    <2>3. Begins(w, a)
        BY <1>6, <2>1, <2>2 DEF ReadFails, WriteFails, Ready, idle, Begins
    <2> QED  BY <2>3
<1>7. ASSUME NEW w \in Workers, NEW a \in Addrs, Timeout(w, a) PROVE Begins(w, a)
    BY <1>7 DEF Timeout, idle, Begins, Live
<1>8. ASSUME NEW c \in Clients, Accept(c)
      PROVE  \E fd \in Fds, w \in Workers : Accepts(c, fd, w)
    BY <1>8, AcceptEffect
<1> QED  BY <1>2, <1>3, <1>4, <1>5, <1>6, <1>7, <1>8, Zenon DEF Next, Event

\* The object, its table entry and its descriptor go.
LEMMA EndCloseEffect ==
  ASSUME Core, NEW w \in Workers, EndClose(w)
  PROVE  \E a \in Addrs :
            /\ a = closing[w] /\ Live(a) /\ objs[a].worker = w /\ objs[a].fd \in Fds
            /\ closing' = [closing EXCEPT ![w] = None]
            /\ conns' = [conns EXCEPT ![w][objs[a].fd] = None]
            /\ objs' = [objs EXCEPT ![a] = None]
            /\ CloseFd(objs[a].fd) /\ stray' = (stray \/ IsStray(objs[a]))
            /\ UNCHANGED <<inbox, backlog, status, msg, got, reused>>
<1>1. closing[w] # None  BY DEF EndClose
<1>2. PICK a \in Addrs : a = closing[w] /\ Live(a) /\ objs[a].worker = w
    BY <1>1 DEF Core, TypeOK, ConnTypeOK, Closing
<1>3. objs[a].fd \in Fds  BY <1>2 DEF Core, TypeOK, ConnTypeOK, TcpConnection, Live
<1>4. /\ closing' = [closing EXCEPT ![w] = None]
      /\ conns' = [conns EXCEPT ![w][objs[a].fd] = None]
      /\ objs' = [objs EXCEPT ![a] = None]
      /\ CloseFd(objs[a].fd)
      /\ UNCHANGED <<inbox, backlog, status, msg, got, reused>>
    BY <1>2 DEF EndClose, Delete, acceptVars, backendVars, clientVars
<1>5. stray' = (stray \/ IsStray(objs[a]))  BY <1>2, Zenon DEF EndClose, Delete
<1> QED  BY <1>2, <1>3, <1>4, <1>5, Zenon

\* Every step keeps the table and the half-closed objects sound.
LEMMA LinkedStep ==
  ASSUME Core, [Next]_vars
  PROVE  Linked' /\ Closing'
<1>0. /\ conns \in [Workers -> [Fds -> Addrs \union {None}]]
      /\ closing \in [Workers -> Addrs \union {None}]
      /\ objs \in [Addrs -> TcpConnection \union {None}]
      /\ Linked /\ Closing
    BY DEF Core, TypeOK, ConnTypeOK
<1>1. ASSUME Quiet PROVE Linked' /\ Closing'
    BY <1>0, <1>1 DEF Quiet, SameShape, Linked, Closing, Live
<1>2. ASSUME UNCHANGED <<conns, objs, closing>> PROVE Linked' /\ Closing'
    <2>1. conns' = conns /\ objs' = objs /\ closing' = closing  BY <1>2
    <2>2. Linked'  BY <1>0, <2>1 DEF Linked, Live
    <2>3. Closing'  BY <1>0, <2>1 DEF Closing, Live
    <2> QED  BY <2>2, <2>3
<1>3. ASSUME NEW w, NEW fd, NEW c, NEW a \in Addrs, NEW t, Creates(w, fd, c, a, t)
      PROVE  \A b \in Addrs : Live(b) => b # a /\ objs'[b] = objs[b] /\ Live(b)'
    BY <1>3 DEF Creates, Live
<1>4. ASSUME NEW w \in Workers, NewConn(w) PROVE Linked' /\ Closing'
    <2>1. PICK fd \in Fds, c \in Clients, a \in Addrs :
             /\ Takes(w, fd, c) /\ Creates(w, fd, c, a, TRUE)
             /\ conns' = [conns EXCEPT ![w][fd] = a]
        BY <1>4, NewConnEffect
    <2>2. Live(a)' /\ objs'[a].worker = w /\ objs'[a].fd = fd
        BY <2>1 DEF Creates, Live
    <2>3. \A b \in Addrs : Live(b) => b # a /\ objs'[b] = objs[b] /\ Live(b)'
        BY <1>3, <2>1
    <2>4. Linked'
        <3> SUFFICES ASSUME NEW v \in Workers, NEW f \in Fds, conns'[v][f] # None
                     PROVE  /\ Live(conns[v][f])'
                            /\ objs'[conns'[v][f]].worker = v /\ objs'[conns'[v][f]].fd = f
            BY DEF Linked
        <3>1. CASE v = w /\ f = fd
            <4>1. conns'[v][f] = a  BY <1>0, <2>1, <3>1
            <4> QED  BY <2>2, <3>1, <4>1 DEF Live
        <3>2. CASE ~(v = w /\ f = fd)
            <4>1. conns'[v][f] = conns[v][f]  BY <1>0, <2>1, <3>2
            <4>2. PICK b \in Addrs : b = conns[v][f]  BY <1>0, <4>1
            <4>3. Live(b) /\ objs[b].worker = v /\ objs[b].fd = f
                BY <1>0, <4>1, <4>2 DEF Linked
            <4>4. Live(b)' /\ objs'[b] = objs[b]  BY <2>3, <4>3
            <4> QED  BY <4>1, <4>2, <4>3, <4>4 DEF Live
        <3> QED  BY <3>1, <3>2
    <2>5. closing' = closing  BY <2>1 DEF Takes
    <2>6. Closing'  BY <1>0, <2>3, <2>5 DEF Closing, Live
    <2> QED  BY <2>4, <2>6
<1>5. ASSUME NEW w \in Workers, NewConnFails(w) PROVE Linked' /\ Closing'
    <2>1. PICK fd \in Fds :
             /\ Takes(w, fd, fds[fd])
             /\ UNCHANGED objs \/ \E a \in Addrs : Creates(w, fd, fds[fd], a, FALSE)
             /\ UNCHANGED conns
        BY <1>5, NewConnFailsEffect
    <2>2. closing' = closing /\ conns' = conns  BY <2>1 DEF Takes
    <2>3. CASE UNCHANGED objs  BY <1>2, <2>2, <2>3
    <2>4. ASSUME NEW a \in Addrs, Creates(w, fd, fds[fd], a, FALSE) PROVE Linked' /\ Closing'
        <3>1. \A b \in Addrs : Live(b) => b # a /\ objs'[b] = objs[b] /\ Live(b)'
            BY <1>3, <2>4
        <3> QED  BY <1>0, <2>2, <3>1 DEF Linked, Closing, Live
    <2> QED  BY <2>1, <2>3, <2>4
<1>6. ASSUME NEW w \in Workers, NEW a \in Addrs, Begins(w, a) PROVE Linked' /\ Closing'
    <2>1. /\ Live(a) /\ objs[a].worker = w /\ UNCHANGED <<conns, objs>>
          /\ closing' = [closing EXCEPT ![w] = a]
        BY <1>6 DEF Begins, BeginClose
    <2> QED  BY <1>0, <2>1 DEF Linked, Closing, Live
<1>7. ASSUME NEW w \in Workers, EndClose(w) PROVE Linked' /\ Closing'
    <2>1. PICK a \in Addrs :
             /\ a = closing[w] /\ Live(a) /\ objs[a].worker = w /\ objs[a].fd \in Fds
             /\ closing' = [closing EXCEPT ![w] = None]
             /\ conns' = [conns EXCEPT ![w][objs[a].fd] = None]
             /\ objs' = [objs EXCEPT ![a] = None]
        BY <1>7, EndCloseEffect
    <2>2. PICK fd \in Fds : fd = objs[a].fd  BY <2>1
    <2>3. \A b \in Addrs : b # a => objs'[b] = objs[b] /\ (Live(b)' <=> Live(b))
        BY <1>0, <2>1 DEF Live
    <2>4. Linked'
        <3> SUFFICES ASSUME NEW v \in Workers, NEW f \in Fds, conns'[v][f] # None
                     PROVE  /\ Live(conns[v][f])'
                            /\ objs'[conns'[v][f]].worker = v /\ objs'[conns'[v][f]].fd = f
            BY DEF Linked
        <3>1. ~(v = w /\ f = fd) /\ conns'[v][f] = conns[v][f]
            BY <1>0, <2>1, <2>2
        <3>2. PICK b \in Addrs : b = conns[v][f]  BY <1>0, <3>1
        <3>3. Live(b) /\ objs[b].worker = v /\ objs[b].fd = f
            BY <1>0, <3>1, <3>2 DEF Linked
        <3>4. b # a  BY <2>1, <2>2, <3>1, <3>3
        <3>5. Live(b)' /\ objs'[b] = objs[b]  BY <2>3, <3>3, <3>4
        <3> QED  BY <3>1, <3>2, <3>3, <3>5 DEF Live
    <2>5. Closing'
        <3>1. \A v \in Workers : closing'[v] # None => v # w /\ closing'[v] = closing[v]
            BY <1>0, <2>1
        <3>2. \A v \in Workers : closing'[v] # None =>
                 closing[v] \in Addrs /\ closing[v] # a
            BY <1>0, <2>1, <3>1 DEF Closing
        <3> QED  BY <1>0, <2>3, <3>1, <3>2 DEF Closing, Live
    <2> QED  BY <2>4, <2>5
<1>8. ASSUME NEW c, NEW fd, NEW w, Accepts(c, fd, w) PROVE Linked' /\ Closing'
    BY <1>2, <1>8 DEF Accepts
<1> QED  BY <1>1, <1>4, <1>5, <1>6, <1>7, <1>8, StepKinds

\* Only a push request read from its socket gives a message to the other threads.
LEMMA MsgStep ==
  ASSUME Core, [Next]_vars
  PROVE  \/ UNCHANGED msg /\ \A c \in Clients : InFlight(c)' => InFlight(c)
         \/ \E w \in Workers, fd \in Fds : ReadPush(w, fd)
<1> DEFINE A == UNCHANGED msg /\ \A c \in Clients : InFlight(c)' => InFlight(c)
<1> USE DEF kernelVars, clientVars, acceptVars, backendVars, connVars, InFlight
<1>0. status \in [Clients -> Rtc!Statuses]  BY DEF Core, TypeOK, MsgTypeOK
<1>1. ASSUME NEW c \in Clients, BackendStep(c) PROVE A
    BY <1>0, <1>1 DEF BackendStep, Rtc!Answer, Rtc!Drop, Rtc!Move
<1>2. ASSUME NEW w \in Workers, NEW c \in Clients, Deliver(w, c) PROVE A
    BY <1>0, <1>2, DeliverEffect
<1>3. ASSUME NEW c \in Clients, Client(c) \/ Accept(c) PROVE A
    BY <1>3 DEF Client, Send, HangUp, Accept
<1>4. ASSUME AcceptFails \/ UNCHANGED vars \/ Disturbance PROVE A
    BY <1>4, OnlyDisturbed DEF AcceptFails, vars
<1>5. ASSUME NEW w \in Workers, NewConn(w) \/ NewConnFails(w) \/ EndClose(w) PROVE A
    BY <1>5 DEF NewConn, NewConnFails, EndClose
<1>6. ASSUME NEW w \in Workers, NEW a, Timeout(w, a) PROVE A  BY <1>6 DEF Timeout
<1>7. ASSUME NEW w \in Workers, NEW fd \in Fds,
             ReadFails(w, fd) \/ ReadIgnored(w, fd) \/ Write(w, fd) \/ WriteFails(w, fd)
      PROVE  A
    BY <1>7 DEF ReadFails, ReadIgnored, Write, WriteFails
<1> HIDE DEF A
<1>8. A \/ \E w \in Workers, fd \in Fds : ReadPush(w, fd)
    BY <1>1, <1>2, <1>3, <1>4, <1>5, <1>6, <1>7, Zenon DEF Next, Event
<1> QED  BY <1>8 DEF A

\* A message names an object and a descriptor from the start.
LEMMA AskedStep ==
  ASSUME Core, [Next]_vars
  PROVE  Asked'
<1>1. ASSUME UNCHANGED msg, \A c \in Clients : InFlight(c)' => InFlight(c) PROVE Asked'
    BY <1>1 DEF Core, Asked
<1>2. ASSUME NEW w \in Workers, NEW fd \in Fds, ReadPush(w, fd) PROVE Asked'
    <2>1. /\ msg \in [Clients -> MsgConn \union {None}] /\ status \in [Clients -> Rtc!Statuses]
          /\ Asked
        BY DEF Core, TypeOK, MsgTypeOK
    <2>2. PICK a \in Addrs : a = conns[w][fd]  BY <1>2, Entry DEF ReadPush, Ready
    <2>3. PICK c \in Clients : c = fds[fd]
        BY <1>2 DEF ReadPush, Core, TypeOK, ConnTypeOK
    <2>4. /\ msg' = [msg EXCEPT ![c] = [conn |-> a, fd |-> fd]]
          /\ status' = [status EXCEPT ![c] = "pending"]
        BY <1>2, <2>2, <2>3 DEF ReadPush, Rtc!Submit
    <2>5. [conn |-> a, fd |-> fd] \in MsgConn  BY DEF MsgConn
    <2> QED  BY <2>1, <2>4, <2>5 DEF Asked, InFlight
<1> QED  BY <1>1, <1>2, MsgStep

\* Every step keeps the core of the invariant.
LEMMA CoreStep ==
  ASSUME Core, [Next]_vars
  PROVE  Core'
  BY TypeStep, LinkedStep, AskedStep DEF Core

(***************************************************************************)
(* Descriptors.                                                            *)
(***************************************************************************)

InInbox(fd) == \E w \in Workers : \E i \in DOMAIN inbox[w] : inbox[w][i] = fd

Owner(fd) == \E a \in Addrs : objs[a] # None /\ objs[a].fd = fd /\ objs[a].timer

\* What taking from an inbox leaves in it.
LEMMA TakeInbox ==
  ASSUME Core, NEW w \in Workers, NEW fd, NEW c, Takes(w, fd, c)
  PROVE  /\ 1 \in DOMAIN inbox[w] /\ inbox[w][1] = fd
         /\ \A v \in Workers : v # w => inbox'[v] = inbox[v]
         /\ \A i \in DOMAIN inbox'[w] :
               i \in Nat \ {0} /\ i + 1 \in DOMAIN inbox[w] /\ inbox'[w][i] = inbox[w][i + 1]
         /\ \A i \in DOMAIN inbox[w] :
               i # 1 => i - 1 \in DOMAIN inbox'[w] /\ inbox'[w][i - 1] = inbox[w][i]
<1>1. /\ inbox \in [Workers -> Seq(Fds)] /\ inbox[w] # <<>> /\ fd = Head(inbox[w])
      /\ inbox' = [inbox EXCEPT ![w] = Tail(@)]
    BY DEF Core, TypeOK, ConnTypeOK, Takes
<1>2. /\ inbox'[w] = Tail(inbox[w]) /\ inbox[w] \in Seq(Fds)
      /\ \A v \in Workers : v # w => inbox'[v] = inbox[v]
    BY <1>1
<1>3. /\ DOMAIN inbox[w] = 1 .. Len(inbox[w]) /\ Len(inbox[w]) \in Nat \ {0}
      /\ DOMAIN inbox'[w] = 1 .. Len(inbox[w]) - 1 /\ inbox[w][1] = fd
      /\ \A i \in 1 .. Len(inbox[w]) - 1 : inbox'[w][i] = inbox[w][i + 1]
    BY <1>1, <1>2, LenProperties, EmptySeq, HeadTailProperties
<1> QED  BY <1>2, <1>3

\* What accept() adds to an inbox.
LEMMA AddInbox ==
  ASSUME Core, NEW w \in Workers, NEW fd \in Fds, inbox' = [inbox EXCEPT ![w] = Append(@, fd)]
  PROVE  /\ \A v \in Workers : v # w => inbox'[v] = inbox[v]
         /\ \A i \in DOMAIN inbox[w] : i \in DOMAIN inbox'[w] /\ inbox'[w][i] = inbox[w][i]
         /\ Len(inbox[w]) + 1 \in DOMAIN inbox'[w] /\ inbox'[w][Len(inbox[w]) + 1] = fd
         /\ \A i \in DOMAIN inbox'[w] :
               \/ i \in DOMAIN inbox[w] /\ inbox'[w][i] = inbox[w][i]
               \/ i = Len(inbox[w]) + 1 /\ inbox'[w][i] = fd
<1>1. /\ inbox'[w] = Append(inbox[w], fd) /\ inbox[w] \in Seq(Fds)
      /\ \A v \in Workers : v # w => inbox'[v] = inbox[v]
    BY DEF Core, TypeOK, ConnTypeOK
<1>2. /\ DOMAIN inbox[w] = 1 .. Len(inbox[w]) /\ Len(inbox[w]) \in Nat
      /\ DOMAIN inbox'[w] = 1 .. Len(inbox[w]) + 1 /\ inbox'[w][Len(inbox[w]) + 1] = fd
      /\ \A i \in 1 .. Len(inbox[w]) : inbox'[w][i] = inbox[w][i]
    BY <1>1, LenProperties, AppendProperties
<1> QED  BY <1>1, <1>2

\* No step loses an open descriptor.
LEMMA NoFdLeakStep ==
  ASSUME Core, NoFdLeak, [Next]_vars
  PROVE  NoFdLeak'
<1>0. /\ fds \in [Fds -> Clients \union {None}] /\ objs \in [Addrs -> TcpConnection \union {None}]
      /\ \A fd \in Fds : fds[fd] # None => InInbox(fd) \/ Owner(fd)
    BY DEF Core, TypeOK, ConnTypeOK, NoFdLeak, InInbox, Owner
<1> SUFFICES ASSUME NEW f \in Fds, fds'[f] # None PROVE InInbox(f)' \/ Owner(f)'
    BY DEF NoFdLeak, InInbox, Owner
<1>1. CASE Quiet
    BY <1>0, <1>1 DEF Quiet, SameShape, InInbox, Owner, Live
<1>2. ASSUME NEW c \in Clients, NEW fd \in Fds, NEW w \in Workers, Accepts(c, fd, w)
      PROVE  InInbox(f)' \/ Owner(f)'
    <2>0. inbox' = [inbox EXCEPT ![w] = Append(@, fd)]  BY <1>2 DEF Accepts
    <2>1. /\ \A v \in Workers : v # w => inbox'[v] = inbox[v]
          /\ \A i \in DOMAIN inbox[w] : i \in DOMAIN inbox'[w] /\ inbox'[w][i] = inbox[w][i]
          /\ \E i \in DOMAIN inbox'[w] : inbox'[w][i] = fd
        <3>1. \A v \in Workers : v # w => inbox'[v] = inbox[v]  BY <2>0, AddInbox, Zenon
        <3>2. \A i \in DOMAIN inbox[w] : i \in DOMAIN inbox'[w] /\ inbox'[w][i] = inbox[w][i]
            BY <2>0, AddInbox, Zenon
        <3>3. Len(inbox[w]) + 1 \in DOMAIN inbox'[w] /\ inbox'[w][Len(inbox[w]) + 1] = fd
            BY <2>0, AddInbox, Zenon
        <3> QED  BY <3>1, <3>2, <3>3
    <2>2. objs' = objs /\ (f # fd => fds[f] = fds'[f])  BY <1>0, <1>2 DEF Accepts
    <2>3. CASE f = fd  BY <2>1, <2>3 DEF InInbox
    <2>4. CASE f # fd
        <3>1. InInbox(f) \/ Owner(f)  BY <1>0, <2>2, <2>4
        <3>2. InInbox(f) => InInbox(f)'  BY <2>1 DEF InInbox
        <3>3. Owner(f) => Owner(f)'  BY <2>2 DEF Owner
        <3> QED  BY <3>1, <3>2, <3>3
    <2> QED  BY <2>3, <2>4
<1>3. ASSUME NEW w \in Workers, NEW fd \in Fds, NEW c, Takes(w, fd, c), f # fd, InInbox(f)
      PROVE  InInbox(f)'
    BY <1>3, TakeInbox DEF InInbox
<1>4. ASSUME NEW w \in Workers, NewConn(w) PROVE InInbox(f)' \/ Owner(f)'
    <2>1. PICK fd \in Fds, c \in Clients, a \in Addrs :
             Takes(w, fd, c) /\ Creates(w, fd, c, a, TRUE) /\ UNCHANGED fds
        BY <1>4, NewConnEffect
    <2>2. CASE f = fd  BY <2>1, <2>2 DEF Creates, Owner
    <2>3. CASE f # fd
        <3>1. Owner(f) => Owner(f)'  BY <2>1 DEF Creates, Owner
        <3> QED  BY <1>0, <1>3, <2>1, <2>3, <3>1
    <2> QED  BY <2>2, <2>3
<1>5. ASSUME NEW w \in Workers, NewConnFails(w) PROVE InInbox(f)' \/ Owner(f)'
    <2>1. PICK fd \in Fds :
             /\ Takes(w, fd, fds[fd]) /\ CloseFd(fd)
             /\ UNCHANGED objs \/ \E a \in Addrs : Creates(w, fd, fds[fd], a, FALSE)
        BY <1>5, NewConnFailsEffect
    <2>2. f # fd /\ fds[f] = fds'[f]  BY <1>0, <2>1 DEF CloseFd
    <2>3. Owner(f) => Owner(f)'  BY <2>1 DEF Creates, Owner
    <2> QED  BY <1>0, <1>3, <2>1, <2>2, <2>3
<1>6. ASSUME NEW w \in Workers, NEW a \in Addrs, Begins(w, a) PROVE InInbox(f)' \/ Owner(f)'
    <2>1. UNCHANGED <<objs, inbox>> /\ CloseFd(objs[a].fd)  BY <1>6 DEF Begins, BeginClose
    <2>2. fds[f] = fds'[f] \/ fds'[f] = None  BY <1>0, <2>1 DEF CloseFd
    <2> QED  BY <1>0, <2>1, <2>2 DEF InInbox, Owner
<1>7. ASSUME NEW w \in Workers, EndClose(w) PROVE InInbox(f)' \/ Owner(f)'
    <2>1. PICK a \in Addrs :
             /\ objs' = [objs EXCEPT ![a] = None] /\ CloseFd(objs[a].fd) /\ UNCHANGED inbox
        BY <1>7, EndCloseEffect
    <2>2. f # objs[a].fd /\ fds[f] = fds'[f]  BY <1>0, <2>1 DEF CloseFd
    <2>3. Owner(f) => Owner(f)'  BY <1>0, <2>1, <2>2 DEF Owner
    <2>4. InInbox(f) => InInbox(f)'  BY <2>1 DEF InInbox
    <2> QED  BY <1>0, <2>2, <2>3, <2>4
<1> QED  BY <1>1, <1>2, <1>4, <1>5, <1>6, <1>7, StepKinds

(***************************************************************************)
(* What holds as long as no close() has hit a stranger's descriptor.       *)
(***************************************************************************)

\* A live object is in the table, and its descriptor is its client's until the
\* worker begins to close it.
Held == \A a \in Addrs : Live(a) => conns[objs[a].worker][objs[a].fd] = a

Owned ==
    \A a \in Addrs : Live(a) /\ closing[objs[a].worker] # a => fds[objs[a].fd] = objs[a].client

\* A client has one object and one descriptor at most, and neither while it
\* waits to be accepted.
OneObject ==
    \A a, b \in Addrs : Live(a) /\ Live(b) /\ objs[a].client = objs[b].client => a = b

OneFd == \A f, g \in Fds : fds[f] # None /\ fds[f] = fds[g] => f = g

Fresh ==
    \A c \in backlog : /\ \A f \in Fds : fds[f] # c
                       /\ \A a \in Addrs : Live(a) => objs[a].client # c

\* A descriptor on its way to a worker is open, its client has no object yet,
\* and it is on its way once.
Unclaimed ==
    \A w \in Workers : \A i \in DOMAIN inbox[w] :
        /\ fds[inbox[w][i]] # None
        /\ \A a \in Addrs : Live(a) => objs[a].client # fds[inbox[w][i]]

HandedOnce ==
    \A v, w \in Workers : \A i \in DOMAIN inbox[v], j \in DOMAIN inbox[w] :
        inbox[v][i] = inbox[w][j] => v = w /\ i = j

Tidy == Held /\ Owned /\ OneObject /\ OneFd /\ Fresh /\ Unclaimed /\ HandedOnce

Sound == ~stray => Tidy

\* The fields of a live object.
LEMMA LiveFields ==
  ASSUME Core, NEW a \in Addrs, Live(a)
  PROVE  /\ objs[a].worker \in Workers /\ objs[a].fd \in Fds
         /\ objs[a].client \in Clients /\ objs[a].client # None /\ a # None
  BY ConstantsAssumption DEF Core, TypeOK, ConnTypeOK, TcpConnection, Live

\* An inbox holds descriptors.
LEMMA InboxFds ==
  ASSUME Core, NEW w \in Workers, NEW i \in DOMAIN inbox[w]
  PROVE  inbox[w][i] \in Fds
<1>1. inbox[w] \in Seq(Fds)  BY DEF Core, TypeOK, ConnTypeOK
<1> QED  BY <1>1, LenProperties, ElementOfSeq

\* A descriptor that has been taken is in no inbox any more.
LEMMA TakeOnce ==
  ASSUME Core, HandedOnce, NEW w \in Workers, NEW fd, NEW c, Takes(w, fd, c)
  PROVE  /\ \A v \in Workers : \A i \in DOMAIN inbox'[v] :
               /\ inbox'[v][i] # fd
               /\ \E j \in DOMAIN inbox[v] : inbox'[v][i] = inbox[v][j]
         /\ HandedOnce'
<1>1. /\ 1 \in DOMAIN inbox[w] /\ inbox[w][1] = fd
      /\ \A v \in Workers : v # w => inbox'[v] = inbox[v]
      /\ \A i \in DOMAIN inbox'[w] :
            i \in Nat \ {0} /\ i + 1 \in DOMAIN inbox[w] /\ inbox'[w][i] = inbox[w][i + 1]
    BY TakeInbox
<1>2. ASSUME NEW v \in Workers, NEW i \in DOMAIN inbox'[v]
      PROVE  inbox'[v][i] # fd /\ \E j \in DOMAIN inbox[v] : inbox'[v][i] = inbox[v][j]
    <2>1. CASE v = w
        <3>1. i \in Nat \ {0} /\ i + 1 \in DOMAIN inbox[w] /\ inbox'[w][i] = inbox[w][i + 1]
            BY <1>1, <2>1
        <3>2. i + 1 # 1  BY <3>1
        <3> QED  BY <1>1, <2>1, <3>1, <3>2 DEF HandedOnce
    <2>2. CASE v # w  BY <1>1, <2>2 DEF HandedOnce
    <2> QED  BY <2>1, <2>2
<1>3. HandedOnce'
    <2> SUFFICES ASSUME NEW u \in Workers, NEW v \in Workers,
                        NEW i \in DOMAIN inbox'[u], NEW j \in DOMAIN inbox'[v],
                        inbox'[u][i] = inbox'[v][j]
                 PROVE  u = v /\ i = j
        BY DEF HandedOnce
    <2>1. CASE u = w /\ v = w
        <3>1. /\ i \in Nat /\ i + 1 \in DOMAIN inbox[w] /\ inbox'[w][i] = inbox[w][i + 1]
              /\ j \in Nat /\ j + 1 \in DOMAIN inbox[w] /\ inbox'[w][j] = inbox[w][j + 1]
            BY <1>1, <2>1
        <3>2. i + 1 = j + 1  BY <2>1, <3>1 DEF HandedOnce
        <3> QED  BY <2>1, <3>1, <3>2
    <2>2. CASE u # w /\ v # w  BY <1>1, <2>2 DEF HandedOnce
    <2>3. CASE u = w /\ v # w
        <3>1. i + 1 \in DOMAIN inbox[w] /\ inbox'[w][i] = inbox[w][i + 1] /\ inbox'[v] = inbox[v]
            BY <1>1, <2>3
        <3> QED  BY <2>3, <3>1 DEF HandedOnce
    <2>4. CASE u # w /\ v = w
        <3>1. j + 1 \in DOMAIN inbox[w] /\ inbox'[w][j] = inbox[w][j + 1] /\ inbox'[u] = inbox[u]
            BY <1>1, <2>4
        <3> QED  BY <2>4, <3>1 DEF HandedOnce
    <2> QED  BY <2>1, <2>2, <2>3, <2>4
<1> QED  BY <1>2, <1>3

\* accept() hands out a descriptor that nobody holds.
LEMMA TidyAccepts ==
  ASSUME Core, Tidy, NEW c \in Clients, NEW fd \in Fds, NEW w \in Workers, Accepts(c, fd, w)
  PROVE  Tidy'
<1>0. fds \in [Fds -> Clients \union {None}]  BY DEF Core, TypeOK, ConnTypeOK
<1>1. /\ c \in backlog /\ fds[fd] = None /\ fds' = [fds EXCEPT ![fd] = c]
      /\ inbox' = [inbox EXCEPT ![w] = Append(@, fd)]
      /\ backlog' = backlog \ {c} /\ conns' = conns /\ objs' = objs /\ closing' = closing
    BY DEF Accepts
<1>2. fds'[fd] = c /\ \A f \in Fds : f # fd => fds'[f] = fds[f]  BY <1>0, <1>1
<1>3. Held' /\ OneObject'  BY <1>1 DEF Tidy, Held, OneObject, Live
<1>4. Owned'
    <2> SUFFICES ASSUME NEW a \in Addrs, Live(a), closing[objs[a].worker] # a
                 PROVE  fds'[objs[a].fd] = objs[a].client
        BY <1>1 DEF Owned, Live
    <2>1. fds[objs[a].fd] = objs[a].client  BY DEF Tidy, Owned
    <2> QED  BY <1>1, <1>2, <2>1, LiveFields
<1>5. OneFd' /\ Fresh'  BY <1>1, <1>2 DEF Tidy, OneFd, Fresh, Live
<1>6. /\ \A v \in Workers : v # w => inbox'[v] = inbox[v]
      /\ \A i \in DOMAIN inbox'[w] :
            \/ i \in DOMAIN inbox[w] /\ inbox'[w][i] = inbox[w][i]
            \/ i = Len(inbox[w]) + 1 /\ inbox'[w][i] = fd
    BY <1>1, AddInbox, Zenon
<1>7. \A v \in Workers : \A i \in DOMAIN inbox[v] : inbox[v][i] \in Fds /\ inbox[v][i] # fd
    BY <1>1, InboxFds DEF Tidy, Unclaimed
<1>8. Unclaimed'
    <2> SUFFICES ASSUME NEW v \in Workers, NEW i \in DOMAIN inbox'[v]
                 PROVE  /\ fds'[inbox'[v][i]] # None
                        /\ \A a \in Addrs : Live(a) => objs[a].client # fds'[inbox'[v][i]]
        BY <1>1 DEF Unclaimed, Live
    <2>1. CASE i \in DOMAIN inbox[v] /\ inbox'[v][i] = inbox[v][i]
        BY <1>2, <1>7, <2>1 DEF Tidy, Unclaimed
    <2>2. CASE inbox'[v][i] = fd
        BY <1>1, <1>2, <2>2, ConstantsAssumption DEF Tidy, Fresh
    <2> QED  BY <1>6, <2>1, <2>2
<1>9. HandedOnce'
    <2> SUFFICES ASSUME NEW u \in Workers, NEW v \in Workers,
                        NEW i \in DOMAIN inbox'[u], NEW j \in DOMAIN inbox'[v],
                        inbox'[u][i] = inbox'[v][j]
                 PROVE  u = v /\ i = j
        BY DEF HandedOnce
    <2>1. \/ i \in DOMAIN inbox[u] /\ inbox'[u][i] = inbox[u][i]
          \/ u = w /\ i = Len(inbox[w]) + 1 /\ inbox'[u][i] = fd
        BY <1>6
    <2>2. \/ j \in DOMAIN inbox[v] /\ inbox'[v][j] = inbox[v][j]
          \/ v = w /\ j = Len(inbox[w]) + 1 /\ inbox'[v][j] = fd
        BY <1>6
    <2> QED  BY <1>7, <2>1, <2>2 DEF Tidy, HandedOnce
<1> QED  BY <1>3, <1>4, <1>5, <1>8, <1>9 DEF Tidy

\* A worker turns a descriptor of its inbox into an object of the table.
LEMMA TidyNewConn ==
  ASSUME Core, Tidy, NEW w \in Workers, NewConn(w)
  PROVE  Tidy'
<1>0. conns \in [Workers -> [Fds -> Addrs \union {None}]]  BY DEF Core, TypeOK, ConnTypeOK
<1>1. PICK fd \in Fds, c \in Clients, a \in Addrs :
         /\ Takes(w, fd, c) /\ Creates(w, fd, c, a, TRUE)
         /\ conns' = [conns EXCEPT ![w][fd] = a] /\ fds' = fds
    BY NewConnEffect
<1>2. closing[w] = None /\ c = fds[fd] /\ closing' = closing /\ backlog' = backlog
    BY <1>1 DEF Takes
<1>3. /\ Live(a)' /\ ~Live(a)
      /\ objs'[a].worker = w /\ objs'[a].fd = fd /\ objs'[a].client = c
      /\ \A b \in Addrs : b # a => objs'[b] = objs[b] /\ (Live(b)' <=> Live(b))
    BY <1>1 DEF Creates, Live
<1>4. \A b \in Addrs : Live(b) => objs[b].client # c
    BY <1>1, <1>2, TakeInbox DEF Tidy, Unclaimed
<1>5. /\ \A v \in Workers : \A i \in DOMAIN inbox'[v] :
            /\ inbox'[v][i] # fd
            /\ \E j \in DOMAIN inbox[v] : inbox'[v][i] = inbox[v][j]
      /\ HandedOnce'
    BY <1>1, TakeOnce DEF Tidy
<1>6. conns'[w][fd] = a
      /\ \A v \in Workers, f \in Fds : ~(v = w /\ f = fd) => conns'[v][f] = conns[v][f]
    BY <1>0, <1>1
<1>7. Held'
    <2> SUFFICES ASSUME NEW b \in Addrs, Live(b)'
                 PROVE  conns'[objs'[b].worker][objs'[b].fd] = b
        BY DEF Held
    <2>1. CASE b = a  BY <1>3, <1>6, <2>1
    <2>2. CASE b # a
        <3>1. Live(b) /\ objs'[b] = objs[b]  BY <1>3, <2>2
        <3>2. objs[b].worker \in Workers /\ objs[b].fd \in Fds /\ b # None
            BY <3>1, LiveFields
        <3>3. ~(objs[b].worker = w /\ objs[b].fd = fd)
            BY <1>2, <1>4, <3>1, <3>2 DEF Tidy, Owned
        <3>4. conns[objs[b].worker][objs[b].fd] = b  BY <3>1 DEF Tidy, Held
        <3> QED  BY <1>6, <3>1, <3>2, <3>3, <3>4
    <2> QED  BY <2>1, <2>2
<1>8. Owned'
    <2> SUFFICES ASSUME NEW b \in Addrs, Live(b)', closing[objs'[b].worker] # b
                 PROVE  fds[objs'[b].fd] = objs'[b].client
        BY <1>1, <1>2 DEF Owned
    <2> QED  BY <1>2, <1>3 DEF Tidy, Owned
<1>9. OneObject'
    <2> SUFFICES ASSUME NEW b \in Addrs, NEW d \in Addrs, Live(b)', Live(d)',
                        objs'[b].client = objs'[d].client
                 PROVE  b = d
        BY DEF OneObject
    <2> QED  BY <1>3, <1>4 DEF Tidy, OneObject
<1>10. OneFd'  BY <1>1 DEF Tidy, OneFd
<1>11. Fresh'
    <2> SUFFICES ASSUME NEW d \in backlog
                 PROVE  /\ \A f \in Fds : fds[f] # d
                        /\ \A b \in Addrs : Live(b)' => objs'[b].client # d
        BY <1>1, <1>2 DEF Fresh
    <2> QED  BY <1>2, <1>3 DEF Tidy, Fresh
<1>12. Unclaimed'
    <2> SUFFICES ASSUME NEW v \in Workers, NEW i \in DOMAIN inbox'[v]
                 PROVE  /\ fds[inbox'[v][i]] # None
                        /\ \A b \in Addrs : Live(b)' => objs'[b].client # fds[inbox'[v][i]]
        BY <1>1 DEF Unclaimed
    <2>1. PICK j \in DOMAIN inbox[v] : inbox'[v][i] = inbox[v][j] /\ inbox[v][j] # fd
        BY <1>5
    <2>2. inbox[v][j] \in Fds  BY InboxFds
    <2>3. fds[inbox[v][j]] # None /\ \A b \in Addrs : Live(b) => objs[b].client # fds[inbox[v][j]]
        BY DEF Tidy, Unclaimed
    <2>4. fds[inbox[v][j]] # c  BY <1>2, <2>1, <2>2, <2>3 DEF Tidy, OneFd
    <2> QED  BY <1>3, <2>1, <2>3, <2>4
<1> QED  BY <1>5, <1>7, <1>8, <1>9, <1>10, <1>11, <1>12 DEF Tidy

\* A worker closes a descriptor of its inbox; the object it may leave behind
\* owns nothing.
LEMMA TidyNewConnFails ==
  ASSUME Core, Tidy, NEW w \in Workers, NewConnFails(w)
  PROVE  Tidy'
<1>0. fds \in [Fds -> Clients \union {None}]  BY DEF Core, TypeOK, ConnTypeOK
<1>1. PICK fd \in Fds :
         /\ Takes(w, fd, fds[fd]) /\ CloseFd(fd)
         /\ UNCHANGED objs \/ \E a \in Addrs : Creates(w, fd, fds[fd], a, FALSE)
         /\ conns' = conns
    BY NewConnFailsEffect
<1>2. closing' = closing /\ backlog' = backlog  BY <1>1 DEF Takes
<1>3. fds'[fd] = None /\ \A f \in Fds : f # fd => fds'[f] = fds[f]
    BY <1>0, <1>1 DEF CloseFd
<1>4. \A b \in Addrs : (Live(b)' <=> Live(b)) /\ (Live(b) => objs'[b] = objs[b])
    BY <1>1 DEF Creates, Live
<1>5. \A b \in Addrs : Live(b) => objs[b].client # fds[fd]
    BY <1>1, TakeInbox DEF Tidy, Unclaimed
<1>6. /\ \A v \in Workers : \A i \in DOMAIN inbox'[v] :
            /\ inbox'[v][i] # fd
            /\ \E j \in DOMAIN inbox[v] : inbox'[v][i] = inbox[v][j]
      /\ HandedOnce'
    BY <1>1, TakeOnce DEF Tidy
<1>7. Held'  BY <1>1, <1>4 DEF Tidy, Held
<1>8. Owned'
    <2> SUFFICES ASSUME NEW b \in Addrs, Live(b), closing[objs[b].worker] # b
                 PROVE  fds'[objs[b].fd] = objs[b].client
        BY <1>2, <1>4 DEF Owned
    <2>1. fds[objs[b].fd] = objs[b].client  BY DEF Tidy, Owned
    <2> QED  BY <1>3, <1>5, <2>1, LiveFields
<1>9. OneObject'  BY <1>4 DEF Tidy, OneObject
<1>10. OneFd'  BY <1>3 DEF Tidy, OneFd
<1>11. Fresh'
    <2> SUFFICES ASSUME NEW d \in backlog
                 PROVE  /\ \A f \in Fds : fds'[f] # d
                        /\ \A b \in Addrs : Live(b) => objs[b].client # d
        BY <1>2, <1>4 DEF Fresh
    <2>1. d # None  BY ConstantsAssumption DEF Core, TypeOK, ClientTypeOK
    <2> QED  BY <1>3, <2>1 DEF Tidy, Fresh
<1>12. Unclaimed'
    <2> SUFFICES ASSUME NEW v \in Workers, NEW i \in DOMAIN inbox'[v]
                 PROVE  /\ fds'[inbox'[v][i]] # None
                        /\ \A b \in Addrs : Live(b) => objs[b].client # fds'[inbox'[v][i]]
        BY <1>4 DEF Unclaimed
    <2>1. PICK j \in DOMAIN inbox[v] : inbox'[v][i] = inbox[v][j] /\ inbox[v][j] # fd
        BY <1>6
    <2>2. fds'[inbox[v][j]] = fds[inbox[v][j]]  BY <1>3, <2>1, InboxFds
    <2> QED  BY <2>1, <2>2 DEF Tidy, Unclaimed
<1> QED  BY <1>6, <1>7, <1>8, <1>9, <1>10, <1>11, <1>12 DEF Tidy

\* The first close() returns the object's own descriptor.
LEMMA TidyBegins ==
  ASSUME Core, Tidy, NEW w \in Workers, NEW a \in Addrs, Begins(w, a)
  PROVE  Tidy'
<1>0. fds \in [Fds -> Clients \union {None}] /\ closing \in [Workers -> Addrs \union {None}]
    BY DEF Core, TypeOK, ConnTypeOK
<1>1. /\ Live(a) /\ objs[a].worker = w /\ closing[w] = None
      /\ closing' = [closing EXCEPT ![w] = a] /\ CloseFd(objs[a].fd)
      /\ conns' = conns /\ objs' = objs /\ inbox' = inbox /\ backlog' = backlog
    BY DEF Begins, BeginClose
<1>2. PICK fd \in Fds : fd = objs[a].fd  BY <1>1, LiveFields
<1>3. fds[fd] = objs[a].client /\ objs[a].client # None /\ a # None
    BY <1>1, <1>2, LiveFields DEF Tidy, Owned
<1>4. fds'[fd] = None /\ \A f \in Fds : f # fd => fds'[f] = fds[f]
    BY <1>0, <1>1, <1>2 DEF CloseFd
<1>5. closing'[w] = a /\ \A v \in Workers : v # w => closing'[v] = closing[v]
    BY <1>0, <1>1
<1>6. Held' /\ OneObject' /\ HandedOnce'
    BY <1>1 DEF Tidy, Held, OneObject, HandedOnce, Live
<1>7. Owned'
    <2> SUFFICES ASSUME NEW b \in Addrs, Live(b), closing'[objs[b].worker] # b
                 PROVE  fds'[objs[b].fd] = objs[b].client
        BY <1>1 DEF Owned, Live
    <2>1. b # a  BY <1>1, <1>5
    <2>2. objs[b].worker \in Workers /\ objs[b].fd \in Fds /\ b # None  BY LiveFields
    <2>3. closing[objs[b].worker] # b  BY <1>1, <1>5, <2>2
    <2>4. fds[objs[b].fd] = objs[b].client  BY <2>3 DEF Tidy, Owned
    <2>5. objs[b].fd # fd  BY <1>1, <1>3, <2>1, <2>4 DEF Tidy, OneObject
    <2> QED  BY <1>4, <2>2, <2>4, <2>5
<1>8. OneFd'  BY <1>4 DEF Tidy, OneFd
<1>9. Fresh'
    <2> SUFFICES ASSUME NEW d \in backlog
                 PROVE  /\ \A f \in Fds : fds'[f] # d
                        /\ \A b \in Addrs : Live(b) => objs[b].client # d
        BY <1>1 DEF Fresh, Live
    <2>1. d # None  BY ConstantsAssumption DEF Core, TypeOK, ClientTypeOK
    <2> QED  BY <1>4, <2>1 DEF Tidy, Fresh
<1>10. Unclaimed'
    <2> SUFFICES ASSUME NEW v \in Workers, NEW i \in DOMAIN inbox[v]
                 PROVE  /\ fds'[inbox[v][i]] # None
                        /\ \A b \in Addrs : Live(b) => objs[b].client # fds'[inbox[v][i]]
        BY <1>1 DEF Unclaimed, Live
    <2>1. inbox[v][i] # fd  BY <1>1, <1>3 DEF Tidy, Unclaimed
    <2>2. fds'[inbox[v][i]] = fds[inbox[v][i]]  BY <1>4, <2>1, InboxFds
    <2> QED  BY <2>2 DEF Tidy, Unclaimed
<1> QED  BY <1>6, <1>7, <1>8, <1>9, <1>10 DEF Tidy

\* The second close() hits nobody, unless it is a stray one.
LEMMA TidyEndClose ==
  ASSUME Core, Tidy, NEW w \in Workers, EndClose(w), ~stray'
  PROVE  Tidy'
<1>0. /\ fds \in [Fds -> Clients \union {None}] /\ closing \in [Workers -> Addrs \union {None}]
      /\ objs \in [Addrs -> TcpConnection \union {None}]
      /\ conns \in [Workers -> [Fds -> Addrs \union {None}]]
    BY DEF Core, TypeOK, ConnTypeOK
<1>1. PICK a \in Addrs :
         /\ a = closing[w] /\ Live(a) /\ objs[a].worker = w /\ objs[a].fd \in Fds
         /\ closing' = [closing EXCEPT ![w] = None]
         /\ conns' = [conns EXCEPT ![w][objs[a].fd] = None]
         /\ objs' = [objs EXCEPT ![a] = None]
         /\ CloseFd(objs[a].fd) /\ stray' = (stray \/ IsStray(objs[a]))
         /\ UNCHANGED <<inbox, backlog>>
    BY EndCloseEffect
<1>2. PICK fd \in Fds : fd = objs[a].fd  BY <1>1
<1>3. ~IsStray(objs[a])  BY <1>1, Zenon
<1>4. fds[fd] \in {None, objs[a].client}  BY <1>2, <1>3 DEF IsStray
<1>5. fds'[fd] = None /\ \A f \in Fds : f # fd => fds'[f] = fds[f]
    BY <1>0, <1>1, <1>2 DEF CloseFd
<1>6. /\ ~Live(a)'
      /\ \A b \in Addrs : b # a => objs'[b] = objs[b] /\ (Live(b)' <=> Live(b))
    BY <1>0, <1>1 DEF Live
<1>7. inbox' = inbox /\ backlog' = backlog  BY <1>1
<1>8. Held'
    <2> SUFFICES ASSUME NEW b \in Addrs, Live(b), b # a
                 PROVE  conns'[objs[b].worker][objs[b].fd] = b
        BY <1>6 DEF Held
    <2>1. conns[objs[b].worker][objs[b].fd] = b /\ conns[w][fd] = a
        BY <1>1, <1>2 DEF Tidy, Held
    <2>2. objs[b].worker \in Workers /\ objs[b].fd \in Fds  BY LiveFields
    <2>3. ~(objs[b].worker = w /\ objs[b].fd = fd)  BY <2>1
    <2> QED  BY <1>0, <1>1, <1>2, <2>1, <2>2, <2>3
<1>9. Owned'
    <2> SUFFICES ASSUME NEW b \in Addrs, Live(b), b # a, closing'[objs[b].worker] # b
                 PROVE  fds'[objs[b].fd] = objs[b].client
        BY <1>6 DEF Owned
    <2>1. objs[b].worker \in Workers /\ objs[b].fd \in Fds /\ objs[b].client # None
        BY LiveFields
    <2>2. closing[objs[b].worker] # b  BY <1>0, <1>1, <2>1
    <2>3. fds[objs[b].fd] = objs[b].client  BY <2>2 DEF Tidy, Owned
    <2>4. objs[b].client # objs[a].client  BY <1>1 DEF Tidy, OneObject
    <2> QED  BY <1>4, <1>5, <2>1, <2>3, <2>4
<1>10. OneObject'
    <2> SUFFICES ASSUME NEW b \in Addrs, NEW d \in Addrs, b # a, d # a, Live(b), Live(d),
                        objs[b].client = objs[d].client
                 PROVE  b = d
        BY <1>6 DEF OneObject
    <2> QED  BY DEF Tidy, OneObject
<1>11. OneFd'  BY <1>5 DEF Tidy, OneFd
<1>12. Fresh'
    <2> SUFFICES ASSUME NEW d \in backlog
                 PROVE  /\ \A f \in Fds : fds'[f] # d
                        /\ \A b \in Addrs : b # a /\ Live(b) => objs[b].client # d
        BY <1>6, <1>7 DEF Fresh
    <2>1. d # None  BY ConstantsAssumption DEF Core, TypeOK, ClientTypeOK
    <2> QED  BY <1>5, <2>1 DEF Tidy, Fresh
<1>13. Unclaimed'
    <2> SUFFICES ASSUME NEW v \in Workers, NEW i \in DOMAIN inbox[v]
                 PROVE  /\ fds'[inbox[v][i]] # None
                        /\ \A b \in Addrs :
                              b # a /\ Live(b) => objs[b].client # fds'[inbox[v][i]]
        BY <1>6, <1>7 DEF Unclaimed
    <2>1. inbox[v][i] # fd  BY <1>1, <1>4 DEF Tidy, Unclaimed
    <2>2. fds'[inbox[v][i]] = fds[inbox[v][i]]  BY <1>5, <2>1, InboxFds
    <2> QED  BY <2>2 DEF Tidy, Unclaimed
<1>14. HandedOnce'  BY <1>7 DEF Tidy, HandedOnce
<1> QED  BY <1>8, <1>9, <1>10, <1>11, <1>12, <1>13, <1>14 DEF Tidy

\* Steps that open and close nothing.
LEMMA TidyQuiet ==
  ASSUME Core, Tidy, Quiet
  PROVE  Tidy'
<1>1. /\ conns' = conns /\ closing' = closing /\ fds' = fds /\ inbox' = inbox
      /\ backlog' = backlog
    BY DEF Quiet
<1>2. \A a \in Addrs :
         /\ Live(a)' <=> Live(a)
         /\ Live(a) => /\ objs'[a].worker = objs[a].worker /\ objs'[a].fd = objs[a].fd
                       /\ objs'[a].client = objs[a].client
    BY DEF Quiet, SameShape, Live
<1>3. Held'  BY <1>1, <1>2 DEF Tidy, Held
<1>4. Owned'  BY <1>1, <1>2 DEF Tidy, Owned
<1>5. OneObject'  BY <1>2 DEF Tidy, OneObject
<1>6. OneFd'  BY <1>1 DEF Tidy, OneFd
<1>7. Fresh'  BY <1>1, <1>2 DEF Tidy, Fresh
<1>8. Unclaimed'  BY <1>1, <1>2 DEF Tidy, Unclaimed
<1>9. HandedOnce'  BY <1>1 DEF Tidy, HandedOnce
<1> QED  BY <1>3, <1>4, <1>5, <1>6, <1>7, <1>8, <1>9 DEF Tidy

\* A stray close() is never forgotten.
LEMMA StrayStays ==
  ASSUME [Next]_vars, ~stray'
  PROVE  ~stray
  BY Flags, Zenon DEF BeginClose, Delete

\* Every step without a stray close() keeps connections and descriptors tidy.
LEMMA SoundStep ==
  ASSUME Core, Sound, [Next]_vars
  PROVE  Sound'
<1> SUFFICES ASSUME ~stray' PROVE Tidy'
    BY DEF Sound
<1>1. Tidy  BY StrayStays DEF Sound
<1> QED  BY <1>1, StepKinds, TidyQuiet, TidyAccepts, TidyNewConn, TidyNewConnFails,
            TidyBegins, TidyEndClose, Zenon

(***************************************************************************)
(* What holds as long as, moreover, no address has been reused under a     *)
(* message.                                                                *)
(***************************************************************************)

\* If the object a message names is live, it is the one the request came from.
Addressed ==
    \A c \in Clients : InFlight(c) /\ Live(msg[c].conn) =>
        objs[msg[c].conn].client = c /\ objs[msg[c].conn].asked

\* Answers are queued on live objects, each on that of its client.
Queued ==
    \A a \in Addrs : objs[a] # None /\ objs[a].replies # {} =>
        objs[a].timer /\ objs[a].asked /\ objs[a].replies = {objs[a].client}

Received == \A c \in Clients : got[c] \subseteq {c}

Clean == Addressed /\ Queued /\ Received

Answers == ~stray /\ ~reused => Clean

\* The address a message in flight remembers.
LEMMA MsgAddr ==
  ASSUME Core, NEW c \in Clients, InFlight(c)
  PROVE  msg[c].conn \in Addrs
  BY DEF Core, Asked, MsgConn

\* Which steps change objects or give a client something.
LEMMA AnswerKinds ==
  ASSUME Core, [Next]_vars
  PROVE  \/ UNCHANGED <<objs, got>>
         \/ \E w \in Workers : NewConn(w) \/ NewConnFails(w) \/ EndClose(w)
         \/ \E w \in Workers, c \in Clients : Deliver(w, c)
         \/ \E w \in Workers, fd \in Fds : ReadPush(w, fd) \/ ReadIgnored(w, fd) \/ Write(w, fd)
<1> USE DEF kernelVars, clientVars, acceptVars, backendVars, connVars, holdVars
<1>1. ASSUME NEW c \in Clients, Client(c) \/ Accept(c) \/ BackendStep(c)
      PROVE  UNCHANGED <<objs, got>>
    BY <1>1 DEF Client, Send, HangUp, Accept, BackendStep
<1>2. ASSUME AcceptFails \/ UNCHANGED vars \/ Disturbance PROVE UNCHANGED <<objs, got>>
    BY <1>2, OnlyDisturbed DEF AcceptFails, vars
<1>3. ASSUME NEW w \in Workers, NEW fd \in Fds, ReadFails(w, fd) \/ WriteFails(w, fd)
      PROVE  UNCHANGED <<objs, got>>
    BY <1>3 DEF ReadFails, WriteFails
<1>4. ASSUME NEW w \in Workers, NEW a \in Addrs, Timeout(w, a) PROVE UNCHANGED <<objs, got>>
    BY <1>4 DEF Timeout
<1> QED  BY <1>1, <1>2, <1>3, <1>4, Zenon DEF Next, Event

\* A step that changes no object and sends no message; objects may go, and new
\* ones appear without an answer and at an address no live message refers to.
LEMMA CleanKept ==
  ASSUME Core, Clean, UNCHANGED <<msg, got>>,
         \A c \in Clients : InFlight(c)' => InFlight(c),
         \A a \in Addrs :
            \/ objs'[a] = None \/ objs'[a] = objs[a]
            \/ /\ objs'[a].replies = {}
               /\ objs'[a].timer => \A c \in Clients : InFlight(c) => msg[c].conn # a
  PROVE  Clean'
<1>1. Addressed'
    <2> SUFFICES ASSUME NEW c \in Clients, InFlight(c), Live(msg[c].conn)'
                 PROVE  objs'[msg[c].conn].client = c /\ objs'[msg[c].conn].asked
        BY DEF Addressed
    <2>1. PICK a \in Addrs : a = msg[c].conn  BY MsgAddr
    <2>2. objs'[a] # None /\ objs'[a].timer  BY <2>1 DEF Live
    <2>3. objs'[a] = objs[a]  BY <2>1, <2>2
    <2> QED  BY <2>1, <2>2, <2>3 DEF Clean, Addressed, Live
<1>2. Queued'  BY DEF Clean, Queued
<1>3. Received'  BY DEF Clean, Received
<1> QED  BY <1>1, <1>2, <1>3 DEF Clean

\* The connection in the table under an open descriptor is that of its client.
LEMMA TableClient ==
  ASSUME Core, Tidy, NEW w \in Workers, NEW fd \in Fds, Ready(w, fd)
  PROVE  \E a \in Addrs :
            /\ a = conns[w][fd] /\ objs[a] \in TcpConnection /\ Live(a)
            /\ fds[fd] = objs[a].client
<1>1. PICK a \in Addrs : a = conns[w][fd] /\ objs[a] \in TcpConnection
    BY Entry DEF Ready
<1>2. Live(a) /\ objs[a].worker = w /\ objs[a].fd = fd
    BY <1>1 DEF Ready, Core, Linked
<1>3. closing[w] # a  BY <1>2, LiveFields DEF Ready, idle
<1> QED  BY <1>1, <1>2, <1>3 DEF Tidy, Owned

\* A request is read from its own client's connection, before any other.
LEMMA CleanReadPush ==
  ASSUME Core, Tidy, Clean, NEW w \in Workers, NEW fd \in Fds, ReadPush(w, fd)
  PROVE  Clean'
<1>0. /\ objs \in [Addrs -> TcpConnection \union {None}]
      /\ msg \in [Clients -> MsgConn \union {None}] /\ status \in [Clients -> Rtc!Statuses]
    BY DEF Core, TypeOK, ConnTypeOK, MsgTypeOK
<1>1. PICK a \in Addrs :
         /\ a = conns[w][fd] /\ objs[a] \in TcpConnection /\ Live(a)
         /\ fds[fd] = objs[a].client
    BY TableClient DEF ReadPush
<1>2. PICK c \in Clients : c = objs[a].client  BY <1>1 DEF TcpConnection
<1>3. /\ ~objs[a].asked /\ objs' = [objs EXCEPT ![a].asked = TRUE]
      /\ msg' = [msg EXCEPT ![c] = [conn |-> a, fd |-> fd]]
      /\ status' = [status EXCEPT ![c] = "pending"] /\ got' = got
    BY <1>1, <1>2 DEF ReadPush, Rtc!Submit
<1>4. /\ objs'[a].asked /\ objs'[a].client = c /\ objs'[a].replies = objs[a].replies
      /\ \A b \in Addrs : b # a => objs'[b] = objs[b]
    BY <1>0, <1>1, <1>2, <1>3 DEF TcpConnection
<1>5. objs[a].replies = {}  BY <1>1, <1>3 DEF Clean, Queued, Live
<1>6. Addressed'
    <2> SUFFICES ASSUME NEW d \in Clients, InFlight(d)', Live(msg[d].conn)'
                 PROVE  objs'[msg'[d].conn].client = d /\ objs'[msg'[d].conn].asked
        BY DEF Addressed
    <2>1. CASE d = c
        <3>1. msg'[d].conn = a  BY <1>0, <1>3, <2>1
        <3> QED  BY <1>4, <2>1, <3>1
    <2>2. CASE d # c
        <3>1. msg'[d] = msg[d] /\ InFlight(d)  BY <1>0, <1>3, <2>2 DEF InFlight
        <3>2. PICK b \in Addrs : b = msg[d].conn  BY <3>1, MsgAddr
        <3>3. b # a  BY <1>1, <1>3, <3>1, <3>2 DEF Clean, Addressed
        <3>4. Live(b)  BY <1>4, <3>1, <3>2, <3>3 DEF Live
        <3> QED  BY <1>4, <3>1, <3>2, <3>3, <3>4 DEF Clean, Addressed
    <2> QED  BY <2>1, <2>2
<1>7. Queued'
    <2> SUFFICES ASSUME NEW b \in Addrs, objs'[b] # None, objs'[b].replies # {}
                 PROVE  /\ objs'[b].timer /\ objs'[b].asked
                        /\ objs'[b].replies = {objs'[b].client}
        BY DEF Queued
    <2>1. b # a /\ objs'[b] = objs[b]  BY <1>4, <1>5
    <2> QED  BY <2>1 DEF Clean, Queued
<1>8. Received'  BY <1>3 DEF Clean, Received
<1> QED  BY <1>6, <1>7, <1>8 DEF Clean

\* Reading something else only marks the connection.
LEMMA CleanReadIgnored ==
  ASSUME Core, Tidy, Clean, NEW w \in Workers, NEW fd \in Fds, ReadIgnored(w, fd)
  PROVE  Clean'
<1>0. objs \in [Addrs -> TcpConnection \union {None}]  BY DEF Core, TypeOK, ConnTypeOK
<1>1. PICK a \in Addrs : a = conns[w][fd] /\ objs[a] \in TcpConnection /\ Live(a)
    BY TableClient DEF ReadIgnored
<1>2. objs' = [objs EXCEPT ![a].asked = TRUE] /\ msg' = msg /\ status' = status /\ got' = got
    BY <1>1 DEF ReadIgnored, backendVars
<1>3. /\ objs'[a].asked /\ objs'[a].client = objs[a].client
      /\ objs'[a].replies = objs[a].replies /\ objs'[a].timer = objs[a].timer
      /\ \A b \in Addrs : b # a => objs'[b] = objs[b]
    BY <1>0, <1>1, <1>2 DEF TcpConnection
<1>4. Addressed'
    <2> SUFFICES ASSUME NEW c \in Clients, InFlight(c), Live(msg[c].conn)'
                 PROVE  objs'[msg[c].conn].client = c /\ objs'[msg[c].conn].asked
        BY <1>2 DEF Addressed, InFlight
    <2>1. PICK b \in Addrs : b = msg[c].conn  BY MsgAddr
    <2>2. Live(b)  BY <1>1, <1>2, <1>3, <2>1 DEF Live
    <2> QED  BY <1>3, <2>1, <2>2 DEF Clean, Addressed
<1>5. Queued'
    <2> SUFFICES ASSUME NEW b \in Addrs, objs'[b] # None, objs'[b].replies # {}
                 PROVE  /\ objs'[b].timer /\ objs'[b].asked
                        /\ objs'[b].replies = {objs'[b].client}
        BY DEF Queued
    <2>1. CASE b = a  BY <1>1, <1>3, <2>1 DEF Clean, Queued, Live
    <2>2. CASE b # a  BY <1>3, <2>2 DEF Clean, Queued
    <2> QED  BY <2>1, <2>2
<1>6. Received'  BY <1>2 DEF Clean, Received
<1> QED  BY <1>4, <1>5, <1>6 DEF Clean

\* An answer is queued on the connection of the client that asked.
LEMMA CleanDeliver ==
  ASSUME Core, Clean, NEW w \in Workers, NEW c \in Clients, Deliver(w, c)
  PROVE  Clean'
<1>0. objs \in [Addrs -> TcpConnection \union {None}] /\ status \in [Clients -> Rtc!Statuses]
    BY DEF Core, TypeOK, ConnTypeOK, MsgTypeOK
<1>1. /\ status[c] = "answered" /\ msg' = msg /\ got' = got
      /\ status' = [status EXCEPT ![c] = "delivered"]
    BY DeliverEffect
<1>2. \A d \in Clients : InFlight(d)' => InFlight(d)  BY <1>0, <1>1 DEF InFlight
<1>3. CASE UNCHANGED objs  BY <1>1, <1>2, <1>3, CleanKept
<1>4. ASSUME NEW fd \in Fds, NEW a \in Addrs, msg[c].conn = a, conns[w][fd] = a,
             objs[a] \in TcpConnection, objs' = [objs EXCEPT ![a].replies = @ \union {c}]
      PROVE  Clean'
    <2>1. Live(a)  BY <1>4, ConstantsAssumption DEF Core, Linked
    <2>2. objs[a].client = c /\ objs[a].asked
        BY <1>1, <1>4, <2>1 DEF Clean, Addressed, InFlight
    <2>3. /\ objs'[a].asked = objs[a].asked /\ objs'[a].client = objs[a].client
          /\ objs'[a].replies = objs[a].replies \union {c} /\ objs'[a].timer = objs[a].timer
          /\ \A b \in Addrs : b # a => objs'[b] = objs[b]
        BY <1>0, <1>4 DEF TcpConnection
    <2>4. objs'[a].replies = {c}
        BY <2>1, <2>2, <2>3 DEF Clean, Queued, Live
    <2>5. Addressed'
        <3> SUFFICES ASSUME NEW d \in Clients, InFlight(d), Live(msg[d].conn)'
                     PROVE  objs'[msg[d].conn].client = d /\ objs'[msg[d].conn].asked
            BY <1>1, <1>2 DEF Addressed
        <3>1. PICK b \in Addrs : b = msg[d].conn  BY MsgAddr
        <3>2. Live(b)  BY <1>1, <2>1, <2>3, <3>1 DEF Live
        <3>3. objs[b].client = d /\ objs[b].asked  BY <3>1, <3>2 DEF Clean, Addressed
        <3> QED  BY <2>3, <3>1, <3>3
    <2>6. Queued'
        <3> SUFFICES ASSUME NEW b \in Addrs, objs'[b] # None, objs'[b].replies # {}
                     PROVE  /\ objs'[b].timer /\ objs'[b].asked
                            /\ objs'[b].replies = {objs'[b].client}
            BY DEF Queued
        <3>1. CASE b = a  BY <2>1, <2>2, <2>3, <2>4, <3>1 DEF Live
        <3>2. CASE b # a  BY <2>3, <3>2 DEF Clean, Queued
        <3> QED  BY <3>1, <3>2
    <2>7. Received'  BY <1>1 DEF Clean, Received
    <2> QED  BY <2>5, <2>6, <2>7 DEF Clean
<1> QED  BY <1>3, <1>4, DeliverEffect

\* What is queued on a connection is written to its client.
LEMMA CleanWrite ==
  ASSUME Core, Tidy, Clean, NEW w \in Workers, NEW fd \in Fds, Write(w, fd)
  PROVE  Clean'
<1>0. /\ objs \in [Addrs -> TcpConnection \union {None}]
      /\ got \in [Clients -> SUBSET Clients]
    BY DEF Core, TypeOK, ConnTypeOK, ClientTypeOK
<1>1. PICK a \in Addrs :
         /\ a = conns[w][fd] /\ objs[a] \in TcpConnection /\ Live(a)
         /\ fds[fd] = objs[a].client
    BY TableClient DEF Write
<1>2. PICK c \in Clients : c = objs[a].client  BY <1>1 DEF TcpConnection
<1>3. /\ objs[a].replies # {} /\ objs' = [objs EXCEPT ![a].replies = {}]
      /\ got' = [got EXCEPT ![c] = @ \union objs[a].replies]
      /\ msg' = msg /\ status' = status
    BY <1>1, <1>2 DEF Write, backendVars
<1>4. objs[a].replies = {c}  BY <1>1, <1>2, <1>3 DEF Clean, Queued, Live
<1>5. /\ objs'[a].asked = objs[a].asked /\ objs'[a].client = objs[a].client
      /\ objs'[a].replies = {} /\ objs'[a].timer = objs[a].timer
      /\ \A b \in Addrs : b # a => objs'[b] = objs[b]
    BY <1>0, <1>1, <1>3 DEF TcpConnection
<1>6. Addressed'
    <2> SUFFICES ASSUME NEW d \in Clients, InFlight(d), Live(msg[d].conn)'
                 PROVE  objs'[msg[d].conn].client = d /\ objs'[msg[d].conn].asked
        BY <1>3 DEF Addressed, InFlight
    <2>1. PICK b \in Addrs : b = msg[d].conn  BY MsgAddr
    <2>2. Live(b)  BY <1>1, <1>3, <1>5, <2>1 DEF Live
    <2>3. objs[b].client = d /\ objs[b].asked  BY <2>1, <2>2 DEF Clean, Addressed
    <2> QED  BY <1>5, <2>1, <2>3
<1>7. Queued'
    <2> SUFFICES ASSUME NEW b \in Addrs, objs'[b] # None, objs'[b].replies # {}
                 PROVE  /\ objs'[b].timer /\ objs'[b].asked
                        /\ objs'[b].replies = {objs'[b].client}
        BY DEF Queued
    <2>1. b # a /\ objs'[b] = objs[b]  BY <1>5
    <2> QED  BY <2>1 DEF Clean, Queued
<1>8. Received'  BY <1>0, <1>3, <1>4 DEF Clean, Received
<1> QED  BY <1>6, <1>7, <1>8 DEF Clean

\* The reuse of an address is never forgotten.
LEMMA ReusedStays ==
  ASSUME [Next]_vars, ~reused'
  PROVE  ~reused
  BY Flags, Zenon DEF NewConn

\* As long as nothing is mixed up, every step keeps answers with their clients.
LEMMA AnswersStep ==
  ASSUME Core, Sound, Answers, [Next]_vars
  PROVE  Answers'
<1> SUFFICES ASSUME ~stray', ~reused' PROVE Clean'
    BY DEF Answers
<1>1. Tidy /\ Clean  BY StrayStays, ReusedStays DEF Sound, Answers
<1>2. CASE \E w \in Workers, fd \in Fds : ReadPush(w, fd)  BY <1>1, <1>2, CleanReadPush
<1>3. ASSUME UNCHANGED msg, \A c \in Clients : InFlight(c)' => InFlight(c) PROVE Clean'
    <2>1. CASE UNCHANGED <<objs, got>>  BY <1>1, <1>3, <2>1, CleanKept
    <2>2. ASSUME NEW w \in Workers, NewConn(w) PROVE Clean'
        <3>1. PICK fd \in Fds, c \in Clients, a \in Addrs :
                 /\ Creates(w, fd, c, a, TRUE)
                 /\ reused' = (reused \/ \E d \in Clients : InFlight(d) /\ msg[d].conn = a)
                 /\ got' = got
            BY <2>2, NewConnEffect
        <3>2. \A d \in Clients : InFlight(d) => msg[d].conn # a  BY <3>1, Zenon
        <3>3. objs'[a].replies = {} /\ \A b \in Addrs : b # a => objs'[b] = objs[b]
            BY <3>1 DEF Creates
        <3> QED  BY <1>1, <1>3, <3>1, <3>2, <3>3, CleanKept
    <2>3. ASSUME NEW w \in Workers, NewConnFails(w) PROVE Clean'
        <3>1. PICK fd \in Fds :
                 /\ UNCHANGED objs \/ \E a \in Addrs : Creates(w, fd, fds[fd], a, FALSE)
                 /\ got' = got
            BY <2>3, NewConnFailsEffect
        <3>2. \A a \in Addrs : \/ objs'[a] = objs[a]
                               \/ objs'[a].replies = {} /\ ~objs'[a].timer
            BY <3>1 DEF Creates
        <3> QED  BY <1>1, <1>3, <3>1, <3>2, CleanKept
    <2>4. ASSUME NEW w \in Workers, EndClose(w) PROVE Clean'
        <3>1. PICK a \in Addrs : objs' = [objs EXCEPT ![a] = None] /\ got' = got
            BY <2>4, EndCloseEffect
        <3>2. \A b \in Addrs : objs'[b] = None \/ objs'[b] = objs[b]
            BY <3>1 DEF Core, TypeOK, ConnTypeOK
        <3> QED  BY <1>1, <1>3, <3>1, <3>2, CleanKept
    <2> QED  BY <1>1, <2>1, <2>2, <2>3, <2>4, AnswerKinds, CleanDeliver, CleanReadPush,
                CleanReadIgnored, CleanWrite, Zenon
<1> QED  BY <1>2, <1>3, MsgStep

(***************************************************************************)
(* The inductive invariant and the theorems.                               *)
(***************************************************************************)

IInv == Core /\ NoFdLeak /\ Sound /\ Answers

\* At first nothing is open, so nothing is mixed up.
LEMMA IInvInit == Init => IInv
<1> SUFFICES ASSUME Init PROVE IInv
    OBVIOUS
<1>1. Core  BY CoreInit
<1>2. NoFdLeak  BY DEF Init, NoFdLeak
<1>3. \A a \in Addrs : objs[a] = None  BY DEF Init
<1>4. Held /\ Owned /\ OneObject  BY <1>3 DEF Held, Owned, OneObject, Live
<1>5. OneFd  BY DEF Init, OneFd
<1>6. Fresh  BY <1>3, ConstantsAssumption DEF Init, Fresh, Live
<1>7. \A w \in Workers : DOMAIN inbox[w] = {}  BY DEF Init
<1>8. Unclaimed /\ HandedOnce  BY <1>7 DEF Unclaimed, HandedOnce
<1>9. Addressed  BY DEF Init, Rtc!Init, Addressed, InFlight
<1>10. Queued  BY <1>3 DEF Queued
<1>11. Received  BY DEF Init, Received
<1> QED  BY <1>1, <1>2, <1>4, <1>5, <1>6, <1>8, <1>9, <1>10, <1>11
         DEF IInv, Sound, Tidy, Answers, Clean

\* Every step of the system keeps the invariant.
THEOREM Invariance == Spec => []IInv
<1>1. IInv /\ [Next]_vars => IInv'
    <2> SUFFICES ASSUME IInv, [Next]_vars PROVE IInv'
        OBVIOUS
    <2>1. Core /\ NoFdLeak /\ Sound /\ Answers  BY DEF IInv
    <2> QED  BY <2>1, CoreStep, NoFdLeakStep, SoundStep, AnswersStep DEF IInv
<1> QED  BY <1>1, IInvInit, PTL DEF Spec

\* Every variable keeps its type, whatever the clients, the timers and the
\* descriptors do.
THEOREM TypeCorrect == Spec => []TypeOK
<1>1. IInv => TypeOK  BY DEF IInv, Core
<1> QED  BY <1>1, Invariance, PTL

\* An entry of _conns never dangles, and as long as no close() has hit a
\* stranger's descriptor every connection with a timer is in the table.
THEOREM TableStaysSound == Spec => []TableSound
<1>1. IInv => TableSound
    <2> SUFFICES ASSUME IInv PROVE TableSound
        OBVIOUS
    <2>1. Linked  BY DEF IInv, Core
    <2>2. ~stray => Held  BY DEF IInv, Sound, Tidy
    <2> QED  BY <2>1, <2>2 DEF TableSound, Linked, Held, Live
<1> QED  BY <1>1, Invariance, PTL

\* Every open descriptor is in an inbox or belongs to an object whose timer
\* will close it, even after a stray close().
THEOREM NoLeak == Spec => []NoFdLeak
<1>1. IInv => NoFdLeak  BY DEF IInv
<1> QED  BY <1>1, Invariance, PTL

\* As long as no close() has hit a stranger's descriptor and no address has been
\* reused under a message, an answer is queued and written only for the client
\* that asked.
THEOREM AnswersUnambiguous == Spec => []UnambiguousAnswers
<1>1. IInv => UnambiguousAnswers
    BY DEF IInv, Answers, Clean, Queued, Received, UnambiguousAnswers
<1> QED  BY <1>1, Invariance, PTL

(***************************************************************************)
(* The rest of the server.                                                 *)
(***************************************************************************)

\* The accept loop and the workers use what is behind RtcServer::send_rtc_msg
\* only as RtcBackend allows: a request is submitted once, by the worker that
\* has read it, and an answer is taken only by that worker.  So what
\* RtcPipeline, which implements RtcBackend, does for them is what this module
\* assumes of it.
THEOREM UsesBackend == Spec => Rtc!Spec
<1>1. Init => Rtc!Init  BY DEF Init
<1>2. IInv /\ [Next]_vars => [Rtc!Next]_(Rtc!vars)
    <2> SUFFICES ASSUME IInv, [Next]_vars PROVE [Rtc!Next]_(Rtc!vars)
        OBVIOUS
    <2> USE DEF backendVars, Rtc!vars
    <2>1. CASE UNCHANGED vars \/ Disturbance  BY <2>1, OnlyDisturbed DEF vars
    <2>2. ASSUME NEW c \in Clients, Client(c) \/ Accept(c) \/ BackendStep(c)
          PROVE  [Rtc!Next]_(Rtc!vars)
        BY <2>2 DEF Client, HangUp, Send, Accept, BackendStep, Rtc!Next
    <2>3. CASE AcceptFails  BY <2>3 DEF AcceptFails
    <2>4. ASSUME NEW w \in Workers, NEW fd \in Fds, ReadPush(w, fd)
          PROVE  [Rtc!Next]_(Rtc!vars)
        <3>1. fds[fd] \in Clients /\ Rtc!Submit(fds[fd], w)
            BY <2>4 DEF ReadPush, IInv, Core, TypeOK, ConnTypeOK
        <3> QED  BY <3>1 DEF Rtc!Next
    <2>5. ASSUME NEW w \in Workers, NEW c \in Clients, Deliver(w, c)
          PROVE  [Rtc!Next]_(Rtc!vars)
        BY <2>5 DEF Deliver, Rtc!Next
    <2>6. ASSUME NEW w \in Workers, NEW fd \in Fds,
                 ReadFails(w, fd) \/ ReadIgnored(w, fd) \/ Write(w, fd) \/ WriteFails(w, fd)
          PROVE  UNCHANGED backendVars
        BY <2>6 DEF ReadFails, ReadIgnored, Write, WriteFails
    <2>7. ASSUME NEW w \in Workers, NewConn(w) \/ NewConnFails(w) \/ EndClose(w)
          PROVE  UNCHANGED backendVars
        BY <2>7 DEF NewConn, NewConnFails, EndClose
    <2>8. ASSUME NEW w \in Workers, NEW a \in Addrs, Timeout(w, a)
          PROVE  UNCHANGED backendVars
        BY <2>8 DEF Timeout
    <2> QED
        BY <2>1, <2>2, <2>3, <2>4, <2>5, <2>6, <2>7, <2>8 DEF Next, Event
<1> QED  BY <1>1, <1>2, Invariance, PTL DEF Spec, Rtc!Spec
=============================================================================
