------------------------- MODULE PushGatewayProofs -------------------------
(***************************************************************************)
(* Proofs about PushGateway, for any finite set of requests and any number *)
(* of servers.  IInv is about each request by itself; ShareInv, at the     *)
(* end, about the selector they share.                                     *)
(***************************************************************************)
EXTENDS PushGateway, SequenceTheorems, FiniteSetTheorems, TLAPS

\* The documents written by the time a goroutine is at each of its steps.
DocsSoFar ==
    \A r \in Requests :
        /\ pc[r] = "new" => uid[r] = None /\ docs[r] = <<>>
        /\ pc[r] \in Active =>
              /\ uid[r] \in {"good", "bad"}
              /\ Len(docs[r]) = IF uid[r] = "bad" THEN 1 ELSE 0
        /\ pc[r] \in {"dial", "send", "recv"} => picked[r] # None

IInv == TypeOK /\ ConnectionsClosed /\ DocsSoFar /\ DocumentsPerRequest

\* Execute's parameter checks and an unconfigured client write one error document,
\* or two if the uid does not parse.
LEMMA ParamErrorsLen ==
    ASSUME NEW u \in {"good", "bad"}, NEW hasName \in BOOLEAN
    PROVE  LET all == ParamErrors(u, hasName)
                        \o (IF hasName THEN <<"error">> ELSE <<>>)
           IN  /\ ParamErrors(u, hasName) \in Seq({"error", "offer"})
               /\ all \in Seq({"error", "offer"})
               /\ hasName => Len(ParamErrors(u, hasName)) = IF u = "bad" THEN 1 ELSE 0
               /\ Len(all) = IF u = "bad" THEN 2 ELSE 1
               /\ all[Len(all)] = "error"
<1>1. CASE u = "bad" /\ hasName  BY <1>1 DEF ParamErrors
<1>2. CASE u = "bad" /\ ~hasName  BY <1>2 DEF ParamErrors
<1>3. CASE u = "good" /\ hasName  BY <1>3 DEF ParamErrors
<1>4. CASE u = "good" /\ ~hasName  BY <1>4 DEF ParamErrors
<1> QED  BY <1>1, <1>2, <1>3, <1>4

\* Writing a document adds one to the response and makes it the last.
LEMMA WriteLen ==
    ASSUME NEW s \in Seq({"error", "offer"}), NEW d \in {"error", "offer"}
    PROVE  /\ Append(s, d) \in Seq({"error", "offer"})
           /\ Len(Append(s, d)) = Len(s) + 1
           /\ Append(s, d)[Len(s) + 1] = d
<1> QED  BY AppendProperties

\* The service starts with no request under way.
LEMMA InitInvariant == Init => IInv
<1> SUFFICES ASSUME Init PROVE IInv
    OBVIOUS
<1>1. TypeOK
    <2>1. docs \in [Requests -> Seq({"error", "offer"})]
        BY EmptySeq DEF Init
    <2>2. loaded \in BOOLEAN /\ overlap \in BOOLEAN
        BY Zenon DEF Init, loadXrpc
    <2>3. curIndex \in Servers  BY GatewayAssumption DEF Init, Servers
    <2> QED  BY <2>1, <2>2, <2>3 DEF Init, TypeOK
<1>2. ConnectionsClosed  BY DEF Init, ConnectionsClosed
<1>3. DocsSoFar  BY DEF Init, DocsSoFar, Active
<1>4. DocumentsPerRequest  BY DEF Init, DocumentsPerRequest
<1> QED  BY <1>1, <1>2, <1>3, <1>4 DEF IInv

\* A step of a goroutine or of a server preserves the invariant.
LEMMA StepInvariant == IInv /\ [Next]_vars => IInv'
<1> SUFFICES ASSUME IInv, [Next]_vars PROVE IInv'
    OBVIOUS
<1> USE DEF IInv
<1>0. CASE UNCHANGED vars
    BY <1>0 DEF vars, callVars, TypeOK, ConnectionsClosed, DocsSoFar, DocumentsPerRequest,
          Replied
<1> SUFFICES ASSUME NEW r \in Requests, Handler(r) \/ Server(r) PROVE IInv'
    BY <1>0 DEF Next
<1> USE DEF Goto, callVars, Active, Finished
<1>1. CASE OtherPath(r)
    BY <1>1 DEF OtherPath, TypeOK, ConnectionsClosed, DocsSoFar, DocumentsPerRequest,
          Replied
<1>2. CASE ZeroUid(r)
    BY <1>2 DEF ZeroUid, TypeOK, Uids, ConnectionsClosed, DocsSoFar, DocumentsPerRequest,
          Replied
<1>3. ASSUME NEW u \in {"good", "bad"}, NEW hasName \in BOOLEAN, Execute(r, u, hasName)
      PROVE  IInv'
    <2> DEFINE some == ParamErrors(u, hasName)
               all  == some \o (IF hasName THEN <<"error">> ELSE <<>>)
    <2>1. /\ some \in Seq({"error", "offer"}) /\ all \in Seq({"error", "offer"})
          /\ hasName => Len(some) = IF u = "bad" THEN 1 ELSE 0
          /\ Len(all) = IF u = "bad" THEN 2 ELSE 1
          /\ all[Len(all)] = "error"
        BY ParamErrorsLen
    <2>2. \/ /\ pc' = [pc EXCEPT ![r] = "done"] /\ docs' = [docs EXCEPT ![r] = all]
          \/ /\ pc' = [pc EXCEPT ![r] = "pick"] /\ docs' = [docs EXCEPT ![r] = some]
             /\ hasName
        BY <1>3 DEF Execute
    <2>3. /\ uid' = [uid EXCEPT ![r] = u] /\ pc[r] = "new"
          /\ UNCHANGED <<callVars, curIndex, loaded, overlap>>
        BY <1>3 DEF Execute
    <2> HIDE DEF some, all
    <2>4. TypeOK'  BY <2>1, <2>2, <2>3 DEF TypeOK, Uids
    <2>5. ConnectionsClosed'  BY <2>2, <2>3 DEF TypeOK, ConnectionsClosed
    <2>6. DocsSoFar'
        <3> SUFFICES ASSUME NEW q \in Requests
                     PROVE  /\ pc'[q] = "new" => uid'[q] = None /\ docs'[q] = <<>>
                            /\ pc'[q] \in Active =>
                                 /\ uid'[q] \in {"good", "bad"}
                                 /\ Len(docs'[q]) = IF uid'[q] = "bad" THEN 1 ELSE 0
                            /\ pc'[q] \in {"dial", "send", "recv"} => picked'[q] # None
            BY DEF DocsSoFar
        <3>1. CASE q = r  BY <3>1, <2>1, <2>2, <2>3 DEF TypeOK
        <3>2. CASE q # r  BY <3>2, <2>2, <2>3 DEF TypeOK, DocsSoFar
        <3> QED  BY <3>1, <3>2
    <2>7. DocumentsPerRequest'
        <3> SUFFICES ASSUME NEW q \in Requests, pc'[q] = "done", uid'[q] # None
                     PROVE  Replied(q)'
            BY DEF DocumentsPerRequest
        <3>1. CASE q = r
            <4>1. uid'[q] = u /\ docs'[q] = all
                BY <3>1, <2>2, <2>3 DEF TypeOK
            <4> QED  BY <4>1, <2>1 DEF Replied
        <3>2. CASE q # r
            <4>1. /\ pc'[q] = pc[q] /\ uid'[q] = uid[q] /\ docs'[q] = docs[q]
                  /\ answer'[q] = answer[q] /\ picked'[q] = picked[q]
                BY <3>2, <2>2, <2>3 DEF TypeOK
            <4>2. Replied(q)  BY <4>1 DEF DocumentsPerRequest
            <4> QED  BY <4>1, <4>2 DEF Replied
        <3> QED  BY <3>1, <3>2
    <2> QED  BY <2>4, <2>5, <2>6, <2>7
<1>4. CASE Advance(r)
    <2>1. (curIndex + 1) % NumServers \in Servers
        BY GatewayAssumption DEF TypeOK, Servers
    <2>2. overlap' \in BOOLEAN  BY <1>4 DEF Advance
    <2>3. TypeOK'  BY <1>4, <2>1, <2>2 DEF Advance, TypeOK
    <2>4. ConnectionsClosed' /\ DocsSoFar' /\ DocumentsPerRequest'
        BY <1>4 DEF Advance, TypeOK, ConnectionsClosed, DocsSoFar, DocumentsPerRequest,
            Replied
    <2> QED  BY <2>3, <2>4
<1>5. CASE PickServer(r)
    <2>1. None \notin Servers  BY GatewayAssumption DEF Servers
    <2> QED
        BY <1>5, <2>1 DEF PickServer, TypeOK, ConnectionsClosed, DocsSoFar, DocumentsPerRequest,
          Replied
<1>6. CASE Dial(r)
    BY <1>6 DEF Dial, TypeOK, ConnectionsClosed, DocsSoFar, DocumentsPerRequest,
          Replied
<1>7. CASE Send(r)
    BY <1>7 DEF Send, TypeOK, ConnectionsClosed, DocsSoFar, DocumentsPerRequest,
          Replied
<1>8. ASSUME NEW d \in {"error", "offer"}, pc[r] \in {"dial", "send", "recv"},
             d = "offer" => answer[r] = "offer",
             Goto(r, "done"), CloseConn(r), Write(r, d),
             UNCHANGED <<uid, picked, wire, answer, curIndex, loaded, overlap>>
      PROVE  IInv'
    <2>1. /\ Append(docs[r], d) \in Seq({"error", "offer"})
          /\ Len(Append(docs[r], d)) = Len(docs[r]) + 1
          /\ Append(docs[r], d)[Len(docs[r]) + 1] = d
        BY WriteLen DEF TypeOK
    <2>2. docs' = [docs EXCEPT ![r] = Append(docs[r], d)]
        BY <1>8 DEF Write
    <2>3. TypeOK'  BY <1>8, <2>1, <2>2 DEF TypeOK, CloseConn
    <2>4. ConnectionsClosed'  BY <1>8 DEF TypeOK, ConnectionsClosed, CloseConn
    <2>5. DocsSoFar'  BY <1>8, <2>2 DEF TypeOK, DocsSoFar
    <2>6. DocumentsPerRequest'
        <3> SUFFICES ASSUME NEW q \in Requests, pc'[q] = "done", uid'[q] # None
                     PROVE  Replied(q)'
            BY DEF DocumentsPerRequest
        <3>1. CASE q = r
            <4>1. docs'[q] = Append(docs[r], d) /\ uid'[q] = uid[r]
                BY <3>1, <1>8, <2>2 DEF TypeOK
            <4>2. Len(docs[r]) = (IF uid[r] = "bad" THEN 1 ELSE 0) /\ picked[r] # None
                BY <1>8 DEF DocsSoFar
            <4> QED  BY <3>1, <4>1, <4>2, <1>8, <2>1 DEF Replied
        <3>2. CASE q # r  BY <3>2, <1>8, <2>2 DEF TypeOK, DocumentsPerRequest, Replied
        <3> QED  BY <3>1, <3>2
    <2> QED  BY <2>3, <2>4, <2>5, <2>6
<1>9. CASE Fail(r)
    BY <1>8, <1>9 DEF Fail
<1>10. CASE Receive(r)
    BY <1>8, <1>10 DEF Receive, Reply
<1>11. CASE ServerReads(r)
    BY <1>11 DEF ServerReads, TypeOK, ConnectionsClosed, DocsSoFar, DocumentsPerRequest,
          Replied
<1>12. ASSUME NEW a \in Answers, ServerAnswers(r, a) PROVE IInv'
    BY <1>12 DEF ServerAnswers, TypeOK, ConnectionsClosed, DocsSoFar, DocumentsPerRequest,
          Replied
<1> QED
    BY <1>1, <1>2, <1>3, <1>4, <1>5, <1>6, <1>7, <1>9, <1>10, <1>11, <1>12
    DEF Handler, Server

\* The inductive invariant holds in every behaviour of the gateway.
THEOREM Invariance == Spec => []IInv
<1> QED  BY InitInvariant, StepInvariant, PTL DEF Spec

\* Type correctness of the gateway.
THEOREM TypeCorrect == Spec => []TypeOK
<1> QED  BY Invariance, PTL DEF IInv

\* However many goroutines serve requests at once, and whatever fails in Call,
\* Execute answers a push request with one JSON document (two if the uid does
\* not parse), and with an offer only if the picked server has sent one.
THEOREM OneReply == Spec => []DocumentsPerRequest
<1> QED  BY Invariance, PTL DEF IInv

\* Do closes its connection on every path out.
THEOREM NoConnectionLeak == Spec => []ConnectionsClosed
<1> QED  BY Invariance, PTL DEF IInv

(***************************************************************************)
(* Round robin.  The loads of the servers are those of whole rounds, in    *)
(* which the selector begins with server 1, and one more for the servers   *)
(* the present round has reached.  A goroutine between the two halves of   *)
(* PickServer has moved the position and not used it yet.                  *)
(***************************************************************************)

Reading == \E r \in Requests : pc[r] = "read"

\* The server last given to a request.
LastGiven ==
    IF ~Reading THEN curIndex ELSE IF curIndex = 0 THEN NumServers - 1 ELSE curIndex - 1

\* n whole rounds, and a present one that has come as far as last.
Rounds(n, last) ==
    \A s \in Servers : Load(s) = n + (IF 1 <= s /\ s <= last THEN 1 ELSE 0)

RoundRobin ==
    /\ \A r, q \in Requests : pc[r] = "read" /\ pc[q] = "read" => r = q
    /\ \E n \in Nat : Rounds(n, LastGiven)

\* A goroutine picks once.
PicksOnce == \A r \in Requests : pc[r] \in {"new", "pick", "read"} => picked[r] = None

ShareInv == PicksOnce /\ (~overlap => RoundRobin)

\* A request that is given to a server adds one to that server's load, and
\* nothing to another's.
LEMMA LoadGrows ==
    ASSUME TypeOK, NEW r \in Requests, picked[r] = None, NEW t \in Servers,
           picked' = [picked EXCEPT ![r] = t]
    PROVE  \A s \in Servers : Load(s)' = Load(s) + (IF s = t THEN 1 ELSE 0)
<1> TAKE s \in Servers
<1> DEFINE old == {q \in Requests : picked[q] = s}
           new == {q \in Requests : picked'[q] = s}
<1>1. None \notin Servers  BY GatewayAssumption DEF Servers
<1>2. IsFiniteSet(old) /\ r \notin old
    BY <1>1, FS_Subset, GatewayAssumption
<1>3. Load(s) = Cardinality(old) /\ Load(s)' = Cardinality(new)
    BY DEF Load
<1>4. CASE s = t
    <2>1. new = old \union {r}  BY <1>4 DEF TypeOK
    <2> HIDE DEF old, new
    <2>2. Cardinality(new) = Cardinality(old) + 1
        BY <1>2, <2>1, FS_AddElement
    <2> QED  BY <1>3, <1>4, <2>2
<1>5. CASE s # t
    <2>1. new = old  BY <1>1, <1>5 DEF TypeOK
    <2> HIDE DEF old, new
    <2>2. Cardinality(old) \in Nat  BY <1>2, FS_CardinalityType
    <2> QED  BY <1>3, <1>5, <2>1, <2>2
<1> QED  BY <1>4, <1>5

\* No request, no load: no round has begun.
LEMMA ShareInit == Init => ShareInv
<1> SUFFICES ASSUME Init PROVE ShareInv
    OBVIOUS
<1>1. PicksOnce  BY DEF Init, PicksOnce
<1>2. ~Reading /\ curIndex = 0  BY DEF Init, Reading
<1>3. None \notin Servers  BY GatewayAssumption DEF Servers
<1>4. ASSUME NEW s \in Servers PROVE Load(s) = 0
    <2>1. {r \in Requests : picked[r] = s} = {}  BY <1>3 DEF Init
    <2> QED  BY <2>1, FS_EmptySet DEF Load
<1>5. Rounds(0, 0)
    BY <1>4 DEF Rounds, Servers
<1>6. LastGiven = 0  BY <1>2 DEF LastGiven
<1>7. RoundRobin
    BY <1>5, <1>6 DEF RoundRobin, Init
<1> QED  BY <1>1, <1>7 DEF ShareInv

\* A step that neither picks nor moves the position keeps the rounds.
LEMMA ShareKept ==
    ASSUME ShareInv, UNCHANGED <<picked, curIndex, overlap>>,
           \A q \in Requests : pc'[q] = "read" <=> pc[q] = "read",
           \A q \in Requests : pc'[q] \in {"new", "pick"} => pc[q] \in {"new", "pick"}
    PROVE  ShareInv'
<1>1. PicksOnce'  BY DEF ShareInv, PicksOnce
<1>2. Reading' <=> Reading  BY DEF Reading
<1>3. LastGiven' = LastGiven  BY <1>2 DEF LastGiven
<1>4. \A n \in Nat : Rounds(n, LastGiven) => Rounds(n, LastGiven)'
    BY <1>3 DEF Rounds, Load
<1>5. RoundRobin => RoundRobin'  BY <1>4 DEF RoundRobin
<1> QED  BY <1>1, <1>5 DEF ShareInv

\* The first half of PickServer: the position moves on, the server last given
\* stays the same.
LEMMA AdvanceShares ==
    ASSUME IInv, ShareInv, NEW r \in Requests, Advance(r)
    PROVE  ShareInv'
<1>1. /\ pc[r] = "pick" /\ pc' = [pc EXCEPT ![r] = "read"]
      /\ curIndex' = (curIndex + 1) % NumServers
      /\ overlap' = (overlap \/ Reading) /\ UNCHANGED picked
    BY DEF Advance, Goto, callVars, Reading
<1>2. PicksOnce'  BY <1>1 DEF ShareInv, PicksOnce, IInv, TypeOK
<1>3. ASSUME ~overlap' PROVE RoundRobin'
    <2>1. ~Reading /\ RoundRobin  BY <1>1, <1>3, Zenon DEF ShareInv
    <2>2. Reading'  BY <1>1 DEF Reading, IInv, TypeOK
    <2>3. \A p, q \in Requests : pc'[p] = "read" /\ pc'[q] = "read" => p = q
        BY <1>1, <2>1 DEF Reading, IInv, TypeOK
    <2>4. LastGiven = curIndex  BY <2>1 DEF LastGiven
    <2>5. LastGiven' = curIndex
        <3>1. curIndex \in 0 .. NumServers - 1 /\ NumServers \in Nat \ {0}
            BY GatewayAssumption DEF IInv, TypeOK, Servers
        <3>2. CASE curIndex = NumServers - 1
            <4>1. curIndex' = 0  BY <1>1, <3>1, <3>2
            <4> QED  BY <4>1, <2>2, <3>2 DEF LastGiven
        <3>3. CASE curIndex # NumServers - 1
            <4>1. curIndex' = curIndex + 1  BY <1>1, <3>1, <3>3
            <4> QED  BY <4>1, <2>2, <3>1 DEF LastGiven
        <3> QED  BY <3>2, <3>3
    <2>6. \A n \in Nat : Rounds(n, LastGiven) => Rounds(n, LastGiven)'
        BY <1>1, <2>4, <2>5 DEF Rounds, Load
    <2> QED  BY <2>1, <2>3, <2>6 DEF RoundRobin
<1> QED  BY <1>2, <1>3 DEF ShareInv

\* The second half: the server next in the round is given one request more.
LEMMA PickShares ==
    ASSUME IInv, ShareInv, NEW r \in Requests, PickServer(r)
    PROVE  ShareInv'
<1>1. /\ pc[r] = "read" /\ pc' = [pc EXCEPT ![r] = "dial"]
      /\ picked' = [picked EXCEPT ![r] = curIndex] /\ UNCHANGED <<curIndex, overlap>>
    BY DEF PickServer, Goto
<1>2. picked[r] = None /\ TypeOK  BY <1>1 DEF ShareInv, PicksOnce, IInv
<1>3. PicksOnce'  BY <1>1, <1>2 DEF ShareInv, PicksOnce, TypeOK
<1>4. \A s \in Servers : Load(s)' = Load(s) + (IF s = curIndex THEN 1 ELSE 0)
    BY <1>1, <1>2, LoadGrows DEF TypeOK
<1>5. ASSUME ~overlap PROVE RoundRobin'
    <2>1. RoundRobin /\ Reading  BY <1>1, <1>5 DEF ShareInv, Reading
    <2>2. ~Reading' /\ \A p, q \in Requests : pc'[p] = "read" /\ pc'[q] = "read" => p = q
        BY <1>1, <1>2, <2>1 DEF RoundRobin, Reading, TypeOK
    <2>3. PICK n \in Nat : Rounds(n, LastGiven)  BY <2>1 DEF RoundRobin
    <2>4. LastGiven' = curIndex  BY <1>1, <2>2 DEF LastGiven
    <2>5. curIndex \in Servers /\ NumServers \in Nat \ {0}
        BY <1>2, GatewayAssumption DEF TypeOK
    <2>6. CASE curIndex = 0
        <3>1. LastGiven = NumServers - 1  BY <2>1, <2>6 DEF LastGiven
        <3>2. \A s \in Servers : Load(s)' = n + 1
            BY <1>4, <2>3, <2>5, <2>6, <3>1 DEF Rounds, Servers
        <3>3. Rounds(n + 1, LastGiven)'
            BY <1>1, <2>4, <2>6, <3>2 DEF Rounds, Servers
        <3>4. n + 1 \in Nat  OBVIOUS
        <3> QED  BY <2>2, <3>3, <3>4 DEF RoundRobin
    <2>7. CASE curIndex # 0
        <3>1. LastGiven = curIndex - 1  BY <2>1, <2>7 DEF LastGiven
        <3>2. Rounds(n, LastGiven)'
            BY <1>1, <1>4, <2>3, <2>4, <2>5, <2>7, <3>1 DEF Rounds, Servers
        <3> QED  BY <2>2, <3>2 DEF RoundRobin
    <2> QED  BY <2>6, <2>7
<1> QED  BY <1>1, <1>3, <1>5 DEF ShareInv

\* Every step keeps the rounds, unless calls of PickServer overlap.
LEMMA ShareStep == IInv /\ ShareInv /\ [Next]_vars => ShareInv'
<1> SUFFICES ASSUME IInv, ShareInv, [Next]_vars PROVE ShareInv'
    OBVIOUS
<1> USE DEF Goto, callVars
<1>1. CASE UNCHANGED vars
    BY <1>1, ShareKept DEF vars
<1>2. ASSUME NEW r \in Requests, Handler(r) \/ Server(r) PROVE ShareInv'
    <2>1. CASE OtherPath(r)
        BY <2>1, ShareKept DEF OtherPath, IInv, TypeOK
    <2>2. CASE ZeroUid(r)
        BY <2>2, ShareKept DEF ZeroUid, IInv, TypeOK
    <2>3. ASSUME NEW u, NEW hasName, Execute(r, u, hasName) PROVE ShareInv'
        BY <2>3, ShareKept DEF Execute, IInv, TypeOK
    <2>4. CASE Dial(r)
        BY <2>4, ShareKept DEF Dial, IInv, TypeOK
    <2>5. CASE Send(r)
        BY <2>5, ShareKept DEF Send, IInv, TypeOK
    <2>6. CASE Fail(r)
        BY <2>6, ShareKept DEF Fail, IInv, TypeOK
    <2>7. CASE Receive(r)
        BY <2>7, ShareKept DEF Receive, IInv, TypeOK
    <2>8. CASE Server(r)
        BY <2>8, ShareKept DEF Server, ServerReads, ServerAnswers
    <2> QED
        BY <1>2, <2>1, <2>2, <2>3, <2>4, <2>5, <2>6, <2>7, <2>8, AdvanceShares, PickShares
        DEF Handler
<1> QED  BY <1>1, <1>2 DEF Next

\* As long as no two calls of PickServer overlap, the selector spreads the
\* requests evenly: the loads of two servers differ by one at most.
THEOREM EvenShare == Spec => []FairShare
<1>1. ShareInv => FairShare
    <2> SUFFICES ASSUME ShareInv, ~overlap, NEW s \in Servers, NEW t \in Servers
                 PROVE  Load(s) <= Load(t) + 1
        BY DEF FairShare
    <2>1. PICK n \in Nat : Rounds(n, LastGiven)  BY DEF ShareInv, RoundRobin
    <2>2. Load(s) \in {n, n + 1} /\ Load(t) \in {n, n + 1}
        BY <2>1 DEF Rounds
    <2> QED  BY <2>2
<1> QED  BY <1>1, Invariance, ShareInit, ShareStep, PTL DEF Spec
=============================================================================
