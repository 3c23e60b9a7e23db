---------------------------- MODULE PushGateway ----------------------------
(***************************************************************************)
(* The web-facing signaling service (signaling/src, Go): net/http runs one *)
(* goroutine per HTTP request; /signaling/push checks the form             *)
(* (action/push.go) and calls a media server over a connection of its own  *)
(* (framework/xrpc.go, framework/xrpc).  The goroutines share only the     *)
(* round-robin selector.                                                   *)
(*                                                                         *)
(* The servers are external: one accepts a connection or not, reads the    *)
(* request, answers at any time or never, and may break the connection.    *)
(* A deadline may pass at any time, also when the data are already there.  *)
(***************************************************************************)
EXTENDS Integers, Sequences, FiniteSets

CONSTANTS Requests,      \* HTTP requests
          NumServers,    \* length of the "server" list in framework.conf
          None

ASSUME GatewayAssumption ==
    /\ NumServers \in Nat \ {0} /\ None \notin Nat /\ IsFiniteSet(Requests)

Servers == 0 .. NumServers - 1

\* A form's uid: a positive number, 0, or text ParseUint refuses.
Uids    == {"good", "zero", "bad"}

\* What a server sends back: an offer, an answer with err_no # 0, or something
\* with the wrong magic number or a body that is not JSON.
Answers == {"offer", "refusal", "garbage"}

VARIABLES
    pc,          \* where each request's goroutine is
    uid,         \* the class of its uid parameter
    docs,        \* the JSON documents written to its HTTP response
    picked,      \* the server PickServer returned to it
    conn,        \* its connection to that server: "none", "open" or "closed"
    wire,        \* its request on that connection: "none", "sent" or "read"
    answer,      \* what the server has sent on the connection, None if nothing
    curIndex,    \* the selector's position
    loaded,      \* has loadXrpc created the client?
    overlap      \* have two calls of PickServer ever overlapped?

callVars == <<picked, conn, wire, answer>>
vars == <<pc, uid, docs, callVars, curIndex, loaded, overlap>>

Active   == {"pick", "read", "dial", "send", "recv"}
Finished == {"done", "panicked"}

\* loadXrpc: no client without a "server" field.  main goes on after Init has
\* failed, so the service may run without one.
loadXrpc == loaded \in BOOLEAN

Init ==
    /\ pc = [r \in Requests |-> "new"] /\ uid = [r \in Requests |-> None]
    /\ docs = [r \in Requests |-> <<>>]
    /\ picked = [r \in Requests |-> None] /\ conn = [r \in Requests |-> "none"]
    /\ wire = [r \in Requests |-> "none"] /\ answer = [r \in Requests |-> None]
    /\ curIndex = 0 /\ overlap = FALSE /\ loadXrpc

Goto(r, label) == pc' = [pc EXCEPT ![r] = label]

\* writeJsonErrorResponse, and the success case at the end of Execute.
Write(r, doc) == docs' = [docs EXCEPT ![r] = Append(@, doc)]

(***************************************************************************)
(* Execute, up to framework.Call.                                          *)
(***************************************************************************)

\* Every other path, and the push page: one reply that is not a JSON document.
OtherPath(r) ==
    /\ pc[r] = "new" /\ Goto(r, "done")
    /\ UNCHANGED <<uid, docs, callVars, curIndex, loaded, overlap>>

\* A uid of 0: err is nil, so err.Error() panics; net/http breaks the
\* connection to the browser.
ZeroUid(r) ==
    /\ pc[r] = "new" /\ Goto(r, "panicked")
    /\ uid' = [uid EXCEPT ![r] = "zero"]
    /\ UNCHANGED <<docs, callVars, curIndex, loaded, overlap>>

\* A uid that does not parse: an error document, and no return.
ParamErrors(u, hasName) ==
    (IF u = "bad" THEN <<"error">> ELSE <<>>) \o (IF hasName THEN <<>> ELSE <<"error">>)

\* The parameter checks.  Without a stream name Execute returns; without a
\* client Call fails at once.
Execute(r, u, hasName) ==
    /\ pc[r] = "new" /\ uid' = [uid EXCEPT ![r] = u]
    /\ \/ /\ ~hasName \/ ~loaded
          /\ Goto(r, "done")
          /\ docs' = [docs EXCEPT ![r] = ParamErrors(u, hasName)
                                           \o (IF hasName THEN <<"error">> ELSE <<>>)]
       \/ /\ hasName /\ loaded
          /\ Goto(r, "pick")
          /\ docs' = [docs EXCEPT ![r] = ParamErrors(u, hasName)]
    /\ UNCHANGED <<callVars, curIndex, loaded, overlap>>

(***************************************************************************)
(* PickServer: the position moves under the write lock and is used under   *)
(* the read lock, and another goroutine may move it in between.            *)
(***************************************************************************)

AdvanceTwice(r) ==
    /\ pc[r] = "pick" /\ Goto(r, "read")
    /\ curIndex' = (curIndex + 2) % NumServers
    /\ overlap' = (overlap \/ \E q \in Requests : pc[q] = "read")
    /\ UNCHANGED <<uid, docs, callVars, loaded>>

Advance(r) ==
    /\ pc[r] = "pick" /\ Goto(r, "read")
    /\ curIndex' = (curIndex + 1) % NumServers
    /\ overlap' = (overlap \/ \E q \in Requests : pc[q] = "read")
    /\ UNCHANGED <<uid, docs, callVars, loaded>>

PickServer(r) ==
    /\ pc[r] = "read" /\ Goto(r, "dial")
    /\ picked' = [picked EXCEPT ![r] = curIndex]
    /\ UNCHANGED <<uid, docs, conn, wire, answer, curIndex, loaded, overlap>>

(***************************************************************************)
(* Client.Do and what Call and Execute make of its result.                 *)
(***************************************************************************)

Dial(r) ==
    /\ pc[r] = "dial" /\ Goto(r, "send")
    /\ conn' = [conn EXCEPT ![r] = "open"]
    /\ UNCHANGED <<uid, docs, picked, wire, answer, curIndex, loaded, overlap>>

Send(r) ==
    /\ pc[r] = "send" /\ Goto(r, "recv")
    /\ wire' = [wire EXCEPT ![r] = "sent"]
    /\ UNCHANGED <<uid, docs, picked, conn, answer, curIndex, loaded, overlap>>

LeaveOpen(r) == UNCHANGED conn

\* The deferred netConn.Close().
CloseConn(r) ==
    conn' = [conn EXCEPT ![r] = IF @ = "open" THEN "closed" ELSE @]

FailFallsThrough(r) ==
    /\ pc[r] \in {"dial", "send", "recv"} /\ Goto(r, "done")
    /\ CloseConn(r) /\ docs' = [docs EXCEPT ![r] = @ \o <<"error", "offer">>]
    /\ UNCHANGED <<uid, picked, wire, answer, curIndex, loaded, overlap>>

FailWithoutReadDeadline(r) ==
    /\ pc[r] \in {"dial", "send"} /\ Goto(r, "done")
    /\ CloseConn(r) /\ Write(r, "error")
    /\ UNCHANGED <<uid, picked, wire, answer, curIndex, loaded, overlap>>

\* An error from Dial, Write, Flush or ReadResponse: a deadline has passed, the
\* server is not there or has gone.  Execute writes an error document.
Fail(r) ==
    /\ pc[r] \in {"dial", "send", "recv"} /\ Goto(r, "done")
    /\ CloseConn(r) /\ Write(r, "error")
    /\ UNCHANGED <<uid, picked, wire, answer, curIndex, loaded, overlap>>

\* The magic number, then Unmarshal in Call, then err_no decide what the browser
\* gets.
Reply(a) == IF a = "offer" THEN "offer" ELSE "error"

\* ReadResponse has read a whole response.
Receive(r) ==
    /\ pc[r] = "recv" /\ answer[r] # None /\ Goto(r, "done")
    /\ CloseConn(r)
    /\ Write(r, Reply(answer[r]))
    /\ UNCHANGED <<uid, picked, wire, answer, curIndex, loaded, overlap>>

(***************************************************************************)
(* The servers.                                                            *)
(***************************************************************************)

\* The request may still be in the socket when the gateway has given up.
ServerReads(r) ==
    /\ wire[r] = "sent"
    /\ wire' = [wire EXCEPT ![r] = "read"]
    /\ UNCHANGED <<pc, uid, docs, picked, conn, answer, curIndex, loaded, overlap>>

\* An answer that comes after the gateway has closed the connection is lost.
ServerAnswers(r, a) ==
    /\ wire[r] = "read" /\ conn[r] = "open" /\ answer[r] = None
    /\ answer' = [answer EXCEPT ![r] = a]
    /\ UNCHANGED <<pc, uid, docs, picked, conn, wire, curIndex, loaded, overlap>>

\* One step of the goroutine that serves a request.
Handler(r) ==
    \/ OtherPath(r) \/ ZeroUid(r)
    \/ \E u \in {"good", "bad"}, hasName \in BOOLEAN : Execute(r, u, hasName)
    \/ Advance(r) \/ PickServer(r) \/ Dial(r) \/ Send(r) \/ Fail(r) \/ Receive(r)

Server(r) == ServerReads(r) \/ \E a \in Answers : ServerAnswers(r, a)

Next == \E r \in Requests : Handler(r) \/ Server(r)

\* Goroutines are scheduled and deadlines pass; nothing is asked of the servers.
Fairness == \A r \in Requests : WF_vars(Handler(r))

Spec     == Init /\ [][Next]_vars
FairSpec == Spec /\ Fairness

(***************************************************************************)
(* Properties.                                                             *)
(***************************************************************************)

\* Every variable keeps its type.
TypeOK ==
    /\ pc \in [Requests -> {"new"} \union Active \union Finished]
    /\ uid \in [Requests -> Uids \union {None}]
    /\ docs \in [Requests -> Seq({"error", "offer"})]
    /\ picked \in [Requests -> Servers \union {None}]
    /\ conn \in [Requests -> {"none", "open", "closed"}]
    /\ wire \in [Requests -> {"none", "sent", "read"}]
    /\ answer \in [Requests -> Answers \union {None}]
    /\ curIndex \in Servers /\ loaded \in BOOLEAN /\ overlap \in BOOLEAN

Replied(r) ==
    /\ Len(docs[r]) = IF uid[r] = "bad" THEN 2 ELSE 1
    /\ docs[r][Len(docs[r])] = "offer" => answer[r] = "offer" /\ picked[r] # None

\* Whatever fails on the way - a parameter, the configuration, the connection,
\* the server, its answer - the browser gets one JSON document for a push
\* request, except that a uid which does not parse costs a document of its own
\* because Execute goes on, and a uid of 0 panics before the first.  It is an
\* offer only if the server that was picked has sent one in time.
DocumentsPerRequest ==
    \A r \in Requests : pc[r] = "done" /\ uid[r] # None => Replied(r)

\* "A short connection, closed at the end of each request" (client.go): on
\* every path out of Do the connection has been closed, and the request was
\* never handed to a server over any other one.
ConnectionsClosed ==
    \A r \in Requests :
        /\ conn[r] = "open" <=> pc[r] \in {"send", "recv"}
        /\ wire[r] # "none" => conn[r] # "none"

Load(s) == Cardinality({r \in Requests : picked[r] = s})

\* Round robin: as long as no two calls of PickServer overlap, the numbers of
\* requests any two servers have been given differ by at most one.  (When calls
\* overlap the selector may give one server both requests and skip another.)
FairShare ==
    ~overlap /\ (\A r \in Requests : pc[r] # "read") =>
        \A s, t \in Servers : Load(s) <= Load(t) + 1

\* Every request is finished in the end, whatever the servers do: the three
\* deadlines bound each blocking call.
EveryRequestEnds ==
    \A r \in Requests : (pc[r] # "new") ~> (pc[r] \in Finished)
=============================================================================
