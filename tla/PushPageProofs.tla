--------------------------- MODULE PushPageProofs ---------------------------
(***************************************************************************)
(* Proofs about the push page on top of the gateway, for any finite set of *)
(* pushes and any number of servers.                                       *)
(*                                                                         *)
(* The gateway's invariant holds under the page (PageUsesGateway), and     *)
(* gives the first link of the argument: jQuery's success callback runs    *)
(* only when the picked server has sent an offer.  The rest is about one   *)
(* push at a time: from the dialog until its tracks are stopped a push is  *)
(* live, also when stopPush has closed its connection; a push that begins  *)
(* while another is live counts as overlapping.  So what a late callback   *)
(* finds in pc is its own push or null, and an answer, which needs its     *)
(* connection to be open, was asked of the connection it is set on.        *)
(***************************************************************************)
EXTENDS PushPage, PushGatewayProofs

Links == {"none", "remote", "dialog", "screen", "audio", "answer", "over"}

\* The page's variables keep their types.
PageTypes ==
    /\ peer \in Requests \union {None} /\ open \subseteq Requests
    /\ chain \in [Requests -> Links]
    /\ asker \in [Requests -> Requests \union {None}]
    /\ tracks \in [Requests -> SUBSET {"video", "audio"}]
    /\ localStream \in Requests \union {None}
    /\ sent \subseteq Requests \X Requests \X Requests
    /\ denied \in BOOLEAN /\ overlapped \in BOOLEAN

\* A request that is not a push, or panicked, has been sent no document.
NoDocument ==
    \A r \in Requests : (uid[r] = None \/ pc[r] = "panicked") => docs[r] = <<>>

\* A peer connection is made only for a push whose server has sent an offer.
Offered ==
    /\ \A r \in open : answer[r] = "offer"
    /\ peer # None => peer \in open
    /\ \A a \in sent : answer[a[1]] = "offer" /\ answer[a[2]] = "offer"

\* A push has captured something, or its chain will, whatever becomes of the
\* peer connection.
Live(r) == tracks[r] # {} \/ chain[r] \in {"dialog", "screen", "audio"}

\* One push at a time: what is live is one push, the page's pc is that push's,
\* and whoever waits for an answer has asked its own peer connection for it.
OneAtATime ==
    /\ open \subseteq {peer}
    /\ \A r \in Requests : Live(r) => peer \in {r, None}
    /\ \A r, q \in Requests : Live(r) /\ Live(q) => r = q
    /\ \A r \in Requests : chain[r] = "answer" => asker[r] = r
    /\ \A a \in sent : a[1] = a[2] /\ a[2] = a[3]
    /\ ~denied => \A r \in Requests :
          tracks[r] # {} => localStream = r \/ chain[r] = "audio"

PageInv == PageTypes /\ NoDocument /\ Offered /\ (~overlapped => OneAtATime)

\* The page before the first push.
LEMMA PageInitInvariant == PageInit => PageInv
<1> SUFFICES ASSUME PageInit PROVE PageInv
    OBVIOUS
<1>1. PageTypes
    <2>1. denied \in BOOLEAN /\ overlapped \in BOOLEAN  BY Zenon DEF PageInit
    <2> QED  BY <2>1 DEF PageInit, PageTypes, Links
<1>2. NoDocument  BY DEF PageInit, Init, NoDocument
<1>3. Offered  BY DEF PageInit, Offered
<1>4. OneAtATime  BY DEF PageInit, OneAtATime, Live
<1> QED  BY <1>1, <1>2, <1>3, <1>4 DEF PageInv

\* A step of the gateway takes back no answer, and writes no document for a
\* request that is not a push.
LEMMA GatewayKeeps ==
    ASSUME IInv, NoDocument, NEW r \in Requests, Handler(r) \/ Server(r)
    PROVE  /\ NoDocument'
           /\ \A q \in Requests : answer[q] = "offer" => answer'[q] = "offer"
<1> USE DEF IInv, Goto, callVars, Active, Finished
<1>1. CASE OtherPath(r)
    BY <1>1 DEF OtherPath, TypeOK, NoDocument
<1>2. CASE ZeroUid(r)
    BY <1>2 DEF ZeroUid, TypeOK, NoDocument, DocsSoFar
<1>3. ASSUME NEW u \in {"good", "bad"}, NEW hasName \in BOOLEAN, Execute(r, u, hasName)
      PROVE  NoDocument' /\ answer' = answer
    <2>1. /\ uid' = [uid EXCEPT ![r] = u] /\ answer' = answer
          /\ \/ pc' = [pc EXCEPT ![r] = "done"] \/ pc' = [pc EXCEPT ![r] = "pick"]
          /\ \A q \in Requests : q # r => docs'[q] = docs[q]
        BY <1>3 DEF Execute, TypeOK
    <2>2. u # None
        BY PageAssumption DEF Uids
    <2> QED  BY <2>1, <2>2 DEF TypeOK, NoDocument
<1>4. CASE Advance(r)
    BY <1>4 DEF Advance, TypeOK, NoDocument
<1>5. CASE PickServer(r)
    BY <1>5 DEF PickServer, TypeOK, NoDocument
<1>6. CASE Dial(r)
    BY <1>6 DEF Dial, TypeOK, NoDocument
<1>7. CASE Send(r)
    BY <1>7 DEF Send, TypeOK, NoDocument
<1>8. ASSUME NEW d, pc[r] \in {"dial", "send", "recv"}, Goto(r, "done"), Write(r, d),
             UNCHANGED <<uid, answer>>
      PROVE  NoDocument' /\ answer' = answer
    <2>1. uid[r] # None
        BY <1>8, PageAssumption DEF DocsSoFar, Uids
    <2> QED  BY <1>8, <2>1 DEF TypeOK, NoDocument, Write
<1>9. CASE Fail(r)
    BY <1>8, <1>9 DEF Fail
<1>10. CASE Receive(r)
    BY <1>8, <1>10 DEF Receive
<1>11. CASE ServerReads(r)
    BY <1>11 DEF ServerReads, TypeOK, NoDocument
<1>12. ASSUME NEW a \in Answers, ServerAnswers(r, a)
       PROVE  /\ NoDocument'
              /\ \A q \in Requests : answer[q] = "offer" => answer'[q] = "offer"
    BY <1>12, PageAssumption DEF ServerAnswers, TypeOK, NoDocument, Answers
<1> QED
    BY <1>1, <1>2, <1>3, <1>4, <1>5, <1>6, <1>7, <1>9, <1>10, <1>11, <1>12
    DEF Handler, Server

\* jQuery's success callback runs only for a push whose server has sent an offer.
LEMMA SuccessIsOffer ==
    ASSUME IInv, NoDocument, NEW r \in Requests, pc[r] \in Finished, Success(r)
    PROVE  answer[r] = "offer"
<1>1. docs[r] = <<"offer">>  BY DEF Success
<1>2. docs[r] # <<>> /\ Len(docs[r]) = 1 /\ docs[r][1] = "offer"
    BY <1>1
<1>3. uid[r] # None /\ pc[r] # "panicked"
    BY <1>2 DEF NoDocument
<1>4. Replied(r)
    BY <1>3 DEF IInv, DocumentsPerRequest, Finished
<1> QED  BY <1>2, <1>4 DEF Replied

\* The gateway moves: the page's variables stay as they are.
LEMMA GatewayStep ==
    ASSUME IInv, PageInv, NEW r \in Requests, Handler(r) \/ Server(r), UNCHANGED pageVars
    PROVE  PageInv'
<1>1. /\ NoDocument'
      /\ \A q \in Requests : answer[q] = "offer" => answer'[q] = "offer"
    BY GatewayKeeps DEF PageInv
<1>2. PageTypes'  BY DEF PageInv, PageTypes, pageVars
<1>3. Offered'
    <2>1. UNCHANGED <<open, peer, sent>>  BY DEF pageVars
    <2>2. open \subseteq Requests /\ sent \subseteq Requests \X Requests \X Requests
        BY DEF PageInv, PageTypes
    <2>3. \A a \in sent : a[1] \in Requests /\ a[2] \in Requests
        BY <2>2
    <2> QED  BY <1>1, <2>1, <2>2, <2>3 DEF PageInv, Offered
<1>4. ~overlapped' => OneAtATime'
    BY DEF PageInv, OneAtATime, Live, pageVars
<1> QED  BY <1>1, <1>2, <1>3, <1>4 DEF PageInv

\* What the page does leaves the gateway as it is: three parts of the invariant
\* are left to show.
LEMMA PageStepSuffices ==
    ASSUME PageInv, UNCHANGED vars, PageTypes', Offered',
           ~overlapped /\ OneAtATime /\ ~overlapped' => OneAtATime',
           overlapped => overlapped'
    PROVE  PageInv'
<1>1. NoDocument'  BY DEF PageInv, NoDocument, vars
<1> QED  BY <1>1 DEF PageInv

\* A push begins: none that was there before is live.
LEMMA PushRepliedStep ==
    ASSUME IInv, PageInv, UNCHANGED vars, NEW r \in Requests, PushReplied(r)
    PROVE  PageInv'
<1>1. UNCHANGED <<asker, tracks, localStream, sent, denied, answer>>
    BY DEF PushReplied, vars, callVars
<1>2. CASE Success(r)
    <2>1. /\ peer' = r /\ open' = open \union {r} /\ chain[r] = "none"
          /\ chain' = [chain EXCEPT ![r] = "remote"] /\ overlapped' = (overlapped \/ Busy)
        BY <1>2 DEF PushReplied, pushStream, Link
    <2>2. answer[r] = "offer"
        BY <1>2, SuccessIsOffer DEF PageInv, PushReplied
    <2>3. overlapped' \in BOOLEAN /\ (overlapped => overlapped')
        BY <2>1, Zenon
    <2>4. PageTypes'  BY <1>1, <2>1, <2>3 DEF PageInv, PageTypes, Links
    <2>5. Offered'
        BY <1>1, <2>1, <2>2 DEF PageInv, Offered
    <2>6. ASSUME OneAtATime, ~overlapped' PROVE OneAtATime'
        <3>1. ~Busy  BY <2>1, <2>6, Zenon
        <3>2. peer = None /\ \A q \in Requests : ~Live(q)
            BY <3>1 DEF Busy, Live
        <3>3. open = {}
            BY <2>6, <3>2, PageAssumption DEF PageInv, PageTypes, OneAtATime
        <3>4. \A q \in Requests : ~Live(q)' /\ tracks'[q] = {}
            BY <1>1, <2>1, <3>2 DEF PageInv, PageTypes, Live
        <3>5. \A q \in Requests : chain'[q] = "answer" => asker'[q] = q
            BY <1>1, <2>1, <2>6 DEF PageInv, PageTypes, OneAtATime
        <3>6. \A a \in sent' : a[1] = a[2] /\ a[2] = a[3]
            BY <1>1, <2>6 DEF OneAtATime
        <3> QED  BY <2>1, <3>3, <3>4, <3>5, <3>6 DEF OneAtATime
    <2> QED  BY <2>3, <2>4, <2>5, <2>6, PageStepSuffices
<1>3. CASE ~Success(r)
    <2>1. UNCHANGED <<peer, open, chain, overlapped>>
        BY <1>3 DEF PushReplied
    <2> QED
        BY <1>1, <2>1, PageStepSuffices DEF PageInv, PageTypes, Offered, OneAtATime, Live
<1> QED  BY <1>2, <1>3

\* The links of a chain up to the microphone.
LEMMA ChainSteps ==
    ASSUME PageInv, UNCHANGED vars, NEW r \in Requests,
           RemoteSet(r) \/ DialogAccepted(r) \/ ScreenCaptured(r) \/ ChainBreaks(r)
    PROVE  PageInv'
<1>1. UNCHANGED <<peer, open, asker, localStream, sent, overlapped, answer>>
    BY DEF RemoteSet, DialogAccepted, ScreenCaptured, ChainBreaks, vars, callVars
<1>2. Offered'
    BY <1>1 DEF PageInv, Offered
<1> USE DEF Link, PageTypes, Links
<1>3. CASE RemoteSet(r)
    <2>1. /\ r \in open /\ chain' = [chain EXCEPT ![r] = "dialog"]
          /\ UNCHANGED <<tracks, denied>> /\ chain[r] = "remote"
        BY <1>3 DEF RemoteSet
    <2>2. PageTypes'  BY <1>1, <2>1 DEF PageInv
    <2>3. ASSUME OneAtATime PROVE OneAtATime'
        <3>1. peer = r  BY <2>1, <2>3 DEF OneAtATime
        <3>2. \A q \in Requests : Live(q) => q = r
            BY <2>3, <3>1, PageAssumption DEF OneAtATime
        <3>3. \A q \in Requests : Live(q)' => q = r
            BY <2>1, <3>2 DEF PageInv, Live
        <3>4. \A q \in Requests : /\ chain'[q] = "answer" => chain[q] = "answer"
                                  /\ chain[q] = "audio" => chain'[q] = "audio"
            BY <2>1 DEF PageInv
        <3> QED  BY <1>1, <2>1, <2>3, <3>1, <3>3, <3>4 DEF OneAtATime
    <2> QED  BY <1>1, <1>2, <2>2, <2>3, PageStepSuffices
<1>4. ASSUME Live(r), UNCHANGED denied,
             \A q \in Requests : q # r => chain'[q] = chain[q] /\ tracks'[q] = tracks[q],
             tracks'[r] # {} => chain'[r] = "audio" \/ (tracks'[r] = tracks[r] /\ chain[r] # "audio"),
             chain'[r] # "answer", OneAtATime
      PROVE  OneAtATime'
    <2>1. \A q \in Requests : Live(q)' => Live(q)
        BY <1>4 DEF Live
    <2>2. ~denied' => \A q \in Requests :
              tracks'[q] # {} => localStream' = q \/ chain'[q] = "audio"
        BY <1>1, <1>4 DEF OneAtATime
    <2>3. \A q \in Requests : chain'[q] = "answer" => asker'[q] = q
        BY <1>1, <1>4 DEF OneAtATime
    <2> QED  BY <1>1, <1>4, <2>1, <2>2, <2>3 DEF OneAtATime
<1>5. CASE DialogAccepted(r)
    <2>1. /\ chain[r] = "dialog" /\ chain' = [chain EXCEPT ![r] = "screen"]
          /\ UNCHANGED <<tracks, denied>>
        BY <1>5 DEF DialogAccepted
    <2>2. PageTypes'  BY <1>1, <2>1 DEF PageInv
    <2>3. OneAtATime => OneAtATime'
        BY <1>4, <2>1 DEF PageInv, Live
    <2> QED  BY <1>1, <1>2, <2>2, <2>3, PageStepSuffices
<1>6. CASE ScreenCaptured(r)
    <2>1. /\ chain[r] = "screen" /\ chain' = [chain EXCEPT ![r] = "audio"]
          /\ tracks' = [tracks EXCEPT ![r] = {"video"}] /\ UNCHANGED denied
        BY <1>6 DEF ScreenCaptured
    <2>2. PageTypes'  BY <1>1, <2>1 DEF PageInv
    <2>3. OneAtATime => OneAtATime'
        BY <1>4, <2>1 DEF PageInv, Live
    <2> QED  BY <1>1, <1>2, <2>2, <2>3, PageStepSuffices
<1>7. CASE ChainBreaks(r)
    <2>1. /\ chain' = [chain EXCEPT ![r] = "over"] /\ UNCHANGED tracks
          /\ denied' = (denied \/ chain[r] = "audio")
        BY <1>7 DEF ChainBreaks
    <2>2. denied' \in BOOLEAN /\ (~denied' => ~denied /\ chain[r] # "audio")
        BY <2>1, Zenon
    <2>3. PageTypes'  BY <1>1, <2>1, <2>2 DEF PageInv
    <2>4. ASSUME OneAtATime PROVE OneAtATime'
        <3>1. \A q \in Requests : Live(q)' => Live(q)
            BY <2>1 DEF PageInv, Live
        <3>2. ASSUME ~denied', NEW q \in Requests, tracks'[q] # {}
              PROVE  localStream' = q \/ chain'[q] = "audio"
            BY <1>1, <2>1, <2>2, <2>4, <3>2 DEF PageInv, OneAtATime
        <3>3. \A q \in Requests : chain'[q] = "answer" => asker'[q] = q
            BY <1>1, <2>1, <2>4 DEF PageInv, OneAtATime
        <3> QED  BY <1>1, <2>4, <3>1, <3>2, <3>3 DEF OneAtATime
    <2> QED  BY <1>1, <1>2, <2>3, <2>4, PageStepSuffices
<1> QED  BY <1>3, <1>5, <1>6, <1>7

\* The microphone: the stream becomes localStream, the answer is asked of the
\* page's pc.
LEMMA AudioGrantedStep ==
    ASSUME PageInv, UNCHANGED vars, NEW r \in Requests, AudioGranted(r)
    PROVE  PageInv'
<1>1. /\ chain[r] = "audio"
      /\ chain' = [chain EXCEPT ![r] = IF peer = None THEN "over" ELSE "answer"]
      /\ tracks' = [tracks EXCEPT ![r] = @ \union {"audio"}]
      /\ localStream' = r /\ asker' = [asker EXCEPT ![r] = peer]
      /\ UNCHANGED <<peer, open, sent, denied, overlapped, answer>>
    BY DEF AudioGranted, Link, vars, callVars
<1>2. PageTypes'  BY <1>1 DEF PageInv, PageTypes, Links
<1>3. Offered'  BY <1>1 DEF PageInv, Offered
<1>4. ASSUME OneAtATime PROVE OneAtATime'
    <2>1. Live(r)  BY <1>1 DEF Live
    <2>2. \A q \in Requests : Live(q) => q = r
        BY <1>4, <2>1 DEF OneAtATime
    <2>3. \A q \in Requests : Live(q)' => q = r
        BY <1>1, <2>2 DEF PageInv, PageTypes, Live
    <2>4. \A q \in Requests : tracks'[q] # {} => q = r
        BY <2>3 DEF Live
    <2>5. peer \in {r, None}  BY <1>4, <2>1 DEF OneAtATime
    <2>6. \A q \in Requests : chain'[q] = "answer" => asker'[q] = q
        BY <1>1, <1>4, <2>5 DEF PageInv, PageTypes, OneAtATime
    <2> QED  BY <1>1, <1>4, <2>3, <2>4, <2>5, <2>6 DEF OneAtATime
<1> QED  BY <1>1, <1>2, <1>3, <1>4, PageStepSuffices

\* An answer is set on the page's pc, which is the one that made it.
LEMMA AnswerMadeStep ==
    ASSUME PageInv, UNCHANGED vars, NEW r \in Requests, AnswerMade(r)
    PROVE  PageInv'
<1>1. /\ asker[r] \in open /\ chain[r] = "answer" /\ chain' = [chain EXCEPT ![r] = "over"]
      /\ UNCHANGED <<peer, open, asker, tracks, localStream, denied, overlapped, answer>>
    BY DEF AnswerMade, Link, vars, callVars
<1>2. sent' = IF peer = None THEN sent ELSE sent \union {<<asker[r], peer, r>>}
    BY DEF AnswerMade
<1>3. asker[r] \in Requests /\ peer \in Requests \union {None}
    BY <1>1 DEF PageInv, PageTypes
<1>4. sent' \subseteq Requests \X Requests \X Requests
    BY <1>2, <1>3 DEF PageInv, PageTypes
<1>5. PageTypes'  BY <1>1, <1>4 DEF PageInv, PageTypes, Links
<1>6. Offered'
    <2>1. answer[asker[r]] = "offer" /\ (peer # None => answer[peer] = "offer")
        BY <1>1 DEF PageInv, Offered
    <2>2. \A a \in sent' : answer[a[1]] = "offer" /\ answer[a[2]] = "offer"
        BY <1>2, <2>1 DEF PageInv, Offered
    <2> QED  BY <1>1, <2>2 DEF PageInv, Offered
<1>7. ASSUME OneAtATime PROVE OneAtATime'
    <2>1. asker[r] = r /\ peer = r
        BY <1>1, <1>7 DEF OneAtATime
    <2>2. \A a \in sent' : a[1] = a[2] /\ a[2] = a[3]
        BY <1>2, <1>7, <2>1 DEF OneAtATime
    <2>3. \A q \in Requests : Live(q)' => Live(q)
        BY <1>1 DEF PageInv, PageTypes, Live
    <2>4. \A q \in Requests : /\ chain'[q] = "answer" => chain[q] = "answer"
                              /\ chain[q] = "audio" => chain'[q] = "audio"
        BY <1>1 DEF PageInv, PageTypes
    <2> QED  BY <1>1, <1>7, <2>2, <2>3, <2>4 DEF OneAtATime
<1> QED  BY <1>1, <1>5, <1>6, <1>7, PageStepSuffices

\* The user stops, or starts another push.
LEMMA UserStep ==
    ASSUME PageInv, UNCHANGED vars, stopPush \/ \E r \in Requests : startPush(r)
    PROVE  PageInv'
<1>1. CASE stopPush
    <2>1. /\ tracks' = [r \in Requests |-> IF r = localStream THEN {} ELSE tracks[r]]
          /\ open' = open \ {peer} /\ peer' = None
          /\ UNCHANGED <<chain, asker, localStream, sent, denied, overlapped, answer>>
        BY <1>1 DEF stopPush, vars, callVars
    <2>2. PageTypes'  BY <2>1 DEF PageInv, PageTypes
    <2>3. Offered'  BY <2>1 DEF PageInv, Offered
    <2>4. \A q \in Requests : /\ Live(q)' => Live(q)
                              /\ tracks'[q] # {} => tracks[q] # {}
        BY <2>1 DEF PageInv, PageTypes, Live
    <2>5. OneAtATime => OneAtATime'
        BY <2>1, <2>4 DEF OneAtATime
    <2> QED  BY <2>1, <2>2, <2>3, <2>5, PageStepSuffices
<1>2. ASSUME NEW r \in Requests, startPush(r) PROVE PageInv'
    BY <1>2, PageStepSuffices
    DEF startPush, vars, callVars, PageInv, PageTypes, Offered, OneAtATime, Live
<1> QED  BY <1>1, <1>2

\* Every step of the gateway and of the page preserves the page's invariant.
LEMMA PageStepInvariant == IInv /\ PageInv /\ [PageNext]_<<vars, pageVars>> => PageInv'
<1> SUFFICES ASSUME IInv, PageInv, [PageNext]_<<vars, pageVars>> PROVE PageInv'
    OBVIOUS
<1>1. CASE UNCHANGED <<vars, pageVars>>
    BY <1>1 DEF vars, callVars, pageVars, PageInv, PageTypes, NoDocument, Offered, OneAtATime,
          Live
<1>2. CASE Page /\ UNCHANGED vars
    BY <1>2, UserStep, PushRepliedStep, ChainSteps, AudioGrantedStep, AnswerMadeStep DEF Page
<1>3. ASSUME NEW r \in Requests, Handler(r) \/ Server(r), UNCHANGED pageVars PROVE PageInv'
    BY <1>3, GatewayStep
<1> QED  BY <1>1, <1>2, <1>3 DEF PageNext

\* The gateway under the page is the gateway: what is proved of it holds here.
THEOREM PageUsesGateway == PageSpec => Spec
<1>1. PageInit => Init  BY DEF PageInit
<1>2. [PageNext]_<<vars, pageVars>> => [Next]_vars
    BY DEF PageNext, Next
<1> QED  BY <1>1, <1>2, PTL DEF PageSpec, Spec

\* The page's invariant holds in every behaviour of page and gateway.
THEOREM PageInvariance == PageSpec => []PageInv
<1>1. PageSpec => []IInv  BY PageUsesGateway, Invariance, PTL
<1> QED  BY <1>1, PageInitInvariant, PageStepInvariant, PTL DEF PageSpec

\* However the browser settles its promises and whenever the user stops, as
\* long as pushes do not overlap stopPush reaches every peer connection that is
\* open and, unless the microphone was refused, every capture.
THEOREM StopIsComplete == PageSpec => []StopReaches
<1>1. PageInv => StopReaches  BY DEF PageInv, OneAtATime, StopReaches
<1> QED  BY <1>1, PageInvariance, PTL

\* The page answers only offers that a media server has sent; as long as pushes
\* do not overlap, with the answer of the connection the offer was set on and
\* the stream of that push.
THEOREM AnswersMatch == PageSpec => []AnswersItsOffer
<1>1. PageInv => AnswersItsOffer  BY DEF PageInv, Offered, OneAtATime, AnswersItsOffer
<1> QED  BY <1>1, PageInvariance, PTL
=============================================================================
