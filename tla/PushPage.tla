------------------------------ MODULE PushPage ------------------------------
(***************************************************************************)
(* The push page (signaling/static/js/push.js) with the capture extension  *)
(* it asks for the screen (desktopCaptureExtension), on top of the         *)
(* gateway.  A push is named by its HTTP request: the request's success    *)
(* callback makes a peer connection and starts a chain of promises and     *)
(* messages - set the offer, ask the user for a screen, capture it,        *)
(* capture the microphone, make an answer, send it.  A link of the chain   *)
(* uses the page's variables pc and localStream as they are by then, which *)
(* may be after stopPush or after another push has replaced them.          *)
(*                                                                         *)
(* The browser is external: it settles a promise or not, as it likes, but  *)
(* no promise of a closed peer connection.  /signaling/sendanswer and      *)
(* /signaling/stoppush are posted, and the gateway has no such routes.     *)
(***************************************************************************)
EXTENDS PushGateway

ASSUME PageAssumption == None \notin Requests \union Uids \union Answers

VARIABLES
    posted,       \* pushes whose HTTP request has not been answered
    peer,         \* the page's pc: the push it was made for; None: null
    open,         \* peer connections that have not been closed
    chain,        \* the link of its chain each push waits for
    asker,        \* the peer connection whose createAnswer a push waits for
    tracks,       \* live tracks of the stream each push has captured
    localStream,  \* the push whose stream it is, None before the first
    sent,         \* answers: <<made by, set on, stream of>>, each a push
    extension,    \* is the extension there to show its dialog?
    denied,       \* has the microphone been refused after the screen?
    overlapped    \* has a push begun before all of an earlier one had ended?

pageVars == <<posted, peer, open, chain, asker, tracks, localStream, sent, extension, denied,
              overlapped>>

PageInit ==
    /\ Init
    /\ posted = {} /\ peer = None /\ open = {} /\ localStream = None /\ sent = {}
    /\ chain = [r \in Requests |-> "none"] /\ asker = [r \in Requests |-> None]
    /\ tracks = [r \in Requests |-> {}]
    /\ extension \in BOOLEAN /\ denied = FALSE /\ overlapped = FALSE

Link(r, from, to) == chain[r] = from /\ chain' = [chain EXCEPT ![r] = to]

\* startPush
startPush(r) ==
    /\ pc[r] = "new" /\ r \notin posted
    /\ posted' = posted \union {r}
    /\ UNCHANGED <<peer, open, chain, asker, tracks, localStream, sent, extension, denied,
                   overlapped>>

\* Something of an earlier push is still there or on its way.
Busy ==
    \/ peer # None
    \/ \E r \in Requests : tracks[r] # {} \/ chain[r] \in {"dialog", "screen", "audio"}

\* pushStream
pushStream(r) ==
    /\ peer' = r /\ open' = open \union {r}
    /\ Link(r, "none", "remote")
    /\ overlapped' = (overlapped \/ Busy)

AnyDocument(r) == docs[r] # <<>>

\* jQuery calls the callback for one JSON document; errNo tells them apart.
Success(r) == docs[r] = <<"offer">>

PushReplied(r) ==
    /\ r \in posted /\ pc[r] \in Finished
    /\ posted' = posted \ {r}
    /\ IF Success(r) THEN pushStream(r) ELSE UNCHANGED <<peer, open, chain, overlapped>>
    /\ UNCHANGED <<asker, tracks, localStream, sent, extension, denied>>

\* setRemoteDescriptionSuccess posts SS_UI_REQUEST.
RemoteSet(r) ==
    /\ r \in open /\ Link(r, "remote", "dialog")
    /\ UNCHANGED <<posted, peer, open, asker, tracks, localStream, sent, extension, denied,
                   overlapped>>

\* The content script and the background page pass the request on and the
\* user's choice back; startScreenStreamFrom asks for the screen.
DialogAccepted(r) ==
    /\ extension /\ Link(r, "dialog", "screen")
    /\ UNCHANGED <<posted, peer, open, asker, tracks, localStream, sent, extension, denied,
                   overlapped>>

\* handleSuccess: the screen is being captured, the microphone is asked for.
ScreenCaptured(r) ==
    /\ Link(r, "screen", "audio")
    /\ tracks' = [tracks EXCEPT ![r] = {"video"}]
    /\ UNCHANGED <<posted, peer, open, asker, localStream, sent, extension, denied, overlapped>>

\* An error callback, SS_DIALOG_CANCEL or handleError: the chain is at its end,
\* and a stream it has captured goes on.
ChainBreaks(r) ==
    /\ \/ r \in open /\ Link(r, "remote", "over")
       \/ extension /\ Link(r, "dialog", "over")
       \/ Link(r, "screen", "over") \/ Link(r, "audio", "over")
       \/ asker[r] \in open /\ Link(r, "answer", "over")
    /\ denied' = (denied \/ chain[r] = "audio")
    /\ UNCHANGED <<posted, peer, open, asker, tracks, localStream, sent, extension, overlapped>>

AudioGrantedStreamLast(r) ==
    /\ Link(r, "audio", IF peer = None THEN "over" ELSE "answer")
    /\ tracks' = [tracks EXCEPT ![r] = @ \union {"audio"}]
    /\ localStream' = IF peer = None THEN localStream ELSE r
    /\ asker' = [asker EXCEPT ![r] = peer]
    /\ UNCHANGED <<posted, peer, open, sent, extension, denied, overlapped>>

\* The inner callback of handleSuccess; without a pc, pc.addStream throws and
\* handleError ends the chain.
AudioGranted(r) ==
    /\ Link(r, "audio", IF peer = None THEN "over" ELSE "answer")
    /\ tracks' = [tracks EXCEPT ![r] = @ \union {"audio"}]
    /\ localStream' = r
    /\ asker' = [asker EXCEPT ![r] = peer]
    /\ UNCHANGED <<posted, peer, open, sent, extension, denied, overlapped>>

\* createSessionDescriptionSuccess and sendAnswer; without a pc the first line
\* throws.
AnswerMade(r) ==
    /\ asker[r] \in open /\ Link(r, "answer", "over")
    /\ sent' = IF peer = None THEN sent ELSE sent \union {<<asker[r], peer, r>>}
    /\ UNCHANGED <<posted, peer, open, asker, tracks, localStream, extension, denied, overlapped>>

\* stopPush; localStream keeps its value.
stopPush ==
    /\ peer # None \/ localStream # None
    /\ tracks' = [r \in Requests |-> IF r = localStream THEN {} ELSE tracks[r]]
    /\ open' = open \ {peer} /\ peer' = None
    /\ UNCHANGED <<posted, chain, asker, localStream, sent, extension, denied, overlapped>>

Page ==
    \/ stopPush
    \/ \E r \in Requests :
         \/ startPush(r) \/ PushReplied(r) \/ RemoteSet(r) \/ DialogAccepted(r)
         \/ ScreenCaptured(r) \/ ChainBreaks(r) \/ AudioGranted(r) \/ AnswerMade(r)

\* A request that is not the page's comes from somewhere else; a reply to the
\* page's that never reaches it has the effect of OtherPath, no document.
PageNext ==
    \/ Page /\ UNCHANGED vars
    \/ (\E r \in Requests : Handler(r) \/ Server(r)) /\ UNCHANGED pageVars

PageSpec == PageInit /\ [][PageNext]_<<vars, pageVars>> /\ Fairness

(***************************************************************************)
(* Properties.                                                             *)
(***************************************************************************)

\* Whenever the user stops, nothing is left that stopPush cannot reach: a live
\* capture is localStream's or is still waiting for the microphone, and an open
\* peer connection is the page's pc.  That holds as long as a push begins only
\* when all of the earlier one has ended; and refusing the microphone leaves
\* the screen captured.
StopReaches ==
    ~overlapped =>
        /\ open \subseteq {peer}
        /\ ~denied => \A r \in Requests :
              tracks[r] # {} => localStream = r \/ chain[r] = "audio"

\* An answer is sent only for an offer a media server has sent, and, as long as
\* pushes do not overlap, it was made by the peer connection it is set on, for
\* the push whose stream it describes.
AnswersItsOffer ==
    \A a \in sent :
        /\ answer[a[1]] = "offer" /\ answer[a[2]] = "offer"
        /\ ~overlapped => a[1] = a[2] /\ a[2] = a[3]
=============================================================================
