----------------------------- MODULE PushOffer -----------------------------
(***************************************************************************)
(* What an rtc worker does with a push request: RtcStreamManager::         *)
(* create_push_stream (stream/), PeerConnection::create_offer and          *)
(* SessionDescription::to_string (pc/).                                    *)
(*                                                                         *)
(* An SDP text is abstracted to what its reader takes from it: the BUNDLE  *)
(* group, and for each m= section its payload types, its direction and the *)
(* set of its a= lines, each a record.  An empty text is None.             *)
(***************************************************************************)
EXTENDS Integers, Sequences, FiniteSets

CONSTANTS Names,         \* stream names
          MaxStreams,    \* bound on the number of requests
          None

ASSUME ConstantsAssumption ==
    MaxStreams \in Nat /\ None \notin [id : Nat, name : Names]

VARIABLES
    push_streams,   \* RtcStreamManager::_push_streams: a stream or None per name
    alive,          \* PushStream objects that have not been deleted
    created,        \* number of PushStream objects ever created
    request,        \* the last request: its audio and video flags
    offer           \* what it was answered with

vars == <<push_streams, alive, created, request, offer>>

MAX_RES_BUF_1K == 1024

\* The body of an answer (xrtcserver_def.h).
MAX_RES_BUF == 4096

(***************************************************************************)
(* Codecs and media sections (codec_info.h, session_description.h).        *)
(***************************************************************************)

Opus == [id |-> 111, name |-> "opus", fb |-> {<<"transport-cc", "">>},
         params |-> {<<"minptime", 10>>, <<"useinbandfec", 1>>}]
H264 == [id |-> 107, name |-> "h264",
         fb |-> {<<"goog-remb", "">>, <<"transport-cc", "">>, <<"ccm", "fir">>,
                 <<"nack", "">>, <<"nack", "pli">>},
         params |-> {<<"level-asymmetry-allowed", 1>>, <<"packetization-mode", 1>>,
                     <<"profile-level-id", 0>>}]    \* 0: the text is left out

RtxOfItself == [id |-> 99, name |-> "rtx", fb |-> {}, params |-> {<<"apt", 99>>}]

Rtx  == [id |-> 99, name |-> "rtx", fb |-> {}, params |-> {<<"apt", H264.id>>}]

AudioContentDescription == [mid |-> "audio", codecs |-> <<Opus>>]
VideoContentDescription == [mid |-> "video", codecs |-> <<H264, Rtx>>]

get_rtp_dir_swapped(send, recv) ==
    IF send /\ recv THEN "sendrecv"
    ELSE IF recv THEN "sendonly"
    ELSE IF send THEN "recvonly"
    ELSE "inactive"

get_rtp_dir(send, recv) ==
    IF send /\ recv THEN "sendrecv"
    ELSE IF send THEN "sendonly"
    ELSE IF recv THEN "recvonly"
    ELSE "inactive"

(***************************************************************************)
(* SessionDescription: media sections, transports and content groups.      *)
(***************************************************************************)

\* PushStream::create_offer's options: the server only receives.
MediaDescs(audio, video) ==
    (IF audio THEN <<AudioContentDescription>> ELSE <<>>)
      \o (IF video THEN <<VideoContentDescription>> ELSE <<>>)

Mids(media) == [i \in DOMAIN media |-> media[i].mid]

TransportAlways(mid, fingerprint) ==
    {[mid |-> mid, fingerprint |-> fingerprint, role |-> "actpass"]}

\* add_transport_info: nothing is added if the certificate has no fingerprint;
\* create_offer ignores that this has failed.
Transport(mid, fingerprint) ==
    IF fingerprint = None THEN {}
    ELSE {[mid |-> mid, fingerprint |-> fingerprint, role |-> "actpass"]}

\* The one set of credentials create_offer makes goes into every transport.
Transports(media, fingerprint) ==
    UNION {Transport(media[i].mid, fingerprint) : i \in DOMAIN media}

\* The BUNDLE group holds every section; there is none without sections.
ContentGroups(media) == IF media = <<>> THEN <<>> ELSE <<Mids(media)>>

(***************************************************************************)
(* to_string: the lines of a section.                                      *)
(***************************************************************************)

\* build_rtp_map, add_rtcp_fb_line and add_fmtp_line for one codec.
MapLines(codec) ==
    {[a |-> "rtpmap", pt |-> codec.id, val |-> codec.name]}
      \union {[a |-> "rtcp-fb", pt |-> codec.id, val |-> f] : f \in codec.fb}
      \union (IF codec.params = {} THEN {}
              ELSE {[a |-> "fmtp", pt |-> codec.id, val |-> codec.params]})

\* The transport lines of the section, from get_transport(mid).
TransportLines(mid, transports) ==
    UNION {{[a |-> "ice", val |-> "ufrag and pwd"]}
             \union (IF t.fingerprint = None THEN {}
                     ELSE {[a |-> "fingerprint", val |-> t.fingerprint],
                           [a |-> "setup", val |-> t.role]})
           : t \in {x \in transports : x.mid = mid}}

Section(desc, direction, transports) ==
    [mid   |-> desc.mid,
     fmt   |-> [i \in DOMAIN desc.codecs |-> desc.codecs[i].id],
     dir   |-> direction,
     lines |-> TransportLines(desc.mid, transports)
                 \union UNION {MapLines(desc.codecs[i]) : i \in DOMAIN desc.codecs}]

\* create_offer and to_string.  Without a certificate the text is empty.
create_offer(audio, video, certificate, fingerprint) ==
    LET media      == MediaDescs(audio, video)
        transports == Transports(media, fingerprint)
    IN  IF ~certificate THEN None
        ELSE [groups |-> ContentGroups(media),
              media  |-> [i \in DOMAIN media |->
                            Section(media[i], get_rtp_dir(FALSE, TRUE), transports)]]

(***************************************************************************)
(* RtcStreamManager.                                                       *)
(***************************************************************************)

Init ==
    /\ push_streams = [n \in Names |-> None] /\ alive = {} /\ created = 0
    /\ request = None /\ offer = None

\* create_push_stream: a stream found under the name is erased and deleted; the
\* new one is started and asked for its offer, and the map is left as it is.
create_push_stream(name, audio, video, fingerprint) ==
    /\ created < MaxStreams
    /\ created' = created + 1
    /\ push_streams' = [push_streams EXCEPT ![name] = None]
    /\ alive' = {s \in alive : s # push_streams[name]}
                  \union {[id |-> created, name |-> name]}
    /\ request' = [audio |-> audio, video |-> video]
    /\ offer' = create_offer(audio, video, TRUE, fingerprint)

\* RtcServer never forwards a request without a certificate (RtcPipeline's
\* OfferHasCertificate); its fingerprint may be impossible to compute.
Next ==
    \E name \in Names, audio, video \in BOOLEAN, fingerprint \in {"sha-256", None} :
        create_push_stream(name, audio, video, fingerprint)

Spec == Init /\ [][Next]_vars

(***************************************************************************)
(* Properties.  Most are about the offer as its reader sees it.            *)
(***************************************************************************)

Sections   == IF offer = None THEN {} ELSE {offer.media[i] : i \in DOMAIN offer.media}
Payloads(s) == {s.fmt[i] : i \in DOMAIN s.fmt}
Lines(s, a) == {l \in s.lines : l.a = a}

\* A browser can make sense of every payload type: each has its rtpmap line, no
\* fmtp or rtcp-fb line is about a payload the section does not list, no payload
\* type is used in two sections of the bundle, and a retransmission payload
\* refers to a payload of its section that is not itself a retransmission.
PayloadsDescribed ==
    /\ \A s \in Sections :
         /\ Payloads(s) = {l.pt : l \in Lines(s, "rtpmap")}
         /\ \A l \in Lines(s, "fmtp") \union Lines(s, "rtcp-fb") : l.pt \in Payloads(s)
         /\ \A l \in Lines(s, "rtpmap") : l.val = "rtx" =>
               \E f \in Lines(s, "fmtp"), m \in Lines(s, "rtpmap") :
                   f.pt = l.pt /\ <<"apt", m.pt>> \in f.val /\ m.val # "rtx"
    /\ \A s, t \in Sections : s # t => Payloads(s) \cap Payloads(t) = {}

\* The server offers to receive exactly the media the request asks to push.
ReceivesWhatIsPushed ==
    offer # None =>
        /\ \A s \in Sections : s.dir = "recvonly"
        /\ {s.mid : s \in Sections} = {k \in {"audio", "video"} :
               IF k = "audio" THEN request.audio ELSE request.video}

\* A section never carries ICE credentials without the fingerprint and the
\* role of the DTLS transport they belong to, although create_offer ignores a
\* failure of add_transport_info.
IceOnlyWithDtls ==
    \A s \in Sections : Lines(s, "ice") # {} =>
        Lines(s, "fingerprint") # {} /\ [a |-> "setup", val |-> "actpass"] \in s.lines

\* The lines of all sections, and those of one kind; mids tell sections apart.
AllLines == UNION {{s.mid} \X s.lines : s \in Sections}
OfKind(a) == {x \in AllLines : x[2].a = a}

\* Characters the JSON text of the answer takes, the escaped line ends included:
\* 60 for the JSON object, 200 for the session's lines, 240 for the six lines
\* every section has and 60 for each line: the two ICE lines have 58 together.
\* A fingerprint (95 digits and colons) takes up to 130, an fmtp line up to 100.
AnswerSize ==
    60 + 200 + 240 * Cardinality(Sections) + 60 * Cardinality(AllLines)
      + (130 - 60) * Cardinality(OfKind("fingerprint"))
      + (100 - 60) * Cardinality(OfKind("fmtp"))

\* _response_server_offer copies the answer into a buffer of MAX_RES_BUF bytes
\* without looking at its length: the largest offer fits.
AnswerFits == AnswerSize <= MAX_RES_BUF

\* "Look up whether the stream exists" (rtc_stream_manager.cpp:23), so that it
\* can be erased and deleted: no two streams of one name are ever alive.
OneStreamPerName ==
    \A s, t \in alive : s.name = t.name => s = t
=============================================================================
