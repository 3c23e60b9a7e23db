--------------------------- MODULE PushOfferProofs ---------------------------
(***************************************************************************)
(* Proofs about the offers a push request is answered with, for any stream *)
(* names and any number of requests.  The inductive invariant is that the  *)
(* last answer is the offer for the last request; the rest is about what   *)
(* to_string makes of a media description.  That part is proved for every  *)
(* description and codec table, and only then applied to those of          *)
(* codec_info.h.                                                           *)
(***************************************************************************)
EXTENDS PushOffer, FiniteSetTheorems, SequenceTheorems, TLAPS

Fingerprints == {"sha-256", None}

\* The last answer is the offer for the last request.
Answered ==
    \/ offer = None
    \/ \E audio, video \in BOOLEAN, fingerprint \in Fingerprints :
          /\ request = [audio |-> audio, video |-> video]
          /\ offer = create_offer(audio, video, TRUE, fingerprint)

\* Every request leaves its own offer behind.
LEMMA AnsweredInvariant == Spec => []Answered
<1>1. Init => Answered  BY DEF Init, Answered
<1>2. Answered /\ [Next]_vars => Answered'
    <2> SUFFICES ASSUME Answered, [Next]_vars PROVE Answered'
        OBVIOUS
    <2>1. ASSUME NEW name \in Names, NEW audio \in BOOLEAN, NEW video \in BOOLEAN,
                 NEW fingerprint \in Fingerprints,
                 create_push_stream(name, audio, video, fingerprint)
          PROVE  Answered'
        <3>1. /\ request' = [audio |-> audio, video |-> video]
              /\ offer' = create_offer(audio, video, TRUE, fingerprint)
            BY <2>1 DEF create_push_stream
        <3> QED  BY <3>1 DEF Answered
    <2>2. CASE UNCHANGED vars  BY <2>2 DEF Answered, vars
    <2> QED  BY <2>1, <2>2 DEF Next, Fingerprints
<1> QED  BY <1>1, <1>2, PTL DEF Spec

(***************************************************************************)
(* The lines of a section, for any media description.                      *)
(***************************************************************************)

Codecs(desc) == {desc.codecs[i] : i \in DOMAIN desc.codecs}

RtpMap(codec) == [a |-> "rtpmap", pt |-> codec.id, val |-> codec.name]
RtcpFb(codec, f) == [a |-> "rtcp-fb", pt |-> codec.id, val |-> f]
Fmtp(codec) == [a |-> "fmtp", pt |-> codec.id, val |-> codec.params]

\* The lines of the transports of a section.
LEMMA TransportShape ==
    ASSUME NEW mid, NEW ts, NEW l
    PROVE  l \in TransportLines(mid, ts) <=>
             \E t \in ts :
                /\ t.mid = mid
                /\ \/ l = [a |-> "ice", val |-> "ufrag and pwd"]
                   \/ /\ t.fingerprint # None
                      /\ \/ l = [a |-> "fingerprint", val |-> t.fingerprint]
                         \/ l = [a |-> "setup", val |-> t.role]
<1> DEFINE F(t) == {[a |-> "ice", val |-> "ufrag and pwd"]}
                     \union (IF t.fingerprint = None THEN {}
                             ELSE {[a |-> "fingerprint", val |-> t.fingerprint],
                                   [a |-> "setup", val |-> t.role]})
<1>1. TransportLines(mid, ts) = UNION {F(t) : t \in {x \in ts : x.mid = mid}}
    BY DEF TransportLines
<1>2. \A t : l \in F(t) <=>
         \/ l = [a |-> "ice", val |-> "ufrag and pwd"]
         \/ /\ t.fingerprint # None
            /\ \/ l = [a |-> "fingerprint", val |-> t.fingerprint]
               \/ l = [a |-> "setup", val |-> t.role]
    OBVIOUS
<1> HIDE DEF F
<1>3. l \in UNION {F(t) : t \in {x \in ts : x.mid = mid}}
         <=> \E t \in ts : t.mid = mid /\ l \in F(t)
    OBVIOUS
<1> QED  BY <1>1, <1>2, <1>3

\* They are of three kinds.
LEMMA TransportKinds ==
    ASSUME NEW mid, NEW ts, NEW l \in TransportLines(mid, ts)
    PROVE  l.a \in {"ice", "fingerprint", "setup"}
<1>1. PICK t \in {x \in ts : x.mid = mid} :
         \/ l = [a |-> "ice", val |-> "ufrag and pwd"]
         \/ l = [a |-> "fingerprint", val |-> t.fingerprint]
         \/ l = [a |-> "setup", val |-> t.role]
    BY DEF TransportLines
<1>2. CASE l = [a |-> "ice", val |-> "ufrag and pwd"]  BY <1>2
<1>3. CASE l = [a |-> "fingerprint", val |-> t.fingerprint]  BY <1>3
<1>4. CASE l = [a |-> "setup", val |-> t.role]  BY <1>4
<1> QED  BY <1>1, <1>2, <1>3, <1>4

\* The lines of a codec, and what they say.
LEMMA CodecLines ==
    ASSUME NEW codec, NEW l
    PROVE  l \in MapLines(codec) <=>
             \/ l = RtpMap(codec)
             \/ \E f \in codec.fb : l = RtcpFb(codec, f)
             \/ codec.params # {} /\ l = Fmtp(codec)
<1> QED  BY DEF MapLines, RtpMap, RtcpFb, Fmtp

\* The lines of each kind that a section has for its codecs.
LEMMA SectionLines ==
    ASSUME NEW desc, NEW dir, NEW ts, NEW s, s = Section(desc, dir, ts)
    PROVE  LET C == Codecs(desc)
           IN  /\ s.mid = desc.mid /\ s.dir = dir
               /\ Payloads(s) = {c.id : c \in C}
               /\ Lines(s, "rtpmap") = {RtpMap(c) : c \in C}
               /\ Lines(s, "fmtp") = {Fmtp(c) : c \in {x \in C : x.params # {}}}
               /\ \A l \in Lines(s, "rtcp-fb") : \E c \in C : l.pt = c.id
               /\ \A l \in s.lines :
                     l \in TransportLines(desc.mid, ts) \/ \E c \in C : l \in MapLines(c)
               /\ \A a \in {"ice", "fingerprint", "setup"} :
                     Lines(s, a) = {l \in TransportLines(desc.mid, ts) : l.a = a}
<1> DEFINE C == Codecs(desc)
           T == TransportLines(desc.mid, ts)
<1>1. /\ s.mid = desc.mid /\ s.dir = dir
      /\ s.fmt = [i \in DOMAIN desc.codecs |-> desc.codecs[i].id]
      /\ s.lines = T \union UNION {MapLines(desc.codecs[i]) : i \in DOMAIN desc.codecs}
    BY DEF Section
<1>2. \A l : l \in s.lines <=> l \in T \/ \E c \in C : l \in MapLines(c)
    BY <1>1 DEF Codecs
<1>3. Payloads(s) = {c.id : c \in C}  BY <1>1 DEF Payloads, Codecs
<1>4. \A l \in T : l.a \in {"ice", "fingerprint", "setup"}  BY TransportKinds
<1>5. \A c : \A l : l \in MapLines(c) <=>
             \/ l = RtpMap(c)
             \/ \E f \in c.fb : l = RtcpFb(c, f)
             \/ c.params # {} /\ l = Fmtp(c)
    BY CodecLines
<1> HIDE DEF T, C
<1>6. \A c : RtpMap(c).a = "rtpmap" /\ Fmtp(c).a = "fmtp" /\ Fmtp(c).pt = c.id
             /\ \A f : RtcpFb(c, f).a = "rtcp-fb" /\ RtcpFb(c, f).pt = c.id
    BY DEF RtpMap, Fmtp, RtcpFb
<1>7. Lines(s, "rtpmap") = {RtpMap(c) : c \in C}
    BY <1>2, <1>4, <1>5, <1>6 DEF Lines
<1>8. Lines(s, "fmtp") = {Fmtp(c) : c \in {x \in C : x.params # {}}}
    BY <1>2, <1>4, <1>5, <1>6 DEF Lines
<1>9. \A l \in Lines(s, "rtcp-fb") : \E c \in C : l.pt = c.id
    BY <1>2, <1>4, <1>5, <1>6 DEF Lines
<1>10. \A a \in {"ice", "fingerprint", "setup"} : Lines(s, a) = {l \in T : l.a = a}
    BY <1>2, <1>4, <1>5, <1>6 DEF Lines
<1> QED  BY <1>1, <1>2, <1>3, <1>7, <1>8, <1>9, <1>10 DEF C, T

(***************************************************************************)
(* The sections of an offer.                                               *)
(***************************************************************************)

\* The media descriptions a request asks for.
Wanted(audio, video) ==
    (IF audio THEN {AudioContentDescription} ELSE {})
      \union (IF video THEN {VideoContentDescription} ELSE {})

\* The transports of an offer have the fingerprint of one certificate, and a role.
Secured(ts) ==
    \E fingerprint : \A t \in ts :
        t.fingerprint = fingerprint /\ fingerprint # None /\ t.role = "actpass"

\* Sequences of one and of two elements.
LEMMA ShortSeqs ==
    ASSUME NEW x, NEW y
    PROVE  /\ <<x>> \o <<y>> = <<x, y>>
           /\ {<<x, y>>[i] : i \in DOMAIN <<x, y>>} = {x, y}
           /\ {<<x>>[i] : i \in DOMAIN <<x>>} = {x}
<1>1. <<x>> \o <<y>> = <<x, y>>
    <2>1. <<x>> \in Seq({x, y}) /\ <<y>> \in Seq({x, y}) /\ <<x, y>> \in Seq({x, y})
        OBVIOUS
    <2>2. Len(<<x>> \o <<y>>) = 2 /\ (<<x>> \o <<y>>)[1] = x /\ (<<x>> \o <<y>>)[2] = y
        BY <2>1, ConcatProperties
    <2>3. <<x>> \o <<y>> \in Seq({x, y})  BY <2>1, ConcatProperties
    <2>4. Len(<<x, y>>) = 2 /\ <<x, y>>[1] = x /\ <<x, y>>[2] = y  OBVIOUS
    <2>5. \A i \in 1 .. 2 : (<<x>> \o <<y>>)[i] = <<x, y>>[i]
        <3> SUFFICES ASSUME NEW i \in 1 .. 2 PROVE (<<x>> \o <<y>>)[i] = <<x, y>>[i]
            OBVIOUS
        <3>1. i = 1 \/ i = 2  OBVIOUS
        <3> QED  BY <2>2, <2>4, <3>1
    <2> QED  BY <2>1, <2>2, <2>3, <2>4, <2>5, SeqEqual
<1>2. DOMAIN <<x, y>> = {1, 2} /\ DOMAIN <<x>> = {1}  OBVIOUS
<1>3. <<x, y>>[1] = x /\ <<x, y>>[2] = y /\ <<x>>[1] = x  OBVIOUS
<1>4. {<<x, y>>[i] : i \in {1, 2}} = {x, y}  BY <1>3
<1>5. {<<x>>[i] : i \in {1}} = {x}  BY <1>3
<1> QED  BY <1>1, <1>2, <1>4, <1>5

\* create_offer asks for each wanted description once.
LEMMA MediaWanted ==
    ASSUME NEW audio \in BOOLEAN, NEW video \in BOOLEAN
    PROVE  LET media == MediaDescs(audio, video)
           IN  {media[i] : i \in DOMAIN media} = Wanted(audio, video)
<1>1. CASE audio /\ video
    <2>1. MediaDescs(audio, video) = <<AudioContentDescription, VideoContentDescription>>
        BY <1>1, ShortSeqs DEF MediaDescs
    <2>2. {<<AudioContentDescription, VideoContentDescription>>[i] : i \in DOMAIN <<AudioContentDescription, VideoContentDescription>>}
          = {AudioContentDescription, VideoContentDescription}
        BY ShortSeqs
    <2>3. Wanted(audio, video) = {AudioContentDescription, VideoContentDescription}  BY <1>1 DEF Wanted
    <2> QED  BY <2>1, <2>2, <2>3
<1>2. CASE audio /\ ~video
    <2>1. MediaDescs(audio, video) = <<AudioContentDescription>>
        BY <1>2 DEF MediaDescs
    <2>2. {<<AudioContentDescription>>[i] : i \in DOMAIN <<AudioContentDescription>>}
          = {AudioContentDescription}
        BY ShortSeqs
    <2>3. Wanted(audio, video) = {AudioContentDescription}  BY <1>2 DEF Wanted
    <2> QED  BY <2>1, <2>2, <2>3
<1>3. CASE ~audio /\ video
    <2>1. MediaDescs(audio, video) = <<VideoContentDescription>>
        BY <1>3 DEF MediaDescs
    <2>2. {<<VideoContentDescription>>[i] : i \in DOMAIN <<VideoContentDescription>>}
          = {VideoContentDescription}
        BY ShortSeqs
    <2>3. Wanted(audio, video) = {VideoContentDescription}  BY <1>3 DEF Wanted
    <2> QED  BY <2>1, <2>2, <2>3
<1>4. CASE ~audio /\ ~video
    <2>1. MediaDescs(audio, video) = << >>
        BY <1>4 DEF MediaDescs
    <2> QED  BY <1>4, <2>1 DEF Wanted
<1> QED  BY <1>1, <1>2, <1>3, <1>4

\* add_transport_info adds a transport only with its fingerprint.
LEMMA TransportsSecured ==
    ASSUME NEW media, NEW fingerprint PROVE Secured(Transports(media, fingerprint))
<1> QED  BY DEF Secured, Transports, Transport

\* The sections of an offer's text.
LEMMA OfferMedia ==
    ASSUME NEW g, NEW m, NEW o, o = [groups |-> g, media |-> m] PROVE o.media = m
<1> QED  OBVIOUS

\* An offer has one section for each wanted description.
LEMMA OfferSections ==
    ASSUME NEW audio \in BOOLEAN, NEW video \in BOOLEAN, NEW fingerprint,
           offer = create_offer(audio, video, TRUE, fingerprint), offer # None
    PROVE  \E ts : /\ Secured(ts)
                   /\ Sections = {Section(d, "recvonly", ts) : d \in Wanted(audio, video)}
<1> DEFINE media == MediaDescs(audio, video)
           ts    == Transports(media, fingerprint)
<1>1. get_rtp_dir(FALSE, TRUE) = "recvonly"  BY DEF get_rtp_dir
<1>2. offer = [groups |-> ContentGroups(media),
               media  |-> [i \in DOMAIN media |-> Section(media[i], "recvonly", ts)]]
    BY <1>1 DEF create_offer
<1>3. Secured(ts)  BY TransportsSecured
<1>4. {media[i] : i \in DOMAIN media} = Wanted(audio, video)  BY MediaWanted
<1> HIDE DEF media, ts
<1>5. Sections = {Section(media[i], "recvonly", ts) : i \in DOMAIN media}
    <2>1. offer.media = [i \in DOMAIN media |-> Section(media[i], "recvonly", ts)]
        BY <1>2, OfferMedia
    <2>2. Sections = {offer.media[i] : i \in DOMAIN offer.media}  BY DEF Sections
    <2> QED  BY <2>1, <2>2
<1>6. Sections = {Section(d, "recvonly", ts) : d \in {media[i] : i \in DOMAIN media}}
    BY <1>5
<1> QED  BY <1>3, <1>4, <1>6

(***************************************************************************)
(* The codec tables.                                                       *)
(***************************************************************************)

\* A retransmission codec repairs another codec of its description.
Repairs(desc) ==
    \A c \in Codecs(desc) : c.name = "rtx" =>
        \E d \in Codecs(desc) : <<"apt", d.id>> \in c.params /\ d.name # "rtx"

\* A browser can make sense of every payload type of the section.
Sensible(s) ==
    /\ Payloads(s) = {l.pt : l \in Lines(s, "rtpmap")}
    /\ \A l \in Lines(s, "fmtp") \union Lines(s, "rtcp-fb") : l.pt \in Payloads(s)
    /\ \A l \in Lines(s, "rtpmap") : l.val = "rtx" =>
          \E f \in Lines(s, "fmtp"), m \in Lines(s, "rtpmap") :
              f.pt = l.pt /\ <<"apt", m.pt>> \in f.val /\ m.val # "rtx"

\* to_string describes every codec table whose retransmissions repair one of
\* its other codecs, whatever else is in it.
THEOREM TablesDescribed ==
    ASSUME NEW desc, Repairs(desc), NEW dir, NEW ts
    PROVE  Sensible(Section(desc, dir, ts))
<1> DEFINE s == Section(desc, dir, ts)
           C == Codecs(desc)
<1>1. /\ Payloads(s) = {c.id : c \in C}
      /\ Lines(s, "rtpmap") = {RtpMap(c) : c \in C}
      /\ Lines(s, "fmtp") = {Fmtp(c) : c \in {x \in C : x.params # {}}}
      /\ \A l \in Lines(s, "rtcp-fb") : \E c \in C : l.pt = c.id
    BY SectionLines
<1>2. \A c : /\ RtpMap(c).pt = c.id /\ RtpMap(c).val = c.name
             /\ Fmtp(c).pt = c.id /\ Fmtp(c).val = c.params
    BY DEF RtpMap, Fmtp
<1>3. \A c \in C : c.name = "rtx" =>
         \E d \in C : <<"apt", d.id>> \in c.params /\ d.name # "rtx"
    BY DEF Repairs
<1> HIDE DEF s, C
<1>4. Payloads(s) = {l.pt : l \in Lines(s, "rtpmap")}
    <2>1. \A c \in C : c.id \in {l.pt : l \in Lines(s, "rtpmap")}
        <3> SUFFICES ASSUME NEW c \in C PROVE c.id \in {l.pt : l \in Lines(s, "rtpmap")}
            OBVIOUS
        <3>1. RtpMap(c) \in Lines(s, "rtpmap") /\ RtpMap(c).pt = c.id  BY <1>1, <1>2
        <3> QED  BY <3>1
    <2>2. \A l \in Lines(s, "rtpmap") : l.pt \in Payloads(s)
        <3> SUFFICES ASSUME NEW l \in Lines(s, "rtpmap") PROVE l.pt \in Payloads(s)
            OBVIOUS
        <3>1. PICK c \in C : l = RtpMap(c)  BY <1>1
        <3>2. l.pt = c.id  BY <1>2, <3>1
        <3> QED  BY <1>1, <3>2
    <2>3. \A x \in Payloads(s) : x \in {l.pt : l \in Lines(s, "rtpmap")}  BY <1>1, <2>1
    <2> QED  BY <2>2, <2>3
<1>5. \A l \in Lines(s, "fmtp") \union Lines(s, "rtcp-fb") : l.pt \in Payloads(s)
    <2>1. ASSUME NEW l \in Lines(s, "fmtp") PROVE l.pt \in Payloads(s)
        <3>1. PICK c \in C : l = Fmtp(c)  BY <1>1
        <3>2. l.pt = c.id  BY <1>2, <3>1
        <3> QED  BY <1>1, <3>2
    <2>2. ASSUME NEW l \in Lines(s, "rtcp-fb") PROVE l.pt \in Payloads(s)
        BY <1>1
    <2> QED  BY <2>1, <2>2
<1>6. ASSUME NEW l \in Lines(s, "rtpmap"), l.val = "rtx"
      PROVE  \E f \in Lines(s, "fmtp"), m \in Lines(s, "rtpmap") :
                 f.pt = l.pt /\ <<"apt", m.pt>> \in f.val /\ m.val # "rtx"
    <2>1. PICK c \in C : l = RtpMap(c)  BY <1>1
    <2>2. c.name = "rtx" /\ l.pt = c.id  BY <1>2, <1>6, <2>1
    <2>3. PICK d \in C : <<"apt", d.id>> \in c.params /\ d.name # "rtx"  BY <1>3, <2>2
    <2>4. c.params # {}  BY <2>3
    <2>5. Fmtp(c) \in Lines(s, "fmtp") /\ RtpMap(d) \in Lines(s, "rtpmap")
        BY <1>1, <2>4
    <2>6. /\ Fmtp(c).pt = l.pt /\ <<"apt", RtpMap(d).pt>> \in Fmtp(c).val
          /\ RtpMap(d).val # "rtx"
        BY <1>2, <2>2, <2>3
    <2> QED  BY <2>5, <2>6
<1>7. Sensible(s)  BY <1>4, <1>5, <1>6 DEF Sensible
<1> QED  BY <1>7 DEF s

\* The two tables of codec_info.h.
LEMMA CodecTables ==
    /\ Codecs(AudioContentDescription) = {Opus} /\ AudioContentDescription.mid = "audio"
    /\ Codecs(VideoContentDescription) = {H264, Rtx} /\ VideoContentDescription.mid = "video"
    /\ Opus.id = 111 /\ H264.id = 107 /\ Rtx.id = 99
    /\ Repairs(AudioContentDescription) /\ Repairs(VideoContentDescription)
<1>1. /\ AudioContentDescription.codecs = <<Opus>> /\ AudioContentDescription.mid = "audio"
      /\ VideoContentDescription.codecs = <<H264, Rtx>>
      /\ VideoContentDescription.mid = "video"
    BY DEF AudioContentDescription, VideoContentDescription
<1>2. Codecs(AudioContentDescription) = {Opus}  BY <1>1, ShortSeqs DEF Codecs
<1>3. Codecs(VideoContentDescription) = {H264, Rtx}  BY <1>1, ShortSeqs DEF Codecs
<1>4. /\ Opus.id = 111 /\ Opus.name = "opus" /\ H264.id = 107 /\ H264.name = "h264"
      /\ Rtx.id = 99 /\ <<"apt", H264.id>> \in Rtx.params
    BY DEF Opus, H264, Rtx
<1>5. Repairs(AudioContentDescription)  BY <1>2, <1>4 DEF Repairs
<1>6. Repairs(VideoContentDescription)
    <2>1. \A c \in {H264, Rtx} : c.name = "rtx" => <<"apt", H264.id>> \in c.params
        BY <1>4
    <2> QED  BY <1>3, <1>4, <2>1 DEF Repairs
<1> QED  BY <1>1, <1>2, <1>3, <1>4, <1>5, <1>6

(***************************************************************************)
(* The properties of the answer.                                           *)
(***************************************************************************)

\* What the invariant says of an answer that is not empty.
LEMMA AnswerSections ==
    ASSUME Answered, offer # None
    PROVE  \E audio, video \in BOOLEAN : \E ts :
              /\ request = [audio |-> audio, video |-> video] /\ Secured(ts)
              /\ Sections = {Section(d, "recvonly", ts) : d \in Wanted(audio, video)}
<1>1. PICK audio \in BOOLEAN, video \in BOOLEAN, fingerprint \in Fingerprints :
         /\ request = [audio |-> audio, video |-> video]
         /\ offer = create_offer(audio, video, TRUE, fingerprint)
    BY DEF Answered
<1>2. PICK ts : /\ Secured(ts)
                /\ Sections = {Section(d, "recvonly", ts) : d \in Wanted(audio, video)}
    BY <1>1, OfferSections
<1> QED  BY <1>1, <1>2

\* Only the two descriptions are ever asked for.
LEMMA WantedDescs ==
    ASSUME NEW audio, NEW video, NEW d \in Wanted(audio, video)
    PROVE  d = AudioContentDescription \/ d = VideoContentDescription
<1> QED  BY DEF Wanted

\* Every payload type of every offer is described, once, and can be used.
THEOREM PayloadsInvariant == Spec => []PayloadsDescribed
<1>1. ASSUME Answered PROVE PayloadsDescribed
    <2>1. CASE offer = None  BY <2>1 DEF PayloadsDescribed, Sections
    <2>2. CASE offer # None
        <3>0. PICK audio \in BOOLEAN, video \in BOOLEAN : \E ts :
                 Sections = {Section(d, "recvonly", ts) : d \in Wanted(audio, video)}
            BY <1>1, <2>2, AnswerSections
        <3>1. PICK ts : Sections = {Section(d, "recvonly", ts) : d \in Wanted(audio, video)}
            BY <3>0
        <3>2. \A s \in Sections : Sensible(s)
            BY <3>1, WantedDescs, CodecTables, TablesDescribed
        <3>3. ASSUME NEW s \in Sections, NEW t \in Sections, s # t
              PROVE  Payloads(s) \cap Payloads(t) = {}
            <4>1. PICK c \in Wanted(audio, video), d \in Wanted(audio, video) :
                     s = Section(c, "recvonly", ts) /\ t = Section(d, "recvonly", ts)
                BY <3>1
            <4>2. c # d  BY <3>3, <4>1
            <4>3. Payloads(s) = {x.id : x \in Codecs(c)} /\ Payloads(t) = {x.id : x \in Codecs(d)}
                BY <4>1, SectionLines
            <4>4. \A x \in {Opus} : \A y \in {H264, Rtx} : x.id # y.id  BY CodecTables
            <4> QED  BY <4>2, <4>3, <4>4, WantedDescs, CodecTables
        <3> QED  BY <3>2, <3>3 DEF PayloadsDescribed, Sensible
    <2> QED  BY <2>1, <2>2
<1> QED  BY <1>1, AnsweredInvariant, PTL

\* The server offers to receive exactly the media that will be pushed.
THEOREM ReceivesInvariant == Spec => []ReceivesWhatIsPushed
<1>1. ASSUME Answered, offer # None PROVE ReceivesWhatIsPushed
    <2>0. PICK audio \in BOOLEAN, video \in BOOLEAN : \E ts :
             /\ request = [audio |-> audio, video |-> video]
             /\ Sections = {Section(d, "recvonly", ts) : d \in Wanted(audio, video)}
        BY <1>1, AnswerSections
    <2>1. PICK ts : Sections = {Section(d, "recvonly", ts) : d \in Wanted(audio, video)}
        BY <2>0
    <2>2. request.audio = audio /\ request.video = video  BY <2>0
    <2>3. \A d : Section(d, "recvonly", ts).dir = "recvonly"
                 /\ Section(d, "recvonly", ts).mid = d.mid
        BY SectionLines
    <2>4. \A s \in Sections : s.dir = "recvonly"  BY <2>1, <2>3
    <2>5. {s.mid : s \in Sections} = {d.mid : d \in Wanted(audio, video)}
        BY <2>1, <2>3
    <2>6. {d.mid : d \in Wanted(audio, video)}
            = {k \in {"audio", "video"} : IF k = "audio" THEN audio ELSE video}
        BY CodecTables DEF Wanted
    <2> QED  BY <2>2, <2>4, <2>5, <2>6 DEF ReceivesWhatIsPushed
<1>2. Answered => ReceivesWhatIsPushed  BY <1>1 DEF ReceivesWhatIsPushed
<1> QED  BY <1>2, AnsweredInvariant, PTL

\* No section has ICE credentials without the DTLS fingerprint and role.
THEOREM IceInvariant == Spec => []IceOnlyWithDtls
<1>1. ASSUME Answered PROVE IceOnlyWithDtls
    <2>1. CASE offer = None  BY <2>1 DEF IceOnlyWithDtls, Sections
    <2>2. CASE offer # None
        <3>0. PICK audio \in BOOLEAN, video \in BOOLEAN : \E ts :
                 /\ Secured(ts)
                 /\ Sections = {Section(d, "recvonly", ts) : d \in Wanted(audio, video)}
            BY <1>1, <2>2, AnswerSections
        <3>1. PICK ts :
                 /\ Secured(ts)
                 /\ Sections = {Section(d, "recvonly", ts) : d \in Wanted(audio, video)}
            BY <3>0
        <3>2. ASSUME NEW s \in Sections, Lines(s, "ice") # {}
              PROVE  Lines(s, "fingerprint") # {} /\ [a |-> "setup", val |-> "actpass"] \in s.lines
            <4>1. PICK d : s = Section(d, "recvonly", ts)  BY <3>1
            <4>2. \A a \in {"ice", "fingerprint", "setup"} :
                     Lines(s, a) = {l \in TransportLines(d.mid, ts) : l.a = a}
                BY <4>1, SectionLines
            <4>3. PICK l : l \in TransportLines(d.mid, ts)  BY <3>2, <4>2
            <4>4. PICK t \in ts : t.mid = d.mid  BY <4>3 DEF TransportLines
            <4>5. t.fingerprint # None /\ t.role = "actpass"  BY <3>1 DEF Secured
            <4>6. /\ [a |-> "fingerprint", val |-> t.fingerprint] \in TransportLines(d.mid, ts)
                  /\ [a |-> "setup", val |-> t.role] \in TransportLines(d.mid, ts)
                BY <4>4, <4>5, TransportShape
            <4>7. [a |-> "fingerprint", val |-> t.fingerprint] \in Lines(s, "fingerprint")
                BY <4>2, <4>6
            <4>8. [a |-> "setup", val |-> "actpass"] \in Lines(s, "setup")
                BY <4>2, <4>5, <4>6
            <4> QED  BY <4>7, <4>8 DEF Lines
        <3> QED  BY <3>2 DEF IceOnlyWithDtls
    <2> QED  BY <2>1, <2>2
<1> QED  BY <1>1, AnsweredInvariant, PTL

(***************************************************************************)
(* The size of the answer.                                                 *)
(***************************************************************************)

AtMost(S, n) == IsFiniteSet(S) /\ Cardinality(S) <= n

\* A subset is no larger.
LEMMA AtMostSubset ==
    ASSUME NEW S, NEW n \in Nat, AtMost(S, n), NEW T, T \subseteq S PROVE AtMost(T, n)
<1>1. IsFiniteSet(S) /\ Cardinality(S) <= n  BY DEF AtMost
<1>2. IsFiniteSet(T) /\ Cardinality(T) <= Cardinality(S)  BY <1>1, FS_Subset
<1>3. Cardinality(S) \in Nat /\ Cardinality(T) \in Nat  BY <1>1, <1>2, FS_CardinalityType
<1> QED  BY <1>1, <1>2, <1>3 DEF AtMost

\* The parts of a union bound it.
LEMMA AtMostUnion ==
    ASSUME NEW S, NEW T, NEW m \in Nat, NEW n \in Nat, AtMost(S, m), AtMost(T, n)
    PROVE  AtMost(S \union T, m + n)
<1>1. IsFiniteSet(S) /\ Cardinality(S) <= m /\ IsFiniteSet(T) /\ Cardinality(T) <= n
    BY DEF AtMost
<1>2. /\ IsFiniteSet(S \union T)
      /\ Cardinality(S \union T) = Cardinality(S) + Cardinality(T) - Cardinality(S \cap T)
    BY <1>1, FS_Union
<1>3. IsFiniteSet(S \cap T)  BY <1>1, FS_Intersection
<1>4. Cardinality(S) \in Nat /\ Cardinality(T) \in Nat /\ Cardinality(S \cap T) \in Nat
    BY <1>1, <1>3, FS_CardinalityType
<1> QED  BY <1>1, <1>2, <1>4 DEF AtMost

\* Sets given by their elements.
LEMMA AtMostFew ==
    ASSUME NEW x, NEW y, NEW z
    PROVE  AtMost({}, 0) /\ AtMost({x}, 1) /\ AtMost({x, y}, 2) /\ AtMost({x, y, z}, 3)
<1>1. AtMost({}, 0)  BY FS_EmptySet DEF AtMost
<1>2. \A u : AtMost({u}, 1)
    <2> SUFFICES ASSUME NEW u PROVE AtMost({u}, 1)
        OBVIOUS
    <2>1. IsFiniteSet({u}) /\ Cardinality({u}) = 1  BY FS_Singleton
    <2>2. Cardinality({u}) <= 1  BY <2>1
    <2> QED  BY <2>1, <2>2, Zenon DEF AtMost
<1>3. AtMost({x} \union {y}, 1 + 1)  BY <1>2, AtMostUnion
<1>4. {x} \union {y} = {x, y} /\ 1 + 1 = 2  OBVIOUS
<1>5. AtMost({x, y}, 2)  BY <1>3, <1>4
<1>6. AtMost({x, y} \union {z}, 2 + 1)  BY <1>2, <1>5, AtMostUnion
<1>7. {x, y} \union {z} = {x, y, z} /\ 2 + 1 = 3  OBVIOUS
<1> QED  BY <1>1, <1>2, <1>5, <1>6, <1>7

\* A set whose elements come, by a function, from at most n things.
LEMMA AtMostImage ==
    ASSUME NEW S, NEW n \in Nat, AtMost(S, n), NEW f, NEW T,
           \A t \in T : \E x \in S : t = f[x]
    PROVE  AtMost(T, n)
<1> DEFINE U == {f[x] : x \in S}
           g == [x \in S |-> f[x]]
<1>1. g \in [S -> U] /\ \A u \in U : \E x \in S : g[x] = u  OBVIOUS
<1>2. g \in Surjection(S, U)  BY <1>1 DEF Surjection
<1>3. T \subseteq U  OBVIOUS
<1>4. IsFiniteSet(S) /\ Cardinality(S) <= n  BY DEF AtMost
<1> HIDE DEF U, g
<1>5. IsFiniteSet(U) /\ Cardinality(U) <= Cardinality(S)  BY <1>2, <1>4, FS_Surjection
<1>6. Cardinality(S) \in Nat /\ Cardinality(U) \in Nat  BY <1>4, <1>5, FS_CardinalityType
<1>7. AtMost(U, n)  BY <1>4, <1>5, <1>6 DEF AtMost
<1> QED  BY <1>3, <1>7, AtMostSubset

\* A codec has a line for each kind of feedback and at most two others.
LEMMA CodecSize ==
    ASSUME NEW codec, NEW n \in Nat, AtMost(codec.fb, n)
    PROVE  AtMost(MapLines(codec), 2 + n)
<1> DEFINE F == {RtcpFb(codec, f) : f \in codec.fb}
           g == [f \in codec.fb |-> RtcpFb(codec, f)]
<1>1. \A t \in F : \E f \in codec.fb : t = g[f]  OBVIOUS
<1>2. MapLines(codec) \subseteq {RtpMap(codec), Fmtp(codec)} \union F  BY CodecLines
<1> HIDE DEF F, g
<1>3. AtMost(F, n)  BY <1>1, AtMostImage
<1>4. AtMost({RtpMap(codec), Fmtp(codec)}, 2)  BY AtMostFew
<1>5. AtMost({RtpMap(codec), Fmtp(codec)} \union F, 2 + n)  BY <1>3, <1>4, AtMostUnion
<1>6. 2 + n \in Nat  OBVIOUS
<1> QED  BY <1>2, <1>5, <1>6, AtMostSubset

\* The lines of the codecs of the two tables.
LEMMA TableSizes ==
    /\ AtMost(MapLines(Opus), 3) /\ AtMost(MapLines(H264), 7) /\ AtMost(MapLines(Rtx), 2)
<1>1. /\ Opus.fb = {<<"transport-cc", "">>} /\ Rtx.fb = {}
      /\ H264.fb = {<<"goog-remb", "">>, <<"transport-cc", "">>, <<"ccm", "fir">>}
                      \union {<<"nack", "">>, <<"nack", "pli">>}
    BY DEF Opus, Rtx, H264
<1>2. AtMost(Opus.fb, 1) /\ AtMost(Rtx.fb, 0)  BY <1>1, AtMostFew
<1>3. /\ AtMost({<<"goog-remb", "">>, <<"transport-cc", "">>, <<"ccm", "fir">>}, 3)
      /\ AtMost({<<"nack", "">>, <<"nack", "pli">>}, 2)
    BY AtMostFew
<1>4. AtMost(H264.fb, 3 + 2)
    <2>1. 3 \in Nat /\ 2 \in Nat  OBVIOUS
    <2>2. AtMost({<<"goog-remb", "">>, <<"transport-cc", "">>, <<"ccm", "fir">>}
                   \union {<<"nack", "">>, <<"nack", "pli">>}, 3 + 2)
        BY <1>3, <2>1, AtMostUnion, Zenon
    <2> QED  BY <1>1, <2>2, Zenon
<1>5. /\ AtMost(MapLines(Opus), 2 + 1) /\ AtMost(MapLines(H264), 2 + (3 + 2))
      /\ AtMost(MapLines(Rtx), 2 + 0)
    BY <1>2, <1>4, CodecSize
<1> QED  BY <1>5

\* The lines the transport of a section can have.
LEMMA TransportSize ==
    ASSUME NEW ts, Secured(ts)
    PROVE  \E fp : \A mid : TransportLines(mid, ts) \subseteq
             {[a |-> "ice", val |-> "ufrag and pwd"], [a |-> "fingerprint", val |-> fp],
              [a |-> "setup", val |-> "actpass"]}
<1>1. PICK fp : \A t \in ts : t.fingerprint = fp /\ t.role = "actpass"  BY DEF Secured
<1>2. ASSUME NEW mid, NEW l \in TransportLines(mid, ts)
      PROVE  l \in {[a |-> "ice", val |-> "ufrag and pwd"], [a |-> "fingerprint", val |-> fp],
                    [a |-> "setup", val |-> "actpass"]}
    <2>1. PICK t \in ts :
             \/ l = [a |-> "ice", val |-> "ufrag and pwd"]
             \/ l = [a |-> "fingerprint", val |-> t.fingerprint]
             \/ l = [a |-> "setup", val |-> t.role]
        BY <1>2 DEF TransportLines
    <2> QED  BY <1>1, <2>1
<1> QED  BY <1>2

\* The lines of an offer, of each kind that AnswerSize tells apart.
LEMMA OfferLines ==
    ASSUME NEW audio, NEW video, NEW ts, Secured(ts),
           Sections = {Section(d, "recvonly", ts) : d \in Wanted(audio, video)}
    PROVE  /\ AtMost(Sections, 2) /\ AtMost(AllLines, 18)
           /\ AtMost(OfKind("fingerprint"), 2) /\ AtMost(OfKind("fmtp"), 3)
<1>1. PICK fp : \A mid : TransportLines(mid, ts) \subseteq
             {[a |-> "ice", val |-> "ufrag and pwd"], [a |-> "fingerprint", val |-> fp],
              [a |-> "setup", val |-> "actpass"]}
    BY TransportSize
<1> DEFINE T3 == {[a |-> "ice", val |-> "ufrag and pwd"], [a |-> "fingerprint", val |-> fp],
                  [a |-> "setup", val |-> "actpass"]}
           LA == T3 \union MapLines(Opus)
           LV == (T3 \union MapLines(H264)) \union MapLines(Rtx)
           TagA == [l \in LA |-> <<"audio", l>>]
           TagV == [l \in LV |-> <<"video", l>>]
           SA == {<<"audio", l>> : l \in LA}
           SV == {<<"video", l>> : l \in LV}
<1>2. \A mid : TransportLines(mid, ts) \subseteq T3  BY <1>1
<1>3. \A l \in T3 : l.a \in {"ice", "fingerprint", "setup"}
                   /\ (l.a = "fingerprint" => l = [a |-> "fingerprint", val |-> fp])
    <2> SUFFICES ASSUME NEW l \in T3
                 PROVE  l.a \in {"ice", "fingerprint", "setup"}
                        /\ (l.a = "fingerprint" => l = [a |-> "fingerprint", val |-> fp])
        OBVIOUS
    <2>1. CASE l = [a |-> "ice", val |-> "ufrag and pwd"]  BY <2>1
    <2>2. CASE l = [a |-> "fingerprint", val |-> fp]  BY <2>2
    <2>3. CASE l = [a |-> "setup", val |-> "actpass"]  BY <2>3
    <2> QED  BY <2>1, <2>2, <2>3
<1>4. AtMost(T3, 3)  BY AtMostFew
<1> HIDE DEF T3
<1>5. AtMost(LA, 6) /\ AtMost(LV, 12)
    <2>1. AtMost(LA, 3 + 3)  BY <1>4, TableSizes, AtMostUnion
    <2>2. AtMost(T3 \union MapLines(H264), 3 + 7)  BY <1>4, TableSizes, AtMostUnion
    <2>3. AtMost(LV, (3 + 7) + 2)  BY <2>2, TableSizes, AtMostUnion
    <2> QED  BY <2>1, <2>3
<1>6. /\ \A x \in SA : \E l \in LA : x = TagA[l]
      /\ \A x \in SV : \E l \in LV : x = TagV[l]
    OBVIOUS
<1>7. \A x \in SA : \E l \in LA : x = <<"audio", l>>  OBVIOUS
<1>8. \A x \in SV : \E l \in LV : x = <<"video", l>>  OBVIOUS
<1>9. ASSUME NEW x \in AllLines PROVE x \in SA \union SV
    <2>1. PICK s \in Sections : x \in {s.mid} \X s.lines  BY <1>9 DEF AllLines
    <2>2. PICK l \in s.lines : x = <<s.mid, l>>  BY <2>1
    <2>3. PICK d \in Wanted(audio, video) : s = Section(d, "recvonly", ts)  BY <2>1
    <2>4. s.mid = d.mid /\ (l \in T3 \/ \E c \in Codecs(d) : l \in MapLines(c))
        BY <1>2, <2>2, <2>3, SectionLines
    <2>5. CASE d = AudioContentDescription
        <3>1. s.mid = "audio" /\ l \in LA  BY <2>4, <2>5, CodecTables
        <3> QED  BY <2>2, <3>1
    <2>6. CASE d = VideoContentDescription
        <3>1. s.mid = "video" /\ l \in LV  BY <2>4, <2>6, CodecTables
        <3> QED  BY <2>2, <3>1
    <2> QED  BY <2>3, <2>5, <2>6, WantedDescs
<1>10. \A l \in LA : l \in T3 \/ l \in MapLines(Opus)  OBVIOUS
<1>11. \A l \in LV : l \in T3 \/ l \in MapLines(H264) \/ l \in MapLines(Rtx)  OBVIOUS
<1> HIDE DEF LA, LV, SA, SV, TagA, TagV
<1>12. AtMost(AllLines, 18)
    <2>1. AtMost(SA, 6) /\ AtMost(SV, 12)  BY <1>5, <1>6, AtMostImage
    <2>2. AtMost(SA \union SV, 6 + 12)  BY <2>1, AtMostUnion
    <2>3. AtMost(SA \union SV, 18)  BY <2>2
    <2> QED  BY <1>9, <2>3, AtMostSubset
<1>13. \A c : \A l \in MapLines(c) : l.a # "fingerprint" /\ (l.a = "fmtp" => l = Fmtp(c))
    <2> SUFFICES ASSUME NEW c, NEW l \in MapLines(c)
                 PROVE  l.a # "fingerprint" /\ (l.a = "fmtp" => l = Fmtp(c))
        OBVIOUS
    <2>1. CASE l = RtpMap(c)  BY <2>1 DEF RtpMap
    <2>2. ASSUME NEW f \in c.fb, l = RtcpFb(c, f)
          PROVE  l.a # "fingerprint" /\ (l.a = "fmtp" => l = Fmtp(c))
        BY <2>2 DEF RtcpFb
    <2>3. CASE l = Fmtp(c)  BY <2>3 DEF Fmtp
    <2> QED  BY <2>1, <2>2, <2>3, CodecLines
<1>14. ASSUME NEW x \in AllLines
       PROVE  /\ x[2].a = "fingerprint" =>
                    x \in {<<"audio", [a |-> "fingerprint", val |-> fp]>>,
                           <<"video", [a |-> "fingerprint", val |-> fp]>>}
              /\ x[2].a = "fmtp" =>
                    x \in {<<"audio", Fmtp(Opus)>>, <<"video", Fmtp(H264)>>, <<"video", Fmtp(Rtx)>>}
    <2>1. CASE x \in SA
        <3>1. PICK l \in LA : x = <<"audio", l>>  BY <1>7, <2>1
        <3>2. x[2] = l  BY <3>1
        <3>3. l.a = "fingerprint" => l = [a |-> "fingerprint", val |-> fp]
            BY <1>3, <1>10, <1>13
        <3>4. l.a = "fmtp" => l = Fmtp(Opus)  BY <1>3, <1>10, <1>13
        <3> QED  BY <3>1, <3>2, <3>3, <3>4
    <2>2. CASE x \in SV
        <3>1. PICK l \in LV : x = <<"video", l>>  BY <1>8, <2>2
        <3>2. x[2] = l  BY <3>1
        <3>3. l.a = "fingerprint" => l = [a |-> "fingerprint", val |-> fp]
            BY <1>3, <1>11, <1>13
        <3>4. l.a = "fmtp" => l = Fmtp(H264) \/ l = Fmtp(Rtx)  BY <1>3, <1>11, <1>13
        <3> QED  BY <3>1, <3>2, <3>3, <3>4
    <2> QED  BY <1>9, <2>1, <2>2
<1>15. AtMost(OfKind("fingerprint"), 2)
    <2>1. OfKind("fingerprint") \subseteq {<<"audio", [a |-> "fingerprint", val |-> fp]>>,
                                           <<"video", [a |-> "fingerprint", val |-> fp]>>}
        BY <1>14 DEF OfKind
    <2> QED  BY <2>1, AtMostFew, AtMostSubset
<1>16. AtMost(OfKind("fmtp"), 3)
    <2>1. OfKind("fmtp") \subseteq
             {<<"audio", Fmtp(Opus)>>, <<"video", Fmtp(H264)>>, <<"video", Fmtp(Rtx)>>}
        BY <1>14 DEF OfKind
    <2> QED  BY <2>1, AtMostFew, AtMostSubset
<1>17. AtMost(Sections, 2)
    <2>1. Sections \subseteq {Section(AudioContentDescription, "recvonly", ts),
                              Section(VideoContentDescription, "recvonly", ts)}
        BY WantedDescs
    <2> QED  BY <2>1, AtMostFew, AtMostSubset
<1> QED  BY <1>12, <1>15, <1>16, <1>17

\* The answer to every push request fits the buffer it is copied into.
THEOREM AnswerFitsInvariant == Spec => []AnswerFits
<1>1. ASSUME Answered PROVE AnswerFits
    <2>1. /\ AtMost(Sections, 2) /\ AtMost(AllLines, 18)
          /\ AtMost(OfKind("fingerprint"), 2) /\ AtMost(OfKind("fmtp"), 3)
        <3>1. CASE offer = None
            <4>1. Sections = {}  BY <3>1 DEF Sections
            <4>2. AllLines = {}  BY <4>1 DEF AllLines
            <4>3. \A a : OfKind(a) = {}  BY <4>2 DEF OfKind
            <4>4. AtMost({}, 2) /\ AtMost({}, 18) /\ AtMost({}, 3)
                BY FS_EmptySet DEF AtMost
            <4> QED  BY <4>1, <4>2, <4>3, <4>4
        <3>2. CASE offer # None  BY <1>1, <3>2, AnswerSections, OfferLines
        <3> QED  BY <3>1, <3>2
    <2>2. /\ Cardinality(Sections) \in Nat /\ Cardinality(AllLines) \in Nat
          /\ Cardinality(OfKind("fingerprint")) \in Nat /\ Cardinality(OfKind("fmtp")) \in Nat
        BY <2>1, FS_CardinalityType DEF AtMost
    <2>3. /\ Cardinality(Sections) <= 2 /\ Cardinality(AllLines) <= 18
          /\ Cardinality(OfKind("fingerprint")) <= 2 /\ Cardinality(OfKind("fmtp")) <= 3
        BY <2>1 DEF AtMost
    <2> QED  BY <2>2, <2>3 DEF AnswerFits, AnswerSize, MAX_RES_BUF
<1> QED  BY <1>1, AnsweredInvariant, PTL

(***************************************************************************)
(* The streams themselves.                                                 *)
(***************************************************************************)

\* Every stream that was ever created is alive, and the map knows of none: the
\* look-up in create_push_stream never finds anything it could delete.
NothingFreed ==
    /\ IsFiniteSet(alive) /\ Cardinality(alive) = created
    /\ \A n \in Names : push_streams[n] = None

\* The streams are told apart by the order of their creation.
Numbered ==
    /\ created \in Nat /\ DOMAIN push_streams = Names
    /\ alive \subseteq [id : 0 .. created - 1, name : Names]

\* What OneStreamPerName's counterexample shows once is so throughout: a push
\* never replaces a stream, so that the streams of a name pile up.
THEOREM StreamsPileUp == Spec => []NothingFreed
<1>1. Init => NothingFreed /\ Numbered
    <2> SUFFICES ASSUME Init PROVE NothingFreed /\ Numbered
        OBVIOUS
    <2>1. alive = {} /\ created = 0 /\ push_streams = [n \in Names |-> None]  BY DEF Init
    <2>2. IsFiniteSet(alive) /\ Cardinality(alive) = created  BY <2>1, FS_EmptySet
    <2> QED  BY <2>1, <2>2 DEF NothingFreed, Numbered
<1>2. NothingFreed /\ Numbered /\ [Next]_vars => NothingFreed' /\ Numbered'
    <2> SUFFICES ASSUME NothingFreed, Numbered, [Next]_vars PROVE NothingFreed' /\ Numbered'
        OBVIOUS
    <2>1. ASSUME NEW name \in Names, NEW audio \in BOOLEAN, NEW video \in BOOLEAN,
                 NEW fingerprint \in Fingerprints,
                 create_push_stream(name, audio, video, fingerprint)
          PROVE  NothingFreed' /\ Numbered'
        <3> DEFINE new == [id |-> created, name |-> name]
        <3>1. /\ created' = created + 1
              /\ push_streams' = [push_streams EXCEPT ![name] = None]
              /\ alive' = {s \in alive : s # push_streams[name]} \union {new}
            BY <2>1 DEF create_push_stream
        <3>2. push_streams[name] = None  BY DEF NothingFreed
        <3>3. created \in Nat /\ alive \subseteq [id : 0 .. created - 1, name : Names]
            BY DEF Numbered
        <3>4. \A s \in alive : s \in [id : Nat, name : Names] /\ s.id # created
            BY <3>3
        <3>5. None \notin alive  BY <3>4, ConstantsAssumption
        <3>6. new.id = created /\ new \in [id : 0 .. (created + 1) - 1, name : Names]
            BY <3>3
        <3> HIDE DEF new
        <3>7. new \notin alive  BY <3>4, <3>6
        <3>8. alive' = alive \union {new}  BY <3>1, <3>2, <3>5
        <3>9. IsFiniteSet(alive) /\ Cardinality(alive) = created  BY DEF NothingFreed
        <3>10. IsFiniteSet(alive \union {new}) /\ Cardinality(alive \union {new}) = created + 1
            BY <3>7, <3>9, FS_AddElement
        <3>11. DOMAIN push_streams' = Names /\ \A n \in Names : push_streams'[n] = None
            BY <3>1 DEF NothingFreed, Numbered
        <3>12. [id : 0 .. created - 1, name : Names]
                 \subseteq [id : 0 .. (created + 1) - 1, name : Names]
            BY <3>3
        <3>13. alive' \subseteq [id : 0 .. created' - 1, name : Names]
            BY <3>1, <3>3, <3>6, <3>8, <3>12
        <3>14. created + 1 \in Nat  BY <3>3
        <3> QED
            BY <3>1, <3>8, <3>10, <3>11, <3>13, <3>14 DEF NothingFreed, Numbered
    <2>2. CASE UNCHANGED vars  BY <2>2 DEF NothingFreed, Numbered, vars
    <2> QED  BY <2>1, <2>2 DEF Next, Fingerprints
<1> QED  BY <1>1, <1>2, PTL DEF Spec
==============================================================================
