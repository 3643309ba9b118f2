----------------------------- MODULE RtspSession -----------------------------
(***************************************************************************)
(* One RTSP session (internal/RTSP): its goroutine reads requests and      *)
(* interleaved frames, and answers each request; once the session plays, a *)
(* second goroutine (Player.receiverFrame) writes frames to the same       *)
(* connection.  The module follows a request through parsing, the channel  *)
(* code, the digest, the method and the response, and a frame from a       *)
(* channel number to a type and from a type to a channel number.           *)
(*                                                                         *)
(* Queues, the relay between sessions and stopping in detail are           *)
(* RtspRelay's: here the rest of the server is an environment that         *)
(* publishes a stream, sends frames of any type and goes away.             *)
(***************************************************************************)
EXTENDS Naturals, Sequences

CONSTANTS Pairs,       \* the (RTP, RTCP) channel pairs clients ask for
          Descriptions, \* the media descriptions of publishers
          MaxQueue,    \* bound: frames waiting in the player's queue
          None

Track == {"video", "audio"}
FrameType == {"AUDIO", "VIDEO", "AUDIOCONTROL", "VIDEOCONTROL"}

NoTracks == [t \in Track |-> "absent"]

ASSUME PairAssumption == Pairs \subseteq [rtp : Nat, rtcp : Nat]

\* In a description a track is absent, or has a control attribute, or none, or one (an
\* rtsp:// URL that does not parse) that getControl fails on.
ASSUME DescriptionAssumption ==
  Descriptions \subseteq [Track -> {"absent", "usable", "bare", "bad"}] \ {NoTracks}

ASSUME NoneAssumption ==
  /\ None \notin Pairs /\ None \notin Track /\ None \notin {"own", "other"} /\ MaxQueue \in Nat

VARIABLES
  pc,         \* the session's goroutine: "read", "respond", "write" or "done"
  code,       \* channelCode: None, or the URL of the first request
  method,     \* ctx.method: whether it is "TEARDOWN" is all that is looked at
  resp,       \* ctx.resp: its status, and whether the request being handled generated it
  failed,     \* the request being handled ended in an error or a panic
  stale,      \* history: the request being handled is one the code generates no response for
  control,    \* vControl and aControl: the track, or None for ""
  channel,    \* vChannel, vChannelControl, aChannel and aChannelControl
  agreed,     \* history: per track described, the pair of its last SETUP, or None
  sdp,        \* the description the session announced or was given
  hook,       \* what the session has become: "none", "publisher" or "viewer"
  stream,     \* who publishes the channel code: None, "own" or "other"
  receiver,   \* receiverFrame: "none", "idle", "lock", "write" or "done"
  queue,      \* Player.queue
  sending,    \* the channel of the frame receiverFrame has taken
  stoped,     \* Session.stoped
  lock,       \* connRwLock: "free", "own" or "receiver"
  partial     \* what is on the wire of messages that are not complete

context == <<method, resp, failed, stale>>
media == <<control, channel, agreed, sdp, hook, stream>>
player == <<receiver, queue, sending>>
vars == <<pc, code, context, media, player, stoped, lock, partial>>

-----------------------------------------------------------------------------
(* Requests.                                                               *)

\* The URL of a request: the stream or one of its tracks, which is another stream to
\* a session that began with a track.
Url == {"stream"} \cup Track

\* interleaved=a-b, interleaved=a, TCP without it, no TCP, no Transport at all.
Transport == [kind : {"pair", "single"}, pair : Pairs]
               \cup [kind : {"tcp", "udp", "none"}, pair : {CHOOSE p \in Pairs : TRUE}]

Methods == {"OPTIONS", "DESCRIBE", "ANNOUNCE", "SETUP", "PLAY", "RECORD", "PAUSE",
            "TEARDOWN", "REDIRECT"}

\* AuthRequest: the first URL becomes the channel code, later ones start with it.
CodeMatches(url) == code = None \/ url = code \/ (code = "stream" /\ url \in Track)

Accepted == {200, 401, 461}

\* A response generated for this request; the path that returns without one leaves
\* ctx.resp as it is.
Respond(status) == resp' = [status |-> status, own |-> TRUE]
NoResponse == resp' = [resp EXCEPT !.own = FALSE]

\* What a handler that changes nothing else answers.
Only(status, err) ==
  /\ Respond(status) /\ failed' = err /\ stale' = FALSE
  /\ UNCHANGED <<media, player>>

\* getControl of each track of d: None ("") where it is missing or fails.
Controls(d) == [t \in Track |-> IF d[t] = "usable" THEN t ELSE None]

\* The error of the last getControl that ran: audio's, if there is audio.
ControlFails(d) == IF d["audio"] # "absent" THEN d["audio"] = "bad" ELSE d["video"] = "bad"

Describe ==
  \/ stream = None /\ Only(404, TRUE)
  \/ /\ stream = "other"
     /\ control' = [t \in Track |-> IF sdp[t] = "absent" THEN control[t] ELSE Controls(sdp)[t]]
     /\ hook' = "viewer"
     /\ Respond(200) /\ failed' = ControlFails(sdp) /\ stale' = FALSE
     /\ UNCHANGED <<channel, agreed, sdp, stream, player>>

Announce(d) ==
  \/ Only(400, TRUE)                         \* ParseSdp fails
  \/ stream # None /\ Only(400, FALSE)
  \/ /\ stream = None
     /\ sdp' = d
     /\ control' = Controls(d)
     /\ hook' = "publisher" /\ stream' = "own"
     /\ Respond(IF ControlFails(d) THEN 400 ELSE 200)
     /\ failed' = ControlFails(d) /\ stale' = FALSE
     /\ UNCHANGED <<channel, agreed, player>>

Nothing == [t \in Track |-> None]

\* Whether a SETUP of this URL is taken for track t: every URL ends with "".
Matches(url, t) == control[t] \in {None, url}

SetupTrack(t, url, tr) ==
  /\ IF tr.kind = "single"
     THEN /\ channel' = [channel EXCEPT ![t] = [rtp |-> tr.pair.rtp, rtcp |-> 0]]
          /\ Respond(400) /\ failed' = TRUE /\ agreed' = Nothing
     ELSE /\ channel' = [channel EXCEPT ![t] = tr.pair]
          /\ Respond(200) /\ failed' = FALSE
          /\ agreed' = IF hook # "none" /\ url \in Track /\ sdp[url] # "absent"
                       THEN [agreed EXCEPT ![url] = tr.pair] ELSE Nothing
  /\ stale' = FALSE
  /\ UNCHANGED <<control, sdp, hook, stream, player>>

\* SETUP.  Video is tried before audio, and a URL that is neither, like a Transport
\* without channel numbers, gets no response of its own.
Setup(url, tr) ==
  \/ tr.kind = "none" /\ Only(400, TRUE)
  \/ tr.kind = "udp" /\ Only(461, FALSE)
  \/ tr.kind \in {"pair", "single"} /\ Matches(url, "video") /\ SetupTrack("video", url, tr)
  \/ /\ tr.kind \in {"pair", "single"} /\ ~Matches(url, "video") /\ Matches(url, "audio")
     /\ SetupTrack("audio", url, tr)
  \/ /\ tr.kind = "tcp" \/ (~Matches(url, "video") /\ ~Matches(url, "audio"))
     /\ tr.kind \notin {"none", "udp"}
     /\ NoResponse /\ failed' = FALSE /\ stale' = TRUE
     /\ UNCHANGED <<media, player>>

PlayAny ==
  /\ IF stream # None
     THEN /\ receiver' = "idle" /\ Respond(200)
          /\ failed' = FALSE /\ stale' = FALSE
          /\ UNCHANGED <<media, queue, sending>>
     ELSE Only(500, FALSE)

\* PLAY starts receiverFrame before it is answered.
Play ==
  /\ IF stream # None /\ hook = "viewer"
     THEN /\ receiver' = "idle" /\ Respond(200)
          /\ failed' = FALSE /\ stale' = FALSE
          /\ UNCHANGED <<media, queue, sending>>
     ELSE Only(500, FALSE)

Record == IF stream # None THEN Only(200, FALSE) ELSE Only(400, TRUE)

\* The method of a request whose digest holds.  What a client does only once, and
\* only after what makes sense of it: see the README.
Execute(req, tr, d) ==
  \/ req.method = "OPTIONS" /\ Only(200, FALSE)
  \/ req.method = "DESCRIBE" /\ hook = "none" /\ Describe
  \/ req.method = "ANNOUNCE" /\ hook # "viewer" /\ Announce(d)
  \/ req.method = "SETUP" /\ Setup(req.url, tr)
  \/ req.method = "PLAY" /\ receiver = "none" /\ Play
  \/ req.method = "RECORD" /\ hook # "viewer" /\ Record
  \/ /\ req.method = "PAUSE"
     /\ NoResponse /\ failed' = FALSE /\ stale' = TRUE
     /\ UNCHANGED <<media, player>>
  \/ req.method = "TEARDOWN" /\ Only(200, FALSE)
  \/ req.method = "REDIRECT" /\ Only(405, FALSE)

\* HandleRtspRequest, up to its deferred response: AuthRequest, checkAuth (without an
\* Authorization a new nonce and 401, with a digest that is not for the last nonce 403)
\* and the method.
HandleRequest(req, tr, d) ==
  /\ pc = "read" /\ ~stoped
  /\ pc' = "respond"
  /\ method' = IF req.method = "TEARDOWN" THEN "TEARDOWN" ELSE "other"
  /\ \/ ~CodeMatches(req.url) /\ Only(400, TRUE) /\ UNCHANGED code
     \/ /\ CodeMatches(req.url)
        /\ code' = IF code = None THEN req.url ELSE code
        /\ \/ req.method # "OPTIONS" /\ req.auth = "none" /\ Only(401, FALSE)
           \/ req.method # "OPTIONS" /\ req.auth = "wrong" /\ Only(403, FALSE)
           \/ (req.method = "OPTIONS" \/ req.auth = "right") /\ Execute(req, tr, d)
  /\ UNCHANGED <<stoped, lock, partial>>

\* ReadRequest fails.  A request line without three parts makes it panic, with the
\* previous response still in ctx; any other fault is answered 400.
BadRequest(panics) ==
  /\ pc = "read" /\ ~stoped
  /\ pc' = "respond"
  /\ method' = "other"
  /\ IF panics THEN NoResponse ELSE Respond(400)
  /\ failed' = TRUE /\ stale' = panics
  /\ UNCHANGED <<code, media, player, stoped, lock, partial>>

-----------------------------------------------------------------------------
(* Frames.                                                                 *)

Video == channel["video"]
Audio == channel["audio"]

\* The type start gives a frame that arrived on a channel: the first case that fits.
Classify(c) == CASE c = Audio.rtp -> "AUDIO"
                 [] c # Audio.rtp /\ c = Audio.rtcp -> "AUDIOCONTROL"
                 [] c \notin {Audio.rtp, Audio.rtcp} /\ c = Video.rtp -> "VIDEO"
                 [] c \notin {Audio.rtp, Audio.rtcp, Video.rtp} /\ c = Video.rtcp -> "VIDEOCONTROL"
                 [] OTHER -> None

ChannelByAudio(type) == CASE type \in {"VIDEO", "AUDIO"} -> Audio.rtp
                          [] type \in {"VIDEOCONTROL", "AUDIOCONTROL"} -> Audio.rtcp

\* The channel receiverFrame puts a frame on; audio's RTCP goes out on video's.
ChannelOf(type) == CASE type = "VIDEO" -> Video.rtp
                     [] type = "VIDEOCONTROL" -> Video.rtcp
                     [] type = "AUDIO" -> Audio.rtp
                     [] type = "AUDIOCONTROL" -> Video.rtcp

\* A frame from the client.  A publisher's goes to its relay; a viewer's own (its
\* RTCP reports) joins the queue of what the viewer is sent.
ReadFrame(c) ==
  /\ pc = "read" /\ ~stoped
  /\ hook = "viewer" /\ Classify(c) # None /\ Len(queue) < MaxQueue
  /\ queue' = Append(queue, Classify(c))
  /\ UNCHANGED <<pc, code, context, media, receiver, sending, stoped, lock, partial>>

\* The relay of the stream's publisher offers a frame.
Offer(type) ==
  /\ hook = "viewer" /\ stream = "other" /\ Len(queue) < MaxQueue
  /\ queue' = Append(queue, type)
  /\ UNCHANGED <<pc, code, context, media, receiver, sending, stoped, lock, partial>>

\* receiverFrame takes a frame and looks its channel up, then waits for the lock.
TakeFrame ==
  /\ receiver = "idle" /\ queue # << >> /\ ~stoped
  /\ queue' = Tail(queue)
  /\ sending' = ChannelOf(Head(queue))
  /\ receiver' = "lock"
  /\ UNCHANGED <<pc, code, context, media, stoped, lock, partial>>

-----------------------------------------------------------------------------
(* Writing.  A response and a frame are each written in parts, the last of *)
(* which the Flush completes.                                              *)

Put(g) == partial' = IF partial = <<g>> THEN << >> ELSE Append(partial, g)

LockResponseFree ==
  /\ pc = "respond"
  /\ pc' = "write" /\ Put("own")
  /\ UNCHANGED <<code, context, media, player, stoped, lock>>

\* HandleRtspResponse, under connRwLock.
LockResponse ==
  /\ pc = "respond" /\ lock = "free"
  /\ lock' = "own" /\ pc' = "write" /\ Put("own")
  /\ UNCHANGED <<code, context, media, player, stoped>>

UnlockResponseLeave ==
  /\ pc = "write"
  /\ Put("own")
  /\ lock' = IF lock = "own" THEN "free" ELSE lock
  /\ stoped' = (stoped \/ method = "TEARDOWN" \/ failed)
  /\ pc' = IF stoped' THEN "done" ELSE "read"
  /\ resp' = [resp EXCEPT !.own = FALSE] /\ failed' = FALSE /\ stale' = FALSE
  /\ UNCHANGED <<code, method, media, player>>

\* The response is flushed; a TEARDOWN, a refusal other than 401 and 461, an error
\* or a panic stops the session.
UnlockResponse ==
  /\ pc = "write"
  /\ Put("own")
  /\ lock' = IF lock = "own" THEN "free" ELSE lock
  /\ stoped' = (stoped \/ resp.status \notin Accepted \/ method = "TEARDOWN" \/ failed)
  /\ pc' = IF stoped' THEN "done" ELSE "read"
  /\ resp' = [resp EXCEPT !.own = FALSE] /\ failed' = FALSE /\ stale' = FALSE
  /\ UNCHANGED <<code, method, media, player>>

LockFrame ==
  /\ receiver = "lock" /\ lock = "free"
  /\ lock' = "receiver" /\ receiver' = "write" /\ Put("receiver")
  /\ UNCHANGED <<pc, code, context, media, queue, sending, stoped>>

UnlockFrameWhilePublished ==
  /\ receiver = "write"
  /\ Put("receiver")
  /\ lock' = IF lock = "receiver" /\ stream # None THEN "free" ELSE lock
  /\ receiver' = IF stoped THEN "done" ELSE "idle"
  /\ sending' = None
  /\ UNCHANGED <<pc, code, context, media, queue, stoped>>

UnlockFrame ==
  /\ receiver = "write"
  /\ Put("receiver")
  /\ lock' = IF lock = "receiver" THEN "free" ELSE lock
  /\ receiver' = IF stoped THEN "done" ELSE "idle"
  /\ sending' = None
  /\ UNCHANGED <<pc, code, context, media, queue, stoped>>

\* The client leaves or is silent for too long.
ReadFails ==
  /\ pc = "read"
  /\ pc' = "done" /\ stoped' = TRUE
  /\ UNCHANGED <<code, context, media, player, lock, partial>>

-----------------------------------------------------------------------------
(* The environment.                                                        *)

OtherPublishes(d) ==
  /\ stream = None /\ hook = "none"
  /\ stream' = "other" /\ sdp' = d
  /\ UNCHANGED <<pc, code, context, control, channel, agreed, hook, player,
                 stoped, lock, partial>>

\* The publisher leaves: receiverFrame sees it between two frames and stops the
\* session.
OtherLeaves ==
  /\ stream = "other" /\ stream' = None
  /\ UNCHANGED <<pc, code, context, control, channel, agreed, sdp, hook, player,
                 stoped, lock, partial>>

ReceiverEnds ==
  /\ receiver = "idle" /\ (stream = None \/ stoped)
  /\ receiver' = "done" /\ stoped' = TRUE
  /\ UNCHANGED <<pc, code, context, media, queue, sending, lock, partial>>

-----------------------------------------------------------------------------
\* The channels of a track before its first SETUP.
Unset == [rtp |-> 0, rtcp |-> 0]

Init ==
  /\ pc = "read" /\ code = None
  /\ method = "other" /\ resp = [status |-> 0, own |-> FALSE]
  /\ failed = FALSE /\ stale = FALSE
  /\ control = Nothing
  /\ channel = [t \in Track |-> Unset]
  /\ agreed = Nothing
  /\ sdp = NoTracks /\ hook = "none" /\ stream = None
  /\ receiver = "none" /\ queue = << >> /\ sending = None
  /\ stoped = FALSE /\ lock = "free" /\ partial = << >>

Request == [method : Methods, url : Url, auth : {"none", "right", "wrong"}]
Channels == UNION {{p.rtp, p.rtcp} : p \in Pairs}
AnyTransport == CHOOSE tr \in Transport : TRUE
AnySdp == CHOOSE d \in Descriptions : TRUE

Own ==
  \/ \E req \in Request :
       \E tr \in IF req.method = "SETUP" THEN Transport ELSE {AnyTransport},
          d \in IF req.method = "ANNOUNCE" THEN Descriptions ELSE {AnySdp} : HandleRequest(req, tr, d)
  \/ \E panics \in BOOLEAN : BadRequest(panics)
  \/ \E c \in Channels : ReadFrame(c)
  \/ ReadFails

Answering == LockResponse \/ UnlockResponse
Receiving == TakeFrame \/ LockFrame \/ UnlockFrame \/ ReceiverEnds

Next ==
  \/ Own \/ Answering \/ Receiving \/ OtherLeaves
  \/ \E type \in FrameType : Offer(type)
  \/ \E d \in Descriptions : OtherPublishes(d)

\* A goroutine that can write does, and one that waits for connRwLock gets it some
\* time; writes end, for the connection has a write timeout.
Fairness == /\ SF_vars(LockResponse) /\ WF_vars(UnlockResponse)
            /\ WF_vars(UnlockFrame)

Spec == Init /\ [][Next]_vars /\ Fairness

-----------------------------------------------------------------------------
(* Properties.                                                             *)

Status == {0, 200, 400, 401, 403, 404, 405, 461, 500}

ResponseType == resp \in [status : Status, own : BOOLEAN]
RequestType == failed \in BOOLEAN /\ stale \in BOOLEAN /\ method \in {"TEARDOWN", "other"}
MediaType ==
  /\ control \in [Track -> Track \cup {None}] /\ channel \in [Track -> [rtp : Nat, rtcp : Nat]]
  /\ agreed \in [Track -> Pairs \cup {None}] /\ sdp \in Descriptions \cup {NoTracks}
  /\ hook \in {"none", "publisher", "viewer"} /\ stream \in {None, "own", "other"}
PlayerType ==
  /\ receiver \in {"none", "idle", "lock", "write", "done"}
  /\ receiver # "none" => hook = "viewer"
  /\ queue \in Seq(FrameType) /\ Len(queue) <= MaxQueue /\ sending \in Nat \cup {None}
LoopType ==
  /\ pc \in {"read", "respond", "write", "done"} /\ code \in Url \cup {None}
  /\ stoped \in BOOLEAN /\ (pc = "done" => stoped)
  /\ lock \in {"free", "own", "receiver"} /\ partial \in Seq({"own", "receiver"})

TypeOK == ResponseType /\ RequestType /\ MediaType /\ PlayerType /\ LoopType

\* A response answers the request it is sent for, with its CSeq, unless the request
\* was a PAUSE, a SETUP that fits no track or gives no channels, or a request line
\* that cannot be split.  Those get the response before once more, which can only be
\* one the session went on after, or, to a first request, the empty response.
AnswersItsRequest ==
  pc \in {"respond", "write"} =>
    IF stale THEN ~resp.own /\ resp.status \in Accepted \cup {0} ELSE resp.own

\* The tracks whose SETUP can be told from that of the other.
Distinct == \A t \in Track : sdp[t] = "usable"
Agreed == \A t \in Track : agreed[t] # None
Apart ==
  LET v == agreed["video"]
      a == agreed["audio"]
  IN /\ a.rtp # a.rtcp /\ v.rtp # v.rtcp
     /\ v.rtp \notin {a.rtp, a.rtcp} /\ v.rtcp \notin {a.rtp, a.rtcp}

\* With both tracks described and set up on four different channels, in any order and
\* however often, frames keep their track: what the client sends on a channel gets
\* the type of the track it was set up for, and what it is sent of a type comes on
\* the channel it set up (audio's RTCP excepted, which comes on video's).
FramesKeepTrack ==
  Distinct /\ Agreed /\ Apart =>
    /\ Classify(agreed["video"].rtp) = "VIDEO" /\ Classify(agreed["audio"].rtp) = "AUDIO"
    /\ Classify(agreed["video"].rtcp) = "VIDEOCONTROL"
    /\ Classify(agreed["audio"].rtcp) = "AUDIOCONTROL"
    /\ ChannelOf("VIDEO") = agreed["video"].rtp /\ ChannelOf("AUDIO") = agreed["audio"].rtp
    /\ ChannelOf("VIDEOCONTROL") = agreed["video"].rtcp

\* The only track of the stream.
Sole(t) == sdp[t] = "usable" /\ \A u \in Track \ {t} : sdp[u] = "absent"

\* No channel is asked for as RTP's in one set-up and as RTCP's in another.
RtpOrRtcp == \A p, q \in Pairs : p.rtp # q.rtcp

\* Publisher and viewer of a stream of one track that set up the same channels have
\* the same view of them, although the code may take the track for the other one: RTP
\* sent on a channel comes out on it.
SameChannelsSameFrames ==
  \A t \in Track :
    RtpOrRtcp /\ Sole(t) /\ agreed[t] # None => ChannelOf(Classify(agreed[t].rtp)) = agreed[t].rtp

\* A response and a frame are never mixed on the wire.
WireUnmixed == Len(partial) <= 1

\* Whatever receiverFrame is doing on the connection, a request is answered, and a
\* session that refuses one for good, or is torn down, stops.
RefusedStops ==
  (pc = "respond" /\ (resp.status \notin Accepted \/ method = "TEARDOWN" \/ failed)) ~> stoped

-----------------------------------------------------------------------------
(* Inductive invariants: why the properties above hold.                    *)

\* connRwLock is held exactly by the goroutine that is writing, and what is on the
\* wire of an unfinished message is its holder's.
WireInvariant ==
  /\ lock = "own" <=> pc = "write"
  /\ lock = "receiver" <=> receiver = "write"
  /\ partial = IF lock = "free" THEN << >> ELSE <<lock>>

\* Between two requests the response kept in ctx is one the session went on after.
AnswerInvariant ==
  /\ pc = "read" /\ ~stoped => resp.status \in Accepted \cup {0}
  /\ AnswersItsRequest

\* A session that has become publisher or viewer of two usable tracks knows their
\* controls, and the channels of a track are the pair of its last SETUP.
ChannelInvariant ==
  /\ hook = "publisher" => stream = "own"
  /\ hook # "none" /\ Distinct => \A t \in Track : control[t] = t
  /\ \A t \in Track : agreed[t] # None => hook # "none"
  /\ Distinct => \A t \in Track : agreed[t] # None => channel[t] = agreed[t]

\* A track without a control is taken for video, also a sole audio track; the channels
\* of audio are then unset.  A set-up that named one channel only has ended the session,
\* all others left a whole pair.
Ending == pc = "done" \/ (pc \in {"respond", "write"} /\ failed)
SoleInvariant ==
  /\ hook = "none" => control = Nothing
  /\ control["video"] = None => channel["audio"] = Unset
  /\ \A t \in Track :
       Sole(t) => /\ hook # "none" => control = [Nothing EXCEPT ![t] = t]
                  /\ agreed[t] # None => agreed[t] = channel["video"]
  /\ channel["audio"] \in Pairs \cup {Unset} \/ (agreed = Nothing /\ Ending)

SessionInvariant ==
  TypeOK /\ WireInvariant /\ AnswerInvariant /\ ChannelInvariant /\ SoleInvariant
=============================================================================
