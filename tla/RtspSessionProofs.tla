-------------------------- MODULE RtspSessionProofs --------------------------
(***************************************************************************)
(* Proofs about RtspSession, for every set of channel pairs and            *)
(* descriptions and every bound on the queue: SessionInvariant is          *)
(* inductive, and the safety properties follow from it.                    *)
(***************************************************************************)
EXTENDS RtspSession, TLAPS

-----------------------------------------------------------------------------
(* Requests.                                                               *)

\* getControl leaves a track its own control or "".
LEMMA ControlsType ==
  ASSUME NEW d \in Descriptions \cup {NoTracks}
  PROVE  /\ Controls(d) \in [Track -> Track \cup {None}]
         /\ \A t \in Track : Controls(d)[t] \in {None, t}
         /\ ControlFails(d) \in BOOLEAN
BY DEF Controls, ControlFails, Track

\* Only a Transport with channel numbers sets channels, and then to a pair a client
\* asks for.
LEMMA TransportPair ==
  ASSUME NEW tr \in Transport, tr.kind \in {"pair", "single"}
  PROVE  tr.pair \in Pairs /\ tr.pair \in [rtp : Nat, rtcp : Nat]
BY PairAssumption DEF Transport

\* What HandleRequest is given: a Transport with a SETUP, a description with an
\* ANNOUNCE.
Given(req, tr, d) ==
  /\ req \in Request
  /\ req.method = "SETUP" => tr \in Transport
  /\ req.method = "ANNOUNCE" => d \in Descriptions

\* A step of the session's goroutine is one of these, with what it was given.
LEMMA OwnCases ==
  ASSUME Own
  PROVE  \/ \E req, tr, d : Given(req, tr, d) /\ HandleRequest(req, tr, d)
         \/ \E panics \in BOOLEAN : BadRequest(panics)
         \/ \E c \in Channels : ReadFrame(c)
         \/ ReadFails
<1>1. ASSUME NEW req \in Request,
             NEW tr \in IF req.method = "SETUP" THEN Transport ELSE {AnyTransport},
             NEW d \in IF req.method = "ANNOUNCE" THEN Descriptions ELSE {AnySdp},
             HandleRequest(req, tr, d)
      PROVE  \E r, t, e : Given(r, t, e) /\ HandleRequest(r, t, e)
  <2>1. Given(req, tr, d)
    BY DEF Given
  <2>2. QED BY <2>1, <1>1
<1>2. QED BY <1>1 DEF Own

-----------------------------------------------------------------------------
(* Type correctness.                                                       *)

\* What a method leaves typed.
MethodType == ResponseType /\ MediaType /\ PlayerType /\ failed \in BOOLEAN /\ stale \in BOOLEAN

\* Respond generates a typed response.
LEMMA RespondType ==
  ASSUME NEW status \in Status, Respond(status)
  PROVE  ResponseType'
BY DEF Respond, ResponseType

\* Keeping the last response keeps its type.
LEMMA NoResponseType ==
  ASSUME ResponseType, NoResponse
  PROVE  ResponseType'
BY DEF NoResponse, ResponseType

\* A handler that leaves tracks, channels and player alone leaves them typed.
LEMMA UnchangedType ==
  ASSUME MediaType, PlayerType, UNCHANGED <<media, player>>
  PROVE  MediaType' /\ PlayerType'
<1>1. MediaType'
  BY DEF MediaType, media
<1>2. PlayerType'
  BY DEF PlayerType, media, player
<1>3. QED BY <1>1, <1>2

\* Every answer that changes nothing else.
AnswersOnly ==
  \/ Only(200, FALSE) \/ Only(400, FALSE) \/ Only(400, TRUE) \/ Only(401, FALSE)
  \/ Only(403, FALSE) \/ Only(404, TRUE) \/ Only(405, FALSE) \/ Only(461, FALSE)
  \/ Only(500, FALSE)

\* Every answer that changes nothing else is typed.
LEMMA OnlyType ==
  ASSUME MethodType, AnswersOnly
  PROVE  MethodType'
<1>1. PICK status \in Status : Respond(status) /\ UNCHANGED <<media, player>>
  BY DEF AnswersOnly, Only, Status
<1>2. failed' \in BOOLEAN
  BY DEF AnswersOnly, Only
<1>3. stale' \in BOOLEAN
  BY DEF AnswersOnly, Only
<1>4. ResponseType'
  BY <1>1, RespondType
<1>5. MediaType' /\ PlayerType'
  BY <1>1, UnchangedType DEF MethodType
<1>6. QED BY <1>2, <1>3, <1>4, <1>5 DEF MethodType

\* DESCRIBE makes a viewer with typed controls, or is refused.
LEMMA DescribeType ==
  ASSUME MethodType, hook = "none", Describe
  PROVE  MethodType'
<1>1. CASE stream = None /\ Only(404, TRUE)
  BY <1>1, OnlyType DEF AnswersOnly
<1>2. CASE /\ control' = [t \in Track |-> IF sdp[t] = "absent" THEN control[t] ELSE Controls(sdp)[t]]
           /\ hook' = "viewer"
           /\ Respond(200) /\ failed' = ControlFails(sdp) /\ stale' = FALSE
           /\ UNCHANGED <<channel, agreed, sdp, stream, player>>
  <2>1. ControlFails(sdp) \in BOOLEAN /\ Controls(sdp) \in [Track -> Track \cup {None}]
    BY ControlsType DEF MethodType, MediaType
  <2>2. MediaType'
    BY <1>2, <2>1 DEF MethodType, MediaType
  <2>3. PlayerType'
    BY <1>2 DEF MethodType, PlayerType, player
  <2>4. ResponseType'
    BY <1>2, RespondType DEF Status
  <2>5. failed' \in BOOLEAN /\ stale' \in BOOLEAN
    BY <1>2, <2>1
  <2>6. QED BY <2>2, <2>3, <2>4, <2>5 DEF MethodType
<1>3. QED BY <1>1, <1>2 DEF Describe

\* ANNOUNCE makes a publisher with typed controls, or is refused.
LEMMA AnnounceType ==
  ASSUME MethodType, NEW d \in Descriptions, hook # "viewer", Announce(d)
  PROVE  MethodType'
<1>1. CASE Only(400, TRUE) \/ Only(400, FALSE)
  BY <1>1, OnlyType DEF AnswersOnly
<1>2. CASE /\ sdp' = d
           /\ control' = Controls(d)
           /\ hook' = "publisher" /\ stream' = "own"
           /\ Respond(IF ControlFails(d) THEN 400 ELSE 200)
           /\ failed' = ControlFails(d) /\ stale' = FALSE
           /\ UNCHANGED <<channel, agreed, player>>
  <2>1. ControlFails(d) \in BOOLEAN /\ Controls(d) \in [Track -> Track \cup {None}]
    BY ControlsType
  <2>2. MediaType'
    BY <1>2, <2>1 DEF MethodType, MediaType
  <2>3. PlayerType'
    BY <1>2 DEF MethodType, PlayerType, player
  <2>4. ResponseType'
    <3>1. (IF ControlFails(d) THEN 400 ELSE 200) \in Status
      BY DEF Status
    <3>2. QED BY <1>2, <3>1, RespondType
  <2>5. failed' \in BOOLEAN /\ stale' \in BOOLEAN
    BY <1>2, <2>1
  <2>6. QED BY <2>2, <2>3, <2>4, <2>5 DEF MethodType
<1>3. QED BY <1>1, <1>2 DEF Announce

\* SETUP sets channels to numbers, whichever track its URL is taken for.
LEMMA SetupType ==
  ASSUME MethodType, NEW url, NEW tr \in Transport, Setup(url, tr)
  PROVE  MethodType'
<1>1. ASSUME NEW t \in Track, tr.kind \in {"pair", "single"}, SetupTrack(t, url, tr)
      PROVE  MethodType'
  <2>1. tr.pair \in Pairs /\ tr.pair \in [rtp : Nat, rtcp : Nat]
    BY <1>1, TransportPair
  <2>2. MediaType'
    BY <1>1, <2>1 DEF SetupTrack, MethodType, MediaType, Nothing
  <2>3. PlayerType'
    BY <1>1 DEF SetupTrack, MethodType, PlayerType, player
  <2>4. ResponseType'
    BY <1>1, RespondType DEF SetupTrack, Status
  <2>5. failed' \in BOOLEAN /\ stale' \in BOOLEAN
    BY <1>1 DEF SetupTrack
  <2>6. QED BY <2>2, <2>3, <2>4, <2>5 DEF MethodType
<1>2. CASE Only(400, TRUE) \/ Only(461, FALSE)
  BY <1>2, OnlyType DEF AnswersOnly
<1>3. CASE NoResponse /\ failed' = FALSE /\ stale' = TRUE /\ UNCHANGED <<media, player>>
  BY <1>3, NoResponseType, UnchangedType DEF MethodType
<1>4. QED BY <1>1, <1>2, <1>3 DEF Setup, Track

\* PLAY starts receiverFrame only for a viewer.
LEMMA PlayType ==
  ASSUME MethodType, Play
  PROVE  MethodType'
<1>1. CASE stream # None /\ hook = "viewer"
  <2>1. MediaType'
    BY <1>1 DEF Play, MethodType, MediaType, media
  <2>2. PlayerType'
    BY <1>1 DEF Play, MethodType, PlayerType, media
  <2>3. ResponseType'
    BY <1>1, RespondType DEF Play, Status
  <2>4. failed' \in BOOLEAN /\ stale' \in BOOLEAN
    BY <1>1 DEF Play
  <2>5. QED BY <2>1, <2>2, <2>3, <2>4 DEF MethodType
<1>2. CASE Only(500, FALSE)
  BY <1>2, OnlyType DEF AnswersOnly
<1>3. QED BY <1>1, <1>2 DEF Play

\* Every method leaves the session typed.
LEMMA ExecuteType ==
  ASSUME MethodType, NEW req, NEW tr, NEW d, Given(req, tr, d), Execute(req, tr, d)
  PROVE  MethodType'
<1>1. CASE Only(200, FALSE) \/ Only(400, TRUE) \/ Only(405, FALSE)
  BY <1>1, OnlyType DEF AnswersOnly
<1>2. CASE hook = "none" /\ Describe
  BY <1>2, DescribeType
<1>3. CASE req.method = "ANNOUNCE" /\ hook # "viewer" /\ Announce(d)
  BY <1>3, AnnounceType DEF Given
<1>4. CASE req.method = "SETUP" /\ Setup(req.url, tr)
  BY <1>4, SetupType DEF Given
<1>5. CASE Play
  BY <1>5, PlayType
<1>6. CASE NoResponse /\ failed' = FALSE /\ stale' = TRUE /\ UNCHANGED <<media, player>>
  BY <1>6, NoResponseType, UnchangedType DEF MethodType
<1>7. QED BY <1>1, <1>2, <1>3, <1>4, <1>5, <1>6 DEF Execute, Record

\* HandleRequest either answers at once or carries its method out; the session's
\* other state moves to "respond".
LEMMA RequestCases ==
  ASSUME NEW req, NEW tr, NEW d, Given(req, tr, d), HandleRequest(req, tr, d)
  PROVE  /\ AnswersOnly \/ Execute(req, tr, d)
         /\ pc = "read" /\ ~stoped /\ pc' = "respond"
         /\ method' \in {"TEARDOWN", "other"}
         /\ code' = code \/ code' = req.url
         /\ UNCHANGED <<stoped, lock, partial>>
<1>1. AnswersOnly \/ Execute(req, tr, d)
  BY Zenon DEF HandleRequest, AnswersOnly
<1>2. pc = "read" /\ ~stoped /\ pc' = "respond"
  BY DEF HandleRequest
<1>3. method' \in {"TEARDOWN", "other"} /\ UNCHANGED <<stoped, lock, partial>>
  BY DEF HandleRequest
<1>4. code' = code \/ code' = req.url
  BY DEF HandleRequest
<1>5. QED BY <1>1, <1>2, <1>3, <1>4

\* A request that is read, refused or carried out leaves the session typed.
LEMMA RequestTyped ==
  ASSUME TypeOK, NEW req, NEW tr, NEW d, Given(req, tr, d), HandleRequest(req, tr, d)
  PROVE  TypeOK'
<1>1. MethodType
  BY DEF TypeOK, RequestType, MethodType
<1>2. MethodType'
  BY <1>1, RequestCases, OnlyType, ExecuteType
<1>3. LoopType'
  BY RequestCases DEF TypeOK, LoopType, Given, Request
<1>4. method' \in {"TEARDOWN", "other"}
  BY RequestCases
<1>5. QED BY <1>2, <1>3, <1>4 DEF TypeOK, RequestType, MethodType

\* A request that cannot be read leaves the session typed.
LEMMA BadRequestTyped ==
  ASSUME TypeOK, NEW panics \in BOOLEAN, BadRequest(panics)
  PROVE  TypeOK'
<1>1. ResponseType'
  BY RespondType, NoResponseType DEF BadRequest, TypeOK, Status
<1>2. RequestType'
  BY DEF BadRequest, TypeOK, RequestType
<1>3. MediaType' /\ PlayerType'
  BY UnchangedType DEF BadRequest, TypeOK
<1>4. LoopType'
  BY DEF BadRequest, TypeOK, LoopType
<1>5. QED BY <1>1, <1>2, <1>3, <1>4 DEF TypeOK

\* What Put leaves on the wire.
LEMMA PutType ==
  ASSUME partial \in Seq({"own", "receiver"}), NEW g \in {"own", "receiver"}, Put(g)
  PROVE  partial' \in Seq({"own", "receiver"})
BY DEF Put

\* A frame type has a type, and a type has a channel.
LEMMA FrameTypes ==
  ASSUME MediaType
  PROVE  /\ \A c : Classify(c) \in FrameType \cup {None}
         /\ \A type \in FrameType : ChannelOf(type) \in Nat
<1>1. /\ Video.rtp \in Nat /\ Video.rtcp \in Nat
      /\ Audio.rtp \in Nat /\ Audio.rtcp \in Nat
  BY DEF MediaType, Video, Audio, Track
<1>2. \A c : Classify(c) \in FrameType \cup {None}
  BY DEF Classify, FrameType
<1>3. \A type \in FrameType : ChannelOf(type) \in Nat
  BY <1>1 DEF ChannelOf, FrameType
<1>4. QED BY <1>2, <1>3

\* Frames that are read, offered, taken and written leave the session typed.
LEMMA FrameTyped ==
  ASSUME TypeOK,
         \/ \E c \in Channels : ReadFrame(c)
         \/ \E type \in FrameType : Offer(type)
         \/ TakeFrame \/ LockFrame \/ UnlockFrame \/ ReceiverEnds
  PROVE  TypeOK'
<1>1. ASSUME UNCHANGED context
      PROVE  ResponseType' /\ RequestType'
  BY <1>1 DEF TypeOK, context, ResponseType, RequestType
<1>2. ASSUME UNCHANGED media
      PROVE  MediaType'
  BY <1>2 DEF TypeOK, media, MediaType
<1>3. ASSUME NEW type \in FrameType, hook = "viewer", Len(queue) < MaxQueue,
             queue' = Append(queue, type), UNCHANGED <<media, receiver, sending>>
      PROVE  PlayerType'
  BY <1>3, NoneAssumption DEF TypeOK, PlayerType, media
<1>4. CASE \E c \in Channels : ReadFrame(c)
  <2>1. PICK c \in Channels : ReadFrame(c)
    BY <1>4
  <2>2. Classify(c) \in FrameType
    BY <2>1, FrameTypes DEF ReadFrame, TypeOK
  <2>3. PlayerType'
    BY <2>1, <2>2, <1>3 DEF ReadFrame
  <2>4. LoopType'
    BY <2>1 DEF ReadFrame, TypeOK, LoopType
  <2>5. QED BY <2>1, <2>3, <2>4, <1>1, <1>2 DEF ReadFrame, TypeOK
<1>5. CASE \E type \in FrameType : Offer(type)
  <2>1. PICK type \in FrameType : Offer(type)
    BY <1>5
  <2>2. PlayerType'
    BY <2>1, <1>3 DEF Offer
  <2>3. LoopType'
    BY <2>1 DEF Offer, TypeOK, LoopType
  <2>4. QED BY <2>1, <2>2, <2>3, <1>1, <1>2 DEF Offer, TypeOK
<1>6. CASE TakeFrame
  <2>1. /\ Head(queue) \in FrameType /\ Tail(queue) \in Seq(FrameType)
        /\ Len(Tail(queue)) <= MaxQueue
    BY <1>6, NoneAssumption DEF TakeFrame, TypeOK, PlayerType
  <2>2. ChannelOf(Head(queue)) \in Nat
    BY <2>1, FrameTypes DEF TypeOK
  <2>3. PlayerType'
    BY <1>6, <2>1, <2>2 DEF TakeFrame, TypeOK, PlayerType, media
  <2>4. LoopType'
    BY <1>6 DEF TakeFrame, TypeOK, LoopType
  <2>5. QED BY <1>6, <2>3, <2>4, <1>1, <1>2 DEF TakeFrame, TypeOK
<1>7. CASE LockFrame
  <2>1. PlayerType'
    BY <1>7 DEF LockFrame, TypeOK, PlayerType, media
  <2>2. LoopType'
    BY <1>7, PutType DEF LockFrame, TypeOK, LoopType
  <2>3. QED BY <1>7, <2>1, <2>2, <1>1, <1>2 DEF LockFrame, TypeOK
<1>8. CASE UnlockFrame
  <2>1. PlayerType'
    BY <1>8 DEF UnlockFrame, TypeOK, PlayerType, media
  <2>2. LoopType'
    BY <1>8, PutType DEF UnlockFrame, TypeOK, LoopType
  <2>3. QED BY <1>8, <2>1, <2>2, <1>1, <1>2 DEF UnlockFrame, TypeOK
<1>9. CASE ReceiverEnds
  <2>1. PlayerType'
    BY <1>9 DEF ReceiverEnds, TypeOK, PlayerType, media
  <2>2. LoopType'
    BY <1>9 DEF ReceiverEnds, TypeOK, LoopType
  <2>3. QED BY <1>9, <2>1, <2>2, <1>1, <1>2 DEF ReceiverEnds, TypeOK
<1>10. QED BY <1>4, <1>5, <1>6, <1>7, <1>8, <1>9

\* Writing a response, and publishers that come and go, leave the session typed.
LEMMA OtherTyped ==
  ASSUME TypeOK,
         \/ LockResponse \/ UnlockResponse \/ ReadFails \/ OtherLeaves
         \/ \E d \in Descriptions : OtherPublishes(d)
  PROVE  TypeOK'
<1>1. ASSUME UNCHANGED context
      PROVE  ResponseType' /\ RequestType'
  BY <1>1 DEF TypeOK, context, ResponseType, RequestType
<1>2. ASSUME UNCHANGED <<media, player>>
      PROVE  MediaType' /\ PlayerType'
  BY <1>2, UnchangedType DEF TypeOK
<1>3. ASSUME UNCHANGED <<hook, player>>
      PROVE  PlayerType'
  BY <1>3 DEF TypeOK, PlayerType, player
<1>4. CASE LockResponse
  <2>1. LoopType'
    BY <1>4, PutType DEF LockResponse, TypeOK, LoopType
  <2>2. QED BY <1>4, <2>1, <1>1, <1>2 DEF LockResponse, TypeOK
<1>5. CASE UnlockResponse
  <2>1. LoopType'
    <3>1. stoped' \in BOOLEAN
      BY <1>5 DEF UnlockResponse
    <3>2. pc' \in {"read", "done"} /\ (pc' = "done" => stoped')
      BY <1>5 DEF UnlockResponse
    <3>3. lock' \in {"free", "own", "receiver"} /\ partial' \in Seq({"own", "receiver"})
      BY <1>5, PutType DEF UnlockResponse, TypeOK, LoopType
    <3>4. QED BY <1>5, <3>1, <3>2, <3>3 DEF UnlockResponse, TypeOK, LoopType
  <2>2. ResponseType'
    BY <1>5 DEF UnlockResponse, TypeOK, ResponseType
  <2>3. RequestType'
    BY <1>5 DEF UnlockResponse, TypeOK, RequestType
  <2>4. QED BY <1>5, <2>1, <2>2, <2>3, <1>2 DEF UnlockResponse, TypeOK
<1>6. CASE ReadFails
  <2>1. LoopType'
    BY <1>6 DEF ReadFails, TypeOK, LoopType
  <2>2. QED BY <1>6, <2>1, <1>1, <1>2 DEF ReadFails, TypeOK
<1>7. CASE OtherLeaves
  <2>1. LoopType'
    BY <1>7 DEF OtherLeaves, TypeOK, LoopType
  <2>2. MediaType'
    BY <1>7 DEF OtherLeaves, TypeOK, MediaType
  <2>3. QED BY <1>7, <2>1, <2>2, <1>1, <1>3 DEF OtherLeaves, TypeOK
<1>8. CASE \E d \in Descriptions : OtherPublishes(d)
  <2>1. PICK d \in Descriptions : OtherPublishes(d)
    BY <1>8
  <2>2. LoopType'
    BY <2>1 DEF OtherPublishes, TypeOK, LoopType
  <2>3. MediaType'
    BY <2>1 DEF OtherPublishes, TypeOK, MediaType
  <2>4. QED BY <2>1, <2>2, <2>3, <1>1, <1>3 DEF OtherPublishes, TypeOK
<1>9. QED BY <1>4, <1>5, <1>6, <1>7, <1>8

\* The steps of Next, request by request and frame by frame.
LEMMA NextCases ==
  ASSUME Next
  PROVE  \/ \E req, tr, d : Given(req, tr, d) /\ HandleRequest(req, tr, d)
         \/ \E panics \in BOOLEAN : BadRequest(panics)
         \/ (\E c \in Channels : ReadFrame(c)) \/ (\E type \in FrameType : Offer(type))
         \/ TakeFrame \/ LockFrame \/ UnlockFrame \/ ReceiverEnds
         \/ LockResponse \/ UnlockResponse \/ ReadFails \/ OtherLeaves
         \/ \E d \in Descriptions : OtherPublishes(d)
BY OwnCases DEF Next, Answering, Receiving

\* Every step preserves the types.
LEMMA TypeStep ==
  ASSUME TypeOK, [Next]_vars
  PROVE  TypeOK'
<1>1. CASE Next
  BY <1>1, NextCases, RequestTyped, BadRequestTyped, FrameTyped, OtherTyped
<1>2. CASE UNCHANGED vars
  <2>1. ResponseType' /\ RequestType' /\ LoopType'
    BY <1>2 DEF vars, context, TypeOK, ResponseType, RequestType, LoopType
  <2>2. MediaType' /\ PlayerType'
    BY <1>2, UnchangedType DEF vars, TypeOK
  <2>3. QED BY <2>1, <2>2 DEF TypeOK
<1>3. QED BY <1>1, <1>2

-----------------------------------------------------------------------------
(* The lock and the wire.                                                  *)

\* Steps that neither take nor give the lock back leave the wire as it is; the
\* four that do complete what they began.
LEMMA WireStep ==
  ASSUME TypeOK, WireInvariant, [Next]_vars
  PROVE  WireInvariant'
<1> USE DEF WireInvariant
<1>1. CASE \E req, tr, d : Given(req, tr, d) /\ HandleRequest(req, tr, d)
  <2>1. PICK req, tr, d : Given(req, tr, d) /\ HandleRequest(req, tr, d)
    BY <1>1
  <2>2. pc = "read" /\ pc' = "respond" /\ UNCHANGED <<lock, partial>>
    BY <2>1, RequestCases
  <2>3. receiver' = receiver \/ (receiver # "write" /\ receiver' # "write")
    BY <2>1 DEF HandleRequest, Execute, Only, Describe, Announce, Setup, SetupTrack, Play,
                Record, player
  <2>4. QED BY <2>2, <2>3
<1>2. CASE \E panics \in BOOLEAN : BadRequest(panics)
  BY <1>2 DEF BadRequest, player
<1>3. CASE (\E c \in Channels : ReadFrame(c)) \/ (\E type \in FrameType : Offer(type))
  BY <1>3 DEF ReadFrame, Offer
<1>4. CASE TakeFrame \/ ReceiverEnds
  BY <1>4 DEF TakeFrame, ReceiverEnds
<1>5. CASE LockFrame
  BY <1>5 DEF LockFrame, Put
<1>6. CASE UnlockFrame
  BY <1>6 DEF UnlockFrame, Put
<1>7. CASE LockResponse
  BY <1>7 DEF LockResponse, Put, player
<1>8. CASE UnlockResponse
  <2>1. pc' # "write" /\ lock' = "free" /\ partial' = << >> /\ receiver' = receiver
    BY <1>8 DEF UnlockResponse, Put, player
  <2>2. receiver # "write"
    BY <1>8 DEF UnlockResponse
  <2>3. QED BY <2>1, <2>2
<1>9. CASE ReadFails
  BY <1>9 DEF ReadFails, player
<1>10. CASE OtherLeaves \/ \E d \in Descriptions : OtherPublishes(d)
  BY <1>10 DEF OtherLeaves, OtherPublishes, player
<1>11. CASE UNCHANGED vars
  BY <1>11 DEF vars, player
<1>12. QED
  BY <1>1, <1>2, <1>3, <1>4, <1>5, <1>6, <1>7, <1>8, <1>9, <1>10, <1>11, NextCases

-----------------------------------------------------------------------------
(* Responses.                                                              *)

\* An answer that changes nothing else is generated for its request.
LEMMA OnlyAnswers ==
  ASSUME AnswersOnly
  PROVE  stale' = FALSE /\ \E status \in Status : Respond(status)
BY DEF AnswersOnly, Only, Status

\* A handler generates the response to the request, or marks the request as one
\* that gets the last response again and has no error.
LEMMA ExecuteAnswers ==
  ASSUME NEW req, NEW tr, NEW d, TypeOK, Execute(req, tr, d)
  PROVE  \/ stale' = FALSE /\ \E status \in Status : Respond(status)
         \/ stale' = TRUE /\ NoResponse
<1>1. CASE AnswersOnly
  BY <1>1, OnlyAnswers
<1>2. CASE stale' = FALSE /\ (Respond(200) \/ Respond(400))
  BY <1>2 DEF Status
<1>3. CASE stale' = TRUE /\ NoResponse
  BY <1>3
<1>4. CASE Describe
  <2>1. AnswersOnly \/ (stale' = FALSE /\ Respond(200))
    BY <1>4, Zenon DEF Describe, AnswersOnly
  <2>2. QED BY <2>1, <1>1, <1>2
<1>5. CASE Announce(d)
  <2>1. AnswersOnly \/ (stale' = FALSE /\ Respond(IF ControlFails(d) THEN 400 ELSE 200))
    BY <1>5, Zenon DEF Announce, AnswersOnly
  <2>2. AnswersOnly \/ (stale' = FALSE /\ (Respond(200) \/ Respond(400)))
    BY <2>1
  <2>3. QED BY <2>2, <1>1, <1>2
<1>6. CASE Setup(req.url, tr)
  <2>1. \/ AnswersOnly \/ (stale' = TRUE /\ NoResponse)
        \/ \E t \in Track : SetupTrack(t, req.url, tr)
    BY <1>6, Zenon DEF Setup, AnswersOnly, Track
  <2>2. ASSUME NEW t \in Track, SetupTrack(t, req.url, tr)
        PROVE  stale' = FALSE /\ (Respond(200) \/ Respond(400))
    BY <2>2 DEF SetupTrack
  <2>3. QED BY <2>1, <2>2, <1>1, <1>2, <1>3
<1>7. CASE Play
  <2>1. AnswersOnly \/ (stale' = FALSE /\ Respond(200))
    BY <1>7, Zenon DEF Play, AnswersOnly
  <2>2. QED BY <2>1, <1>1, <1>2
<1>8. \/ AnswersOnly \/ (stale' = TRUE /\ NoResponse)
      \/ Describe \/ Announce(d) \/ Setup(req.url, tr) \/ Play
  BY Zenon DEF Execute, Record, AnswersOnly
<1>9. QED BY <1>1, <1>3, <1>4, <1>5, <1>6, <1>7, <1>8

\* Every step preserves AnswerInvariant: only HandleRequest and BadRequest change what
\* ctx.resp says, and UnlockResponse goes on only after an accepted response.
LEMMA AnswerStep ==
  ASSUME TypeOK, AnswerInvariant, [Next]_vars
  PROVE  AnswerInvariant'
<1> USE DEF AnswerInvariant, AnswersItsRequest
<1>1. ASSUME pc' = "respond", pc = "read", ~stoped,
             \/ stale' = FALSE /\ \E status \in Status : Respond(status)
             \/ stale' = TRUE /\ NoResponse
      PROVE  AnswerInvariant'
  BY <1>1 DEF TypeOK, ResponseType, Respond, NoResponse
<1>2. CASE \E req, tr, d : Given(req, tr, d) /\ HandleRequest(req, tr, d)
  <2>1. PICK req, tr, d : Given(req, tr, d) /\ HandleRequest(req, tr, d)
    BY <1>2
  <2>2. CASE AnswersOnly
    <3>1. stale' = FALSE /\ \E status \in Status : Respond(status)
      BY <2>2, OnlyAnswers
    <3>2. pc = "read" /\ ~stoped /\ pc' = "respond"
      BY <2>1, RequestCases
    <3>3. QED BY <3>1, <3>2, <1>1
  <2>3. CASE Execute(req, tr, d)
    <3>1. \/ stale' = FALSE /\ \E status \in Status : Respond(status)
          \/ stale' = TRUE /\ NoResponse
      BY <2>3, ExecuteAnswers
    <3>2. pc = "read" /\ ~stoped /\ pc' = "respond"
      BY <2>1, RequestCases
    <3>3. QED BY <3>1, <3>2, <1>1
  <2>4. QED BY <2>1, <2>2, <2>3, RequestCases
<1>3. CASE \E panics \in BOOLEAN : BadRequest(panics)
  <2>1. PICK panics \in BOOLEAN : BadRequest(panics)
    BY <1>3
  <2>2. CASE panics
    BY <2>1, <2>2, <1>1 DEF BadRequest
  <2>3. CASE ~panics
    <3>1. stale' = FALSE /\ Respond(400) /\ 400 \in Status
      BY <2>1, <2>3 DEF BadRequest, Status
    <3>2. QED BY <2>1, <3>1, <1>1 DEF BadRequest
  <2>4. QED BY <2>2, <2>3
<1>4. CASE LockResponse
  BY <1>4 DEF LockResponse, context
<1>5. CASE UnlockResponse
  <2>1. pc' = "read" => resp'.status \in Accepted
    BY <1>5 DEF UnlockResponse, TypeOK, ResponseType
  <2>2. pc' \in {"read", "done"}
    BY <1>5 DEF UnlockResponse
  <2>3. QED BY <2>1, <2>2
<1>6. CASE ReadFails
  BY <1>6 DEF ReadFails
<1>7. ASSUME UNCHANGED <<pc, context>>, stoped => stoped'
      PROVE  AnswerInvariant'
  BY <1>7 DEF context
<1>8. CASE (\E c \in Channels : ReadFrame(c)) \/ (\E type \in FrameType : Offer(type))
           \/ TakeFrame \/ LockFrame \/ UnlockFrame \/ ReceiverEnds \/ OtherLeaves
           \/ \E d \in Descriptions : OtherPublishes(d)
  BY <1>7, <1>8 DEF ReadFrame, Offer, TakeFrame, LockFrame, UnlockFrame, ReceiverEnds,
                    OtherLeaves, OtherPublishes
<1>9. CASE UNCHANGED vars
  BY <1>7, <1>9 DEF vars
<1>10. QED
  BY <1>2, <1>3, <1>4, <1>5, <1>6, <1>8, <1>9, NextCases

-----------------------------------------------------------------------------
(* Channels.                                                               *)

\* Both tracks being usable, a SETUP of a described session is taken for the track
\* its URL names, and writes the channels it agrees on.
LEMMA SetupChannels ==
  ASSUME TypeOK, ChannelInvariant, NEW t \in Track, NEW url \in Url, NEW tr \in Transport,
         tr.kind \in {"pair", "single"}, Matches(url, t), t = "audio" => ~Matches(url, "video"),
         SetupTrack(t, url, tr)
  PROVE  ChannelInvariant'
<1>1. UNCHANGED <<control, sdp, hook, stream>>
  BY DEF SetupTrack
<1>2. \/ agreed' = Nothing
      \/ /\ hook # "none" /\ url \in Track
         /\ channel' = [channel EXCEPT ![t] = tr.pair] /\ agreed' = [agreed EXCEPT ![url] = tr.pair]
  BY DEF SetupTrack
<1>3. CASE agreed' = Nothing
  BY <1>1, <1>3 DEF ChannelInvariant, Nothing, Distinct
<1>4. CASE /\ hook # "none" /\ url \in Track
           /\ channel' = [channel EXCEPT ![t] = tr.pair] /\ agreed' = [agreed EXCEPT ![url] = tr.pair]
  <2>1. Distinct => t = url
    BY <1>4, NoneAssumption DEF ChannelInvariant, Matches, Track
  <2>2. Distinct => \A u \in Track : agreed'[u] # None => channel'[u] = agreed'[u]
    BY <1>4, <2>1 DEF ChannelInvariant, TypeOK, MediaType
  <2>3. QED BY <1>1, <1>4, <2>2 DEF ChannelInvariant, Distinct
<1>5. QED BY <1>2, <1>3, <1>4

\* Where both tracks have a usable control, getControl gives each its own.
LEMMA UsableControls ==
  ASSUME NEW d, \A t \in Track : d[t] = "usable"
  PROVE  \A t \in Track : Controls(d)[t] = t
BY DEF Controls

\* Nothing the channels depend on changes.
LEMMA MediaUnchanged ==
  ASSUME ChannelInvariant, UNCHANGED media
  PROVE  ChannelInvariant'
BY DEF ChannelInvariant, media, Distinct

\* Of the methods, DESCRIBE and ANNOUNCE set controls and SETUP sets channels, each as
\* ChannelInvariant wants them.
LEMMA ExecuteChannels ==
  ASSUME TypeOK, ChannelInvariant, NEW req, NEW tr, NEW d, Given(req, tr, d), Execute(req, tr, d)
  PROVE  ChannelInvariant'
<1>1. CASE UNCHANGED media
  BY <1>1, MediaUnchanged
<1>2. CASE hook = "none" /\ Describe
  <2>1. CASE UNCHANGED media
    BY <2>1, <1>1
  <2>2. CASE /\ control' = [t \in Track |-> IF sdp[t] = "absent" THEN control[t]
                                                              ELSE Controls(sdp)[t]]
             /\ hook' = "viewer" /\ UNCHANGED <<channel, agreed, sdp, stream>>
    <3>1. Distinct => \A t \in Track : control'[t] = t
      BY <2>2, UsableControls DEF Distinct
    <3>2. QED BY <1>2, <2>2, <3>1 DEF ChannelInvariant, Distinct
  <2>3. QED BY <1>2, <2>1, <2>2, Zenon DEF Describe, Only, player
<1>3. CASE req.method = "ANNOUNCE" /\ hook # "viewer" /\ Announce(d)
  <2>1. CASE UNCHANGED media
    BY <2>1, <1>1
  <2>2. CASE /\ stream = None /\ sdp' = d /\ control' = Controls(d)
             /\ hook' = "publisher" /\ stream' = "own" /\ UNCHANGED <<channel, agreed>>
    <3>1. hook = "none"
      BY <1>3, <2>2, NoneAssumption DEF ChannelInvariant, TypeOK, MediaType
    <3>2. \A t \in Track : agreed'[t] = None
      BY <2>2, <3>1 DEF ChannelInvariant
    <3>3. Distinct' => \A t \in Track : control'[t] = t
      BY <2>2, UsableControls DEF Distinct
    <3>4. QED BY <2>2, <3>2, <3>3 DEF ChannelInvariant
  <2>3. QED BY <1>3, <2>1, <2>2, Zenon DEF Announce, Only
<1>4. CASE req.method = "SETUP" /\ Setup(req.url, tr)
  <2>1. req.url \in Url /\ tr \in Transport
    BY <1>4 DEF Given, Request
  <2>2. \/ UNCHANGED media
        \/ /\ tr.kind \in {"pair", "single"} /\ Matches(req.url, "video")
           /\ SetupTrack("video", req.url, tr)
        \/ /\ tr.kind \in {"pair", "single"} /\ ~Matches(req.url, "video")
           /\ Matches(req.url, "audio") /\ SetupTrack("audio", req.url, tr)
    BY <1>4, Zenon DEF Setup, Only
  <2>3. QED BY <2>1, <2>2, <1>1, SetupChannels DEF Track
<1>5. \/ UNCHANGED media
      \/ hook = "none" /\ Describe
      \/ req.method = "ANNOUNCE" /\ hook # "viewer" /\ Announce(d)
      \/ req.method = "SETUP" /\ Setup(req.url, tr)
  BY Zenon DEF Execute, Only, Play, Record
<1>6. QED BY <1>1, <1>2, <1>3, <1>4, <1>5

\* Every step preserves ChannelInvariant.
LEMMA ChannelStep ==
  ASSUME TypeOK, ChannelInvariant, [Next]_vars
  PROVE  ChannelInvariant'
<1>1. CASE \E req, tr, d : Given(req, tr, d) /\ HandleRequest(req, tr, d)
  <2>1. PICK req, tr, d : Given(req, tr, d) /\ HandleRequest(req, tr, d)
    BY <1>1
  <2>2. CASE AnswersOnly
    <3>1. UNCHANGED media
      BY <2>2 DEF AnswersOnly, Only
    <3>2. QED BY <3>1, MediaUnchanged
  <2>3. CASE Execute(req, tr, d)
    BY <2>1, <2>3, ExecuteChannels
  <2>4. QED BY <2>1, <2>2, <2>3, RequestCases
<1>2. CASE OtherLeaves
  BY <1>2, NoneAssumption DEF OtherLeaves, ChannelInvariant, Distinct
<1>3. CASE \E d \in Descriptions : OtherPublishes(d)
  BY <1>3 DEF OtherPublishes, ChannelInvariant, Distinct
<1>4. CASE \/ \E panics \in BOOLEAN : BadRequest(panics)
           \/ (\E c \in Channels : ReadFrame(c)) \/ (\E type \in FrameType : Offer(type))
           \/ TakeFrame \/ LockFrame \/ UnlockFrame \/ ReceiverEnds
           \/ LockResponse \/ UnlockResponse \/ ReadFails
  <2>1. UNCHANGED media
    BY <1>4 DEF BadRequest, ReadFrame, Offer, TakeFrame, LockFrame, UnlockFrame, ReceiverEnds,
                LockResponse, UnlockResponse, ReadFails
  <2>2. QED BY <2>1, MediaUnchanged
<1>5. CASE UNCHANGED vars
  <2>1. UNCHANGED media
    BY <1>5 DEF vars
  <2>2. QED BY <2>1, MediaUnchanged
<1>6. QED BY <1>1, <1>2, <1>3, <1>4, <1>5, NextCases

-----------------------------------------------------------------------------
(* A sole track.                                                           *)

\* Nothing SoleInvariant depends on changes, and a session that ends goes on ending.
LEMMA SoleUnchanged ==
  ASSUME SoleInvariant, UNCHANGED <<control, channel, agreed, sdp, hook>>, Ending => Ending'
  PROVE  SoleInvariant'
BY DEF SoleInvariant, Sole

\* A SETUP that is taken for video writes video's channels, and is for a sole track or
\* agrees on nothing.
LEMMA SetupVideo ==
  ASSUME TypeOK, SoleInvariant, NEW url \in Url, NEW tr \in Transport, pc' = "respond",
         SetupTrack("video", url, tr), tr.kind \in {"pair", "single"}, channel["audio"] \in Pairs \cup {Unset}
  PROVE  SoleInvariant'
<1>1. UNCHANGED <<control, sdp, hook>> /\ channel'["audio"] = channel["audio"]
  BY DEF SetupTrack, TypeOK, MediaType, Track
<1>2. \/ agreed' = Nothing
      \/ /\ url \in Track /\ hook # "none" /\ sdp[url] # "absent"
         /\ channel' = [channel EXCEPT !["video"] = tr.pair] /\ agreed' = [agreed EXCEPT ![url] = tr.pair]
  BY DEF SetupTrack
<1>3. ASSUME NEW t \in Track, Sole(t), agreed'[t] # None PROVE agreed'[t] = channel'["video"]
  <2>1. agreed' # Nothing
    BY <1>3 DEF Nothing
  <2>2. url = t
    BY <1>2, <1>3, <2>1 DEF Sole
  <2>3. QED
    BY <1>2, <2>1, <2>2 DEF TypeOK, MediaType, Track
<1>4. QED
  BY <1>1, <1>3 DEF SoleInvariant, Sole

\* One that is taken for audio, video having a control then, agrees on nothing where
\* video is the sole track, and is not possible where audio is.
LEMMA SetupAudio ==
  ASSUME TypeOK, SoleInvariant, ChannelInvariant, NEW url \in Url, NEW tr \in Transport, pc' = "respond",
         SetupTrack("audio", url, tr), tr.kind \in {"pair", "single"}, ~Matches(url, "video")
  PROVE  SoleInvariant'
<1>1. UNCHANGED <<control, sdp, hook>> /\ channel'["video"] = channel["video"]
  BY DEF SetupTrack, TypeOK, MediaType, Track
<1>2. \/ agreed' = Nothing
      \/ /\ url \in Track /\ hook # "none" /\ sdp[url] # "absent"
         /\ channel' = [channel EXCEPT !["audio"] = tr.pair] /\ agreed' = [agreed EXCEPT ![url] = tr.pair]
  BY DEF SetupTrack
<1>3. control["video"] # None /\ control["video"] # url /\ hook # "none"
  BY DEF Matches, SoleInvariant, Nothing, Track
<1>4. ASSUME NEW t \in Track, Sole(t) PROVE agreed'[t] = None
  <2>1. control = [Nothing EXCEPT ![t] = t]
    BY <1>3, <1>4 DEF SoleInvariant
  <2>2. t = "video" /\ url # "video"
    BY <1>3, <2>1 DEF Nothing, Track
  <2>3. agreed' = Nothing
    BY <1>2, <1>4, <2>2 DEF Sole, Track
  <2>4. QED
    BY <2>3 DEF Nothing
<1>5. channel'["audio"] \in Pairs \cup {Unset} \/ (agreed' = Nothing /\ Ending')
  <2>1. CASE tr.kind = "single"
    BY <2>1 DEF SetupTrack, Ending
  <2>2. CASE tr.kind = "pair"
    <3>1. channel' = [channel EXCEPT !["audio"] = tr.pair] /\ tr.pair \in Pairs
      BY <2>2 DEF SetupTrack, Transport
    <3>2. QED
      BY <3>1 DEF TypeOK, MediaType, Track
  <2>3. QED
    BY <2>1, <2>2
<1>6. QED
  BY <1>1, <1>3, <1>4, <1>5 DEF SoleInvariant, Sole

\* The methods: DESCRIBE and ANNOUNCE set the controls of a session that had none.
LEMMA ExecuteSole ==
  ASSUME TypeOK, SoleInvariant, ChannelInvariant, NEW req, NEW tr, NEW d, Given(req, tr, d),
         Execute(req, tr, d), ~Ending, pc' = "respond"
  PROVE  SoleInvariant'
<1>1. CASE UNCHANGED media
  BY <1>1, SoleUnchanged DEF media
<1>2. ASSUME NEW e, hook = "none", sdp' = e, hook' # "none", UNCHANGED <<channel, agreed>>,
             control' = [t \in Track |-> IF e[t] = "absent" THEN None ELSE Controls(e)[t]]
      PROVE  SoleInvariant'
  <2>1. control = Nothing /\ channel["audio"] = Unset /\ \A t \in Track : agreed[t] = None
    BY <1>2 DEF SoleInvariant, ChannelInvariant, Nothing, Track
  <2>2. ASSUME NEW t \in Track, Sole(t)' PROVE control' = [Nothing EXCEPT ![t] = t]
    BY <1>2, <2>2 DEF Sole, Controls, Nothing, Track
  <2>3. QED
    BY <1>2, <2>1, <2>2 DEF SoleInvariant
<1>3. CASE hook = "none" /\ Describe
  <2>1. CASE UNCHANGED media
    BY <2>1, <1>1
  <2>2. CASE /\ control' = [t \in Track |-> IF sdp[t] = "absent" THEN control[t]
                                                              ELSE Controls(sdp)[t]]
             /\ hook' = "viewer" /\ UNCHANGED <<channel, agreed, sdp, stream>>
    <3>1. control = Nothing
      BY <1>3 DEF SoleInvariant
    <3>2. control' = [t \in Track |-> IF sdp[t] = "absent" THEN None ELSE Controls(sdp)[t]]
      BY <2>2, <3>1 DEF Nothing
    <3>3. QED
      BY <1>2, <1>3, <2>2, <3>2
  <2>3. QED BY <1>3, <2>1, <2>2, Zenon DEF Describe, Only, player
<1>4. CASE req.method = "ANNOUNCE" /\ hook # "viewer" /\ Announce(d)
  <2>1. CASE UNCHANGED media
    BY <2>1, <1>1
  <2>2. CASE /\ stream = None /\ sdp' = d /\ control' = Controls(d)
             /\ hook' = "publisher" /\ stream' = "own" /\ UNCHANGED <<channel, agreed>>
    <3>1. hook = "none"
      BY <1>4, <2>2, NoneAssumption DEF ChannelInvariant, TypeOK, MediaType
    <3>2. control' = [t \in Track |-> IF d[t] = "absent" THEN None ELSE Controls(d)[t]]
      BY <2>2 DEF Controls
    <3>3. QED
      BY <1>2, <2>2, <3>1, <3>2
  <2>3. QED BY <1>4, <2>1, <2>2, Zenon DEF Announce, Only
<1>5. CASE req.method = "SETUP" /\ Setup(req.url, tr)
  <2>1. req.url \in Url /\ tr \in Transport
    BY <1>5 DEF Given, Request
  <2>2. \/ UNCHANGED media
        \/ /\ tr.kind \in {"pair", "single"} /\ SetupTrack("video", req.url, tr)
        \/ /\ tr.kind \in {"pair", "single"} /\ ~Matches(req.url, "video")
           /\ SetupTrack("audio", req.url, tr)
    BY <1>5, Zenon DEF Setup, Only
  <2>3. channel["audio"] \in Pairs \cup {Unset}
    BY DEF SoleInvariant
  <2>4. QED BY <2>1, <2>2, <2>3, <1>1, SetupVideo, SetupAudio
<1>6. \/ UNCHANGED media
      \/ hook = "none" /\ Describe
      \/ req.method = "ANNOUNCE" /\ hook # "viewer" /\ Announce(d)
      \/ req.method = "SETUP" /\ Setup(req.url, tr)
  BY Zenon DEF Execute, Only, Play, Record
<1>7. QED BY <1>1, <1>3, <1>4, <1>5, <1>6

\* Every step preserves SoleInvariant.
LEMMA SoleStep ==
  ASSUME TypeOK, SoleInvariant, ChannelInvariant, [Next]_vars
  PROVE  SoleInvariant'
<1>1. CASE \E req, tr, d : Given(req, tr, d) /\ HandleRequest(req, tr, d)
  <2>1. PICK req, tr, d : Given(req, tr, d) /\ HandleRequest(req, tr, d)
    BY <1>1
  <2>2. pc = "read" /\ pc' = "respond" /\ ~Ending
    BY <2>1, RequestCases DEF Ending
  <2>3. CASE AnswersOnly
    <3>1. UNCHANGED media
      BY <2>3 DEF AnswersOnly, Only
    <3>2. QED BY <2>2, <3>1, SoleUnchanged DEF media
  <2>4. CASE Execute(req, tr, d)
    BY <2>1, <2>2, <2>4, ExecuteSole
  <2>5. QED BY <2>1, <2>3, <2>4, RequestCases
<1>2. CASE OtherLeaves
  BY <1>2, SoleUnchanged DEF OtherLeaves, Ending, context
<1>3. CASE \E d \in Descriptions : OtherPublishes(d)
  <2>1. PICK d \in Descriptions : OtherPublishes(d)
    BY <1>3
  <2>2. UNCHANGED <<control, channel, agreed, hook, pc, failed>> /\ hook = "none"
    BY <2>1 DEF OtherPublishes, context
  <2>3. \A t \in Track : agreed[t] = None
    BY <2>2 DEF ChannelInvariant
  <2>4. QED BY <2>2, <2>3 DEF SoleInvariant, Ending
<1>4. CASE UnlockResponse
  <2>1. UNCHANGED media /\ (Ending => Ending')
    BY <1>4 DEF UnlockResponse, Ending
  <2>2. QED BY <2>1, SoleUnchanged DEF media
<1>5. CASE \/ \E panics \in BOOLEAN : BadRequest(panics)
           \/ (\E c \in Channels : ReadFrame(c)) \/ (\E type \in FrameType : Offer(type))
           \/ TakeFrame \/ LockFrame \/ UnlockFrame \/ ReceiverEnds
           \/ LockResponse \/ ReadFails
  <2>1. UNCHANGED media
    BY <1>5 DEF BadRequest, ReadFrame, Offer, TakeFrame, LockFrame, UnlockFrame, ReceiverEnds,
                LockResponse, ReadFails
  <2>2. Ending => Ending'
    BY <1>5 DEF BadRequest, ReadFrame, Offer, TakeFrame, LockFrame, UnlockFrame, ReceiverEnds,
                LockResponse, ReadFails, Ending, context
  <2>3. QED BY <2>1, <2>2, SoleUnchanged DEF media
<1>6. CASE UNCHANGED vars
  BY <1>6, SoleUnchanged DEF vars, media, context, Ending
<1>7. QED BY <1>1, <1>2, <1>3, <1>4, <1>5, <1>6, NextCases

-----------------------------------------------------------------------------
(* Theorems.                                                               *)

\* A new session satisfies SessionInvariant.
LEMMA InitInvariant ==
  ASSUME Init
  PROVE  SessionInvariant
<1>1. ResponseType /\ RequestType /\ LoopType
  <2>1. ResponseType
    BY DEF Init, ResponseType, Status
  <2>2. RequestType
    BY DEF Init, RequestType
  <2>3. LoopType
    <3>1. /\ pc \in {"read", "respond", "write", "done"} /\ code \in Url \cup {None}
          /\ lock \in {"free", "own", "receiver"} /\ partial \in Seq({"own", "receiver"})
      BY DEF Init
    <3>2. stoped \in BOOLEAN
      BY DEF Init
    <3>3. pc # "done"
      BY DEF Init
    <3>4. QED BY <3>1, <3>2, <3>3 DEF LoopType
  <2>4. QED BY <2>1, <2>2, <2>3
<1>2. MediaType
  BY DEF Init, MediaType, Nothing, Track, Unset
<1>3. PlayerType
  BY NoneAssumption DEF Init, PlayerType
<1>4. WireInvariant
  BY DEF Init, WireInvariant
<1>5. AnswerInvariant
  BY DEF Init, AnswerInvariant, AnswersItsRequest
<1>6. ChannelInvariant
  BY DEF Init, ChannelInvariant, Nothing
<1>7. SoleInvariant
  BY DEF Init, SoleInvariant, Nothing, Track
<1>8. QED BY <1>1, <1>2, <1>3, <1>4, <1>5, <1>6, <1>7 DEF SessionInvariant, TypeOK

\* SessionInvariant holds in every reachable state of every RTSP session.
THEOREM Invariance == Spec => []SessionInvariant
<1>1. Init => SessionInvariant
  BY InitInvariant
<1>2. SessionInvariant /\ [Next]_vars => SessionInvariant'
  BY TypeStep, WireStep, AnswerStep, ChannelStep, SoleStep DEF SessionInvariant
<1>3. QED BY <1>1, <1>2, PTL DEF Spec

\* The session and the requests it handles are typed.
THEOREM TypeCorrectness == Spec => []TypeOK
<1>1. SessionInvariant => TypeOK
  BY DEF SessionInvariant
<1>2. QED BY <1>1, Invariance, PTL

\* HandleRtspResponse and receiverFrame never mix their messages on the connection.
THEOREM WireSafety == Spec => []WireUnmixed
<1>1. SessionInvariant => WireUnmixed
  BY DEF SessionInvariant, WireInvariant, WireUnmixed
<1>2. QED BY <1>1, Invariance, PTL

\* Every request gets its own response, but for the three kinds that get the last
\* one again.
THEOREM ResponsesAnswer == Spec => []AnswersItsRequest
<1>1. SessionInvariant => AnswersItsRequest
  BY DEF SessionInvariant, AnswerInvariant
<1>2. QED BY <1>1, Invariance, PTL

\* Frames keep their track through a session, for every choice of channels.
THEOREM TracksKept == Spec => []FramesKeepTrack
<1>1. SessionInvariant => FramesKeepTrack
  <2>1. SUFFICES ASSUME SessionInvariant, Distinct, Agreed, Apart
                 PROVE  /\ Classify(agreed["video"].rtp) = "VIDEO"
                        /\ Classify(agreed["audio"].rtp) = "AUDIO"
                        /\ Classify(agreed["video"].rtcp) = "VIDEOCONTROL"
                        /\ Classify(agreed["audio"].rtcp) = "AUDIOCONTROL"
                        /\ ChannelOf("VIDEO") = agreed["video"].rtp
                        /\ ChannelOf("AUDIO") = agreed["audio"].rtp
                        /\ ChannelOf("VIDEOCONTROL") = agreed["video"].rtcp
    BY DEF FramesKeepTrack
  <2>2. Video = agreed["video"] /\ Audio = agreed["audio"]
    BY <2>1 DEF SessionInvariant, ChannelInvariant, Agreed, Video, Audio, Track
  <2>3. QED BY <2>1, <2>2 DEF Classify, ChannelOf, Apart
<1>2. QED BY <1>1, Invariance, PTL

\* RTP of a stream of one track comes out on the channel it was sent on, whichever track
\* the code takes it for.
THEOREM SoleTrackComesOut == Spec => []SameChannelsSameFrames
<1>1. ASSUME SessionInvariant, NEW t \in Track, RtpOrRtcp, Sole(t), agreed[t] # None
      PROVE  ChannelOf(Classify(agreed[t].rtp)) = agreed[t].rtp
  <2>1. agreed[t] = Video /\ Video \in Pairs
    BY <1>1 DEF SessionInvariant, SoleInvariant, TypeOK, MediaType, Video
  <2>2. Audio \in Pairs \cup {Unset}
    BY <1>1 DEF SessionInvariant, SoleInvariant, Nothing, Audio
  <2>3. CASE Video.rtp = Audio.rtp
    BY <2>1, <2>3 DEF Classify, ChannelOf
  <2>4. CASE Video.rtp # Audio.rtp
    <3>1. Video.rtp # Audio.rtcp
      BY <1>1, <2>1, <2>2, <2>4 DEF RtpOrRtcp, Unset
    <3>2. Classify(Video.rtp) = "VIDEO"
      BY <2>4, <3>1 DEF Classify
    <3>3. QED
      BY <2>1, <3>2 DEF ChannelOf
  <2>5. QED
    BY <2>3, <2>4
<1>2. SessionInvariant => SameChannelsSameFrames
  BY <1>1 DEF SameChannelsSameFrames
<1>3. QED BY <1>2, Invariance, PTL
=============================================================================
