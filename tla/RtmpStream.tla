----------------------------- MODULE RtmpStream -----------------------------
(***************************************************************************)
(* One published stream, byte for byte: a client cuts its messages into    *)
(* chunks and interleaves them, the publisher's goroutine reads chunks     *)
(* until a message is whole (Session.readMsg), turns it into a packet      *)
(* (Pusher.readPacket), caches it, records it when the application is      *)
(* "record" (FlvWriter) and writes it to a player in chunks of its own.    *)
(*                                                                         *)
(* Packets live on a heap: the cache keeps a pointer to a packet, and the  *)
(* recorder rewrites the packet the broadcast is about to write.  Locks,   *)
(* several players and stopping are RtmpRelay's; acknowledgements are      *)
(* RtmpSession's.                                                          *)
(***************************************************************************)
EXTENDS ChunkFormat, FiniteSets

CONSTANTS Payloads,       \* what clients send: a set of [typeId, csId, data]
          Steps,          \* how much a message is later than the one before
          MaxField,       \* bound: the largest time field a client writes
          RepeatSteps,    \* the steps a client leaves to a format 3 chunk
          MaxMessages,    \* bound: messages a client starts
          MaxPending,     \* bound: messages a client has begun and not ended
          MaxWire,        \* bound: bytes on their way before a client waits
          ClientChunk,    \* the client's first chunk size (128)
          ServerChunk     \* the chunk size of what players are sent (1024)

ASSUME SizeAssumption == ClientChunk \in Nat \ {0} /\ ServerChunk \in Nat \ {0}
ASSUME PayloadAssumption ==
  \A p \in Payloads :
    /\ p.typeId \in 0 .. 255 /\ p.csId \in 2 .. MaxCsId
    /\ p.data \in Seq(0 .. 255) /\ Len(p.data) <= Mark
    /\ p.typeId = 1 => Len(p.data) = 4 /\ ReadBE(p.data, 0, 4) # 0  \* SetChunkSize
ASSUME StepAssumption == Steps \subseteq Nat /\ MaxField \in Nat

Audio == 8
Video == 9
DataAMF3 == 15
DataAMF0 == 18
SetChunkSize == 1
Abort == 2

VARIABLES
  size,      \* client: its chunk size
  prior,     \* client: per chunk stream, the last message begun and its step
  pending,   \* client: per chunk stream, the bytes of that message not yet sent
  sent,      \* client: the messages it has sent whole, in that order
  aborted,   \* client: whether it gave one up
  up,        \* bytes on their way to the server
  flight,    \* history: for each chunk on its way, the client just before it
  chunks,    \* Session.chunks
  peerSize,  \* Session.remoteChunkSize
  phase,     \* "reading", or "ended" when SendPacket has returned
  received,  \* the messages readMsg has returned
  packets,   \* the heap of packets, in the order they were read
  cache,     \* the packet of each header kind the cache points to, or 0
  recorder,  \* flvMuxer: "off" (another application), "failed" (no file) or "open"
  file,      \* the bytes of the flv file
  player,    \* "none", "joined" (addPlayer) or "init"
  joinedAt,  \* history: the packets read when it joined
  down       \* bytes written to the player

client == <<size, prior, pending, sent, aborted>>
server == <<chunks, peerSize, phase, received, packets, cache, recorder, file, player, joinedAt, down>>
vars == <<client, up, flight, server>>

CsIds == {p.csId : p \in Payloads}
Body(m) == [typeId |-> m.typeId, streamId |-> m.streamId,
            timestamp |-> m.timestamp, data |-> m.data]

-----------------------------------------------------------------------------
(* External: the client.                                                   *)

NoPrior == [known |-> FALSE, step |-> 0,
            m |-> [typeId |-> 0, streamId |-> 0, timestamp |-> 0, data |-> << >>, csId |-> 0]]

Unsent(cs) == Len(pending[cs]) # 0
Begun == {cs \in CsIds : Unsent(cs)}

\* The client now; "at" is the number of bytes on their way.
Moment == [at |-> Len(up), size |-> size, prior |-> prior, pending |-> pending, count |-> Len(sent)]

\* Put the next chunk of a message on the wire; "rest" is what the message still has.
SendPiece(m, head, rest) ==
  LET piece == Slice(rest, 0, size)
      left == SubSeq(rest, Len(piece) + 1, Len(rest))
      whole == left = << >>
  IN /\ Len(up) <= MaxWire
     /\ up' = up \o (head \o piece)
     /\ flight' = Append(flight, Moment)
     /\ pending' = [pending EXCEPT ![m.csId] = left]
     /\ sent' = IF whole THEN Append(sent, Body(m)) ELSE sent
     /\ size' = IF whole /\ m.typeId = SetChunkSize THEN ReadBE(m.data, 0, 4) ELSE size

\* Begin a message.  Format 1 leaves out the stream, 2 the length and type too,
\* 3 also the step, each when it is that of the chunk stream's last message.
Begin(p, step, format) ==
  LET last == prior[p.csId]
      m == [typeId |-> p.typeId, csId |-> p.csId, data |-> p.data,
            streamId |-> IF p.typeId \in {SetChunkSize, Abort} THEN 0 ELSE 1,
            timestamp |-> last.m.timestamp + step]
      time == IF format = 0 THEN m.timestamp ELSE step
  IN /\ Len(sent) + Cardinality(Begun) < MaxMessages
     /\ Cardinality(Begun) < MaxPending
     /\ ~Unsent(p.csId)
     /\ p.typeId # Abort
     /\ time <= MaxField
     /\ format # 0 => last.known /\ m.streamId = last.m.streamId
     /\ format \in {2, 3} => m.typeId = last.m.typeId /\ Len(m.data) = Len(last.m.data)
     /\ format = 3 => step \in RepeatSteps /\ step = last.step
     /\ prior' = [prior EXCEPT ![p.csId] = [known |-> TRUE, step |-> time, m |-> m]]
     /\ SendPiece(m, ClientHead(format, m, time), m.data)
     /\ UNCHANGED <<aborted, server>>

\* Send one more chunk of a message; it repeats a wide time field.
Continue(cs) ==
  /\ Unsent(cs)
  /\ LET m == prior[cs].m
     IN SendPiece(m, ClientHead(3, m, prior[cs].step), pending[cs])
  /\ UNCHANGED <<prior, aborted, server>>

\* Give a message up with an Abort message, which takes one chunk.
GiveUp(p, cs) ==
  /\ p.typeId = Abort /\ Unsent(cs) /\ ~Unsent(p.csId)
  /\ ~aborted
  /\ size >= 4
  /\ LET m == [typeId |-> Abort, csId |-> p.csId, streamId |-> 0, timestamp |-> 0,
               data |-> BE(cs, 4)]
     IN /\ up' = up \o (ClientHead(0, m, 0) \o m.data)
        /\ sent' = Append(sent, Body(m))
        /\ prior' = [prior EXCEPT ![cs] = NoPrior, ![p.csId] = [known |-> TRUE, step |-> 0, m |-> m]]
  /\ pending' = [pending EXCEPT ![cs] = << >>]
  /\ flight' = Append(flight, Moment)
  /\ aborted' = TRUE
  /\ UNCHANGED <<size, server>>

Client == \/ \E p \in Payloads, step \in Steps, format \in 0 .. 3 : Begin(p, step, format)
          \/ \E cs \in CsIds : Continue(cs)
          \/ \E p \in Payloads, cs \in CsIds : GiveUp(p, cs)

-----------------------------------------------------------------------------
(* What the server makes of a message.                                     *)

IsMedia(m) == m.typeId \in {Audio, Video, DataAMF0, DataAMF3}
IsMetadata(m) == m.typeId \in {DataAMF0, DataAMF3}
IsVideo(m) == m.typeId = Video

\* ParseMediaTagHeader: what is not video is parsed as audio.  (One byte of AAC
\* makes it index past the end; no payload here does.)
TagParses(m) == IF IsVideo(m) THEN Len(m.data) >= 5 ELSE Len(m.data) >= 1

\* Which special cache Cache.Write puts a packet in, "none" for the empty gop cache.
CacheOf(m) ==
  LET hi == m.data[1] \div 16 IN
  CASE IsMetadata(m) -> "meta"
    [] IsVideo(m) /\ hi = 1 /\ m.data[2] = 0 -> "vseq"
    [] m.typeId = Audio /\ hi = 10 /\ m.data[2] = 0 -> "aseq"
    [] OTHER -> "none"

\* External: amf.MetaDataReform(DEL) drops a leading "@setDataFrame" string and
\* returns nothing when the first AMF value does not decode.
SetFrame == 2
Broken == 255
Reform(data) == CASE data[1] = SetFrame -> Tail(data)
                  [] data[1] = Broken -> << >>
                  [] OTHER -> data

OutType(m) == IF IsVideo(m) THEN Video ELSE IF IsMetadata(m) THEN DataAMF0 ELSE Audio

\* Player.HandlePacket.
Written(m) ==
  WriteChunk([csId |-> 0, typeId |-> OutType(m), streamId |-> m.streamId,
              timestamp |-> m.timestamp, data |-> m.data], ServerChunk)

FlvHeader == <<70, 76, 86, 1, 5, 0, 0, 0, 9>> \o BE(0, 4)

FlvTagShort(m) ==
  <<OutType(m)>> \o BE(Len(m.data), 3) \o BE(m.timestamp % (Mark + 1), 3) \o <<0>> \o BE(0, 3)
    \o m.data \o BE(Len(m.data) + 11, 4)

\* FlvWriter.HandlePacket: an 11-byte head, the data, the size of both.
FlvTag(m) ==
  <<OutType(m)>> \o BE(Len(m.data), 3) \o BE(m.timestamp % (Mark + 1), 3)
    \o <<(m.timestamp \div (Mark + 1)) % 256>> \o BE(0, 3)
    \o m.data \o BE(Len(m.data) + 11, 4)

\* The packet as the recorder leaves it on the heap.
Recorded(m) == IF recorder = "open" /\ IsMetadata(m) THEN [m EXCEPT !.data = Reform(@)] ELSE m

Unreformed(m) == IsMetadata(m) /\ Reform(m.data) = << >>

\* The packets a cache points to, in the order a new player gets them.
Cached(c) ==
  LET entry(k) == IF c[k] = 0 THEN << >> ELSE <<c[k]>>
  IN entry("meta") \o entry("vseq") \o entry("aseq")

SendPacketCached(m) ==
  LET n == Len(packets) + 1
      kept == [k \in DOMAIN cache |-> IF k = CacheOf(m) THEN n ELSE cache[k]]
      burst == Cached(kept)
      heap == Append(packets, m)
  IN /\ packets' = heap
     /\ cache' = kept
     /\ file' = IF recorder = "open" /\ ~Unreformed(m) THEN file \o FlvTag(Recorded(m)) ELSE file
     /\ down' = down \o (CASE player = "none" -> << >>
                           [] player = "init" -> Written(Recorded(m))
                           [] player = "joined" ->
                                FlattenSeq([i \in DOMAIN burst |-> Written(heap[burst[i]])]))
     /\ player' = IF player = "none" THEN "none" ELSE "init"

\* Cache.Write, the recorder and the broadcast, for one packet.  The player gets
\* the packets the cache points to when it was not init, else this one.
SendPacket(m) ==
  LET n == Len(packets) + 1
      heap == Append(packets, Recorded(m))
      kept == [k \in DOMAIN cache |-> IF k = CacheOf(m) THEN n ELSE cache[k]]
      burst == Cached(kept)
      todo == IF player = "none" THEN << >> ELSE IF player = "init" THEN <<n>> ELSE burst
  IN /\ packets' = heap
     /\ cache' = kept
     /\ file' = IF recorder = "open" /\ ~Unreformed(m) THEN file \o FlvTag(Recorded(m)) ELSE file
     /\ down' = down \o FlattenSeq([i \in DOMAIN todo |-> Written(heap[todo[i]])])
     /\ player' = IF player = "none" THEN "none" ELSE "init"

\* readMsg has a message: handleControlMsg, then readPacket, which skips what is
\* not media and fails on a tag it cannot parse.
Receive(m) ==
  /\ received' = Append(received, m)
  /\ peerSize' = IF m.typeId = SetChunkSize THEN ReadBE(m.data, 0, 4) ELSE peerSize
  /\ IF IsMedia(m) /\ TagParses(m) THEN SendPacket(m)
     ELSE UNCHANGED <<packets, cache, file, player, down>>
  /\ phase' = IF IsMedia(m) /\ ~TagParses(m) THEN "ended" ELSE phase

\* The chunk readMsg reads next.
NextChunk ==
  LET head == BasicHead(up)
      old == IF head.csId \in DOMAIN chunks THEN chunks[head.csId] ELSE NewChunk
  IN ReadChunk(old, head.format, up, head.used, peerSize)

\* One turn of readMsg's loop, once the bytes of a chunk have arrived.
ReadMsg ==
  /\ phase = "reading" /\ up # << >>
  /\ LET csId == BasicHead(up).csId
         r == NextChunk
     IN /\ r.used <= Len(up)
        /\ up' = SubSeq(up, r.used + 1, Len(up))
        /\ flight' = [k \in 1 .. Len(flight) - 1 |-> [flight[k + 1] EXCEPT !.at = @ - r.used]]
        /\ \/ /\ r.invalid
              /\ phase' = "ended"
              /\ UNCHANGED <<chunks, peerSize, received, packets, cache, file, player, down>>
           \/ /\ ~r.invalid
              /\ chunks' = [k \in DOMAIN chunks \cup {csId} |->
                              IF k = csId THEN r.chunk ELSE chunks[k]]
              /\ IF r.chunk.remain = 0 THEN Receive(Body(r.chunk))
                 ELSE UNCHANGED <<peerSize, phase, received, packets, cache, file, player, down>>
  /\ UNCHANGED <<client, recorder, joinedAt>>

\* A player's session finds the Pusher and adds itself.
Join ==
  /\ player = "none" /\ phase = "reading"
  /\ player' = "joined"
  /\ joinedAt' = Len(packets)
  /\ UNCHANGED <<client, up, flight, chunks, peerSize, phase, received, packets, cache, recorder, file, down>>

Init ==
  /\ size = ClientChunk
  /\ prior = [cs \in CsIds |-> NoPrior]
  /\ pending = [cs \in CsIds |-> << >>]
  /\ sent = << >> /\ aborted = FALSE /\ up = << >> /\ flight = << >>
  /\ chunks = << >> /\ peerSize = ClientChunk
  /\ phase = "reading" /\ received = << >> /\ packets = << >>
  /\ cache = [k \in {"meta", "vseq", "aseq"} |-> 0]
  /\ recorder \in {"off", "failed", "open"}
  /\ file = IF recorder = "open" THEN FlvHeader ELSE << >>
  /\ player = "none" /\ joinedAt = 0 /\ down = << >>

Next == Client \/ ReadMsg \/ Join

Spec == Init /\ [][Next]_vars

-----------------------------------------------------------------------------
(* Properties.                                                             *)

\* A client that needs neither of the two things the reader gets wrong (see the
\* run rtmp_timestamp): a time field of 32 bits, and a step left to a format 3
\* chunk that begins a message.
PlainClient == MaxField < Mark /\ RepeatSteps \subseteq {0}

TypeOK ==
  /\ size \in Nat \ {0} /\ peerSize \in Nat \ {0}
  /\ \A cs \in CsIds : pending[cs] \in Seq(0 .. 255)
  /\ up \in Seq(0 .. 255) /\ down \in Seq(0 .. 255) /\ file \in Seq(0 .. 255)
  /\ \A k \in DOMAIN chunks : Len(chunks[k].data) + chunks[k].remain = chunks[k].length
  /\ phase \in {"reading", "ended"} /\ player \in {"none", "joined", "init"}
  /\ \A k \in DOMAIN cache : cache[k] \in 0 .. Len(packets)
  /\ joinedAt \in 0 .. Len(packets)

\* The client before each chunk that is on its way, and the client now.
Moments == Append(flight, Moment)

\* From moment a to moment b the client put a chunk of chunk stream cs on the wire:
\* what its message had left before it, and the part of that the chunk carries.
Rest(a, b, cs) == IF a.pending[cs] = << >> THEN b.prior[cs].m.data ELSE a.pending[cs]
Piece(a, b, cs) == Slice(Rest(a, b, cs), 0, a.size)

\* The header leaves out only what the chunk stream's last message tells.
HeadFits(a, b, cs, format) ==
  LET was == a.prior[cs]
      now == b.prior[cs]
  IN IF a.pending[cs] # << >> THEN format = 3 /\ now = was
     ELSE /\ format = 0 => now.m.timestamp = now.step
          /\ format # 0 =>
               /\ was.known /\ now.m.streamId = was.m.streamId
               /\ now.m.timestamp = was.m.timestamp + (IF format = 3 THEN 0 ELSE now.step)
          /\ format \in {2, 3} =>
               now.m.typeId = was.m.typeId /\ Len(now.m.data) = Len(was.m.data)

MessageAdvances(a, b, cs) ==
  LET m == b.prior[cs].m
      left == SubSeq(Rest(a, b, cs), Len(Piece(a, b, cs)) + 1, Len(Rest(a, b, cs)))
      whole == left = << >>
  IN /\ b.prior[cs].known /\ b.pending[cs] = left
     /\ b.count = a.count + (IF whole THEN 1 ELSE 0)
     /\ whole => sent[b.count] = Body(m)
     /\ b.size = IF whole /\ m.typeId = SetChunkSize THEN ReadBE(m.data, 0, 4) ELSE a.size

\* No other message is touched unless it is given up.
OthersKept(a, b, cs) ==
  \A k \in CsIds \ {cs} :
    \/ b.prior[k] = a.prior[k] /\ b.pending[k] = a.pending[k]
    \/ aborted /\ ~b.prior[k].known /\ b.pending[k] = << >>

BytesCarried(a, b, cs, format) ==
  LET bytes == ClientHead(format, b.prior[cs].m, b.prior[cs].step) \o Piece(a, b, cs)
  IN b.at = a.at + Len(bytes) /\ Slice(up, a.at, Len(bytes)) = bytes

ChunkBetween(a, b) ==
  \E cs \in CsIds, format \in 0 .. 3 :
    /\ HeadFits(a, b, cs, format) /\ MessageAdvances(a, b, cs)
    /\ OthersKept(a, b, cs) /\ BytesCarried(a, b, cs, format)

\* The server is where the client was at moment a.
ServerAt(a) ==
  /\ peerSize = a.size
  /\ received = SubSeq(sent, 1, a.count)
  /\ \A cs \in CsIds :
       IF a.prior[cs].known
       THEN /\ cs \in DOMAIN chunks
            /\ LET m == a.prior[cs].m
                   c == chunks[cs]
               IN /\ c.timestamp = m.timestamp /\ c.length = Len(m.data)
                  /\ c.typeId = m.typeId /\ c.streamId = m.streamId
                  /\ c.remain = Len(a.pending[cs]) /\ c.data \o a.pending[cs] = m.data
       ELSE cs \in DOMAIN chunks /\ chunks[cs].remain # 0 => aborted

\* The server is the client as it was before the chunks still on their way: its
\* chunk size, the messages it has whole and what it holds of the others are those
\* of the client then, and each chunk takes it to the client of the next moment.
ServerLagsClient ==
  phase = "reading" =>
    /\ Moments[1].at = 0
    /\ ServerAt(Moments[1])
    /\ \A k \in DOMAIN flight : ChunkBetween(Moments[k], Moments[k + 1])

\* Whatever chunks of other messages, and of chunk size changes, come between the
\* chunks of a message, readMsg returns the messages a client sent, with their
\* types, timestamps and bytes, in the order in which they were completed.
ReceivedAsSent == IsPrefix(received, sent)

\* SelectSeq, in a form that can be reasoned about.
Those(seq, Test(_)) ==
  FlattenSeq([i \in DOMAIN seq |-> IF Test(seq[i]) THEN <<seq[i]>> ELSE << >>])

\* The media messages among those the server has read that it could use.
Usable == Those(SubSeq(sent, 1, Len(received)), LAMBDA m : IsMedia(m) /\ TagParses(m))

\* The form in which a message leaves the server.
Relayed(m) == [typeId |-> OutType(m), streamId |-> m.streamId, timestamp |-> m.timestamp,
               data |-> IF recorder = "open" /\ IsMetadata(m) THEN Reform(m.data) ELSE m.data]

LatestOf(seq, kind) ==
  LET those == Those(seq, LAMBDA m : CacheOf(m) = kind)
  IN IF those = << >> THEN << >> ELSE <<Last(those)>>

\* What a client decodes of the bytes written to a player is the latest metadata
\* and sequence headers at the packet that made it init, then every later
\* message: none lost, none torn, each with its own timestamp, and the metadata
\* in one form whether it came out of the cache or straight from the publisher.
ViewerSeesStream ==
  LET first == SubSeq(Usable, 1, joinedAt + 1)
      burst == LatestOf(first, "meta") \o LatestOf(first, "vseq") \o LatestOf(first, "aseq")
      shown == IF player # "init" THEN << >>
               ELSE burst \o SubSeq(Usable, joinedAt + 2, Len(Usable))
      relayed == [i \in DOMAIN shown |-> Relayed(shown[i])]
  IN ClientDecodes(down, ServerChunk) = Those(relayed, LAMBDA m : m.data # << >>)

\* External: a reader of the FLV format, at the start of a file and over one tag.
FlvStart(s) == [at |-> 13, good |-> SubSeq(s, 1, 13) = FlvHeader, tags |-> << >>]

FlvReads(r, s) ==
  LET len == ReadBE(s, r.at + 1, 3)
      tag == [typeId |-> ByteAt(s, r.at + 1),
              timestamp |-> ReadBE(s, r.at + 4, 3) + ReadBE(s, r.at + 7, 1) * (Mark + 1),
              data |-> Slice(s, r.at + 11, len)]
  IN IF r.at >= Len(s) \/ ~r.good THEN r
     ELSE [at |-> r.at + 15 + len, tags |-> Append(r.tags, tag),
           good |-> ReadBE(s, r.at + 11 + len, 4) = 11 + len]

\* The tags it finds, << >> where the head or a previous-tag size is wrong.
FlvDecodes(s) ==
  LET run[n \in 0 .. Len(s)] == IF n = 0 THEN FlvStart(s) ELSE FlvReads(run[n - 1], s)
  IN IF run[Len(s)].good THEN run[Len(s)].tags ELSE << >>

\* A recording is an FLV file that a reader of the format plays from end to end,
\* and its tags are the messages read so far, metadata without "@setDataFrame".
RecordingPlays ==
  recorder = "open" =>
    LET kept == Those(Usable, LAMBDA m : ~Unreformed(m))
    IN FlvDecodes(file) =
         [i \in DOMAIN kept |-> [typeId |-> OutType(kept[i]), timestamp |-> kept[i].timestamp,
                                 data |-> Relayed(kept[i]).data]]

\* The reader gives a publisher up only when a tag is too short for it or when
\* the client aborted a message, which the server does not implement.
EndsForAReason ==
  phase = "ended" =>
    \/ aborted
    \/ \E i \in DOMAIN received : IsMedia(received[i]) /\ ~TagParses(received[i])

\* The server never waits in the middle of a chunk for bytes the client has no
\* reason to send: what is on the wire can be read, and once it has been, every
\* message sent whole has been received.
NothingHeldBack ==
  phase = "reading" => IF up = << >> THEN received = sent ELSE NextChunk.used <= Len(up)
=============================================================================
