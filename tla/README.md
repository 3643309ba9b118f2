# TLA+ models of MediaStreamServer

MediaStreamServer is one Go process with two independent servers: an RTMP server
(`internal/RTMP`) and an RTSP server (`internal/RTSP`, TCP only). Both relay live
streams: a publisher sends a stream under a name, players ask for the name, and the
publisher's packets are handed to every player. This directory holds TLA+ models of
the relays, of the sessions on either side of them and of the bytes on an RTMP
connection, TLC configurations that check them on small instances, and proofs for
TLAPS.

    tlc -config rtmp_relay.cfg MCRtmpRelay      # any *.cfg, with the MC module of its server
    tlapm RtmpRelayProofs.tla                   # minutes; RtmpStreamProofs takes the longest

## 1. Inventory

| Part | State | Operations | Talks to |
|---|---|---|---|
| RTMP session (`RTMP/Session.go`) | command state (`done`, `isPublisher`, `publishInfo`), chunk streams, windows, `StopHandleFunc`, `Stoped` | `start`, `readMsg`, `handleCmdMsg`, `writeChunk`, `stop` | Pusher or Player it creates |
| RTMP Pusher (`RTMP/Pusher.go`) | `player` map under `playerMutex`, header cache, flv writer | `NewPusher`, `SendPacket`, `broadcast`, add/remove player, stop handler | PusherManager, players' sessions |
| RTMP Player (`RTMP/Player.go`) | `init`, `stop` | `NewPlayer`, `HandlePacket`, `Check`, `Stop` | its Pusher, its session |
| Header cache (`RTMP/cache`) | last metadata, video and audio sequence header | `Write`, `Send` | Pusher, Player |
| RTMP chunk codec (`RTMP/Chunk.go`, `writeChunk`) | per chunk stream header, `remain`, sizes | `readChunk`, `writeChunkHead` | buffered connection |
| RTMP commands, handshake, acks | `connInfo`, windows | `connect`, `createStream`, `publish`, `play`, `ack` | chunk codec |
| FLV recorder (`RTMP/container/flv`) | a file, a buffer | `NewFlvWriter`, `HandlePacket`, `Close` | Pusher |
| RTSP session (`RTSP/Session.go`) | `channelCode`, function lists, `stoped`, `richConn`, channels | request handlers, frames, `stop` | Pusher or Player it creates |
| RTSP Pusher (`RTSP/Pusher.go`) | channel `queue`, `player` map, `exit` | `NewPusher`, `ReceiveRtp`, add/remove player | PusherManager, players |
| RTSP Player (`RTSP/Player.go`) | `queue`, `cond` | `NewPlayer`, `receiverFrame` | its session |
| PusherManager (one per server) | map from name to Pusher under `pusherLock` | add, look up, remove | all sessions |
| RTSP requests, answers, digest, set-up | `ctx`, nonce, channels | `ReadRequest`, `AuthRequest`, `checkAuth`, `Setup` | session |
| Buffered connection (`RichConn`) | deadlines, sticky errors | byte reads and writes | sessions |
| SDP, RTP parser, Settings, Logger, Snowflake, Servers, main | none, or configuration | parsing, I/O, accept loops | — |

What is hard here is the meeting of goroutines: one per RTMP connection, up to three
per RTSP connection, with maps under read-write mutexes, a condition variable, a bounded
channel, flags that are tested and set without a lock, and lists of stop functions that
one session's goroutine runs for another. `PROJECT.json` lists each hazard at its line
with the properties that watch it.

What makes each part correct:

* the directory (PusherManager): a name has one publisher, who is found while it is live
  and gives the name up when it stops;
* the RTMP relay: the player map does not change under a range, `playerMutex` is given
  back on every path, a player gets headers and then a gapless stream, a stop closes the
  connection and ends the players;
* the RTSP relay: frames keep their order through two queues, no wake-up is lost, the
  condition's lock is given back, stop functions run once;
* the chunk codec: the server reads the messages a client sent, and a client reads those
  the server wrote, however chunks interleave and sizes change;
* the RTMP session: two goroutines write whole messages, media comes after the answers to
  play, acknowledgements account for every byte that was read;
* the recorder: the file is a playable FLV of the stream, and recording changes only the
  form of the metadata that players get;
* the RTSP session: every request gets its own answer, refused sessions stop, a frame
  keeps its track on its way from one client's channels to another's.

## 2. Modules

| Module | Models |
|---|---|
| `StreamDirectory` | what a PusherManager promises: `Publish`, `Withdraw` over `owner` and `phase` |
| `StreamDirectoryProofs` | its invariant, proved |
| `RtmpRelay` | the RTMP relay, one goroutine per session |
| `RtmpRelayProofs` | inductive invariant and safety theorems of `RtmpRelay`, and on top of them what an RTMP player gets |
| `RtspRelay` | the RTSP relay, three goroutines per session; instantiates `StreamDirectory` |
| `RtspRelayProofs` | inductive invariant and safety theorems of `RtspRelay`, the refinement of `StreamDirectory`, and what a crash takes |
| `RtspDeliveryProofs` | what an RTSP player gets, proved on top of `RtspRelayProofs` |
| `ChunkFormat` | integers, chunk writer and chunk reader as pure operators, and a client's writer and reader |
| `ChunkFormatProofs` | what is written can be read: integers, chunk heads, whole messages, for every value, length and chunk size |
| `RtmpStream` | one published stream byte for byte: client, `readMsg`, packets, cache, recorder, one player |
| `RtmpStreamProofs` | its inductive invariants and all its properties, for every client that is plain |
| `RtmpSession` | one RTMP session: handshake, commands, acknowledgements, two goroutines in `writeChunk` |
| `RtmpSessionProofs` | inductive invariant and safety theorems of `RtmpSession` |
| `RtspSession` | one RTSP session: requests, authentication, tracks and channels, responses and frames on one connection |
| `RtspSessionProofs` | inductive invariant and safety theorems of `RtspSession` |
| `MCRtmpRelay`, `MCRtspRelay`, `MCRtmpStream`, `MCRtmpSession`, `MCRtspSession` | instances for TLC: model values, messages, symmetry |

The relay modules have many sessions and abstract what travels between them; the session
modules have one connection and abstract the rest of the server. They meet at named
points: `RtmpSession!Attach` is `RtmpRelay!CheckName`/`Lookup`, `RtmpSession!Broadcast` is
the write of `RtmpRelay!Serve`, `RtmpStream!SendPacket` is `RtmpRelay!ReadPacket` and the
broadcast after it, `RtspSession!Offer` is `RtspRelay!SendFrame`.

### RtmpRelay

A session makes at most one Pusher or one Player (`start` calls `NewPusher` or
`NewPlayer` once), so both are named by their session. `pc[s]` is the next line of the
session's goroutine that touches shared state. Each action is the code between two such
points: a critical section of `pusherLock`, or an uncontended one of `playerMutex`, is
one step, while the two ranges under `playerMutex` (`broadcast`, the stop handler) hold
`lock` over many steps, with the stops of players that they run. `Player.Stop` and
`Session.stop` are run by a goroutine on a *target* that may be another goroutine's
session, and return to `ret`; the test and the assignment of `Player.stop` and of
`Session.Stoped` are separate steps because nothing orders them with the other goroutine.

| Code | Actions |
|---|---|
| `start`, command loop | `Publish`, `Play`, `CommandFails` |
| `NewPusher` | `CheckName`, `Register` |
| `SendPacket`, `readPacket`, `Cache.Write` | `ReadPacket`, `ReadFails` |
| `broadcast`, `Cache.Send`, `HandlePacket` | `Broadcast`, `Serve`, `WriteOk`, `WriteFails`, `Served`, `BroadcastDone` |
| `getPusher`, `NewPlayer`, `Check` | `Lookup`, `Attach`, `Hook`, `CheckFails` |
| `Player.Stop`, `Session.stop` | `PlayerStop`, `PlayerMark`, `Stop`, `Hooks`, `Close` |
| stop handlers | `Detach`; `Unregister`, `LockPlayers`, `StopNextPlayer`, `UnlockPlayers`, `CloseFlv` |
| the peer's connection | `PeerLost` |

Abstracted: packets are a kind (metadata, video header, audio header, media) and a
number; a write reaches the peer, fails, or is lost with the peer. `readPacket`'s parse
errors are `ReadFails`. `CheckFails` is any error of a player's `readMsg`: a lost connection, and
also a chunk out of place while the connection works, so a player may be stopped at any moment.
A player's acknowledgements are `RtmpSession`'s and the flv
contents `RtmpStream`'s; a file that could not be created counts as open here. `checkPusher` and `Pusher.Stop` are
never started, so nothing sets `Pusher.stop`. `got` and `joined` are history variables.

### RtspRelay

The three goroutines of a session are `loop`, `relay` (`ReceiveRtp`, of the Pusher it
announced) and `receiver` (`receiverFrame`, of the Player it described). `roles[s]` is the
order in which `NewPusher` and `NewPlayer` appended to the session's `rtpHandleFunc` and
`stopHandleFunc`; a frame that is handed to a session, by its own loop or by the relay of
the Pusher it watches, walks through that list (`at`, `todoFuncs`). `cond` is the holder
of the Player's `cond.L`. A waiter is at `wait` until `Signal` or `Broadcast` makes it
`woken`, and continues when it gets the lock. The `break` of `receiverFrame` is modelled
as Go defines it: it leaves the `select`, so the lock stays held (`BreakOut`).

`stop` is run by the loop (in `HandleRtspResponse`, or deferred in `start`) and by the
receiver (deferred). `Panic` keeps apart what the code recovers from: a panic in
`HandleRtspResponse` is recovered by `start`; one in a stop that runs after the
`recover` ends the process (`crashed`).

Two steps are coarser than the code. `Announce` is `addPusher` and the two appends after it
(Pusher.go:72-81), `Attach` is `addPlayer` and its appends (Player.go:26-48), each as one step.
Only the session's own loop appends to its lists. What another goroutine can do between the map change and
the appends is: find the Pusher in the directory, which does not look at the lists; hand the
session a frame, which passes the new function by as if the step came after it; or, if it is
the session's own receiver (an ANNOUNCE of a session that already views), begin a stop whose
range does not have the new function yet, as if the stop had begun before the step. All of
these orders are in the model. Reading a slice that is being
appended to is a data race in Go; the model takes the list to be the one before or after.

Bounds and exclusions: a session announces once and describes once, its Pusher has one
relay and its Player one receiver, and it does not watch itself. A client that sends a
second RECORD or PLAY leaves that frame of the model; `PROJECT.json` lists the hazards
it misses. OPTIONS, SETUP, PAUSE and authentication change none of this state;
`Teardown` stands for every request that is answered with an error as well. Channel codes
are compared for equality (the code accepts a longer path for a session that has one).
`queueLimit` is never assigned, so the trimming loop never runs.

### StreamDirectory and the refinement

`RtspRelay!DirectoryImplemented` maps `owner` to the PusherManager's map and `phase[s]` to
*idle* before `NewPusher` registered `s`, *live* until `s` has run both halves of its stop
function, *over* after that. Deleting by code, from two goroutines, is what makes it
delicate: it only holds because the second run of a stop closes `exit` first and panics
before it can delete somebody else's Pusher. The RTMP server does **not** implement the
directory: see the findings.

### ChunkFormat and RtmpStream

`ChunkFormat` has the bytes. `ReadChunkHead` and `ReadChunk` are `readChunk`, format by
format, with the comparison against 0xfffffff as the code has it; `WriteChunk` is
`writeChunk`. `ClientHead` and `ClientDecodes` (`ClientReads`, chunk
after chunk) are the RTMP specification's writer and reader as a client has them: they are
external, and are what the server is compared with. `FlvDecodes` (`FlvReads`, tag after tag)
is the same for a recording.

`RtmpStream` puts a client, the publisher's goroutine and one player together. The
client begins messages (`Begin`) with any chunk format its previous message on that chunk
stream allows, goes on with any begun message (`Continue`) and gives one up (`GiveUp`).
`ReadMsg` is one turn of `readMsg`'s loop, and with the last chunk of a message the whole
of what the goroutine does before it reads again: `handleControlMsg`, `readPacket`, the
tag parse, `Cache.Write`, the recorder, the broadcast. Packets are on a heap: the cache
keeps an index, so the recorder's rewrite of `packet.Data` is seen through the cache as it
is in Go. `Join` is `addPlayer` at any moment. Two bytes stand for the AMF values that
matter: `SetFrame` for a leading "@setDataFrame" string, `Broken` for a value that does
not decode.

`flight` is history: with each chunk on the wire, what the client was just before it
(`Moment`: its chunk size, messages begun and sent, and how many bytes were on their way).
`ServerLagsClient` says with it what the server knows in the middle of things: chunk size,
messages received and the parts it holds of the others are the client's at the first of
these moments, and each chunk on the wire carries what takes one moment to the next.
`PlainClient` names the clients the reader is right for: no time field of 32 bits, and no
step other than 0 left to a format 3 chunk that begins a message. A client leaves out of a
header only what is the same as in its last message on that chunk stream, and aborts in one
chunk.

### RtmpSession

`job` is the message the session's goroutine works on, `todo[g]` the messages goroutine
`g` has still to write. `Lock`, `WriteHead`, `WritePayload`, `Unlock` are the points of
`writeChunk` between which the other goroutine can run; `out` is what the buffered
connection was handed, header by header and payload by payload, each with the place of its
message in `written`, the order of the lock. Messages are a kind, a number and a length;
`acked` is the sum of the acknowledgements that got the lock. All three are history. A write fails once the peer takes no more (`PeerBlocks`) or the connection is
closed; a failed acknowledgement is ignored, as in the code, any other failure ends the
session. A wrong RTMP version changes nothing, because the error of Session.go:262 is
overwritten by the write at 282.

The client connects first, and once (the guard of `ReadMsg`). The code does not check it
(Session.go:138-183): for a client that plays without connecting, or connects again when it has
played, nothing here is claimed; `WireReadable` and its proof rest on this order.

### RtspSession

`HandleRequest` is `HandleRtspRequest` up to its deferred response: channel code, digest,
method. `resp` keeps its status between requests as `ctx.resp` does, with a mark on
whether the request in hand generated it. Tracks have a control or `None` for "", and `Matches`
is the suffix test of `Setup`: every URL ends with "". `Classify` and `ChannelOf` are the
two switches between channels and frame types. Writing is `LockResponse`,
`UnlockResponse`, `LockFrame`, `UnlockFrame`; `partial` shows whose message is unfinished on
the wire.

Clients are taken to do this much: DESCRIBE before the session has a role, ANNOUNCE and
RECORD not as a viewer, PLAY once. (The others are the hazards of `PROJECT.json` with the
second receiver, the second relay and the session that watches itself.) When ANNOUNCE is
refused because the code is taken, `sdpInfo` has been replaced already; the model keeps
the old one, since that session is stopped by its own 400 before it handles another
request. Of URLs the model knows the stream and its two tracks.

## 3. Runs

| Run | Instance | Checks |
|---|---|---|
| `rtmp_relay` | 3 sessions, 1 name, media packets, 2 per publisher, symmetric | `TypeOK`, `LockDiscipline`, `RegisteredIsAlive`, `MapStableInRange`, `RelayInvariant` |
| `rtmp_delivery` | 2 sessions, 3 packets of metadata and media, fair | `DeliveredInOrder`, `DeliveryInvariant`, `StopCloses` |
| `rtmp_exit` | 2 sessions, fair | violated: `PlayersExitWithPusher` |
| `rtmp_duplicate` | 2 sessions | violated: `OnePublisherPerName` |
| `rtsp_relay` | 2 sessions that may both publish and view, 2 frames, channel of 1 | `TypeOK`, `RelayInvariant`, `FramesInOrder`, `DeliveryInvariant`, `NeverTakesFromEmpty`, `LockLeaksOnlyInStop` |
| `rtsp_directory` | 3 publishers of one code, one also a viewer, no frames | `DirectoryImplemented`, `CrashIsDoubleStop` |
| `rtsp_flow` | a publisher of 2 frames and a session that views and publishes, fair | `QueueDrains`, `LoopReadsOn` |
| `rtsp_stop` | the same two sessions, a frame each, fair | `CodeReleased`, `StopCloses` |
| `rtmp_stream` | 3 messages out of 8 kinds on 4 chunk streams, 2 open at once, chunks of 4 and 3 bytes | `TypeOK`, `ReceivedAsSent`, `ViewerSeesStream`, `RecordingPlays`, `EndsForAReason`, `NothingHeldBack`, `ServerLagsClient` |
| `rtmp_timestamp` | 2 audio messages, the second at 0x1000000 ms | violated: `ReceivedAsSent` |
| `rtmp_session` | 4 messages of the client, 1 media message, fair | `TypeOK`, `WireReadable`, `MediaAfterStart`, `AcksKeepUp`, `SessionInvariant`, `WritesEnd` |
| `rtsp_session` | any requests, 2 channel pairs, 4 descriptions, a queue of 1, fair | `TypeOK`, `AnswersItsRequest`, `FramesKeepTrack`, `SameChannelsSameFrames`, `WireUnmixed`, `SessionInvariant`, `RefusedStops` |

Why these bounds suffice for the questions asked. One name (code) makes every session
compete. Three RTMP sessions allow a duplicate pair of publishers with a player, and a
publisher with two players, one of them leaving during the range over both. Two packets
let a player be initialised by one and receive the next; three packets of two kinds let
a header arrive before, at and after the join, and be replaced by a later one. (Bursts of several
headers are checked byte for byte in `rtmp_stream`, and the proofs hold for every cache.)
`QueueLime = 1` (32 in the code, which is only longer to fill) makes the channel block. In
`rtsp_flow` and `rtsp_stop` the second session may view the first's stream and announce the
same code once that has stopped, in either order, which is where a stop can go wrong. The
first session's two frames in `rtsp_flow` fill its own channel, with or without a relay to
empty it; in `rtsp_stop` the second session may fill its channel, so that the first one's
relay, with its last frame in hand, blocks in it.
In `rtsp_directory` the third session
takes the code over between two stops of the first; frames do not matter to the
directory, so none are sent there, while `rtsp_relay` has them.

`rtmp_stream`: `MaxMessages` = 3 with `MaxPending` = 2 lets a change of the chunk size, an
Abort or a header fall between the chunks of a message, and a third message repeat the
header of the first in formats 1 to 3; payloads are longer than a chunk of either size.
`MaxWire` bounds the bytes ahead of the reader: more would only delay it. `Steps`
reach past 0xffffff in sums while `MaxField` keeps each field below 0xffffff; at or above
it the server's reader is wrong (`rtmp_timestamp`), and at exactly 0xffffff its writer is
too (Session.go:382). `RepeatSteps` = {0} keeps to clients whose delta is 0 where a format
3 chunk begins a message, since the code never applies it (Chunk.go:111-126). Timestamps
stay below 2^31, an aborting client goes on with format 0, an Abort is itself never
interleaved, and one-byte AAC messages, which panic (Tag.go:163), are not sent.

`rtmp_session` scales sizes (128 to 6, 1024 to 10, the window to 6) and keeps their
order: control messages fit the first chunk size, answers do not, media need two chunks
of the larger. `Windows` holds a smaller and a larger one than the first, and 0, which makes
the server acknowledge every message; `Wrap` stands for 2^32 and is larger than a window and
a message (`RoomToCount`), as in the code unless a client asks for a window within a
message's length of 2^32. For such a window `AcksKeepUp` says less. `MaxRead` = 4 is connect, play and two messages, with an
acknowledgement, while media is written; `MaxMedia` = 1 is enough for two writers.

`rtsp_session` has no bound on requests. Two pairs allow tracks on the same, swapped and
different channels, and (0, 1) is the pair an unset track seems to have; the descriptions
are both tracks, either alone, and controls that fail or are missing. `MaxQueue` = 1 keeps
one frame waiting while another is written.

Every run has `CHECK_DEADLOCK FALSE`: peers may all leave, and a server without
connections has nothing to do.

Each property of a passing run has a mutant (the operators next to the definition they
replace: `BroadcastUnlocked`, `ServeBoth`, `RangeKeepsLock`, ...): a plausible slip in
the code that breaks it.

### What the runs show

* **RTMP, holds.** No path leaves `playerMutex` locked or drops it early, whichever of
  the two goroutines stops a player; maps never change under a range; `getPusher` never
  returns a Pusher that has finished its removal, duplicates included; players get
  headers and a gapless, ordered suffix of the stream, and lack nothing until a stop takes them
  out of the map (a player that sends a malformed chunk misses packets for the
  moment before its connection is closed); a stopped session is closed unless some publisher has locked itself.
* **RTMP, does not hold.**
  `OnePublisherPerName`: two connections pass `pusherIsExit` (Pusher.go:73) before
  either registers; `addPusher`'s answer is ignored (Pusher.go:91); both stream, although
  the second should be told "pusher already exists" (Session.go:108).
  `PlayersExitWithPusher`: the stop handler calls `player.Stop` under
  `playerMutex.Lock` (Pusher.go:96-100), and the player's handler locks the same mutex
  (Pusher.go:177): the goroutine blocks on itself, and players whose exit is announced
  ("player exit ,because pusher exit", Pusher.go:98) stay connected. The same self-lock
  follows a failed write in `broadcast` under `RLock`; it is the exception in `StopCloses`.
* **RTSP, holds.** Frames are delivered in order; `Wait` without a loop is sound with one
  receiver; no wake-up is lost; the leaked `cond.L` occurs only in a session that is
  stopping; the directory is implemented; a session that announced before it viewed anything
  gives its code up when it stops, even if its relay is blocked.
* **RTSP, limits shown by the shape of the properties.** Two things hold goroutines up for
  good. `Leaked`: the `break` of Player.go:74 leaves a viewer's `cond.L` locked, which
  blocks its receiver, its stop and the relay of the channel. `Clogged`: a goroutine waits to
  send into the full channel of a session (Pusher.go:76) whose relay was never started or
  has ended; if it is another session's relay, it holds a read lock of `playerMutex`, and
  a stop waits for that lock in `removePlayer`. `StopCloses` and `LoopReadsOn` have just
  these two exceptions. (`LoopReadsOn` names the loop's own channel too: a client that sends frames
  without RECORD blocks its loop at the 33rd, and such a session does not stop either.)
  `CodeReleased` has them for a session that viewed before it announced, whose player's
  function comes first in the stop; and it promises nothing when such a session's
  receiver has begun the stop (Session.go:484) before the loop handles an ANNOUNCE
  (Pusher.go:72-81): the Pusher's function is appended to a list that nobody ranges over any
  more, and the code is held for ever. `CrashIsDoubleStop` tells what it takes
  to end the process: loop and receiver of one viewer stop it at once, after its publisher
  left. `QueueDrains` has the exception `exit[upstream[s]]`: a publisher's stop
  does not wake waiting viewers.

* **RTMP bytes, holds.** Below 0xffffff milliseconds the reader returns exactly what a client
  sent under every interleaving, size change and mix of formats; what players decode is the
  cached headers and the stream after them; the recording plays; recording changes the
  form of metadata for players, from the cache and directly alike. Metadata that does not
  decode reaches no player of a recorded stream.
* **RTMP bytes, does not hold.** `ReceivedAsSent` with extended timestamps
  (`rtmp_timestamp`): Chunk.go:56, 80 and 98 compare with 0xfffffff where the field has
  six digits, so the branch that fills `extend` ("时间戳是否扩展", Chunk.go:17) is dead and
  the four bytes are read as payload. `EndsForAReason` names two more ends of a stream
  that a client would not expect: an Abort it sent, and a video command frame of two bytes.
* **RTMP session, holds.** Messages of the two goroutines never mix, the larger chunk size
  is announced before it is needed, media starts after the last answer to play, and
  acknowledgements add up, also when the client changes the window in between.
* **RTSP session, holds with exceptions in the property.** A request gets its own
  response except PAUSE, a SETUP that fits nothing and an unsplittable request line, which
  get the previous one again (`AnswersItsRequest`). Frames keep their track when both
  tracks are described, usable and on four channels, except that audio's RTCP comes out on
  video's RTCP channel (Player.go:88). A stream of one track is carried as the other kind
  where that one's channels are unset, and still comes out right if publisher and viewer
  chose the same channels (`SameChannelsSameFrames`), not otherwise, and as long as no
  channel is asked for as RTP's in one set-up and as RTCP's in another (`RtpOrRtcp`).

### Fairness

`RtmpRelay`: weak fairness of what a goroutine does without waiting (`Proceed`), because
Go runs every runnable goroutine; strong fairness of mutex acquisitions (`Acquire`),
because `sync.RWMutex` starves neither side (a waiting writer stops new readers, an
unlocking writer admits waiting readers). Nothing is assumed of peers: they may send
nothing for ever, never leave, send a malformed chunk, or leave at any moment (`Peer` has no
fairness); only once a peer is lost does `Check` have to notice it (`CheckFails` in `Proceed`).
`RtspRelay`: weak fairness per goroutine; frames are bounded, so no mutex is
contended for ever. Clients are not fair.
`RtmpSession`: weak fairness of the steps inside `writeChunk` (a write ends, because the
connection has a write timeout: `PeerBlocks` needs no fairness, the step is enabled either
way), strong fairness of `Lock`, because `sync.Mutex` hands itself to a goroutine that has
waited for a millisecond. `RtspSession`: the same for the response and, inside the lock, for
the frame. `RtmpStream` has no liveness: `NothingHeldBack` says as an invariant that the
reader never waits for bytes the client has no reason to send.

## 4. Proofs

`RtmpRelayProofs` proves, for every set of sessions and names and every bound:
`Spec => []RelayInvariant` and, from it, `[]TypeOK`, `[]LockDiscipline`,
`[]RegisteredIsAlive` and `MapStableInRange`. Assumptions: `None` is no session and no
name, the packet kinds are those of the cache plus "media", `MaxPackets` is a natural.

`LockDiscipline` and `RegisteredIsAlive` are not inductive. What is missing:

* `Roles`: which fields a point of the program implies, and that a session is never
  publisher and player at once;
* `StopFrames`: a stop in progress is the goroutine's own, or a publisher's on a session
  that found this publisher; without it a stop frame could return into a range of
  somebody else;
* `OwnPlayers`: the map, the range and the player being served hold only sessions whose
  `upstream` is that Pusher; this gives `StopFrames` its targets;
* `NotYetStopped`: nobody else has stopped a publisher before it reaches its own stop,
  so a publisher in the directory still has its `Unregister` ahead of it;
* `CacheInStream`: the cache points into the stream, so what `Cache.Send` writes are packets.

There is one lemma per conjunct, with one step per action that can disturb it, and the
stop frames (the only place where a goroutine acts on another session) are the cases
that need the most facts. `MapStableInRange` follows because a change to a player map
needs `lock = "free"` and a range implies it is not.

On top of it, `Spec => []DeliveredInOrder` is proved with a second invariant,
`DeliveryInvariant`. It keeps an account for each player a Pusher has begun to serve
(`Account`, `Delivery`): what the player got is always a prefix of what it was promised,
and while the Pusher delivers, the connection works and the player is in the map, what it got
followed by what is `Coming` (the packets in the Pusher's hands, or the one still to be
broadcast) is all it was promised. `DeliveredInOrder` alone is not inductive: in the middle of
a broadcast it does not say that the rest is still to be written. The other parts carry the
races: a player that is no longer in the map was marked as stopped before it was taken out
(`MarkedFirst`), whoever stops it and for whatever reason, so a player with an account that is
not stopped is in the map; before it joins it is in no map and not initialised
(`NotYetJoined`), so an account begins once; in a range, whoever is being
served or still to be visited is in the map (`InRange`); a Pusher that players have found
never begins anew (`UpstreamPublishes`). The lemmas on sequences (`PrefixGrows`, `SuffixGrows`) say how a promise
grows with the stream.

`StreamDirectoryProofs` proves that in the directory a publisher is live exactly while it
is found, and under one name only.

`RtspSessionProofs` proves `Spec => []SessionInvariant` and, from it, `[]TypeOK`,
`[]WireUnmixed`, `[]AnswersItsRequest`, `[]FramesKeepTrack` and
`[]SameChannelsSameFrames`, for every set of channel pairs, every set of descriptions and
every bound on the queue. Assumptions: pairs are of naturals, descriptions have a track, `None` is none of the values it stands beside. The
invariant has five parts. `TypeOK` gives each field its range. `WireInvariant` ties `lock`
to the program counters and the unfinished message to the holder; `WireUnmixed` alone is
not inductive, because it does not say who may complete the message. `AnswerInvariant`
adds to `AnswersItsRequest` what the response kept between two requests can be: one
after which the session went on. `ChannelInvariant` says how `FramesKeepTrack` comes about:
a session with a role knows the control of each usable track, so `Matches` finds the track
the URL names, so the channels of a track are those of its last set-up. `SoleInvariant`
does the same for a stream of one track: controls are set once, as long as video has none
every set-up is taken for video's, so audio's channels stay unset, and the pair agreed on is
in `vChannel` and `vChannelControl` whichever track it was asked for.

That proof attempt found `SameChannelsSameFrames` false as it was first stated, and TLC
confirms it with the pairs 2-3 and 4-2: a set-up of an audio track nobody described, with
4-2, then one of video with 2-3; RTP on channel 2 is then taken for audio's RTCP
(Session.go:111 tries audio first) and comes out on channel 3. The property now has the
hypothesis `RtpOrRtcp`, which every client that numbers RTP even and RTCP odd meets.

Each part has a
lemma with a step per action, and `RequestCases` splits a request into an answer that
changes nothing and a method that is carried out.

`RtspRelayProofs` proves `Spec => []RelayInvariant` and, from it, `[]TypeOK`,
`[]NeverTakesFromEmpty` and `[]LockLeaksOnlyInStop`, for every set of sessions and channel
codes, every number of frames and every capacity of the channel. Assumptions: `None` is
none of the values it stands beside, the bounds are naturals. None of the three is
inductive; the parts that are missing say why they are true:

* `MarkedBefore`: a goroutine runs a session's stop functions only after it has marked the
  session, so whoever a stop wakes in `receiverFrame` finds `stoped`;
* `WokenForAReason`: a woken receiver has a frame or a stop to find, because only the
  receiver takes frames off its queue;
* `PusherLeftFirst`, `ExitClosedByAStop`: a receiver stops a session only when its Pusher
  has closed `exit`, and `exit` is closed by one stop only, since the second panics;
* `OneDeletes`, `Registered`: so a single goroutine deletes the registration of a Pusher,
  and it is still there when it does.

The proof attempt found `LockLeaksOnlyInStop` false as it was first stated: with three
sessions a panic that ends the process can leave `cond.L` held while nobody stops. It now
speaks of a process that runs. `RelayInvariant` is checked by `rtsp_relay` as well.

The same module proves `DirectoryImplemented` (initial states map to initial states,
and each step of `RtspRelay` to `Publish`, `Withdraw` or a stutter) and
`CrashIsDoubleStop`, both from `RelayInvariant`: a step that publishes finds the code free,
and one that deletes finds its own Pusher there.

`RtspDeliveryProofs` proves `Spec => []FramesInOrder` with `RtspRelay!DeliveryInvariant`, for
any number of sessions, among them sessions that publish one stream and play another, so
that a frame passes through several relays. `Run(list, u, a, b)` says that the frames of `u`
in a list are those numbered `a + 1 .. b`, each once and in order; frames of other sessions
in between do not count. `Pipeline(u, n)` puts the runs of one publisher end to end: its
channel holds those after `n`, up to the last one sent to it (`Produced`), its relay may have
number `n` in hand (`Carries`), and whoever it serves was handed those before, up to `n`
once served in this range, up to `n - 1` while that is `Pending`. `FramesInOrder` follows from
`Runs`, which keeps what a stopped player was handed. What the steps need besides:

* `InRange`: a range holds the read lock, so a player joins or leaves between two frames only;
* `Joined`, `NothingBefore`: a player is in the map of the Pusher it described and nowhere
  else, and had got nothing before it joined;
* `InHand`: a goroutine calls only functions that are registered, and a loop hands out the
  frame it has read last, so nothing overtakes it on its way to the channel;
* `NoCycle`, `FromAbove`: no session plays itself through others, because nobody who has a
  player can describe a stream any more (a publisher's DESCRIBE would need its code to name
  another session's Pusher, and that it describes its own stream is excluded above), and a
  relay hands on only what it is downstream of. A frame that came back to its sender's
  channel would be sent to its players twice: that is the hazard at Session.go:288.

Most steps move no frame (`QuietSteps`) and leave all pipelines (`QuietPipelines`); for the
others there is one lemma each.

`RtmpSessionProofs` proves `Spec => []SessionInvariant` and, from it, `[]TypeOK`,
`[]WireReadable`, `[]MediaAfterStart` and `[]AcksKeepUp`, for all chunk sizes from 5 bytes,
all windows, all lengths and numbers of messages. Assumptions: sizes are naturals, `Wrap`
is positive, and a chunk of either size holds the five bytes of a control message
(`ChunkAssumption`; the code has 128 and 1024, and nothing changes them but the
announcement in `connectCmdResp`). The parts of the invariant:

* `WireState`: what is on the wire is in order, and the owner of the lock goes on where
  the last header or payload ends; `OwnerWrites`: its message is the last in `written`;
* `ConnectFirst`, `ConnectAnnounces`, `LongOnesWait`, `LongOnesWaited`: nothing but the
  answer to `connect` is written first, and in it the announcement of the larger chunk
  size comes before the first message longer than 5 bytes; so where the writer cuts by
  1024 and the client still by 128, a message fits one chunk of either;
* `PlayOrder`: a session that has begun to play waits for its last answer before it joins
  the broadcast, and media is handed out only after that;
* `AcksAddUp`: an acknowledgement stands for what is counted until it gets the lock, and
  for nothing after.

To be inductive `WireReadable` had to name the place of a part's message in `written`: two
messages with the same contents would be confused otherwise.

`ChunkFormatProofs` is about bytes. An integer of n bytes in either order reads back as itself
(`PlacedNumber`, `PlacedWide`, `PlacedStream`); a chunk header of any format is read as what the client
left out or wrote; and a message that `writeChunk` cuts into `ChunksOf(m, size)` is put together
again by a client, whatever comes before and behind it (`MessageRead`, from `FirstChunkRead` and
`NextChunkRead`). `Placed(s, at, x)` says that the bytes `x` lie in `s` from `at` on,
`Tiles` and `LaidOut` that several lie there end to end. What a recursive reader
computes is proved by induction over the number of chunks it has read: a set of numbers that holds
0 and with each number the next one holds all of them (`Upwards`, from the least number it
would miss), so no induction theorem with an operator as its parameter is needed. `FlattenSeq` is
treated the same way.

`RtmpStreamProofs` proves all properties of `RtmpStream`, for every set of payloads, every chunk
size of client and server, every number of chunk streams and every interleaving. Assumptions:
chunk sizes are positive, payloads are bytes with a length of at most 0xffffff, and a SetChunkSize
carries a positive size (`SizeAssumption`, `PayloadAssumption`); steps are naturals
(`StepAssumption`). Every theorem is about a `PlainClient`; `rtmp_timestamp` shows that this cannot
be left out. There are two invariants.

* `StreamInv` gives `ReceivedAsSent`, `EndsForAReason` and `NothingHeldBack`. `ReceivedAsSent` is
  not inductive, since it says nothing of a message whose chunks have arrived in part, of a chunk
  size that has changed behind bytes still on the wire, or of what the next header may leave out.
  `ServerLagsClient` does, and is the strengthening: a client's step appends a moment and a chunk that
  leads to it (`Sends`, and `BetweenStays` for the moments before), a step of `readMsg` reads
  the first chunk, which takes the server from the first moment to the second
  (`NextChunkReads`), and drops both. Besides it needs `MomentsOK` (what a client remembers of a
  chunk stream is a message it may send), `Prefix` and `Ordered` (chunks lie on the wire one
  behind the other, so none is read twice). The formats meet in one lemma that compares the fields
  a header writes, and those it leaves out, with `Session.chunks`. Only an Abort, which the server
  does not implement, sets the server and a client apart; then the reader may end
  (`EndsForAReason`), but what it has returned stays a prefix.
* `RelayInv` gives `TypeOK`, `RecordingPlays` and `ViewerSeesStream`. With `Used` for the messages
  received that can be used, it says that the heap holds them as the recorder leaves them, that the cache
  points to the latest of each kind, that the file is the header and one tag for each that is kept, and that a
  player was written the chunks of `Shown`: the burst at the packet after its `joinedAt`, then
  the rest. It keeps bytes as concatenations (`Gathered`), so a step of
  the server appends to them (`FileNext`, `DownNext`); that a client or a reader of the file finds the
  messages in them again is a fact about bytes alone (`FileDecoded`, `DownDecoded`).

Two of these theorems have a condition on the timestamps received, because sums of steps
have no bound. `Recording` holds while they have 32 bits (`ShortStamps`): a tag has no
room for more. `Viewer` holds while they have 32 bits and none is 0xffffff (`ClearStamps`): that
value is the hazard at Session.go:382, where `writeChunk` compares with `>` and the client takes
the field for the mark of an extended timestamp. The proof needs no other exception: extended
timestamps up to 2^32 - 1 are written, and repeated in format 3 chunks, as a client reads them.

Only model-checked: all liveness (`StopCloses`, `QueueDrains`, `LoopReadsOn`,
`CodeReleased`, `WritesEnd`, `RefusedStops`), which is outside what TLAPS proves. Every invariant of a passing run is the subject of a
theorem. The three violations are TLC's.

## 5. Not modelled, and the plan

Not modelled: SDP, AMF and RTP parsing, logging, settings, ids, digest computation
(text and libraries without interesting state); `checkPusher` of either server (one is
never started, the other only logs); server shutdown (`Stop` closes a channel nobody
reads); disk errors in the middle of a recording; requests that panic the RTMP command
loop (an empty batch of AMF values) and end the process.

Planned, in this order:

1. A second PLAY and a second RECORD, and a session that watches itself, in `RtspRelay`.
2. The races of `checkPusher` with stopping players.
