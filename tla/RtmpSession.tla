----------------------------- MODULE RtmpSession -----------------------------
(***************************************************************************)
(* One RTMP session, from the handshake on.  Its own goroutine reads       *)
(* messages, acknowledges them and answers commands; once the session      *)
(* plays a stream, the publisher's goroutine writes media to it as well.   *)
(* Both go through Session.writeChunk, which takes connRwLock for a whole  *)
(* message and hands the buffered connection a header and a payload for    *)
(* every chunk.                                                            *)
(*                                                                         *)
(* What messages say is left out except for what the writing depends on;   *)
(* chunks are read byte for byte in RtmpStream, and who finds which        *)
(* publisher, and stopping, are RtmpRelay's.                               *)
(***************************************************************************)
EXTENDS Naturals, Sequences

CONSTANTS DefaultChunk,   \* the protocol's first chunk size (128)
          ServerChunk,    \* chunkSize, what the server writes with (1024)
          FirstWindow,    \* the first remoteWindowAckSize (2500000)
          Windows,        \* the windows a client asks for
          Lengths,        \* lengths of the client's messages
          MediaLengths,   \* lengths of the media messages a player gets
          AnswerLength,   \* length of a command's answer, above DefaultChunk
          Wrap,           \* ackReceived is unsigned: it counts modulo this
          MaxRead,        \* bound: messages the client sends
          MaxMedia        \* bound: media messages the publisher sends

ASSUME SizeAssumption ==
  /\ {DefaultChunk, ServerChunk, AnswerLength, FirstWindow, MaxRead, MaxMedia} \subseteq Nat
  /\ Wrap \in Nat \ {0}
  /\ Lengths \cup MediaLengths \cup Windows \subseteq Nat

\* Control messages, of 5 bytes at most, fit a chunk of either size.
ASSUME ChunkAssumption == DefaultChunk >= 5 /\ ServerChunk >= 5

Goroutine == {"own", "publisher"}

Command == [cmd : {"connect"}, id : {1, 2}] \cup [cmd : {"createStream"}, id : {2}]
             \cup [cmd : {"publish", "play", "other", "malformed"}, id : {0}]
ControlMessage == [cmd : {"window"}, id : Windows] \cup [cmd : {"none"}, id : {0}]

NoJob == [cmd |-> "idle", id |-> 0]
AttachJob == [cmd |-> "attach", id |-> 0]

VARIABLES
  stage,      \* "hello", "greeted", "commands", "streaming" or "ended"
  role,       \* isPublisher, once done is set: "none", "publisher" or "player"
  connected,  \* whether the client has sent connect
  job,        \* the message the session's goroutine works on
  todo,       \* per goroutine, the messages it has still to write
  lock,       \* connRwLock: "free" or its owner
  start,      \* writeChunk's start: payload bytes written of the message
  headed,     \* whether the header of the next chunk is written
  window,     \* remoteWindowAckSize
  unacked,    \* ackReceived
  total,      \* history: bytes of payload the session has read
  reads,      \* bound: messages read
  medias,     \* bound: media messages broadcast
  writeErr,   \* the buffered writer's sticky error: the peer takes no more
  written,    \* history: messages, in the order they got the lock
  acked,      \* history: bytes acknowledged by them
  out         \* what the buffered connection was handed: headers and payloads

ordered == <<written, acked>>
writer == <<lock, start, headed, writeErr, ordered, out>>
acks == <<window, unacked, total>>
vars == <<stage, role, connected, job, todo, writer, acks, reads, medias>>

Message(kind, n, len) == [kind |-> kind, n |-> n, len |-> len]
Ack(n) == Message("ack", n, 4)
Media(n, len) == Message("media", n, len)
Result(id) == Message("result", id, AnswerLength)
Status(n) == Message("status", n, AnswerLength)

-----------------------------------------------------------------------------
(* Answers.                                                                *)

\* connectCmdResp: window, bandwidth and chunk size come before the _result.
ConnectAnswer(id) ==
  <<Message("window", FirstWindow, 4), Message("bandwidth", FirstWindow, 5),
    Message("chunkSize", ServerChunk, 4), Result(id)>>

\* playResp: stream begin, then Reset, Start, Data.Start and PublishNotify.
PlayAnswer == <<Message("begin", 1, 6), Status(1), Status(2), Status(3), Status(4)>>

Answer(c) == CASE c.cmd = "connect" -> ConnectAnswer(c.id)
               [] c.cmd = "createStream" -> <<Result(c.id)>>
               [] c.cmd = "publish" -> <<Status(0)>>
               [] c.cmd = "play" -> PlayAnswer
               [] OTHER -> << >>

-----------------------------------------------------------------------------
(* The session's goroutine.                                                *)

Idle == job = NoJob /\ todo["own"] = << >>

\* parseC1 looks for the client's digest after and then before the key; a C1 that
\* names no client version is not looked at ("simple").
C1 == {"simple", "keyFirst", "digestFirst", "badDigest"}
ParseC1(c1) == c1 \in {"keyFirst", "digestFirst"}

\* handleShake reads C0 and C1.  A version other than 3 sets an error that the
\* writes below overwrite; a digest that does not verify ends the session.
Hello(version, c1) ==
  /\ stage = "hello"
  /\ stage' = IF c1 = "simple" \/ ParseC1(c1) THEN "greeted" ELSE "ended"
  /\ UNCHANGED <<role, connected, job, todo, writer, acks, reads, medias>>

\* ... and, having written S0, S1 and S2, reads C2, whatever it holds.
HandshakeDone ==
  /\ stage = "greeted"
  /\ stage' = "commands"
  /\ UNCHANGED <<role, connected, job, todo, writer, acks, reads, medias>>

\* The peer leaves or is silent for too long; start's deferred stop closes the
\* connection, and what was still to be written fails.
ReadFails ==
  /\ stage \in {"hello", "greeted", "commands", "streaming"} /\ Idle
  /\ stage' = "ended"
  /\ UNCHANGED <<role, connected, job, todo, writer, acks, reads, medias>>

ReadMsgAckFirst(m, len) ==
  /\ stage \in {"commands", "streaming"} /\ Idle
  /\ reads < MaxRead
  /\ m \in Command => (connected <=> m.cmd # "connect")
  /\ connected' = (connected \/ m.cmd = "connect")
  /\ reads' = reads + 1
  /\ job' = m
  /\ window' = IF m.cmd = "window" THEN m.id ELSE window
  /\ total' = total + len
  /\ unacked' = (unacked + len) % Wrap
  /\ todo' = [todo EXCEPT !["own"] = IF unacked' >= window THEN <<Ack(unacked')>> ELSE << >>]
  /\ UNCHANGED <<stage, role, writer, medias>>

\* readMsg returns a message: handleControlMsg, then ack.  Clients connect before
\* they send any other command.
ReadMsg(m, len) ==
  /\ stage \in {"commands", "streaming"} /\ Idle
  /\ reads < MaxRead
  /\ m \in Command => (connected <=> m.cmd # "connect")
  /\ connected' = (connected \/ m.cmd = "connect")
  /\ reads' = reads + 1
  /\ job' = m
  /\ window' = IF m.cmd = "window" THEN m.id ELSE window
  /\ total' = total + len
  /\ unacked' = (unacked + len) % Wrap
  /\ todo' = [todo EXCEPT !["own"] = IF unacked' >= window' THEN <<Ack(unacked')>> ELSE << >>]
  /\ UNCHANGED <<stage, role, writer, medias>>

\* start looks at the message readMsg returned: the command loop handles commands,
\* Check and readPacket let everything that is not media go by.
Handle ==
  /\ job.cmd \notin {"idle", "attach"} /\ todo["own"] = << >>
  /\ \/ /\ stage = "streaming" \/ job \notin Command
        /\ job' = NoJob
        /\ UNCHANGED <<stage, role, todo>>
     \/ /\ stage = "commands"
        /\ job.cmd = "malformed" \/ (job.cmd = "connect" /\ job.id # 1)
        /\ stage' = "ended" /\ job' = NoJob
        /\ UNCHANGED <<role, todo>>
     \/ /\ stage = "commands" /\ job \in Command
        /\ job.cmd # "malformed" /\ (job.cmd = "connect" => job.id = 1)
        /\ todo' = [todo EXCEPT !["own"] = Answer(job)]
        /\ job' = IF job.cmd \in {"publish", "play"} THEN AttachJob ELSE NoJob
        /\ role' = CASE job.cmd = "publish" -> "publisher" [] job.cmd = "play" -> "player"
                     [] OTHER -> role
        /\ UNCHANGED stage
  /\ UNCHANGED <<connected, writer, acks, reads, medias>>

AttachEarly(found) ==
  /\ stage = "commands" /\ job = AttachJob
  /\ stage' = IF found THEN "streaming" ELSE "ended"
  /\ job' = NoJob
  /\ UNCHANGED <<role, connected, todo, writer, acks, reads, medias>>

\* The answers are written: a publisher registers unless its name is taken, a
\* player joins the Pusher it finds, if any.
Attach(found) ==
  /\ stage = "commands" /\ job = AttachJob /\ todo["own"] = << >>
  /\ stage' = IF found THEN "streaming" ELSE "ended"
  /\ job' = NoJob
  /\ UNCHANGED <<role, connected, todo, writer, acks, reads, medias>>

-----------------------------------------------------------------------------
(* The publisher's goroutine.                                              *)

\* Player.HandlePacket.  Metadata that does not decode has become empty.
Broadcast(len) ==
  /\ stage = "streaming" /\ role = "player"
  /\ todo["publisher"] = << >> /\ medias < MaxMedia
  /\ medias' = medias + 1
  /\ todo' = [todo EXCEPT !["publisher"] = <<Media(medias', len)>>]
  /\ UNCHANGED <<stage, role, connected, job, writer, acks, reads>>

-----------------------------------------------------------------------------
(* writeChunk, by either goroutine.                                        *)

Current(g) == Head(todo[g])
Writing(g) == lock = g /\ todo[g] # << >>

LockUnguarded(g) ==
  /\ todo[g] # << >> /\ lock # g
  /\ lock' = g /\ start' = 0 /\ headed' = FALSE
  /\ written' = Append(written, Current(g))
  /\ acked' = IF Current(g).kind = "ack" THEN acked + Current(g).n ELSE acked
  /\ UNCHANGED <<stage, role, connected, job, todo, writeErr, acks, reads, medias, out>>

Lock(g) ==
  /\ todo[g] # << >> /\ lock = "free"
  /\ lock' = g /\ start' = 0 /\ headed' = FALSE
  /\ written' = Append(written, Current(g))
  /\ acked' = IF Current(g).kind = "ack" THEN acked + Current(g).n ELSE acked
  /\ UNCHANGED <<stage, role, connected, job, todo, writeErr, acks, reads, medias, out>>

\* The peer takes no more: the next write or Flush fails, and all after it.
PeerBlocks ==
  /\ ~writeErr /\ lock # "free"
  /\ writeErr' = TRUE
  /\ UNCHANGED <<stage, role, connected, job, todo, lock, start, headed, ordered, out,
                 acks, reads, medias>>

Fails == writeErr \/ stage = "ended"

\* What is handed to the connection of the message written last: a header (len = 0)
\* of the chunk that begins at start, or len bytes of its payload.
Part(g, len) == [m |-> Current(g), nth |-> Len(written), at |-> start, len |-> len]

WriteHead(g) ==
  /\ Writing(g) /\ ~headed /\ ~Fails /\ start < Current(g).len
  /\ out' = Append(out, Part(g, 0))
  /\ headed' = TRUE
  /\ UNCHANGED <<stage, role, connected, job, todo, lock, start, writeErr, ordered, acks, reads, medias>>

WritePayloadFull(g) ==
  /\ Writing(g) /\ headed /\ ~Fails
  /\ out' = Append(out, Part(g, ServerChunk))
  /\ start' = start + ServerChunk
  /\ headed' = FALSE
  /\ UNCHANGED <<stage, role, connected, job, todo, lock, writeErr, ordered, acks, reads, medias>>

WritePayload(g) ==
  /\ Writing(g) /\ headed /\ ~Fails
  /\ LET left == Current(g).len - start
         inc == IF left < ServerChunk THEN left ELSE ServerChunk
     IN /\ out' = Append(out, Part(g, inc))
        /\ start' = start + inc
  /\ headed' = FALSE
  /\ UNCHANGED <<stage, role, connected, job, todo, lock, writeErr, ordered, acks, reads, medias>>

\* writeChunk has returned to its caller, which goes on with what it has to write.
Returned(g) ==
  /\ unacked' = IF Current(g).kind = "ack" THEN 0 ELSE unacked
  /\ todo' = [todo EXCEPT ![g] = Tail(@)]
  /\ UNCHANGED <<stage, role, connected, job, start, headed, writeErr, ordered, out,
                 window, total, reads, medias>>

UnlockIfWritten(g) ==
  /\ Writing(g) /\ ~headed /\ ~Fails /\ start >= Current(g).len
  /\ lock' = IF start = 0 THEN lock ELSE "free"
  /\ Returned(g)

\* Flush and the deferred Unlock; ack then starts counting again.
Unlock(g) ==
  /\ Writing(g) /\ ~headed /\ ~Fails /\ start >= Current(g).len
  /\ lock' = "free"
  /\ Returned(g)

\* writeChunk fails and unlocks.  Nobody looks at the error of an acknowledgement;
\* that of an answer or of a media message ends the session.
UnlockFailed(g) ==
  /\ Writing(g) /\ Fails
  /\ lock' = "free"
  /\ \/ Current(g).kind = "ack" /\ Returned(g)
     \/ /\ Current(g).kind # "ack"
        /\ stage' = "ended" /\ todo' = [todo EXCEPT ![g] = << >>]
        /\ job' = IF g = "own" THEN NoJob ELSE job
        /\ UNCHANGED <<role, connected, start, headed, writeErr, ordered, out, acks, reads, medias>>

Finish(g) == Unlock(g) \/ UnlockFailed(g)
Write(g) == Lock(g) \/ WriteHead(g) \/ WritePayload(g) \/ Finish(g)

-----------------------------------------------------------------------------
Init ==
  /\ stage = "hello" /\ role = "none" /\ connected = FALSE /\ job = NoJob
  /\ todo = [g \in Goroutine |-> << >>]
  /\ lock = "free" /\ start = 0 /\ headed = FALSE /\ writeErr = FALSE
  /\ window = FirstWindow /\ unacked = 0 /\ total = 0
  /\ reads = 0 /\ medias = 0 /\ written = << >> /\ acked = 0 /\ out = << >>

Next ==
  \/ \E version \in {3, 6}, c1 \in C1 : Hello(version, c1)
  \/ HandshakeDone \/ ReadFails \/ Handle \/ PeerBlocks
  \/ \E m \in Command \cup ControlMessage, len \in Lengths : ReadMsg(m, len)
  \/ \E found \in BOOLEAN : Attach(found)
  \/ \E len \in MediaLengths : Broadcast(len)
  \/ \E g \in Goroutine : Write(g)

\* A goroutine that may write does, and one that waits for connRwLock gets it some
\* time (sync.Mutex hands it over to a goroutine that has waited long enough).  A
\* write ends: the connection has a write timeout.
Fairness == \A g \in Goroutine :
  WF_vars(WriteHead(g) \/ WritePayload(g) \/ Finish(g)) /\ SF_vars(Lock(g))

Spec == Init /\ [][Next]_vars /\ Fairness

-----------------------------------------------------------------------------
(* Properties.                                                             *)

Messages == [kind : {"ack", "window", "bandwidth", "chunkSize", "result", "begin", "status", "media"},
             n : Nat, len : Nat]

TypeOK ==
  /\ stage \in {"hello", "greeted", "commands", "streaming", "ended"}
  /\ role \in {"none", "publisher", "player"} /\ connected \in BOOLEAN
  /\ job \in Command \cup ControlMessage \cup {NoJob, AttachJob}
  /\ todo \in [Goroutine -> Seq(Messages)] /\ written \in Seq(Messages)
  /\ out \in Seq([m : Messages, nth : Nat, at : Nat, len : Nat])
  /\ lock \in {"free"} \cup Goroutine /\ headed \in BOOLEAN /\ writeErr \in BOOLEAN
  /\ start \in Nat
  /\ lock # "free" => todo[lock] # << >> /\ start <= Current(lock).len
  /\ window \in Windows \cup {FirstWindow} /\ unacked \in 0 .. Wrap - 1
  /\ total \in Nat /\ acked \in Nat /\ reads \in Nat /\ medias \in Nat

\* The size a client cuts the i-th message into: the protocol's, until it has been
\* told another.
Told(i) == \E j \in 1 .. i : written[j].kind = "chunkSize"
SizeInForce(i) == IF Told(i - 1) THEN ServerChunk ELSE DefaultChunk

\* Messages without a payload are not on the wire.
Silent(i, j) == \A k \in i .. j : written[k].len = 0

\* p is the first header of the message that comes next on the wire after the n-th.
Begins(n, p) ==
  /\ p.nth \in n + 1 .. Len(written) /\ Silent(n + 1, p.nth - 1) /\ p.m.len > 0
  /\ p = [m |-> written[p.nth], nth |-> p.nth, at |-> 0, len |-> 0]

\* p is the last of its message.
EndsMessage(p) == p.len > 0 /\ p.at + p.len = p.m.len

\* What a client that has read p expects: the payload of a header, as long as it cuts
\* chunks at that point; the next header of the message; or another message.
Follows(p, q) ==
  \/ /\ p.len = 0
     /\ LET left == p.m.len - p.at
            size == SizeInForce(p.nth)
        IN  q = [p EXCEPT !.len = IF left < size THEN left ELSE size]
  \/ /\ p.len > 0 /\ p.at + p.len < p.m.len
     /\ q = [m |-> p.m, nth |-> p.nth, at |-> p.at + p.len, len |-> 0]
  \/ EndsMessage(p) /\ Begins(p.nth, q)

\* The first n messages are on the wire, and nothing else is.
LastPart == out[Len(out)]
AllOut(n) == IF out = << >> THEN Silent(1, n)
             ELSE EndsMessage(LastPart) /\ LastPart.nth <= n /\ Silent(LastPart.nth + 1, n)

(***************************************************************************)
(* What a client finds on the wire is the messages in the order their      *)
(* writers got the lock, each in one run of chunks, every header followed  *)
(* by its own payload, cut to the size the client expects at that point;   *)
(* and when nobody writes, all of them.                                    *)
(***************************************************************************)
WireReadable ==
  /\ out # << >> => Begins(0, out[1])
  /\ \A i \in 2 .. Len(out) : Follows(out[i - 1], out[i])
  /\ lock = "free" /\ ~Fails => AllOut(Len(written))

\* A player gets its first media message after the last of the answers to play.
MediaAfterStart ==
  \A i \in DOMAIN written :
    written[i].kind = "media" => \E j \in 1 .. i - 1 : written[j] = Status(4)

\* The counter has room for a message on top of what is not acknowledged yet: not so
\* when a client asks for a window within a message's length of the modulus.
RoomToCount ==
  \A n \in Lengths, w \in Windows \cup {FirstWindow} : n < Wrap /\ n + w <= Wrap

\* When a session waits for the next message, it counts less than the window in force,
\* also after the client has just made it smaller (or 0); and if the counter has room,
\* the acknowledgements written and the bytes it counts add up to what it has read.
AcksKeepUp ==
  Idle => /\ unacked < window \/ unacked = 0
          /\ RoomToCount => acked + unacked = total

-----------------------------------------------------------------------------
(* The inductive invariant, in named parts.                                *)

\* The owner of the lock writes the message that was the last to get it.
OwnerWrites ==
  lock # "free" =>
    /\ written # << >> /\ written[Len(written)] = Current(lock)
    /\ headed => start < Current(lock).len

\* Nobody connects twice, or does anything else before.
ConnectFirst ==
  /\ job \in Command \cup {AttachJob} \/ stage = "streaming" => connected
  /\ job.cmd = "connect" => stage # "streaming"

\* A message that may not fit a chunk of the first size comes after the announcement
\* of the larger one: among those still to be written, and among those written.
Announced(list, i) ==
  Told(Len(written)) \/ \E j \in 1 .. i - 1 : list[j].kind = "chunkSize"
LongOnesWait ==
  \A g \in Goroutine : \A i \in 1 .. Len(todo[g]) : todo[g][i].len > 5 => Announced(todo[g], i)
LongOnesWaited == \A n \in 1 .. Len(written) : written[n].len > 5 => Told(n - 1)

\* connect is answered with that announcement, and nothing is streamed before.
ConnectAnnounces ==
  /\ connected /\ stage # "ended" /\ job.cmd # "connect" =>
       Announced(todo["own"], Len(todo["own"]) + 1)
  /\ stage = "streaming" => Told(Len(written))

\* The answers to play are written, the last of them last, before media is handed out.
Started == \E j \in 1 .. Len(written) : written[j] = Status(4)
PlayOrder ==
  /\ role = "player" /\ stage \notin {"streaming", "ended"} =>
       /\ job = AttachJob
       /\ Started \/ (todo["own"] # << >> /\ todo["own"][Len(todo["own"])] = Status(4))
  /\ role = "player" /\ stage = "streaming" => Started
  /\ todo["publisher"] # << >> => Started
  /\ \A i \in 1 .. Len(todo["own"]) : todo["own"][i].kind # "media"
  /\ \A i \in 1 .. Len(todo["publisher"]) : todo["publisher"][i].kind = "media"

\* An acknowledgement is all its goroutine has to write, and covers what is counted.
AckPending == \E i \in 1 .. Len(todo["own"]) : todo["own"][i].kind = "ack"
AcksAddUp ==
  /\ AckPending => todo["own"] = <<Ack(unacked)>>
  /\ RoomToCount => IF AckPending /\ lock = "own" THEN acked = total ELSE acked + unacked = total
  /\ ~AckPending => unacked < window \/ unacked = 0

\* What is on the wire is in order, and is of the messages written.
InOrder ==
  /\ out # << >> => Begins(0, out[1])
  /\ \A i \in 2 .. Len(out) : Follows(out[i - 1], out[i])
  /\ \A i \in 1 .. Len(out) : /\ out[i].nth \in 1 .. Len(written)
                             /\ out[i].m = written[out[i].nth]

\* How far the owner of the lock has come with its message.
HowFar ==
  IF lock = "free" THEN AllOut(Len(written))
  ELSE IF headed THEN out # << >> /\ LastPart = Part(lock, 0)
  ELSE IF start = 0 THEN AllOut(Len(written) - 1)
  ELSE /\ out # << >> /\ LastPart.nth = Len(written)
       /\ LastPart.len > 0 /\ LastPart.at + LastPart.len = start
WireState == InOrder /\ (~Fails => HowFar)

(***************************************************************************)
(* Preserved by every step and so, holding initially, true of every        *)
(* reachable state.                                                        *)
(***************************************************************************)
SessionInvariant ==
  /\ TypeOK
  /\ OwnerWrites /\ ConnectFirst
  /\ LongOnesWait /\ LongOnesWaited /\ ConnectAnnounces
  /\ PlayOrder /\ MediaAfterStart /\ AcksAddUp /\ WireState

\* A message somebody has begun to write gets written (or fails with the
\* connection), however the two goroutines compete for the lock.
WritesEnd == \A g \in Goroutine : todo[g] # << >> ~> todo[g] = << >>
=============================================================================
