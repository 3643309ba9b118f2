-------------------------- MODULE RtmpSessionProofs --------------------------
(***************************************************************************)
(* The safety of one RTMP session for all chunk sizes, windows and lengths *)
(* of messages, any number of them.  SessionInvariant is inductive: one    *)
(* lemma for each of its parts shows that every step preserves that part.  *)
(*                                                                         *)
(* The argument: the owner of connRwLock writes the message that was the   *)
(* last to get it (OwnerWrites) and goes on where the connection's last    *)
(* header or payload ends (WireState).  It cuts chunks of the server's     *)
(* size, the client of the size it has been told: of the two goroutines    *)
(* neither gets to write a message that could be longer than a chunk of    *)
(* the first size before connect has announced the other (ConnectFirst,    *)
(* ConnectAnnounces, LongOnesWait, LongOnesWaited).  Media follows the     *)
(* answers to play (PlayOrder), and what is to be acknowledged is what is  *)
(* counted when the acknowledgement gets the lock (AcksAddUp).             *)
(***************************************************************************)
EXTENDS RtmpSession, SequenceTheorems, TLAPS

\* The sizes are naturals.
LEMMA Sizes ==
  /\ DefaultChunk \in Nat /\ ServerChunk \in Nat /\ AnswerLength \in Nat /\ FirstWindow \in Nat
  /\ Wrap \in Nat \ {0} /\ MaxRead \in Nat /\ MaxMedia \in Nat
  /\ \A n \in Lengths \cup MediaLengths \cup Windows : n \in Nat
<1>1. QED
  BY SizeAssumption

\* A counter stays below its modulus ...
LEMMA ModRange ==
  ASSUME NEW x \in Nat, NEW w \in Nat \ {0}
  PROVE  x % w \in 0 .. w - 1
<1>1. QED
  OBVIOUS

\* ... and one below it does not wrap.
LEMMA ModSmall ==
  ASSUME NEW x \in Nat, NEW w \in Nat, x < w
  PROVE  x % w = x
<1>1. QED
  OBVIOUS

\* The two goroutines of a session.
LEMMA Goroutines == "own" \in Goroutine /\ "publisher" \in Goroutine /\ "own" # "publisher"
<1>1. QED
  BY DEF Goroutine

\* Messages are typed.
LEMMA MessageType ==
  ASSUME NEW n \in Nat, NEW len \in Nat,
         NEW kind \in {"ack", "window", "bandwidth", "chunkSize", "result", "begin", "status", "media"}
  PROVE  Message(kind, n, len) \in Messages
<1>1. QED
  BY DEF Message, Messages

\* What answers consist of.
LEMMA AnswerType ==
  ASSUME NEW c \in Command
  PROVE  Answer(c) \in Seq(Messages)
<1>1. c.id \in Nat
  BY DEF Command
<1>s. \A n \in Nat : Status(n) \in Messages
  BY Sizes, MessageType DEF Status
<1>b. Message("begin", 1, 6) \in Messages
  BY MessageType
<1> USE <1>1, Sizes, MessageType
<1>2. CASE c.cmd = "connect"
  BY <1>2 DEF Answer, ConnectAnswer, Result
<1>3. CASE c.cmd = "createStream"
  BY <1>3 DEF Answer, Result
<1>4. CASE c.cmd = "publish"
  BY <1>4, <1>s DEF Answer
<1>5. CASE c.cmd = "play"
  BY <1>5, <1>s, <1>b DEF Answer, PlayAnswer
<1>6. CASE c.cmd \notin {"connect", "createStream", "publish", "play"}
  BY <1>6 DEF Answer
<1>7. QED
  BY <1>2, <1>3, <1>4, <1>5, <1>6

\* An answer neither acknowledges nor is media; connect's announces the chunk size
\* before its last message, the only one that needs it; play's ends with Status(4).
LEMMA AnswerContents ==
  ASSUME NEW c \in Command
  PROVE  /\ \A i \in 1 .. Len(Answer(c)) : Answer(c)[i].kind \notin {"ack", "media"}
         /\ c.cmd = "connect" =>
              /\ Len(Answer(c)) = 4 /\ Answer(c)[3].kind = "chunkSize"
              /\ \A i \in 1 .. 3 : ~(Answer(c)[i].len > 5)
         /\ c.cmd = "play" => /\ Answer(c) # << >>
                              /\ Answer(c)[Len(Answer(c))] = Status(4)
<1> USE DEF Message
<1>2. CASE c.cmd = "connect"
  BY <1>2 DEF Answer, ConnectAnswer, Result
<1>3. CASE c.cmd = "createStream"
  BY <1>3 DEF Answer, Result
<1>4. CASE c.cmd = "publish"
  BY <1>4 DEF Answer, Status
<1>5. CASE c.cmd = "play"
  BY <1>5 DEF Answer, PlayAnswer, Status
<1>6. CASE c.cmd \notin {"connect", "createStream", "publish", "play"}
  BY <1>6 DEF Answer
<1>7. QED
  BY <1>2, <1>3, <1>4, <1>5, <1>6

\* What a goroutine has to write after its current message.
LEMMA AfterCurrent ==
  ASSUME TypeOK, NEW g \in Goroutine, todo[g] # << >>
  PROVE  /\ Current(g) \in Messages /\ Current(g) = todo[g][1] /\ Len(todo[g]) \in Nat \ {0}
         /\ Tail(todo[g]) \in Seq(Messages) /\ Len(Tail(todo[g])) = Len(todo[g]) - 1
         /\ \A i \in 1 .. Len(todo[g]) - 1 : Tail(todo[g])[i] = todo[g][i + 1]
<1>1. todo[g] \in Seq(Messages)
  BY DEF TypeOK
<1>2. QED
  BY <1>1, HeadTailProperties, EmptySeq DEF Current

\* A message that gets the lock joins those before it.
LEMMA JoinsWritten ==
  ASSUME TypeOK, NEW m \in Messages, written' = Append(written, m)
  PROVE  /\ written' \in Seq(Messages) /\ Len(written) \in Nat
         /\ Len(written') = Len(written) + 1 /\ written' # << >>
         /\ written'[Len(written) + 1] = m
         /\ \A i \in 1 .. Len(written) : written'[i] = written[i]
<1>1. written \in Seq(Messages)
  BY DEF TypeOK
<1>2. QED
  BY <1>1, AppendProperties

\* A part that is handed to the connection joins those before it.
LEMMA JoinsOut ==
  ASSUME TypeOK, NEW g \in Goroutine, todo[g] # << >>, NEW n \in Nat,
         out' = Append(out, Part(g, n))
  PROVE  /\ out' \in Seq([m : Messages, nth : Nat, at : Nat, len : Nat]) /\ Len(out) \in Nat
         /\ Len(out') = Len(out) + 1 /\ out' # << >>
         /\ out'[Len(out) + 1] = Part(g, n)
         /\ \A i \in 1 .. Len(out) : out'[i] = out[i]
<1>1. out \in Seq([m : Messages, nth : Nat, at : Nat, len : Nat])
  BY DEF TypeOK
<1>2. Part(g, n) \in [m : Messages, nth : Nat, at : Nat, len : Nat]
  BY AfterCurrent, LenProperties DEF Part, TypeOK
<1>3. QED
  BY <1>1, <1>2, AppendProperties

\* Every step keeps the types.
LEMMA TypeStep ==
  ASSUME SessionInvariant, [Next]_vars
  PROVE  TypeOK'
<1>t. TypeOK
  BY DEF SessionInvariant
<1> USE <1>t, Goroutines
<1>1. ASSUME NEW v \in {3, 6}, NEW c1 \in C1, Hello(v, c1) PROVE TypeOK'
  BY <1>1 DEF Hello, TypeOK, writer, ordered, acks, Current
<1>2. CASE HandshakeDone
  BY <1>2 DEF HandshakeDone, TypeOK, writer, ordered, acks, Current
<1>3. CASE ReadFails
  BY <1>3 DEF ReadFails, TypeOK, writer, ordered, acks, Current
<1>4. CASE Handle
  <2>1. todo' \in [Goroutine -> Seq(Messages)] /\ (lock # "free" => todo'[lock] = todo[lock])
    BY <1>4, AnswerType DEF Handle, TypeOK
  <2>2. /\ stage' \in {"hello", "greeted", "commands", "streaming", "ended"}
        /\ role' \in {"none", "publisher", "player"}
        /\ job' \in Command \cup ControlMessage \cup {NoJob, AttachJob}
    BY <1>4 DEF Handle, TypeOK
  <2>3. QED
    BY <1>4, <2>1, <2>2 DEF Handle, TypeOK, writer, ordered, acks, Current
<1>5. CASE PeerBlocks
  BY <1>5 DEF PeerBlocks, TypeOK, ordered, acks, Current
<1>6. ASSUME NEW m \in Command \cup ControlMessage, NEW len \in Lengths, ReadMsg(m, len) PROVE TypeOK'
  <2>1. todo["own"] = << >>
    BY <1>6 DEF ReadMsg, Idle
  <2>2. unacked + len \in Nat /\ len \in Nat
    BY Sizes DEF TypeOK
  <2>3. unacked' \in 0 .. Wrap - 1
    BY <1>6, <2>2, Sizes, ModRange DEF ReadMsg
  <2>4. Ack(unacked') \in Messages
    BY <2>3, Sizes, MessageType DEF Ack
  <2>5. todo' \in [Goroutine -> Seq(Messages)] /\ (lock # "free" => todo'[lock] = todo[lock])
    BY <1>6, <2>1, <2>4 DEF ReadMsg, TypeOK
  <2>6. window' \in Windows \cup {FirstWindow}
    BY <1>6 DEF ReadMsg, TypeOK, Command, ControlMessage
  <2>7. QED
    BY <1>6, <2>2, <2>3, <2>5, <2>6 DEF ReadMsg, TypeOK, writer, ordered, Current
<1>7. ASSUME NEW found \in BOOLEAN, Attach(found) PROVE TypeOK'
  BY <1>7 DEF Attach, TypeOK, writer, ordered, acks, Current
<1>8. ASSUME NEW len \in MediaLengths, Broadcast(len) PROVE TypeOK'
  <2>1. Media(medias', len) \in Messages
    BY <1>8, Sizes, MessageType DEF Broadcast, Media, TypeOK
  <2>2. todo' \in [Goroutine -> Seq(Messages)] /\ (lock # "free" => todo'[lock] = todo[lock])
    BY <1>8, <2>1 DEF Broadcast, TypeOK
  <2>3. QED
    BY <1>8, <2>2 DEF Broadcast, TypeOK, writer, ordered, acks, Current
<1>9. ASSUME NEW g \in Goroutine, Lock(g) PROVE TypeOK'
  <2>1. Current(g) \in Messages
    BY <1>9, AfterCurrent DEF Lock
  <2>2. written' \in Seq(Messages)
    BY <1>9, <2>1, JoinsWritten DEF Lock
  <2>3. acked' \in Nat /\ Current(g).len \in Nat
    BY <1>9, <2>1 DEF Lock, Messages, TypeOK
  <2>4. todo'[lock'] # << >> /\ start' <= Current(lock)'.len
    BY <1>9, <2>3 DEF Lock, Current
  <2>5. QED
    BY <1>9, <2>2, <2>3, <2>4 DEF Lock, TypeOK, acks
<1>10. ASSUME NEW g \in Goroutine, WriteHead(g) PROVE TypeOK'
  <2>1. out' \in Seq([m : Messages, nth : Nat, at : Nat, len : Nat])
    BY <1>10, JoinsOut DEF WriteHead, Writing
  <2>2. QED
    BY <1>10, <2>1 DEF WriteHead, TypeOK, ordered, acks, Current
<1>11. ASSUME NEW g \in Goroutine, WritePayload(g) PROVE TypeOK'
  <2> DEFINE left == Current(g).len - start
             inc == IF left < ServerChunk THEN left ELSE ServerChunk
  <2>1. lock = g /\ Current(g).len \in Nat /\ start \in Nat /\ start <= Current(g).len
    <3>1. lock = g /\ lock # "free" /\ todo[g] # << >>
      BY <1>11 DEF WritePayload, Writing, Goroutine
    <3>2. Current(g) \in Messages
      BY <3>1, AfterCurrent
    <3>3. QED
      BY <3>1, <3>2 DEF TypeOK, Messages
  <2>2. inc \in Nat /\ start + inc <= Current(g).len
    BY <2>1, Sizes
  <2>3. out' = Append(out, Part(g, inc)) /\ start' = start + inc
    BY <1>11 DEF WritePayload
  <2> HIDE DEF inc
  <2>4. out' \in Seq([m : Messages, nth : Nat, at : Nat, len : Nat])
    BY <1>11, <2>2, <2>3, JoinsOut DEF WritePayload, Writing
  <2>5. todo'[lock'] # << >> /\ start' <= Current(lock)'.len /\ start' \in Nat
    BY <1>11, <2>1, <2>2, <2>3 DEF WritePayload, Writing, Current
  <2>6. QED
    BY <1>11, <2>4, <2>5 DEF WritePayload, TypeOK, ordered, acks
<1>12. ASSUME NEW g \in Goroutine, lock' = "free", Returned(g), Writing(g) PROVE TypeOK'
  <2>1. todo' \in [Goroutine -> Seq(Messages)]
    BY <1>12, AfterCurrent DEF Returned, Writing, TypeOK
  <2>2. unacked' \in 0 .. Wrap - 1
    BY <1>12, Sizes DEF Returned, TypeOK
  <2>3. QED
    BY <1>12, <2>1, <2>2 DEF Returned, TypeOK, ordered
<1>13. ASSUME NEW g \in Goroutine, Finish(g) PROVE TypeOK'
  <2>1. CASE Unlock(g)
    BY <1>12, <2>1 DEF Unlock
  <2>2. CASE UnlockFailed(g) /\ Current(g).kind = "ack"
    BY <1>12, <2>2 DEF UnlockFailed
  <2>3. CASE UnlockFailed(g) /\ Current(g).kind # "ack"
    <3>1. todo' \in [Goroutine -> Seq(Messages)] /\ lock' = "free"
      <4>1. todo' = [todo EXCEPT ![g] = << >>] /\ lock' = "free"
        BY <2>3 DEF UnlockFailed
      <4>2. << >> \in Seq(Messages)
        BY EmptySeq
      <4>3. QED
        BY <4>1, <4>2 DEF TypeOK
    <3>2. stage' = "ended" /\ job' \in {job, NoJob}
      BY <2>3 DEF UnlockFailed
    <3>3. QED
      BY <2>3, <3>1, <3>2 DEF UnlockFailed, TypeOK, ordered, acks
  <2>4. QED
    BY <1>13, <2>1, <2>2, <2>3 DEF Finish
<1>14. CASE UNCHANGED vars
  BY <1>14 DEF vars, writer, ordered, acks, TypeOK, Current
<1>15. QED
  BY <1>1, <1>2, <1>3, <1>4, <1>5, <1>6, <1>7, <1>8, <1>9, <1>10, <1>11, <1>13, <1>14 DEF Next, Write

\* Only a step of writeChunk or of the message's own handler changes what the owner of
\* the lock has to write.
LEMMA OwnersTodo ==
  ASSUME TypeOK, Next, ~(\E g \in Goroutine : Write(g))
  PROVE  /\ lock # "free" => todo'[lock] = todo[lock]
         /\ UNCHANGED <<lock, start, headed, written, acked, out>>
         /\ ~Fails' => ~Fails
<1> USE Goroutines
<1>1. ASSUME NEW v \in {3, 6}, NEW c1 \in C1, Hello(v, c1)
      PROVE  UNCHANGED <<lock, start, headed, written, acked, out, todo, writeErr>> /\ stage # "ended"
  BY <1>1 DEF Hello, writer, ordered
<1>2. CASE HandshakeDone \/ ReadFails \/ \E found \in BOOLEAN : Attach(found)
  BY <1>2 DEF HandshakeDone, ReadFails, Attach, writer, ordered, Fails
<1>3. CASE Handle
  BY <1>3 DEF Handle, writer, ordered, Fails, TypeOK
<1>4. CASE PeerBlocks
  BY <1>4 DEF PeerBlocks, ordered, Fails
<1>5. ASSUME NEW m \in Command \cup ControlMessage, NEW len \in Lengths, ReadMsg(m, len)
      PROVE  /\ UNCHANGED <<lock, start, headed, written, acked, out, stage, writeErr>>
             /\ lock # "free" => todo'[lock] = todo[lock]
  BY <1>5 DEF ReadMsg, Idle, writer, ordered, TypeOK
<1>6. ASSUME NEW len \in MediaLengths, Broadcast(len)
      PROVE  /\ UNCHANGED <<lock, start, headed, written, acked, out, stage, writeErr>>
             /\ lock # "free" => todo'[lock] = todo[lock]
  BY <1>6 DEF Broadcast, writer, ordered, TypeOK
<1>7. QED
  BY <1>1, <1>2, <1>3, <1>4, <1>5, <1>6 DEF Next, Fails

\* What the owner writes is the message written last, and it is not beyond its end.
LEMMA OwnerStep ==
  ASSUME SessionInvariant, [Next]_vars
  PROVE  OwnerWrites'
<1>t. TypeOK /\ OwnerWrites
  BY DEF SessionInvariant
<1> USE <1>t
<1>1. CASE Next /\ ~(\E g \in Goroutine : Write(g))
  BY <1>1, OwnersTodo DEF OwnerWrites, Current
<1>2. ASSUME NEW g \in Goroutine, Lock(g) PROVE OwnerWrites'
  <2>1. Current(g) \in Messages /\ written' = Append(written, Current(g))
    BY <1>2, AfterCurrent DEF Lock
  <2>2. written'[Len(written')] = Current(g) /\ written' # << >>
    BY <2>1, JoinsWritten
  <2>3. lock' = g /\ todo' = todo /\ headed' = FALSE
    BY <1>2 DEF Lock
  <2>4. QED
    BY <2>2, <2>3 DEF OwnerWrites, Current
<1>3. ASSUME NEW g \in Goroutine, WriteHead(g) PROVE OwnerWrites'
  BY <1>3 DEF WriteHead, Writing, OwnerWrites, Current, ordered
<1>4. ASSUME NEW g \in Goroutine, WritePayload(g) PROVE OwnerWrites'
  BY <1>4 DEF WritePayload, Writing, OwnerWrites, Current, ordered
<1>5. ASSUME NEW g \in Goroutine, Finish(g) PROVE OwnerWrites'
  BY <1>5 DEF Finish, Unlock, UnlockFailed, OwnerWrites
<1>6. CASE UNCHANGED vars
  BY <1>6 DEF vars, writer, ordered, OwnerWrites, Current
<1>7. QED
  BY <1>1, <1>2, <1>3, <1>4, <1>5, <1>6 DEF Write

\* A session connects once, before anything else it does.
LEMMA ConnectStep ==
  ASSUME SessionInvariant, [Next]_vars
  PROVE  ConnectFirst'
<1>t. TypeOK /\ ConnectFirst
  BY DEF SessionInvariant
<1> USE <1>t DEF ConnectFirst, NoJob, AttachJob
<1>1. ASSUME NEW v \in {3, 6}, NEW c1 \in C1, Hello(v, c1) PROVE ConnectFirst'
  BY <1>1 DEF Hello
<1>2. CASE HandshakeDone \/ ReadFails \/ PeerBlocks
  BY <1>2 DEF HandshakeDone, ReadFails, PeerBlocks
<1>3. CASE Handle
  BY <1>3 DEF Handle, Command
<1>4. ASSUME NEW m \in Command \cup ControlMessage, NEW len \in Lengths, ReadMsg(m, len)
      PROVE  ConnectFirst'
  <2>1. /\ job' = m /\ stage' = stage /\ connected' = (connected \/ m.cmd = "connect")
        /\ m \in Command => (connected <=> m.cmd # "connect")
    BY <1>4 DEF ReadMsg
  <2>2. m # AttachJob /\ (m.cmd = "connect" => m \in Command)
    BY DEF Command, ControlMessage
  <2>3. m \in Command \/ stage = "streaming" => connected'
    BY <2>1
  <2>4. m.cmd = "connect" => stage # "streaming"
    BY <2>1, <2>2
  <2>5. QED
    BY <2>1, <2>2, <2>3, <2>4
<1>5. ASSUME NEW found \in BOOLEAN, Attach(found) PROVE ConnectFirst'
  BY <1>5 DEF Attach, Command
<1>6. ASSUME NEW len \in MediaLengths, Broadcast(len) PROVE ConnectFirst'
  BY <1>6 DEF Broadcast
<1>7. ASSUME NEW g \in Goroutine, Lock(g) \/ WriteHead(g) \/ WritePayload(g) PROVE ConnectFirst'
  BY <1>7 DEF Lock, WriteHead, WritePayload
<1>8. ASSUME NEW g \in Goroutine, Finish(g) PROVE ConnectFirst'
  BY <1>8 DEF Finish, Unlock, UnlockFailed, Returned, Command
<1>9. CASE UNCHANGED vars
  BY <1>9 DEF vars
<1>10. QED
  BY <1>1, <1>2, <1>3, <1>4, <1>5, <1>6, <1>7, <1>8, <1>9 DEF Next, Write

\* What a step does to what a goroutine has to write.
LEMMA TodoMoves ==
  ASSUME TypeOK, [Next]_vars, NEW g \in Goroutine
  PROVE  \/ todo'[g] = todo[g]
         \/ todo'[g] = << >>
         \/ todo[g] # << >> /\ lock = g /\ todo'[g] = Tail(todo[g])
         \/ g = "own" /\ todo[g] = << >> /\ todo'[g] = <<Ack(unacked')>>
         \/ /\ g = "own" /\ todo[g] = << >> /\ todo'[g] = Answer(job)
            /\ Handle /\ stage = "commands" /\ stage' = stage /\ job \in Command
         \/ /\ g = "publisher" /\ stage = "streaming" /\ role = "player"
            /\ \E n \in Nat, len \in Nat : todo'[g] = <<Media(n, len)>>
<1> USE Goroutines DEF TypeOK
<1>1. ASSUME NEW v \in {3, 6}, NEW c1 \in C1, Hello(v, c1) PROVE todo' = todo
  BY <1>1 DEF Hello
<1>2. CASE HandshakeDone \/ ReadFails \/ PeerBlocks \/ \E found \in BOOLEAN : Attach(found)
  BY <1>2 DEF HandshakeDone, ReadFails, PeerBlocks, Attach
<1>3. CASE Handle
  BY <1>3 DEF Handle
<1>4. ASSUME NEW m \in Command \cup ControlMessage, NEW len \in Lengths, ReadMsg(m, len)
      PROVE  \/ todo'[g] = todo[g]
             \/ todo'[g] = << >>
             \/ g = "own" /\ todo[g] = << >> /\ todo'[g] = <<Ack(unacked')>>
  <2>1. CASE g = "own"
    <3>1. todo["own"] = << >> /\ todo'["own"] \in {<< >>, <<Ack(unacked')>>}
      BY <1>4 DEF ReadMsg, Idle
    <3>2. QED
      BY <2>1, <3>1
  <2>2. CASE g # "own"
    BY <1>4, <2>2 DEF ReadMsg
  <2>3. QED
    BY <2>1, <2>2
<1>5. ASSUME NEW len \in MediaLengths, Broadcast(len)
      PROVE  \/ todo'[g] = todo[g]
             \/ /\ g = "publisher" /\ stage = "streaming" /\ role = "player"
                /\ todo'[g] = <<Media(medias', len)>> /\ medias' \in Nat /\ len \in Nat
  BY <1>5, Sizes DEF Broadcast, Goroutine
<1>6. ASSUME NEW h \in Goroutine, Lock(h) \/ WriteHead(h) \/ WritePayload(h) PROVE todo' = todo
  BY <1>6 DEF Lock, WriteHead, WritePayload
<1>7. ASSUME NEW h \in Goroutine, Finish(h)
      PROVE  \/ todo'[g] = todo[g] \/ todo'[g] = << >>
             \/ todo[g] # << >> /\ lock = g /\ todo'[g] = Tail(todo[g])
  BY <1>7 DEF Finish, Unlock, UnlockFailed, Returned, Writing
<1>8. CASE UNCHANGED vars
  BY <1>8 DEF vars
<1>9. QED
  BY <1>1, <1>2, <1>3, <1>4, <1>5, <1>6, <1>7, <1>8 DEF Next, Write

\* What a step does to the messages written.
LEMMA WrittenMoves ==
  ASSUME TypeOK, [Next]_vars
  PROVE  \/ written' = written
         \/ \E g \in Goroutine : Lock(g) /\ todo[g] # << >> /\ written' = Append(written, Current(g))
<1>1. CASE Next /\ ~(\E g \in Goroutine : Write(g))
  BY <1>1, OwnersTodo
<1>2. ASSUME NEW g \in Goroutine, Lock(g)
      PROVE  todo[g] # << >> /\ written' = Append(written, Current(g))
  BY <1>2 DEF Lock
<1>3. ASSUME NEW g \in Goroutine, WriteHead(g) \/ WritePayload(g) \/ Finish(g) PROVE written' = written
  BY <1>3 DEF WriteHead, WritePayload, Finish, Unlock, UnlockFailed, Returned, ordered
<1>4. CASE UNCHANGED vars
  BY <1>4 DEF vars, writer, ordered
<1>5. QED
  BY <1>1, <1>2, <1>3, <1>4 DEF Write

\* What has been told stays told, when another message joins those written ...
LEMMA StaysTold ==
  ASSUME TypeOK, NEW m \in Messages, written' = Append(written, m)
  PROVE  /\ \A i \in 0 .. Len(written) : Told(i)' <=> Told(i)
         /\ Told(Len(written)) => Told(Len(written) + 1)'
         /\ m.kind = "chunkSize" => Told(Len(written) + 1)'
<1> USE JoinsWritten
<1>1. ASSUME NEW i \in 0 .. Len(written) PROVE Told(i)' <=> Told(i)
  <2>1. \A j \in 1 .. i : written'[j] = written[j]
    OBVIOUS
  <2>2. QED
    BY <2>1 DEF Told
<1>2. Told(Len(written)) => Told(Len(written) + 1)'
  BY DEF Told
<1>3. m.kind = "chunkSize" => Told(Len(written) + 1)'
  BY DEF Told
<1>4. QED
  BY <1>1, <1>2, <1>3

\* ... by every step.
LEMMA ToldForGood ==
  ASSUME TypeOK, [Next]_vars, Told(Len(written))
  PROVE  Told(Len(written))'
<1>1. CASE written' = written
  BY <1>1 DEF Told
<1>2. ASSUME NEW g \in Goroutine, todo[g] # << >>, written' = Append(written, Current(g))
      PROVE  Told(Len(written))'
  <2>1. Current(g) \in Messages
    BY <1>2, AfterCurrent
  <2>2. Len(written') = Len(written) + 1
    BY <1>2, <2>1, JoinsWritten
  <2>3. QED
    BY <1>2, <2>1, <2>2, StaysTold DEF Told
<1>3. QED
  BY <1>1, <1>2, WrittenMoves

\* Messages that may not fit the first chunk size wait for the larger one ...
LEMMA LongWaitStep ==
  ASSUME SessionInvariant, [Next]_vars
  PROVE  LongOnesWait'
<1>t. TypeOK /\ TypeOK' /\ LongOnesWait /\ ConnectAnnounces /\ ConnectFirst /\ OwnerWrites
  BY TypeStep DEF SessionInvariant
<1>m. Told(Len(written)) => Told(Len(written))'
  BY <1>t, ToldForGood
<1> SUFFICES ASSUME NEW g \in Goroutine, NEW i \in 1 .. Len(todo'[g]), todo'[g][i].len > 5,
                    ~Told(Len(written))'
             PROVE  \E j \in 1 .. i - 1 : todo'[g][j].kind = "chunkSize"
  BY DEF LongOnesWait, Announced
<1>0. ~Told(Len(written))
  BY <1>m
<1>1. CASE todo'[g] = todo[g]
  BY <1>0, <1>1, <1>t DEF LongOnesWait, Announced
<1>2. CASE todo'[g] = << >>
  BY <1>2
<1>3. CASE todo[g] # << >> /\ lock = g /\ todo'[g] = Tail(todo[g])
  <2>1. i \in 1 .. Len(todo[g]) - 1 /\ i \in Nat
    BY <1>3, <1>t, AfterCurrent
  <2>2. todo[g][i + 1].len > 5 /\ i + 1 \in 1 .. Len(todo[g])
    BY <1>3, <1>t, <2>1, AfterCurrent
  <2>3. PICK j \in 1 .. i : todo[g][j].kind = "chunkSize"
    BY <1>0, <1>t, <2>1, <2>2 DEF LongOnesWait, Announced
  <2>4. j # 1
    <3>1. g # "free" /\ written \in Seq(Messages)
      BY <1>t DEF Goroutine, TypeOK
    <3>2. written # << >> /\ written[Len(written)] = todo[g][1]
      BY <1>3, <1>t, <3>1, AfterCurrent DEF OwnerWrites
    <3>3. Len(written) \in 1 .. Len(written)
      BY <3>1, <3>2, EmptySeq, LenProperties
    <3>4. QED
      BY <1>0, <2>3, <3>2, <3>3 DEF Told
  <2>5. todo'[g][j - 1].kind = "chunkSize" /\ j - 1 \in 1 .. i - 1
    BY <1>3, <1>t, <2>1, <2>3, <2>4, AfterCurrent
  <2>6. QED
    BY <2>5
<1>4. CASE todo'[g] = <<Ack(unacked')>>
  BY <1>4 DEF Ack, Message
<1>5. CASE /\ g = "own" /\ todo[g] = << >> /\ todo'[g] = Answer(job)
           /\ Handle /\ stage = "commands" /\ stage' = stage /\ job \in Command
  <2>1. connected
    BY <1>5, <1>t DEF ConnectFirst
  <2>2. job.cmd = "connect"
    BY <1>0, <1>5, <1>t, <2>1 DEF ConnectAnnounces, Announced
  <2>3. i = 4
    BY <1>5, <2>2, AnswerContents
  <2>4. QED
    BY <1>5, <2>2, <2>3, AnswerContents
<1>6. CASE stage = "streaming"
  BY <1>0, <1>6, <1>t DEF ConnectAnnounces
<1>7. QED
  BY <1>1, <1>2, <1>3, <1>4, <1>5, <1>6, <1>t, TodoMoves

\* ... and have waited for it when they are written.
LEMMA LongWaitedStep ==
  ASSUME SessionInvariant, [Next]_vars
  PROVE  LongOnesWaited'
<1>t. TypeOK /\ LongOnesWait /\ LongOnesWaited
  BY DEF SessionInvariant
<1>1. CASE written' = written
  BY <1>1, <1>t DEF LongOnesWaited, Told
<1>2. ASSUME NEW g \in Goroutine, todo[g] # << >>, written' = Append(written, Current(g))
      PROVE  LongOnesWaited'
  <2>1. Current(g) \in Messages /\ Current(g) = todo[g][1] /\ 1 \in 1 .. Len(todo[g])
    BY <1>2, <1>t, AfterCurrent
  <2>2. Current(g).len > 5 => Told(Len(written))
    BY <1>t, <2>1 DEF LongOnesWait, Announced
  <2>3. /\ \A n \in 0 .. Len(written) : Told(n)' <=> Told(n)
        /\ Len(written) \in Nat /\ Len(written') = Len(written) + 1
        /\ written'[Len(written) + 1] = Current(g)
        /\ \A n \in 1 .. Len(written) : written'[n] = written[n]
    BY <1>2, <1>t, <2>1, StaysTold, JoinsWritten
  <2>4. ASSUME NEW n \in 1 .. Len(written'), written'[n].len > 5
        PROVE  Told(n - 1)'
    <3>1. CASE n \in 1 .. Len(written)
      <4>1. Told(n - 1) /\ n - 1 \in 0 .. Len(written)
        BY <1>t, <2>3, <2>4, <3>1 DEF LongOnesWaited
      <4>2. QED
        BY <2>3, <4>1
    <3>2. CASE n = Len(written) + 1
      <4>1. Told(n - 1) /\ n - 1 \in 0 .. Len(written)
        BY <2>2, <2>3, <2>4, <3>2
      <4>2. QED
        BY <2>3, <4>1
    <3>3. QED
      BY <2>3, <3>1, <3>2
  <2>5. QED
    BY <2>4 DEF LongOnesWaited
<1>3. QED
  BY <1>1, <1>2, <1>t, WrittenMoves

\* connect is answered with the announcement of the chunk size, before any stream.
LEMMA AnnounceStep ==
  ASSUME SessionInvariant, [Next]_vars
  PROVE  ConnectAnnounces'
<1>t. TypeOK /\ LongOnesWait /\ ConnectAnnounces /\ ConnectFirst /\ OwnerWrites
  BY DEF SessionInvariant
<1>m. Told(Len(written)) => Told(Len(written))'
  BY <1>t, ToldForGood
<1>n. Announced(<< >>, 1) => Told(Len(written))
  BY EmptySeq DEF Announced
<1>o. todo["own"] = << >> => Len(todo["own"]) + 1 = 1
  BY EmptySeq
<1>1. CASE Told(Len(written))
  BY <1>1, <1>m DEF ConnectAnnounces, Announced
<1>2. CASE ~Told(Len(written))
  <2>0. stage # "streaming"
    BY <1>2, <1>t DEF ConnectAnnounces
  <2>1. stage' # "streaming"
    <3>1. ASSUME NEW found \in BOOLEAN, Attach(found) PROVE FALSE
      <4>1. connected /\ job.cmd # "connect" /\ stage # "ended" /\ todo["own"] = << >>
        BY <3>1, <1>t DEF Attach, ConnectFirst, AttachJob
      <4>2. QED
        BY <4>1, <1>2, <1>n, <1>o, <1>t DEF ConnectAnnounces
    <3>2. QED
      BY <2>0, <3>1 DEF Next, vars, Hello, HandshakeDone, ReadFails, PeerBlocks, Handle, ReadMsg,
         Broadcast, Write, Lock, WriteHead, WritePayload, Finish, Unlock, UnlockFailed, Returned
  <2>2. ASSUME connected', stage' # "ended", job'.cmd # "connect"
        PROVE  Announced(todo["own"], Len(todo["own"]) + 1)'
    <3>1. ASSUME connected, stage # "ended", job.cmd # "connect", todo'["own"] = todo["own"]
          PROVE  Announced(todo["own"], Len(todo["own"]) + 1)'
      BY <1>2, <1>t, <3>1 DEF ConnectAnnounces, Announced
    <3>2. ASSUME NEW g \in Goroutine, Returned(g), Writing(g)
          PROVE  Announced(todo["own"], Len(todo["own"]) + 1)'
      <4>1. CASE g # "own"
        BY <2>2, <3>1, <3>2, <4>1 DEF Returned, TypeOK
      <4>2. CASE g = "own"
        <5>1. connected /\ stage # "ended" /\ job.cmd # "connect" /\ lock = "own" /\ todo["own"] # << >>
              /\ todo'["own"] = Tail(todo["own"]) /\ written' = written
          BY <1>t, <2>2, <3>2, <4>2 DEF Returned, Writing, ordered, TypeOK
        <5>2. PICK j \in 1 .. Len(todo["own"]) : todo["own"][j].kind = "chunkSize"
          BY <1>2, <1>t, <5>1 DEF ConnectAnnounces, Announced
        <5>3. j # 1
          <6>1. written \in Seq(Messages) /\ written # << >> /\ written[Len(written)] = todo["own"][1]
            BY <1>t, <5>1, Goroutines, AfterCurrent DEF OwnerWrites, TypeOK
          <6>2. Len(written) \in 1 .. Len(written)
            BY <6>1, EmptySeq, LenProperties
          <6>3. QED
            BY <1>2, <5>2, <6>1, <6>2 DEF Told
        <5>4. j - 1 \in 1 .. Len(todo'["own"]) /\ todo'["own"][j - 1].kind = "chunkSize"
          BY <1>t, <5>1, <5>2, <5>3, Goroutines, AfterCurrent
        <5>5. QED
          BY <5>4 DEF Announced
      <4>3. QED
        BY <4>1, <4>2
    <3>3. CASE Handle
      <4>1. CASE job.cmd = "connect" /\ todo'["own"] = Answer(job) /\ job \in Command
        <5>1. Len(Answer(job)) = 4 /\ Answer(job)[3].kind = "chunkSize"
          BY <4>1, AnswerContents
        <5>2. QED
          BY <4>1, <5>1 DEF Announced
      <4>2. CASE job.cmd = "connect" /\ job \notin Command
        BY <1>t, <4>2 DEF TypeOK, Command, ControlMessage, NoJob, AttachJob
      <4>3. CASE job.cmd = "connect" /\ job \in Command /\ todo'["own"] # Answer(job)
        BY <1>t, <2>0, <2>2, <3>3, <4>3 DEF Handle, TypeOK, Goroutine
      <4>4. CASE job.cmd # "connect"
        <5>1. connected /\ stage # "ended" /\ todo["own"] = << >>
          BY <2>2, <3>3 DEF Handle
        <5>2. QED
          BY <1>2, <1>n, <1>o, <1>t, <4>4, <5>1 DEF ConnectAnnounces
      <4>5. QED
        BY <4>1, <4>2, <4>3, <4>4
    <3>4. ASSUME NEW m \in Command \cup ControlMessage, NEW len \in Lengths, ReadMsg(m, len)
          PROVE  Announced(todo["own"], Len(todo["own"]) + 1)'
      <4>1. connected /\ stage # "ended" /\ job.cmd # "connect" /\ todo["own"] = << >>
        BY <2>2, <3>4 DEF ReadMsg, Idle, NoJob
      <4>2. QED
        BY <1>2, <1>n, <1>o, <1>t, <4>1 DEF ConnectAnnounces
    <3>5. ASSUME NEW found \in BOOLEAN, Attach(found)
          PROVE  Announced(todo["own"], Len(todo["own"]) + 1)'
      BY <2>2, <3>1, <3>5 DEF Attach, AttachJob
    <3>6. ASSUME NEW len \in MediaLengths, Broadcast(len)
          PROVE  Announced(todo["own"], Len(todo["own"]) + 1)'
      BY <2>0, <3>6 DEF Broadcast
    <3>7. ASSUME NEW v \in {3, 6}, NEW c1 \in C1, Hello(v, c1)
          PROVE  Announced(todo["own"], Len(todo["own"]) + 1)'
      BY <2>2, <3>1, <3>7 DEF Hello
    <3>8. CASE HandshakeDone \/ ReadFails \/ PeerBlocks \/ UNCHANGED vars
      BY <2>2, <3>1, <3>8 DEF HandshakeDone, ReadFails, PeerBlocks, vars
    <3>9. ASSUME NEW g \in Goroutine, Lock(g) \/ WriteHead(g) \/ WritePayload(g)
          PROVE  Announced(todo["own"], Len(todo["own"]) + 1)'
      BY <2>2, <3>1, <3>9 DEF Lock, WriteHead, WritePayload
    <3>10. ASSUME NEW g \in Goroutine, Finish(g)
           PROVE  Announced(todo["own"], Len(todo["own"]) + 1)'
      BY <2>2, <3>2, <3>10 DEF Finish, Unlock, UnlockFailed
    <3>11. QED
      BY <3>3, <3>4, <3>5, <3>6, <3>7, <3>8, <3>9, <3>10 DEF Next, Write
  <2>3. QED
    BY <2>1, <2>2 DEF ConnectAnnounces
<1>3. QED
  BY <1>1, <1>2

\* Media waits for the answers to play.
LEMMA PlayStep ==
  ASSUME SessionInvariant, [Next]_vars
  PROVE  PlayOrder'
<1>t. TypeOK /\ PlayOrder /\ OwnerWrites
  BY DEF SessionInvariant
<1>n. AttachJob # NoJob /\ AttachJob.cmd = "attach"
  BY DEF AttachJob, NoJob
<1>s. Started => Started'
  <2>1. CASE written' = written
    BY <2>1 DEF Started
  <2>2. ASSUME NEW g \in Goroutine, todo[g] # << >>, written' = Append(written, Current(g)), Started
        PROVE  Started'
    BY <1>t, <2>2, AfterCurrent, JoinsWritten DEF Started
  <2>3. QED
    BY <1>t, <2>1, <2>2, WrittenMoves
<1> DEFINE LastAnswer == /\ job = AttachJob
                         /\ Started \/ (todo["own"] # << >> /\ todo["own"][Len(todo["own"])] = Status(4))
<1>1. ASSUME role' = "player", stage' \notin {"streaming", "ended"}
      PROVE  LastAnswer'
  <2>1. ASSUME role = "player", stage \notin {"streaming", "ended"} PROVE LastAnswer
    BY <1>t, <2>1 DEF PlayOrder
  <2> HIDE DEF LastAnswer
  <2>2. ASSUME LastAnswer, job' = job, todo'["own"] = todo["own"] PROVE LastAnswer'
    BY <1>s, <2>2 DEF LastAnswer
  <2>3. ASSUME NEW v \in {3, 6}, NEW c1 \in C1, Hello(v, c1) PROVE LastAnswer'
    BY <1>1, <2>1, <2>2, <2>3 DEF Hello
  <2>4. CASE HandshakeDone \/ PeerBlocks \/ UNCHANGED vars
    BY <1>1, <2>1, <2>2, <2>4 DEF HandshakeDone, PeerBlocks, vars
  <2>5. ASSUME NEW g \in Goroutine, Lock(g) \/ WriteHead(g) \/ WritePayload(g) PROVE LastAnswer'
    BY <1>1, <2>1, <2>2, <2>5 DEF Lock, WriteHead, WritePayload
  <2>6. CASE Handle
    <3>1. CASE role = "player" /\ stage = stage'
      BY <1>1, <1>n, <2>1, <2>6, <3>1 DEF Handle, LastAnswer
    <3>2. CASE job.cmd = "play" /\ job \in Command /\ stage = "commands"
      <4>1. job' = AttachJob /\ todo'["own"] = Answer(job)
        BY <1>1, <1>t, <2>6, <3>2, Goroutines DEF Handle, TypeOK
      <4>2. QED
        BY <3>2, <4>1, AnswerContents DEF LastAnswer
    <3>3. QED
      BY <1>1, <2>6, <3>1, <3>2 DEF Handle
  <2>7. ASSUME NEW g \in Goroutine, Returned(g), Writing(g) PROVE LastAnswer'
    <3>1. LastAnswer /\ job' = job /\ written' = written
      BY <1>1, <2>1, <2>7 DEF Returned, ordered
    <3>2. CASE g # "own"
      BY <1>t, <2>2, <2>7, <3>1, <3>2 DEF Returned, TypeOK
    <3>3. CASE g = "own" /\ Started
      BY <1>s, <3>1, <3>3 DEF LastAnswer
    <3>4. CASE g = "own" /\ ~Started
      <4>1. lock = "own" /\ todo["own"] # << >> /\ todo'["own"] = Tail(todo["own"])
        BY <1>t, <2>7, <3>4, Goroutines DEF Returned, Writing, TypeOK
      <4>2. todo["own"][Len(todo["own"])] = Status(4)
        BY <3>1, <3>4 DEF LastAnswer
      <4>3. written \in Seq(Messages) /\ written # << >> /\ written[Len(written)] = todo["own"][1]
        BY <1>t, <4>1, Goroutines, AfterCurrent DEF OwnerWrites, TypeOK
      <4>4. Len(written) \in 1 .. Len(written)
        BY <4>3, EmptySeq, LenProperties
      <4>5. Len(todo["own"]) # 1
        BY <3>4, <4>2, <4>3, <4>4 DEF Started
      <4>6. PICK k \in Nat \ {0} : k + 1 = Len(todo["own"])
        <5>1. Len(todo["own"]) \in Nat \ {0}
          BY <1>t, <4>1, Goroutines, AfterCurrent
        <5>2. Len(todo["own"]) - 1 \in Nat \ {0}
          BY <4>5, <5>1
        <5>3. (Len(todo["own"]) - 1) + 1 = Len(todo["own"])
          BY <5>1
        <5>4. QED
          BY <5>2, <5>3, Zenon
      <4>7. Len(todo'["own"]) = k /\ todo'["own"][k] = todo["own"][k + 1]
        <5>1. k \in 1 .. Len(todo["own"]) - 1
          BY <4>6
        <5>2. QED
          BY <1>t, <4>1, <4>6, <5>1, Goroutines, AfterCurrent
      <4>8. todo'["own"] # << >>
        BY <4>6, <4>7, EmptySeq
      <4>9. QED
        BY <3>1, <4>2, <4>6, <4>7, <4>8 DEF LastAnswer
    <3>5. QED
      BY <3>2, <3>3, <3>4
  <2>8. ASSUME NEW g \in Goroutine, Finish(g) PROVE LastAnswer'
    BY <1>1, <2>7, <2>8 DEF Finish, Unlock, UnlockFailed
  <2>9. ASSUME NEW m \in Command \cup ControlMessage, NEW len \in Lengths, ReadMsg(m, len) PROVE FALSE
    BY <1>1, <1>n, <2>1, <2>9 DEF ReadMsg, Idle, LastAnswer
  <2>10. ASSUME NEW found \in BOOLEAN, Attach(found) PROVE FALSE
    BY <1>1, <2>10 DEF Attach
  <2>11. ASSUME NEW len \in MediaLengths, Broadcast(len) PROVE FALSE
    BY <1>1, <2>11 DEF Broadcast
  <2>12. ~ReadFails
    BY <1>1 DEF ReadFails
  <2>13. QED
    BY <2>3, <2>4, <2>5, <2>6, <2>8, <2>9, <2>10, <2>11, <2>12 DEF Next, Write
<1>2. ASSUME role' = "player", stage' = "streaming"
      PROVE  Started'
  <2>1. CASE role = "player" /\ stage = "streaming"
    BY <1>s, <1>t, <2>1 DEF PlayOrder
  <2>2. CASE \E found \in BOOLEAN : Attach(found)
    BY <1>s, <1>t, <1>2, <2>2 DEF Attach, PlayOrder
  <2>3. CASE ~(\E found \in BOOLEAN : Attach(found))
    <3>1. stage = "streaming" /\ role = "player"
      BY <1>2, <2>3 DEF Next, vars, Hello, HandshakeDone, ReadFails, PeerBlocks, Handle, ReadMsg,
         Broadcast, Write, Lock, WriteHead, WritePayload, Finish, Unlock, UnlockFailed, Returned
    <3>2. QED
      BY <2>1, <3>1
  <2>4. QED
    BY <2>2, <2>3
<1>3. ASSUME todo'["publisher"] # << >> PROVE Started'
  <2>1. todo["publisher"] # << >> \/ (stage = "streaming" /\ role = "player")
    BY <1>t, <1>3, Goroutines, TodoMoves
  <2>2. QED
    BY <1>s, <1>t, <2>1 DEF PlayOrder
<1>4. ASSUME NEW i \in 1 .. Len(todo'["own"]) PROVE todo'["own"][i].kind # "media"
  <2>1. CASE todo["own"] # << >> /\ todo'["own"] = Tail(todo["own"])
    BY <1>t, <2>1, Goroutines, AfterCurrent DEF PlayOrder
  <2>2. CASE todo'["own"] = <<Ack(unacked')>>
    BY <2>2 DEF Ack, Message
  <2>3. CASE todo'["own"] = Answer(job) /\ job \in Command
    BY <2>3, AnswerContents
  <2>4. CASE todo'["own"] = todo["own"] \/ todo'["own"] = << >>
    BY <1>t, <2>4 DEF PlayOrder
  <2>5. QED
    BY <1>t, <2>1, <2>2, <2>3, <2>4, Goroutines, TodoMoves
<1>5. ASSUME NEW i \in 1 .. Len(todo'["publisher"]) PROVE todo'["publisher"][i].kind = "media"
  <2>1. CASE todo["publisher"] # << >> /\ todo'["publisher"] = Tail(todo["publisher"])
    BY <1>t, <2>1, Goroutines, AfterCurrent DEF PlayOrder
  <2>2. CASE \E n \in Nat, len \in Nat : todo'["publisher"] = <<Media(n, len)>>
    BY <2>2 DEF Media, Message
  <2>3. CASE todo'["publisher"] = todo["publisher"] \/ todo'["publisher"] = << >>
    BY <1>t, <2>3 DEF PlayOrder
  <2>4. QED
    BY <1>t, <2>1, <2>2, <2>3, Goroutines, TodoMoves
<1>6. QED
  BY <1>1, <1>2, <1>3, <1>4, <1>5 DEF PlayOrder

\* A player's first media message is behind the last of the answers to play.
LEMMA MediaStep ==
  ASSUME SessionInvariant, [Next]_vars
  PROVE  MediaAfterStart'
<1>t. TypeOK /\ TypeOK' /\ PlayOrder /\ MediaAfterStart
  BY TypeStep DEF SessionInvariant
<1>1. CASE written' = written
  BY <1>1, <1>t DEF MediaAfterStart
<1>2. ASSUME NEW g \in Goroutine, todo[g] # << >>, written' = Append(written, Current(g))
      PROVE  MediaAfterStart'
  <2>1. Current(g) \in Messages /\ Current(g) = todo[g][1] /\ 1 \in 1 .. Len(todo[g])
    BY <1>2, <1>t, AfterCurrent
  <2>2. Current(g).kind = "media" => Started
    BY <1>2, <1>t, <2>1 DEF PlayOrder, Goroutine
  <2>3. /\ Len(written) \in Nat /\ Len(written') = Len(written) + 1
        /\ written'[Len(written) + 1] = Current(g)
        /\ \A n \in 1 .. Len(written) : written'[n] = written[n]
        /\ DOMAIN written' = 1 .. Len(written') /\ DOMAIN written = 1 .. Len(written)
    BY <1>2, <1>t, <2>1, JoinsWritten, LenProperties DEF TypeOK
  <2>4. ASSUME NEW i \in DOMAIN written', written'[i].kind = "media"
        PROVE  \E j \in 1 .. i - 1 : written'[j] = Status(4)
    <3>1. CASE i \in 1 .. Len(written)
      <4>1. PICK j \in 1 .. i - 1 : written[j] = Status(4)
        BY <1>t, <2>3, <2>4, <3>1 DEF MediaAfterStart
      <4>2. QED
        BY <2>3, <3>1, <4>1
    <3>2. CASE i = Len(written) + 1
      BY <2>2, <2>3, <2>4, <3>2 DEF Started
    <3>3. QED
      BY <2>3, <3>1, <3>2
  <2>5. QED
    BY <2>4 DEF MediaAfterStart
<1>3. QED
  BY <1>1, <1>2, <1>t, WrittenMoves

\* What is acknowledged, and what is counted, add up to what was read.
LEMMA AcksStep ==
  ASSUME SessionInvariant, [Next]_vars
  PROVE  AcksAddUp'
<1>t. TypeOK /\ AcksAddUp /\ PlayOrder
  BY DEF SessionInvariant
<1>n. /\ acked \in Nat /\ unacked \in Nat /\ total \in Nat /\ window \in Nat
      /\ \A n : Ack(n).kind = "ack" /\ Ack(n).n = n
  BY <1>t, Sizes DEF TypeOK, Ack, Message
<1>p. AckPending => todo["own"] = <<Ack(unacked)>> /\ Current("own") = Ack(unacked)
  BY <1>t DEF AcksAddUp, Current
<1>1. ASSUME UNCHANGED <<lock, acks, acked>>, todo'["own"] = todo["own"] PROVE AcksAddUp'
  BY <1>1, <1>t DEF AcksAddUp, AckPending, acks
<1>2. ASSUME UNCHANGED <<acks, acked>>, ~AckPending, ~AckPending' PROVE AcksAddUp'
  BY <1>2, <1>t DEF AcksAddUp, acks
<1>3. ASSUME NEW v \in {3, 6}, NEW c1 \in C1, Hello(v, c1) PROVE AcksAddUp'
  BY <1>1, <1>3 DEF Hello, writer, ordered
<1>4. CASE HandshakeDone \/ ReadFails \/ PeerBlocks \/ UNCHANGED vars
  BY <1>1, <1>4 DEF HandshakeDone, ReadFails, PeerBlocks, vars, writer, ordered
<1>5. CASE Handle
  <2>1. todo["own"] = << >> /\ UNCHANGED <<acks, acked>>
    BY <1>5 DEF Handle, writer, ordered
  <2>2. todo'["own"] = << >> \/ (todo'["own"] = Answer(job) /\ job \in Command)
    BY <1>5, <1>t, <2>1, Goroutines DEF Handle, TypeOK
  <2>3. ~AckPending /\ ~AckPending'
    BY <2>1, <2>2, AnswerContents, EmptySeq DEF AckPending
  <2>4. QED
    BY <1>2, <2>1, <2>3
<1>6. ASSUME NEW m \in Command \cup ControlMessage, NEW len \in Lengths, ReadMsg(m, len) PROVE AcksAddUp'
  <2>1. todo["own"] = << >> /\ ~AckPending
    BY <1>6, EmptySeq DEF ReadMsg, Idle, AckPending
  <2>2. /\ unacked < window \/ unacked = 0
        /\ RoomToCount => acked + unacked = total
    BY <1>t, <2>1 DEF AcksAddUp
  <2>3. len \in Nat /\ unacked' \in Nat /\ total' = total + len /\ acked' = acked
    <3>1. unacked' \in 0 .. Wrap - 1
      BY TypeStep DEF TypeOK
    <3>2. len \in Nat /\ unacked' \in Nat
      BY <3>1, Sizes
    <3>3. QED
      BY <1>6, <3>2 DEF ReadMsg, writer, ordered
  <2>4. ASSUME RoomToCount PROVE unacked' = unacked + len
    <3>1. Wrap \in Nat /\ unacked + len < Wrap
      <4>1. len < Wrap /\ len + window <= Wrap
        BY <1>t, <2>4 DEF TypeOK, RoomToCount
      <4>2. QED
        BY <1>n, <2>2, <2>3, <4>1, Sizes
    <3>2. QED
      BY <1>6, <1>n, <2>3, <3>1, ModSmall DEF ReadMsg
  <2>5. window' \in Nat
    BY <1>6, <1>t, Sizes, TypeStep DEF TypeOK
  <2>6. todo'["own"] = IF unacked' >= window' THEN <<Ack(unacked')>> ELSE << >>
    BY <1>6, <1>t, Goroutines DEF ReadMsg, TypeOK
  <2>7. lock # "own"
    BY <1>t, <2>1 DEF TypeOK
  <2>8. lock' = lock
    BY <1>6 DEF ReadMsg, writer
  <2>9. RoomToCount => acked' + unacked' = total'
    BY <1>n, <2>2, <2>3, <2>4
  <2>10. CASE unacked' >= window'
    BY <2>6, <2>7, <2>8, <2>9, <2>10, <1>n DEF AcksAddUp, AckPending
  <2>11. CASE ~(unacked' >= window')
    <3>1. unacked' < window'
      BY <2>3, <2>5, <2>11
    <3>2. ~AckPending'
      BY <2>6, <2>11, EmptySeq DEF AckPending
    <3>3. QED
      BY <2>9, <3>1, <3>2 DEF AcksAddUp
  <2>12. QED
    BY <2>10, <2>11
<1>7. ASSUME NEW found \in BOOLEAN, Attach(found) PROVE AcksAddUp'
  BY <1>1, <1>7 DEF Attach, writer, ordered
<1>8. ASSUME NEW len \in MediaLengths, Broadcast(len) PROVE AcksAddUp'
  BY <1>1, <1>8, <1>t, Goroutines DEF Broadcast, writer, ordered, TypeOK
<1>9. ASSUME NEW g \in Goroutine, Lock(g) PROVE AcksAddUp'
  <2>1. UNCHANGED <<acks, todo>> /\ lock = "free" /\ lock' = g /\ todo[g] # << >>
    BY <1>9 DEF Lock
  <2>2. CASE AckPending /\ g = "own"
    <3>1. acked' = acked + unacked
      BY <1>9, <1>n, <1>p, <2>2 DEF Lock
    <3>2. QED
      BY <1>t, <2>1, <2>2, <3>1 DEF AcksAddUp, AckPending, acks
  <2>3. CASE ~(AckPending /\ g = "own")
    <3>1. Current(g) = todo[g][1] /\ 1 \in 1 .. Len(todo[g])
      BY <1>t, <2>1, AfterCurrent
    <3>2. Current(g).kind # "ack"
      BY <1>t, <2>3, <3>1 DEF AckPending, PlayOrder, Goroutine
    <3>3. acked' = acked
      BY <1>9, <3>2 DEF Lock
    <3>4. QED
      BY <1>t, <2>1, <2>3, <3>3 DEF AcksAddUp, AckPending, acks
  <2>4. QED
    BY <2>2, <2>3
<1>10. ASSUME NEW g \in Goroutine, WriteHead(g) \/ WritePayload(g) PROVE AcksAddUp'
  BY <1>1, <1>10 DEF WriteHead, WritePayload, ordered
<1>11. ASSUME NEW g \in Goroutine, Returned(g), Writing(g), lock' = "free" PROVE AcksAddUp'
  <2>1. Current(g) = todo[g][1] /\ 1 \in 1 .. Len(todo[g]) /\ lock = g
    BY <1>11, <1>t, AfterCurrent DEF Writing
  <2>2. todo' = [todo EXCEPT ![g] = Tail(@)] /\ UNCHANGED <<window, total, acked>>
    BY <1>11 DEF Returned, ordered
  <2>3. CASE g # "own"
    <3>1. Current(g).kind = "media"
      BY <1>t, <2>1, <2>3 DEF PlayOrder, Goroutine
    <3>2. unacked' = unacked /\ todo'["own"] = todo["own"]
      BY <1>11, <1>t, <2>2, <2>3, <3>1, Goroutines DEF Returned, TypeOK
    <3>3. QED
      BY <1>11, <1>t, <2>1, <2>2, <2>3, <3>2 DEF AcksAddUp, AckPending
  <2>4. CASE g = "own" /\ AckPending
    <3>1. unacked' = 0
      BY <1>11, <1>n, <1>p, <2>4 DEF Returned
    <3>2. Len(todo["own"]) = 1
      BY <1>p, <2>4
    <3>3. todo'["own"] = Tail(todo["own"]) /\ Len(todo'["own"]) = 0
      BY <1>t, <2>1, <2>2, <2>4, <3>2, AfterCurrent, Goroutines, EmptySeq DEF TypeOK
    <3>4. ~AckPending'
      BY <3>3 DEF AckPending
    <3>5. RoomToCount => acked = total
      BY <1>t, <2>1, <2>4 DEF AcksAddUp
    <3>6. QED
      BY <1>n, <2>2, <3>1, <3>4, <3>5 DEF AcksAddUp
  <2>5. CASE g = "own" /\ ~AckPending
    <3>1. Current(g).kind # "ack"
      BY <2>1, <2>5 DEF AckPending
    <3>2. UNCHANGED <<acks, acked>>
      BY <1>11, <2>2, <3>1 DEF Returned, acks
    <3>3. todo'["own"] = Tail(todo["own"]) /\ todo["own"] # << >>
      BY <1>11, <1>t, <2>2, <2>5, Goroutines DEF Writing, TypeOK
    <3>4. ~AckPending'
      BY <1>t, <2>5, <3>3, Goroutines, AfterCurrent DEF AckPending
    <3>5. QED
      BY <1>2, <2>5, <3>2, <3>4
  <2>6. QED
    BY <2>3, <2>4, <2>5
<1>12. ASSUME NEW g \in Goroutine, Finish(g) PROVE AcksAddUp'
  <2>1. CASE Returned(g)
    BY <1>11, <1>12, <2>1 DEF Finish, Unlock, UnlockFailed
  <2>2. CASE ~Returned(g)
    <3>1. /\ Current(g).kind # "ack" /\ UNCHANGED <<acks, acked>> /\ lock = g /\ lock' = "free"
          /\ todo' = [todo EXCEPT ![g] = << >>] /\ todo[g] # << >>
      BY <1>12, <2>2 DEF Finish, Unlock, UnlockFailed, Writing, ordered
    <3>2. CASE g = "own"
      <4>1. ~AckPending
        BY <1>n, <1>p, <3>1, <3>2
      <4>2. ~AckPending'
        BY <1>t, <3>1, <3>2, Goroutines, EmptySeq DEF TypeOK, AckPending
      <4>3. QED
        BY <1>2, <3>1, <4>1, <4>2
    <3>3. CASE g # "own"
      <4>1. todo'["own"] = todo["own"]
        BY <1>t, <3>1, <3>3, Goroutines DEF TypeOK
      <4>2. QED
        BY <1>t, <3>1, <3>3, <4>1 DEF AcksAddUp, AckPending, acks
    <3>4. QED
      BY <3>2, <3>3
  <2>3. QED
    BY <2>1, <2>2
<1>13. QED
  BY <1>3, <1>4, <1>5, <1>6, <1>7, <1>8, <1>9, <1>10, <1>12 DEF Next, Write


-----------------------------------------------------------------------------
(* The wire.                                                               *)

PartType == [m : Messages, nth : Nat, at : Nat, len : Nat]

\* The last part on the wire is a part of a message written.
LEMMA LastOne ==
  ASSUME TypeOK, InOrder, out # << >>
  PROVE  /\ LastPart \in PartType /\ Len(out) \in Nat \ {0} /\ Len(written) \in Nat
         /\ LastPart.nth \in 1 .. Len(written) /\ LastPart.m = written[LastPart.nth]
<1>1. out \in Seq(PartType) /\ written \in Seq(Messages)
  BY DEF TypeOK, PartType
<1>2. Len(out) \in 1 .. Len(out) /\ Len(out) \in Nat \ {0} /\ Len(written) \in Nat
  BY <1>1, EmptySeq, LenProperties
<1>3. QED
  BY <1>1, <1>2 DEF LastPart, InOrder

\* A message that begins to be written disturbs nothing that is on the wire.
LEMMA WireWritten ==
  ASSUME TypeOK, InOrder, NEW m \in Messages, written' = Append(written, m), out' = out
  PROVE  InOrder' /\ (AllOut(Len(written)) => AllOut(Len(written) - 1)')
<1>1. /\ Len(written) \in Nat /\ Len(written') = Len(written) + 1
      /\ \A i \in 1 .. Len(written) : written'[i] = written[i]
  BY JoinsWritten
<1>2. ASSUME NEW n \in Nat, NEW p \in PartType, Begins(n, p) PROVE Begins(n, p)'
  BY <1>1, <1>2 DEF Begins, Silent, PartType
<1>3. ASSUME NEW p \in PartType, NEW q \in PartType, p.nth \in 1 .. Len(written), Follows(p, q)
      PROVE  Follows(p, q)'
  <2>1. SizeInForce(p.nth)' = SizeInForce(p.nth)
    <3>1. p.nth - 1 \in 0 .. Len(written)
      BY <1>1, <1>3
    <3>2. Told(p.nth - 1)' <=> Told(p.nth - 1)
      BY <3>1, StaysTold
    <3>3. QED
      BY <3>2 DEF SizeInForce
  <2>2. p.nth \in Nat
    BY DEF PartType
  <2>3. Begins(p.nth, q) => Begins(p.nth, q)'
    BY <1>2, <2>2
  <2> HIDE <1>2
  <2>4. QED
    BY <1>3, <2>1, <2>3 DEF Follows, EndsMessage
<1>4. out \in Seq(PartType)
  BY DEF TypeOK, PartType
<1>5. ASSUME NEW i \in 1 .. Len(out) PROVE out[i] \in PartType
  BY <1>4
<1>6. InOrder'
  <2>1. out' # << >> => Begins(0, out[1])'
    <3>1. ASSUME out # << >> PROVE Begins(0, out[1])'
      <4>1. Begins(0, out[1]) /\ out[1] \in PartType
        BY <1>4, <3>1, EmptySeq DEF InOrder
      <4>2. PICK p \in PartType : p = out[1]
        BY <4>1
      <4>3. Begins(0, p)'
        BY <1>2, <4>1, <4>2
      <4>4. QED
        BY <4>2, <4>3 DEF Begins, Silent
    <3>2. QED
      BY <3>1
  <2>2. ASSUME NEW i \in 2 .. Len(out') PROVE Follows(out[i - 1], out[i])'
    <3>1. i \in 1 .. Len(out) /\ i - 1 \in 1 .. Len(out) /\ i \in 2 .. Len(out)
      BY <1>4
    <3>2. PICK p \in PartType, q \in PartType : p = out[i - 1] /\ q = out[i]
      BY <1>5, <3>1
    <3>3. Follows(p, q)'
      BY <1>3, <3>1, <3>2 DEF InOrder
    <3>4. QED
      BY <3>2, <3>3 DEF Follows, EndsMessage, SizeInForce, Told, Begins, Silent
  <2>3. ASSUME NEW i \in 1 .. Len(out')
        PROVE  out'[i].nth \in 1 .. Len(written') /\ out'[i].m = written'[out'[i].nth]
    BY <1>1 DEF InOrder
  <2>4. QED
    BY <2>1, <2>2, <2>3 DEF InOrder
<1>7. ASSUME AllOut(Len(written)) PROVE AllOut(Len(written) - 1)'
  <2>1. Len(written') - 1 = Len(written)
    BY <1>1
  <2>2. LastPart' = LastPart
    BY DEF LastPart
  <2>3. CASE out = << >>
    <3>1. Silent(1, Len(written))
      BY <1>7, <2>3 DEF AllOut
    <3>2. Silent(1, Len(written) - 1)'
      BY <1>1, <2>1, <3>1 DEF Silent
    <3>3. QED
      BY <2>3, <3>2 DEF AllOut
  <2>4. CASE out # << >>
    <3>1. EndsMessage(LastPart) /\ LastPart.nth <= Len(written) /\ Silent(LastPart.nth + 1, Len(written))
      BY <1>7, <2>4 DEF AllOut
    <3>2. LastPart.nth \in 1 .. Len(written)
      BY <2>4, LastOne
    <3>3. Silent(LastPart.nth + 1, Len(written) - 1)'
      BY <1>1, <2>1, <2>2, <3>1, <3>2 DEF Silent
    <3>4. EndsMessage(LastPart)' /\ LastPart'.nth <= Len(written') - 1
      BY <2>1, <2>2, <3>1 DEF EndsMessage
    <3>5. QED
      BY <2>4, <3>3, <3>4 DEF AllOut
  <2>5. QED
    BY <2>3, <2>4
<1>8. QED
  BY <1>6, <1>7

\* A part that follows the last one keeps the wire in order.
LEMMA WireGrows ==
  ASSUME TypeOK, InOrder, NEW g \in Goroutine, todo[g] # << >>, NEW n \in Nat,
         out' = Append(out, Part(g, n)), written' = written,
         written # << >>, written[Len(written)] = Current(g),
         out = << >> => Begins(0, Part(g, n)),
         out # << >> => Follows(LastPart, Part(g, n))
  PROVE  InOrder' /\ out' # << >> /\ LastPart' = Part(g, n)
<1> DEFINE p == Part(g, n)
<1> HIDE DEF p
<1>1. /\ Len(out) \in Nat /\ Len(out') = Len(out) + 1 /\ out' # << >>
      /\ out'[Len(out) + 1] = p /\ \A i \in 1 .. Len(out) : out'[i] = out[i]
  BY JoinsOut DEF p
<1>2. LastPart' = p
  BY <1>1 DEF LastPart
<1>3. p.nth = Len(written) /\ p.m = written[Len(written)] /\ p.nth \in 1 .. Len(written)
  <2>1. Len(written) \in 1 .. Len(written)
    BY EmptySeq, LenProperties DEF TypeOK
  <2>2. QED
    BY <2>1 DEF p, Part
<1>4. \A x, y : Begins(x, y)' = Begins(x, y)
  BY DEF Begins, Silent
<1>5. \A x, y : Follows(x, y)' = Follows(x, y)
  BY <1>4 DEF Follows, SizeInForce, Told, EndsMessage
<1>6. Begins(0, out'[1])
  <2>1. CASE out = << >>
    BY <1>1, <2>1 DEF p
  <2>2. CASE out # << >>
    <3>1. 1 \in 1 .. Len(out)
      BY <1>1, <2>2, EmptySeq DEF TypeOK
    <3>2. QED
      BY <1>1, <2>2, <3>1 DEF InOrder
  <2>3. QED
    BY <2>1, <2>2
<1>7. ASSUME NEW i \in 2 .. Len(out') PROVE Follows(out'[i - 1], out'[i])
  <2>1. CASE i \in 2 .. Len(out)
    <3>1. i - 1 \in 1 .. Len(out) /\ i \in 1 .. Len(out)
      BY <1>1, <2>1
    <3>2. QED
      BY <1>1, <2>1, <3>1 DEF InOrder
  <2>2. CASE i = Len(out) + 1
    <3>1. i - 1 = Len(out) /\ Len(out) \in 1 .. Len(out) /\ out # << >>
      BY <1>1, <1>7, <2>2
    <3>2. QED
      BY <1>1, <2>2, <3>1 DEF p, LastPart
  <2>3. QED
    BY <1>1, <2>1, <2>2
<1>8. ASSUME NEW i \in 1 .. Len(out')
      PROVE  out'[i].nth \in 1 .. Len(written) /\ out'[i].m = written[out'[i].nth]
  <2>1. CASE i \in 1 .. Len(out)
    BY <1>1, <2>1 DEF InOrder
  <2>2. CASE i = Len(out) + 1
    BY <1>1, <1>3, <2>2
  <2>3. QED
    BY <1>1, <2>1, <2>2
<1>9. QED
  BY <1>1, <1>2, <1>4, <1>5, <1>6, <1>7, <1>8 DEF InOrder, p

\* What the owner of the lock writes of its message continues what is on the wire.
LEMMA WireStep ==
  ASSUME SessionInvariant, [Next]_vars
  PROVE  WireState'
<1>t. TypeOK /\ OwnerWrites /\ LongOnesWaited /\ InOrder /\ (~Fails => HowFar)
  BY DEF SessionInvariant, WireState
<1>w. Len(written) \in Nat /\ written \in Seq(Messages) /\ (written # << >> => Len(written) \in 1 .. Len(written))
  BY <1>t, EmptySeq, LenProperties DEF TypeOK
<1>s. ASSUME UNCHANGED <<written, out>> PROVE InOrder' /\ LastPart' = LastPart
  <2>1. \A x, y : Begins(x, y)' = Begins(x, y)
    BY <1>s DEF Begins, Silent
  <2>2. \A x, y : Follows(x, y)' = Follows(x, y)
    BY <1>s, <2>1 DEF Follows, SizeInForce, Told, EndsMessage
  <2>3. QED
    BY <1>s, <1>t, <2>1, <2>2 DEF InOrder, LastPart
<1>a. ASSUME UNCHANGED <<written, out>>, NEW n \in Nat PROVE AllOut(n)' <=> AllOut(n)
  BY <1>a DEF AllOut, Silent, EndsMessage, LastPart
<1>o. ASSUME NEW g \in Goroutine, Writing(g)
      PROVE  /\ lock = g /\ lock # "free" /\ todo[g] # << >> /\ written # << >>
             /\ written[Len(written)] = Current(g) /\ Current(g) \in Messages
             /\ start \in Nat /\ Current(g).len \in Nat /\ start <= Current(g).len
             /\ headed => start < Current(g).len
  <2>1. lock = g /\ lock # "free" /\ todo[g] # << >>
    BY <1>o DEF Writing, Goroutine
  <2>2. Current(g) \in Messages
    BY <1>t, <2>1, AfterCurrent
  <2>3. QED
    BY <1>t, <2>1, <2>2 DEF OwnerWrites, TypeOK, Messages
<1>1. ASSUME UNCHANGED <<lock, start, headed, written, out>>, lock # "free" => todo'[lock] = todo[lock],
             ~Fails' => ~Fails
      PROVE  WireState'
  <2>1. InOrder' /\ LastPart' = LastPart /\ (AllOut(Len(written))' <=> AllOut(Len(written)))
    BY <1>1, <1>a, <1>s, <1>w DEF AllOut, Silent, EndsMessage, LastPart
  <2>2. AllOut(Len(written) - 1)' <=> AllOut(Len(written) - 1)
    BY <1>1 DEF AllOut, Silent, EndsMessage, LastPart
  <2>3. lock # "free" => Part(lock, 0)' = Part(lock, 0)
    BY <1>1 DEF Part, Current
  <2>4. HowFar => HowFar'
    BY <1>1, <2>1, <2>2, <2>3 DEF HowFar
  <2>5. QED
    BY <1>1, <1>t, <2>1, <2>4 DEF WireState
<1>2. ASSUME NEW g \in Goroutine, Lock(g) PROVE WireState'
  <2>1. Current(g) \in Messages
    BY <1>2, <1>t, AfterCurrent DEF Lock
  <2>2. InOrder' /\ (AllOut(Len(written)) => AllOut(Len(written) - 1)')
    BY <1>2, <1>t, <2>1, WireWritten DEF Lock
  <2>3. lock = "free" /\ lock' = g /\ g # "free" /\ headed' = FALSE /\ start' = 0
    BY <1>2 DEF Lock, Goroutine
  <2>4. Fails' <=> Fails
    BY <1>2 DEF Lock, Fails
  <2>5. HowFar => HowFar'
    BY <2>2, <2>3 DEF HowFar
  <2>6. QED
    BY <1>t, <2>2, <2>4, <2>5 DEF WireState
<1>3. ASSUME NEW g \in Goroutine, WriteHead(g) PROVE WireState'
  <2>1. /\ Writing(g) /\ ~headed /\ start < Current(g).len /\ out' = Append(out, Part(g, 0))
        /\ headed' = TRUE /\ UNCHANGED <<todo, lock, start, written>> /\ HowFar
    BY <1>3, <1>t DEF WriteHead, ordered
  <2>2. Part(g, 0) = [m |-> Current(g), nth |-> Len(written), at |-> start, len |-> 0]
    BY DEF Part
  <2>3. ASSUME start = 0
        PROVE  /\ out = << >> => Begins(0, Part(g, 0))
               /\ out # << >> => Follows(LastPart, Part(g, 0))
    <3>1. AllOut(Len(written) - 1)
      BY <1>o, <2>1, <2>3 DEF HowFar
    <3>2. ASSUME NEW n \in Nat, n <= Len(written) - 1, Silent(n + 1, Len(written) - 1)
          PROVE  Begins(n, Part(g, 0))
      <4>1. Part(g, 0).nth = Len(written) /\ Part(g, 0).m = written[Len(written)]
        BY <1>o, <2>1, <2>2
      <4>2. Len(written) \in n + 1 .. Len(written) /\ Current(g).len > 0
        BY <1>o, <1>w, <2>1, <2>3, <3>2
      <4>3. QED
        BY <1>o, <2>1, <2>2, <2>3, <3>2, <4>1, <4>2 DEF Begins
    <3>3. out = << >> => Begins(0, Part(g, 0))
      <4>1. ASSUME out = << >> PROVE 0 <= Len(written) - 1 /\ Silent(0 + 1, Len(written) - 1)
        BY <1>o, <1>w, <2>1, <3>1, <4>1 DEF AllOut
      <4>2. QED
        BY <3>2, <4>1
    <3>4. out # << >> => Follows(LastPart, Part(g, 0))
      <4>1. ASSUME out # << >>
            PROVE  /\ LastPart.nth \in Nat /\ LastPart.nth <= Len(written) - 1
                   /\ Silent(LastPart.nth + 1, Len(written) - 1) /\ EndsMessage(LastPart)
        BY <1>t, <1>w, <3>1, <4>1, LastOne DEF AllOut
      <4>2. QED
        BY <3>2, <4>1 DEF Follows
    <3>5. QED
      BY <3>3, <3>4
  <2>4. ASSUME start # 0 PROVE out # << >> /\ Follows(LastPart, Part(g, 0))
    <3>1. /\ out # << >> /\ LastPart.nth = Len(written)
          /\ LastPart.len > 0 /\ LastPart.at + LastPart.len = start
      BY <1>o, <2>1, <2>4 DEF HowFar
    <3>2. LastPart \in PartType /\ LastPart.m = Current(g)
      BY <1>o, <1>t, <2>1, <3>1, LastOne
    <3>3. Part(g, 0) = [m |-> LastPart.m, nth |-> LastPart.nth, at |-> LastPart.at + LastPart.len, len |-> 0]
      BY <2>2, <3>1, <3>2
    <3>4. LastPart.at + LastPart.len < LastPart.m.len
      BY <2>1, <3>1, <3>2
    <3>5. QED
      BY <3>1, <3>3, <3>4 DEF Follows
  <2>5. InOrder' /\ out' # << >> /\ LastPart' = Part(g, 0)
    BY <1>o, <1>t, <2>1, <2>3, <2>4, WireGrows
  <2>6. Part(lock, 0)' = Part(g, 0)
    BY <1>o, <2>1 DEF Part, Current
  <2>7. HowFar'
    BY <1>o, <2>1, <2>5, <2>6 DEF HowFar
  <2>8. QED
    BY <2>5, <2>7 DEF WireState
<1>4. ASSUME NEW g \in Goroutine, WritePayload(g) PROVE WireState'
  <2> DEFINE left == Current(g).len - start
             inc == IF left < ServerChunk THEN left ELSE ServerChunk
  <2>1. /\ Writing(g) /\ headed /\ headed' = FALSE /\ UNCHANGED <<todo, lock, written>>
        /\ out' = Append(out, Part(g, inc)) /\ start' = start + inc /\ HowFar
    BY <1>4, <1>t DEF WritePayload, ordered
  <2>2. left \in Nat \ {0} /\ inc \in Nat \ {0} /\ start \in Nat
    BY <1>o, <2>1, Sizes, ChunkAssumption
  <2>3. out # << >> /\ LastPart = Part(g, 0)
    BY <1>o, <2>1 DEF HowFar
  <2>4. /\ LastPart.m = Current(g) /\ LastPart.at = start /\ LastPart.len = 0
        /\ LastPart.nth = Len(written)
    BY <2>3 DEF Part
  <2>5. inc = IF left < SizeInForce(Len(written)) THEN left ELSE SizeInForce(Len(written))
    <3>1. CASE Told(Len(written) - 1)
      BY <3>1 DEF SizeInForce
    <3>2. CASE ~Told(Len(written) - 1)
      <4>1. ~(Current(g).len > 5)
        BY <1>o, <1>t, <1>w, <2>1, <3>2 DEF LongOnesWaited
      <4>2. ~(left > 5)
        BY <1>o, <2>1, <4>1
      <4>3. QED
        BY <2>2, <3>2, <4>2, Sizes, ChunkAssumption DEF SizeInForce
    <3>3. QED
      BY <3>1, <3>2
  <2> HIDE DEF inc
  <2>6. Part(g, inc) = [LastPart EXCEPT !.len = inc]
    BY <2>3 DEF Part
  <2>7. Follows(LastPart, Part(g, inc))
    BY <2>4, <2>5, <2>6 DEF Follows
  <2>8. InOrder' /\ out' # << >> /\ LastPart' = Part(g, inc)
    BY <1>o, <1>t, <2>1, <2>2, <2>3, <2>7, WireGrows
  <2>9. LastPart'.nth = Len(written') /\ LastPart'.at + LastPart'.len = start' /\ LastPart'.len > 0
    BY <2>1, <2>2, <2>8 DEF Part
  <2>10. start' # 0
    BY <2>1, <2>2
  <2>11. HowFar'
    BY <1>o, <2>1, <2>8, <2>9, <2>10 DEF HowFar
  <2>12. QED
    BY <2>8, <2>11 DEF WireState
<1>5. ASSUME NEW g \in Goroutine, Unlock(g) PROVE WireState'
  <2>1. /\ Writing(g) /\ ~headed /\ ~(start < Current(g).len) /\ lock' = "free"
        /\ UNCHANGED <<out, written>> /\ HowFar
    BY <1>5, <1>o, <1>t DEF Unlock, Returned, ordered
  <2>2. start = Current(g).len
    BY <1>o, <2>1
  <2>3. ASSUME start = 0 PROVE AllOut(Len(written))
    <3>1. AllOut(Len(written) - 1) /\ written[Len(written)].len = 0
      BY <1>o, <2>1, <2>2, <2>3 DEF HowFar
    <3>2. ASSUME NEW n \in Nat, Silent(n, Len(written) - 1) PROVE Silent(n, Len(written))
      BY <1>w, <3>1, <3>2 DEF Silent
    <3>3. CASE out = << >>
      BY <3>1, <3>2, <3>3 DEF AllOut
    <3>4. CASE out # << >>
      <4>1. LastPart.nth + 1 \in Nat /\ LastPart.nth <= Len(written)
        BY <1>t, <3>4, LastOne
      <4>2. QED
        BY <3>1, <3>2, <3>4, <4>1 DEF AllOut
    <3>5. QED
      BY <3>3, <3>4
  <2>4. ASSUME start # 0 PROVE AllOut(Len(written))
    <3>1. /\ out # << >> /\ LastPart.nth = Len(written)
          /\ LastPart.len > 0 /\ LastPart.at + LastPart.len = start
      BY <1>o, <2>1, <2>4 DEF HowFar
    <3>2. LastPart.m = Current(g)
      BY <1>o, <1>t, <2>1, <3>1, LastOne
    <3>3. EndsMessage(LastPart)
      BY <2>2, <3>1, <3>2 DEF EndsMessage
    <3>4. Silent(LastPart.nth + 1, Len(written)) /\ LastPart.nth <= Len(written)
      BY <1>w, <3>1 DEF Silent
    <3>5. QED
      BY <3>1, <3>3, <3>4 DEF AllOut
  <2>5. AllOut(Len(written))'
    <3>1. AllOut(Len(written))
      BY <2>3, <2>4
    <3>2. QED
      BY <2>1, <3>1 DEF AllOut, Silent, EndsMessage, LastPart
  <2>6. QED
    BY <1>s, <2>1, <2>5 DEF WireState, HowFar
<1>6. ASSUME NEW g \in Goroutine, UnlockFailed(g) PROVE WireState'
  <2>1. UNCHANGED <<out, written>> /\ Fails'
    BY <1>6 DEF UnlockFailed, Returned, Fails, ordered
  <2>2. QED
    BY <1>s, <2>1 DEF WireState
<1>7. CASE Next /\ ~(\E g \in Goroutine : Write(g))
  BY <1>1, <1>7, <1>t, OwnersTodo
<1>8. CASE UNCHANGED vars
  BY <1>1, <1>8 DEF vars, writer, ordered, Fails
<1>9. QED
  BY <1>2, <1>3, <1>4, <1>5, <1>6, <1>7, <1>8 DEF Write, Finish

-----------------------------------------------------------------------------
(* The invariant.                                                          *)

\* A new session satisfies the invariant.
LEMMA InitInvariant == Init => SessionInvariant
<1> SUFFICES ASSUME Init PROVE SessionInvariant
  OBVIOUS
<1>1. /\ stage = "hello" /\ role = "none" /\ connected = FALSE /\ job = NoJob
      /\ todo["own"] = << >> /\ todo["publisher"] = << >> /\ lock = "free"
      /\ written = << >> /\ out = << >> /\ acked = 0 /\ unacked = 0 /\ total = 0
  BY Goroutines DEF Init
<1>2. /\ Len(written) = 0 /\ Len(out) = 0 /\ Len(todo["own"]) = 0 /\ Len(todo["publisher"]) = 0
      /\ written \in Seq(Messages) /\ out \in Seq(PartType)
      /\ todo \in [Goroutine -> Seq(Messages)]
  BY <1>1, EmptySeq DEF Init
<1>3. TypeOK
  <2>1. unacked \in 0 .. Wrap - 1
    BY <1>1, Sizes
  <2>2. /\ job \in Command \cup ControlMessage \cup {NoJob, AttachJob} /\ lock \in {"free"} \cup Goroutine
        /\ start \in Nat /\ headed \in BOOLEAN /\ writeErr \in BOOLEAN
        /\ window \in Windows \cup {FirstWindow} /\ reads \in Nat /\ medias \in Nat
    BY <1>1 DEF Init
  <2>3. QED
    BY <1>1, <1>2, <2>1, <2>2 DEF TypeOK, PartType
<1>4. OwnerWrites /\ ConnectFirst
  BY <1>1 DEF OwnerWrites, ConnectFirst, NoJob, AttachJob, Command
<1>5. LongOnesWait /\ LongOnesWaited
  BY <1>2, Goroutines, <1>1 DEF LongOnesWait, LongOnesWaited, Goroutine
<1>6. ConnectAnnounces /\ PlayOrder
  BY <1>1, <1>2 DEF ConnectAnnounces, PlayOrder
<1>7. MediaAfterStart
  BY <1>1 DEF MediaAfterStart
<1>8. AcksAddUp
  BY <1>1, <1>2 DEF AcksAddUp, AckPending
<1>9. WireState
  BY <1>1, <1>2 DEF WireState, InOrder, HowFar, AllOut, Silent
<1>10. QED
  BY <1>3, <1>4, <1>5, <1>6, <1>7, <1>8, <1>9 DEF SessionInvariant

\* The invariant is inductive.
LEMMA InvariantStep ==
  ASSUME SessionInvariant, [Next]_vars
  PROVE  SessionInvariant'
<1>1. QED
  BY TypeStep, OwnerStep, ConnectStep, LongWaitStep, LongWaitedStep, AnnounceStep,
     PlayStep, MediaStep, AcksStep, WireStep DEF SessionInvariant

\* The invariant holds in every reachable state, however the session's goroutine and
\* the publisher's interleave and wherever writing fails.
THEOREM Invariance == Spec => []SessionInvariant
<1>1. QED
  BY InitInvariant, InvariantStep, PTL DEF Spec

\* The state of a session stays well-typed; in particular the start of the next chunk
\* never passes the end of the message, and the unsigned count of unacknowledged bytes
\* is used below its modulus.
THEOREM TypeCorrectness == Spec => []TypeOK
<1>1. SessionInvariant => TypeOK
  BY DEF SessionInvariant
<1>2. QED
  BY <1>1, Invariance, PTL

(***************************************************************************)
(* Whatever two goroutines write, in whatever order they get the lock, and *)
(* for every chunk size, the client finds whole messages on the wire, one  *)
(* after the other, in chunks of the size it has been told.                *)
(***************************************************************************)
THEOREM Readable == Spec => []WireReadable
<1>1. SessionInvariant => WireReadable
  BY DEF SessionInvariant, WireState, InOrder, HowFar, WireReadable
<1>2. QED
  BY <1>1, Invariance, PTL

\* A player's first media message comes after the last of the answers to its play,
\* however the publisher's goroutine is scheduled.
THEOREM MediaFollowsAnswers == Spec => []MediaAfterStart
<1>1. SessionInvariant => MediaAfterStart
  BY DEF SessionInvariant
<1>2. QED
  BY <1>1, Invariance, PTL

\* A session that waits for its client owes it no acknowledgement, whatever window the
\* client asks for; and, unless the counter can wrap, no byte is acknowledged twice and
\* none is forgotten.
THEOREM AcksUpToDate == Spec => []AcksKeepUp
<1>1. SessionInvariant => AcksKeepUp
  <2>1. ASSUME SessionInvariant, Idle PROVE ~AckPending
    BY <2>1, EmptySeq DEF Idle, AckPending
  <2>2. QED
    BY <2>1 DEF SessionInvariant, AcksAddUp, AcksKeepUp
<1>2. QED
  BY <1>1, Invariance, PTL
==============================================================================
