------------------------------ MODULE RtspRelay ------------------------------
(***************************************************************************)
(* The RTSP relay (internal/RTSP).  A session has up to three goroutines:  *)
(* its loop (Session.start), which reads requests and interleaved frames;  *)
(* the relay of the Pusher it announced (Pusher.ReceiveRtp, started by     *)
(* RECORD), which hands the frames of the Pusher's channel to its players; *)
(* and the receiver of the Player it described (Player.receiverFrame,      *)
(* started by PLAY), which takes frames off the Player's queue and writes  *)
(* them.  The loop and the receiver both run Session.stop.                 *)
(*                                                                         *)
(* A session makes at most one Pusher, one Player, one relay and one       *)
(* receiver here, so all are named by their session.                       *)
(***************************************************************************)
EXTENDS Naturals, Sequences, FiniteSets

CONSTANTS Session,    \* the connections
          Channel,    \* channel codes
          None,       \* nil
          Publisher,  \* sessions whose clients may send ANNOUNCE
          Viewer,     \* sessions whose clients may send DESCRIBE
          Recorder,   \* sessions whose clients may send RECORD
          Sender,     \* sessions whose clients send interleaved frames
          QueueLime,  \* capacity of a Pusher's channel
          MaxFrames   \* bound: frames one session sends

ASSUME NoneAssumption == None \notin Session \cup Channel
ASSUME ClientAssumption == Publisher \cup Viewer \cup Recorder \cup Sender \subseteq Session
ASSUME QueueAssumption == QueueLime \in Nat \ {0} /\ MaxFrames \in Nat

Thread == {"loop", "relay", "receiver"} \X Session
Loop(s) == <<"loop", s>>
Relay(s) == <<"relay", s>>
Receiver(s) == <<"receiver", s>>

Frame == [from : Session, seq : 1 .. MaxFrames]

VARIABLES
  pc,        \* where each goroutine is
  frame,     \* the frame a goroutine hands to the rtpHandleFunc list
  at,        \* the session whose list that is
  todoFuncs, \* what it has still to call: rtpHandleFunc, or in stop stopHandleFunc
  deferred,  \* sessions whose loop has left start's for and runs its deferred call
  code,      \* Session.channelCode
  roles,     \* what registered functions with the session, in order
  stoped,    \* Session.stoped
  conn,      \* Session.richConn: "open", or "nil" after it was closed
  registry,  \* PusherManager.pusher
  exit,      \* Pusher.exit is closed
  channel,   \* Pusher.queue
  players,   \* Pusher.player
  readLock,  \* playerMutex is read-locked by the Pusher's relay
  todo,      \* players the relay has still to visit
  upstream,  \* the Pusher a session's Player belongs to
  queue,     \* Player.queue
  cond,      \* who holds Player.cond.L: None or a goroutine
  sent,      \* how many frames each session's client has sent
  got,       \* what each session's client received
  crashed    \* an unrecovered panic ended the process

calls == <<frame, at, todoFuncs>>
sessions == <<code, roles, stoped, conn>>
pushers == <<registry, exit, channel>>
maps == <<players, readLock, todo>>
playing == <<upstream, queue, cond>>
media == <<sent, got>>
vars == <<pc, calls, deferred, sessions, pushers, maps, playing, media, crashed>>

Points ==
  {"none", "read", "describe", "deliver", "append", "select", "range",
   "top", "lock", "wait", "woken", "check",
   "stop", "mark", "hooks", "unregister", "detach", "closing", "gone"}

GoroutineTypeOK ==
  /\ pc \in [Thread -> Points]
  /\ frame \in [Thread -> Frame \cup {None}]
  /\ at \in [Thread -> Session]
  /\ todoFuncs \in [Thread -> Seq({"pusher", "player"})]
  /\ deferred \subseteq Session
  /\ crashed \in BOOLEAN

SessionTypeOK ==
  /\ code \in [Session -> Channel \cup {None}]
  /\ roles \in [Session -> Seq({"pusher", "player"})]
  /\ stoped \in [Session -> BOOLEAN]
  /\ conn \in [Session -> {"open", "nil"}]
  /\ sent \in [Session -> 0 .. MaxFrames]

PusherTypeOK ==
  /\ registry \in [Channel -> Session \cup {None}]
  /\ exit \in [Session -> BOOLEAN]
  /\ channel \in [Session -> Seq(Frame)]
  /\ \A s \in Session : Len(channel[s]) <= QueueLime
  /\ players \in [Session -> SUBSET Session]
  /\ readLock \in [Session -> BOOLEAN]
  /\ todo \in [Session -> SUBSET Session]

PlayerTypeOK ==
  /\ upstream \in [Session -> Session \cup {None}]
  /\ queue \in [Session -> Seq(Frame)]
  /\ cond \in [Session -> Thread \cup {None}]
  /\ got \in [Session -> Seq(Frame)]

TypeOK == GoroutineTypeOK /\ SessionTypeOK /\ PusherTypeOK /\ PlayerTypeOK

Init ==
  /\ pc = [t \in Thread |-> IF t[1] = "loop" THEN "read" ELSE "none"]
  /\ frame = [t \in Thread |-> None]
  /\ at = [t \in Thread |-> t[2]]
  /\ todoFuncs = [t \in Thread |-> << >>]
  /\ deferred = {}
  /\ code = [s \in Session |-> None]
  /\ roles = [s \in Session |-> << >>]
  /\ stoped = [s \in Session |-> FALSE]
  /\ conn = [s \in Session |-> "open"]
  /\ registry = [c \in Channel |-> None]
  /\ exit = [s \in Session |-> FALSE]
  /\ channel = [s \in Session |-> << >>]
  /\ players = [s \in Session |-> {}]
  /\ readLock = [s \in Session |-> FALSE]
  /\ todo = [s \in Session |-> {}]
  /\ upstream = [s \in Session |-> None]
  /\ queue = [s \in Session |-> << >>]
  /\ cond = [s \in Session |-> None]
  /\ sent = [s \in Session |-> 0]
  /\ got = [s \in Session |-> << >>]
  /\ crashed = FALSE

Goto(t, p) == pc' = [pc EXCEPT ![t] = p]

\* The end of an iteration of start's for loop, or of ReceiveRtp's.
Again(s) == IF stoped[s] THEN "gone" ELSE "read"
RelayAgain(s) == IF stoped[s] THEN "gone" ELSE "select"

-----------------------------------------------------------------------------
(* The session's loop: requests.  A handler that answers with an error      *)
(* status stops the session in HandleRtspResponse, before start's deferred  *)
(* stop.                                                                    *)

Asked(s, c) == pc[Loop(s)] = "read" /\ code[s] \in {None, c}

AnnounceAgain(s, c) ==
  /\ s \in Publisher /\ Asked(s, c)
  /\ code' = [code EXCEPT ![s] = c]
  /\ IF registry[c] \notin {None, s}
     THEN Goto(Loop(s), "stop") /\ UNCHANGED <<roles, registry>>
     ELSE /\ Len(roles[s]) < 2
          /\ registry' = [registry EXCEPT ![c] = s]
          /\ roles' = [roles EXCEPT ![s] = Append(@, "pusher")]
          /\ Goto(Loop(s), Again(s)) \/ Goto(Loop(s), "stop")
  /\ UNCHANGED <<calls, deferred, stoped, conn, exit, channel, maps, playing, media, crashed>>

\* ANNOUNCE: NewPusher registers in one step (addPusher) or the answer is 400; a
\* control attribute that cannot be parsed is a 400 after the registration.  addPusher
\* and the two appends after it are one step here.
Announce(s, c) ==
  /\ s \in Publisher /\ Asked(s, c)
  /\ code' = [code EXCEPT ![s] = c]
  /\ IF registry[c] # None
     THEN Goto(Loop(s), "stop") /\ UNCHANGED <<roles, registry>>
     ELSE /\ "pusher" \notin {roles[s][i] : i \in DOMAIN roles[s]}
          /\ registry' = [registry EXCEPT ![c] = s]
          /\ roles' = [roles EXCEPT ![s] = Append(@, "pusher")]
          /\ Goto(Loop(s), Again(s)) \/ Goto(Loop(s), "stop")
  /\ UNCHANGED <<calls, deferred, stoped, conn, exit, channel, maps, playing, media, crashed>>

\* RECORD: a relay goroutine for whatever Pusher has the channel code, or a 400.
Record(s, c) ==
  /\ s \in Recorder /\ Asked(s, c)
  /\ code' = [code EXCEPT ![s] = c]
  /\ LET q == registry[c]
     IN  IF q = None THEN Goto(Loop(s), "stop")
         ELSE /\ pc[Relay(q)] = "none"
              /\ pc' = [pc EXCEPT ![Loop(s)] = Again(s), ![Relay(q)] = RelayAgain(q)]
  /\ UNCHANGED <<calls, deferred, roles, stoped, conn, pushers, maps, playing, media, crashed>>

\* DESCRIBE finds the Pusher, or the answer is 404.
Describe(s, c) ==
  /\ s \in Viewer /\ Asked(s, c)
  /\ registry[c] # s /\ upstream[s] = None
  /\ code' = [code EXCEPT ![s] = c]
  /\ IF registry[c] = None THEN Goto(Loop(s), "stop") /\ UNCHANGED upstream
     ELSE Goto(Loop(s), "describe") /\ upstream' = [upstream EXCEPT ![s] = registry[c]]
  /\ UNCHANGED <<calls, deferred, roles, stoped, conn, pushers, maps, queue, cond, media, crashed>>

\* NewPlayer: addPlayer under the write lock, then the session's functions, in one step:
\* a relay that visits the player in between calls nothing of it, as if it joined later.
Attach(s) ==
  /\ pc[Loop(s)] = "describe"
  /\ ~readLock[upstream[s]]
  /\ players' = [players EXCEPT ![upstream[s]] = @ \cup {s}]
  /\ roles' = [roles EXCEPT ![s] = Append(@, "player")]
  /\ Goto(Loop(s), Again(s))
  /\ UNCHANGED <<calls, deferred, code, stoped, conn, pushers, readLock, todo, playing, media, crashed>>

\* Somebody waits for the write lock of q's playerMutex: new readers wait too.
WriterWaits(q) ==
  \E s \in Session : /\ upstream[s] = q
                     /\ pc[Loop(s)] \in {"describe", "detach"} \/ pc[Receiver(s)] = "detach"

\* PLAY starts the receiver when the registered Pusher has this session among its
\* players, else the answer is 500.  With richConn gone the handler panics.
Play(s, c) ==
  /\ Asked(s, c)
  /\ code' = [code EXCEPT ![s] = c]
  /\ LET q == registry[c]
     IN  IF conn[s] = "nil" THEN Goto(Loop(s), "gone")
         ELSE IF q = None \/ s \notin players[q] THEN Goto(Loop(s), "stop")
         ELSE /\ ~(readLock[q] /\ WriterWaits(q))
              /\ pc[Receiver(s)] = "none"
              /\ pc' = [pc EXCEPT ![Loop(s)] = Again(s), ![Receiver(s)] = "top"]
  /\ UNCHANGED <<calls, deferred, roles, stoped, conn, pushers, maps, playing, media, crashed>>

\* TEARDOWN, or a request that is answered with an error: HandleRtspResponse stops.
Teardown(s) ==
  /\ pc[Loop(s)] = "read"
  /\ Goto(Loop(s), "stop")
  /\ UNCHANGED <<calls, deferred, sessions, pushers, maps, playing, media, crashed>>

\* A read fails (the peer left, a timeout, the server closed): start's deferred stop.
ReadFails(s) ==
  /\ pc[Loop(s)] = "read"
  /\ deferred' = deferred \cup {s}
  /\ Goto(Loop(s), "stop")
  /\ UNCHANGED <<calls, sessions, pushers, maps, playing, media, crashed>>

\* An interleaved frame on a channel of the session (the reader may have buffered it
\* before the connection was closed): call its rtpHandleFunc list.
ReadFrame(s) ==
  /\ s \in Sender /\ pc[Loop(s)] = "read" /\ roles[s] # << >>
  /\ sent[s] < MaxFrames
  /\ sent' = [sent EXCEPT ![s] = @ + 1]
  /\ frame' = [frame EXCEPT ![Loop(s)] = [from |-> s, seq |-> sent[s] + 1]]
  /\ at' = [at EXCEPT ![Loop(s)] = s]
  /\ todoFuncs' = [todoFuncs EXCEPT ![Loop(s)] = roles[s]]
  /\ Goto(Loop(s), "deliver")
  /\ UNCHANGED <<deferred, sessions, pushers, maps, playing, got, crashed>>

-----------------------------------------------------------------------------
(* The rtpHandleFunc list of session at[t], called by goroutine t.          *)

Called(t) == todoFuncs' = [todoFuncs EXCEPT ![t] = Tail(@)]

EnqueueOneMore(t) ==
  LET s == at[t]
  IN  /\ pc[t] = "deliver" /\ todoFuncs[t] # << >> /\ Head(todoFuncs[t]) = "pusher"
      /\ Len(channel[s]) <= QueueLime
      /\ channel' = [channel EXCEPT ![s] = Append(@, frame[t])]
      /\ Called(t)
      /\ UNCHANGED <<pc, frame, at, deferred, sessions, registry, exit, maps, playing, media, crashed>>

\* The Pusher's function: the send blocks while the channel is full.
Enqueue(t) ==
  LET s == at[t]
  IN  /\ pc[t] = "deliver" /\ todoFuncs[t] # << >> /\ Head(todoFuncs[t]) = "pusher"
      /\ Len(channel[s]) < QueueLime
      /\ channel' = [channel EXCEPT ![s] = Append(@, frame[t])]
      /\ Called(t)
      /\ UNCHANGED <<pc, frame, at, deferred, sessions, registry, exit, maps, playing, media, crashed>>

\* The Player's function: nothing once the session is stopped ...
Offer(t) ==
  /\ pc[t] = "deliver" /\ todoFuncs[t] # << >> /\ Head(todoFuncs[t]) = "player"
  /\ IF stoped[at[t]] THEN Called(t) /\ UNCHANGED pc
     ELSE Goto(t, "append") /\ UNCHANGED todoFuncs
  /\ UNCHANGED <<frame, at, deferred, sessions, pushers, maps, playing, media, crashed>>

\* What cond.Signal and cond.Broadcast do to the receiver of s, if it waits.
Wake(s, p) == IF p[Receiver(s)] = "wait" THEN [p EXCEPT ![Receiver(s)] = "woken"] ELSE p

AppendNoSignal(t) ==
  LET s == at[t]
  IN  /\ pc[t] = "append" /\ cond[s] = None
      /\ queue' = [queue EXCEPT ![s] = Append(@, frame[t])]
      /\ pc' = [pc EXCEPT ![t] = "deliver"]
      /\ Called(t)
      /\ UNCHANGED <<frame, at, deferred, sessions, pushers, maps, upstream, cond, media, crashed>>

\* ... else append under cond.L, and Signal (queueLimit is never set).
AppendFrame(t) ==
  LET s == at[t]
  IN  /\ pc[t] = "append" /\ cond[s] = None
      /\ queue' = [queue EXCEPT ![s] = Append(@, frame[t])]
      /\ pc' = Wake(s, [pc EXCEPT ![t] = "deliver"])
      /\ Called(t)
      /\ UNCHANGED <<frame, at, deferred, sessions, pushers, maps, upstream, cond, media, crashed>>

\* The list is done: the loop reads on, the relay visits its next player.
Delivered(t) ==
  /\ pc[t] = "deliver" /\ todoFuncs[t] = << >>
  /\ Goto(t, IF t[1] = "loop" THEN Again(t[2]) ELSE "range")
  /\ UNCHANGED <<calls, deferred, sessions, pushers, maps, playing, media, crashed>>

-----------------------------------------------------------------------------
(* The relay: Pusher.ReceiveRtp.                                            *)

\* select takes a frame, and the range over the players starts under RLock.
Take(q) ==
  /\ pc[Relay(q)] = "select" /\ channel[q] # << >>
  /\ frame' = [frame EXCEPT ![Relay(q)] = Head(channel[q])]
  /\ channel' = [channel EXCEPT ![q] = Tail(@)]
  /\ readLock' = [readLock EXCEPT ![q] = TRUE]
  /\ todo' = [todo EXCEPT ![q] = players[q]]
  /\ Goto(Relay(q), "range")
  /\ UNCHANGED <<at, todoFuncs, deferred, sessions, registry, exit, players, playing, media, crashed>>

RelayEndsIdle(q) ==
  /\ pc[Relay(q)] = "select" /\ (exit[q] \/ channel[q] = << >>)
  /\ Goto(Relay(q), "gone")
  /\ UNCHANGED <<calls, deferred, sessions, pushers, maps, playing, media, crashed>>

\* select finds exit closed.
RelayEnds(q) ==
  /\ pc[Relay(q)] = "select" /\ exit[q]
  /\ Goto(Relay(q), "gone")
  /\ UNCHANGED <<calls, deferred, sessions, pushers, maps, playing, media, crashed>>

\* sendFrame to the next player of the range.
SendFrame(q, p) ==
  /\ pc[Relay(q)] = "range" /\ p \in todo[q]
  /\ todo' = [todo EXCEPT ![q] = @ \ {p}]
  /\ at' = [at EXCEPT ![Relay(q)] = p]
  /\ todoFuncs' = [todoFuncs EXCEPT ![Relay(q)] = roles[p]]
  /\ Goto(Relay(q), "deliver")
  /\ UNCHANGED <<frame, deferred, sessions, pushers, players, readLock, playing, media, crashed>>

RangeKeepsLock(q) ==
  /\ pc[Relay(q)] = "range" /\ todo[q] = {}
  /\ Goto(Relay(q), RelayAgain(q))
  /\ UNCHANGED <<calls, deferred, sessions, pushers, maps, playing, media, crashed>>

\* The range is over: RUnlock, and the next turn of the for loop.
RangeDone(q) ==
  /\ pc[Relay(q)] = "range" /\ todo[q] = {}
  /\ readLock' = [readLock EXCEPT ![q] = FALSE]
  /\ Goto(Relay(q), RelayAgain(q))
  /\ UNCHANGED <<calls, deferred, sessions, pushers, players, todo, playing, media, crashed>>

-----------------------------------------------------------------------------
(* The receiver: Player.receiverFrame.                                      *)

\* select: pusherDone ends the goroutine (its deferred Stop), else go for cond.L.
ReceiverTop(s) ==
  /\ pc[Receiver(s)] = "top"
  /\ Goto(Receiver(s), IF exit[upstream[s]] THEN "stop" ELSE "lock")
  /\ UNCHANGED <<calls, deferred, sessions, pushers, maps, playing, media, crashed>>

LockNoWait(s) ==
  /\ pc[Receiver(s)] = "lock" /\ cond[s] = None
  /\ cond' = [cond EXCEPT ![s] = Receiver(s)]
  /\ Goto(Receiver(s), "check")
  /\ UNCHANGED <<calls, deferred, sessions, pushers, maps, upstream, queue, media, crashed>>

\* Lock; with nothing queued, Wait, which gives the lock up.
LockOrWait(s) ==
  /\ pc[Receiver(s)] = "lock" /\ cond[s] = None
  /\ IF queue[s] = << >>
     THEN Goto(Receiver(s), "wait") /\ UNCHANGED cond
     ELSE Goto(Receiver(s), "check") /\ cond' = [cond EXCEPT ![s] = Receiver(s)]
  /\ UNCHANGED <<calls, deferred, sessions, pushers, maps, upstream, queue, media, crashed>>

\* Wait returns with the lock.
Woken(s) ==
  /\ pc[Receiver(s)] = "woken" /\ cond[s] = None
  /\ cond' = [cond EXCEPT ![s] = Receiver(s)]
  /\ Goto(Receiver(s), "check")
  /\ UNCHANGED <<calls, deferred, sessions, pushers, maps, upstream, queue, media, crashed>>

\* When the session is stopped the break leaves the select only: the lock stays held.
BreakOut(s) ==
  /\ pc[Receiver(s)] = "check" /\ stoped[s]
  /\ Goto(Receiver(s), "top")
  /\ UNCHANGED <<calls, deferred, sessions, pushers, maps, playing, media, crashed>>

WriteKeepsFrame(s) ==
  /\ pc[Receiver(s)] = "check" /\ ~stoped[s]
  /\ Len(got[s]) < 2 * MaxFrames
  /\ cond' = [cond EXCEPT ![s] = None]
  /\ got' = [got EXCEPT ![s] = Append(@, Head(queue[s]))]
  /\ Goto(Receiver(s), "top")
  /\ UNCHANGED <<calls, deferred, sessions, pushers, maps, upstream, queue, sent, crashed>>

WriteKeepsLock(s) ==
  /\ pc[Receiver(s)] = "check" /\ ~stoped[s]
  /\ queue' = [queue EXCEPT ![s] = Tail(@)]
  /\ got' = [got EXCEPT ![s] = Append(@, Head(queue[s]))]
  /\ Goto(Receiver(s), "top")
  /\ UNCHANGED <<calls, deferred, sessions, pushers, maps, upstream, cond, sent, crashed>>

\* Else the first frame is taken, the lock given up and the frame written (write
\* errors are ignored).
WriteFrame(s) ==
  /\ pc[Receiver(s)] = "check" /\ ~stoped[s]
  /\ queue' = [queue EXCEPT ![s] = Tail(@)]
  /\ cond' = [cond EXCEPT ![s] = None]
  /\ got' = [got EXCEPT ![s] = Append(@, Head(queue[s]))]
  /\ Goto(Receiver(s), "top")
  /\ UNCHANGED <<calls, deferred, sessions, pushers, maps, upstream, sent, crashed>>

-----------------------------------------------------------------------------
(* Session.stop, run by the loop or by the receiver t of session t[2].      *)

\* start and receiverFrame call stop after their recover: a panic there is fatal.
\* One in HandleRtspResponse's stop is recovered, and start's deferred stop returns.
Panic(t) ==
  IF t[1] = "loop" /\ t[2] \notin deferred
  THEN Goto(t, "gone") /\ UNCHANGED crashed
  ELSE crashed' = TRUE /\ pc' = [u \in Thread |-> "gone"]

Stop(t) ==
  /\ pc[t] = "stop"
  /\ Goto(t, IF stoped[t[2]] THEN "gone" ELSE "mark")
  /\ UNCHANGED <<calls, deferred, sessions, pushers, maps, playing, media, crashed>>

\* stoped is set, the log line dereferences richConn, the range over the functions starts.
Mark(t) ==
  /\ pc[t] = "mark"
  /\ stoped' = [stoped EXCEPT ![t[2]] = TRUE]
  /\ IF conn[t[2]] = "nil" THEN Panic(t) /\ UNCHANGED todoFuncs
     ELSE /\ todoFuncs' = [todoFuncs EXCEPT ![t] = roles[t[2]]]
          /\ Goto(t, "hooks") /\ UNCHANGED crashed
  /\ UNCHANGED <<frame, at, deferred, code, roles, conn, pushers, maps, playing, media>>

RemoveFirst(t) ==
  /\ pc[t] = "hooks" /\ todoFuncs[t] # << >> /\ Head(todoFuncs[t]) = "pusher"
  /\ registry' = [registry EXCEPT ![code[t[2]]] = None]
  /\ IF exit[t[2]] THEN Panic(t) /\ UNCHANGED exit
     ELSE /\ exit' = [exit EXCEPT ![t[2]] = TRUE]
          /\ Goto(t, "unregister") /\ UNCHANGED crashed
  /\ UNCHANGED <<calls, deferred, sessions, channel, maps, playing, media>>

CloseExitOnly(t) ==
  /\ pc[t] = "hooks" /\ todoFuncs[t] # << >> /\ Head(todoFuncs[t]) = "pusher"
  /\ IF exit[t[2]] THEN Panic(t) /\ UNCHANGED <<exit, todoFuncs>>
     ELSE /\ exit' = [exit EXCEPT ![t[2]] = TRUE]
          /\ Called(t)
          /\ UNCHANGED <<pc, crashed>>
  /\ UNCHANGED <<frame, at, deferred, sessions, registry, channel, maps, playing, media>>

\* The Pusher's function: close(exit), which panics when it is closed already ...
CloseExit(t) ==
  /\ pc[t] = "hooks" /\ todoFuncs[t] # << >> /\ Head(todoFuncs[t]) = "pusher"
  /\ IF exit[t[2]] THEN Panic(t) /\ UNCHANGED exit
     ELSE /\ exit' = [exit EXCEPT ![t[2]] = TRUE]
          /\ Goto(t, "unregister") /\ UNCHANGED crashed
  /\ UNCHANGED <<calls, deferred, sessions, registry, channel, maps, playing, media>>

\* ... then removePusher deletes whatever is registered under the channel code.
Unregister(t) ==
  /\ pc[t] = "unregister"
  /\ registry' = [registry EXCEPT ![code[t[2]]] = None]
  /\ Called(t)
  /\ Goto(t, "hooks")
  /\ UNCHANGED <<frame, at, deferred, sessions, exit, channel, maps, playing, media, crashed>>

\* The Player's function: Broadcast under cond.L ...
Broadcast(t) ==
  /\ pc[t] = "hooks" /\ todoFuncs[t] # << >> /\ Head(todoFuncs[t]) = "player"
  /\ cond[t[2]] = None
  /\ pc' = Wake(t[2], [pc EXCEPT ![t] = "detach"])
  /\ UNCHANGED <<calls, deferred, sessions, pushers, maps, playing, media, crashed>>

\* ... then removePlayer under the write lock.
Detach(t) ==
  LET q == upstream[t[2]]
  IN  /\ pc[t] = "detach"
      /\ ~readLock[q]
      /\ players' = [players EXCEPT ![q] = @ \ {t[2]}]
      /\ Called(t)
      /\ Goto(t, "hooks")
      /\ UNCHANGED <<frame, at, deferred, sessions, pushers, readLock, todo, playing, media, crashed>>

\* All functions have run; richConn is tested ...
HooksDone(t) ==
  /\ pc[t] = "hooks" /\ todoFuncs[t] = << >>
  /\ Goto(t, IF conn[t[2]] = "nil" THEN "gone" ELSE "closing")
  /\ UNCHANGED <<calls, deferred, sessions, pushers, maps, playing, media, crashed>>

\* ... and used, closed and set to nil.
Close(t) ==
  /\ pc[t] = "closing"
  /\ IF conn[t[2]] = "nil" THEN Panic(t) /\ UNCHANGED conn
     ELSE /\ conn' = [conn EXCEPT ![t[2]] = "nil"]
          /\ Goto(t, "gone") /\ UNCHANGED crashed
  /\ UNCHANGED <<calls, deferred, code, roles, stoped, pushers, maps, playing, media>>

-----------------------------------------------------------------------------
\* What goroutines do on their own, without waiting for a mutex or a channel.
Proceed(t) ==
  \/ Offer(t) \/ Delivered(t)
  \/ t[1] = "relay" /\ (\/ RelayEnds(t[2]) \/ RangeDone(t[2])
                        \/ \E p \in Session : SendFrame(t[2], p))
  \/ t[1] = "receiver" /\ (ReceiverTop(t[2]) \/ BreakOut(t[2]) \/ WriteFrame(t[2]))
  \/ Stop(t) \/ Mark(t) \/ CloseExit(t) \/ Unregister(t) \/ HooksDone(t) \/ Close(t)

\* Waits for a mutex, and for room or a frame in a channel.
Acquire(t) ==
  \/ AppendFrame(t) \/ Enqueue(t) \/ Broadcast(t) \/ Detach(t)
  \/ t[1] = "loop" /\ Attach(t[2])
  \/ t[1] = "relay" /\ Take(t[2])
  \/ t[1] = "receiver" /\ (LockOrWait(t[2]) \/ Woken(t[2]))

\* The clients.
Client(s) ==
  \/ \E c \in Channel : Announce(s, c) \/ Record(s, c) \/ Describe(s, c) \/ Play(s, c)
  \/ Teardown(s) \/ ReadFails(s) \/ ReadFrame(s)

Next ==
  \/ \E t \in Thread : Proceed(t) \/ Acquire(t)
  \/ \E s \in Session : Client(s)

Spec == Init /\ [][Next]_vars

(***************************************************************************)
(* Go runs every goroutine that can run, the waiter of a free mutex and    *)
(* the party to a ready channel operation among them.  Frames are bounded, *)
(* so nothing contends for ever and weak fairness is enough.  Clients are  *)
(* not fair.                                                               *)
(***************************************************************************)
Fairness == \A t \in Thread : WF_vars(Proceed(t) \/ Acquire(t))

FairSpec == Spec /\ Fairness

-----------------------------------------------------------------------------
(* Properties.                                                             *)

Has(list, role) == role \in {list[i] : i \in DOMAIN list}
Plays(s) == Has(roles[s], "player")
Pushes(s) == Has(roles[s], "pusher")

(***************************************************************************)
(* The PusherManager is the directory that StreamDirectory specifies: from *)
(* its ANNOUNCE until its own stop function has run a publisher is found   *)
(* under its channel code, and nobody else withdraws it.  That is so       *)
(* although removePusher deletes by code and although the loop and the     *)
(* receiver of a session may both run its stop: the second closes exit     *)
(* first and panics there, before it could delete the Pusher of a session  *)
(* that has taken the code over.                                           *)
(***************************************************************************)
Phase(s) == IF ~Pushes(s) THEN "idle"
            ELSE IF exit[s] /\ \A c \in Channel : registry[c] # s THEN "over"
            ELSE "live"

Directory == INSTANCE StreamDirectory
  WITH Name <- Channel, owner <- registry, phase <- [s \in Session |-> Phase(s)]

DirectoryImplemented == Directory!DirectorySpec

\* What the Player of s was handed: written to its client, or queued.
Received(s) == got[s] \o queue[s]

(***************************************************************************)
(* A player sends its client the frames of its Pusher in the order they    *)
(* were read, none missing and none twice from the first one on, whatever  *)
(* the relay, the receiver and a stop do to the queue between them: of two *)
(* frames of the Pusher with none of its own between them the later one is *)
(* the next one it sent.                                                   *)
(***************************************************************************)
Consecutive(list, u) ==
  \A i, j \in DOMAIN list :
    /\ i < j /\ list[i].from = u /\ list[j].from = u
    /\ \A k \in i + 1 .. j - 1 : list[k].from # u
    => list[j].seq = list[i].seq + 1

FramesInOrder == \A s \in Session : Consecutive(Received(s), upstream[s])

(***************************************************************************)
(* receiverFrame reads the queue's first element after Wait without a loop *)
(* around it; it never finds the queue empty there, so it never panics.    *)
(***************************************************************************)
NeverTakesFromEmpty ==
  \A s \in Session : pc[Receiver(s)] = "check" /\ ~stoped[s] => queue[s] # << >>

(***************************************************************************)
(* As long as the process lives cond.L is held by the receiver alone, and  *)
(* outside the few lines after Wait only when the break has leaked it,     *)
(* which takes a stop of that session: no live viewer ever blocks the      *)
(* relay of its channel.                                                   *)
(***************************************************************************)
LockLeaksOnlyInStop ==
  \A s \in Session :
    cond[s] # None /\ ~crashed
      => cond[s] = Receiver(s) /\ (pc[Receiver(s)] = "check" \/ stoped[s])

(***************************************************************************)
(* The process only dies of a panic when the loop and the receiver of one  *)
(* viewer stop it at the same time, which needs its Pusher to have left    *)
(* first: publishers alone never bring the server down.                    *)
(***************************************************************************)
Stops == {"mark", "hooks", "unregister", "detach", "closing", "gone"}
CrashIsDoubleStop ==
  [][crashed' /\ ~crashed =>
       \E s \in Session : /\ Plays(s) /\ exit[upstream[s]]
                          /\ pc[Loop(s)] \in Stops /\ pc[Receiver(s)] \in Stops]_vars

-----------------------------------------------------------------------------
(* The inductive invariant, in named parts.                                 *)

\* A session's functions: each of its two roles at most once, in either order.
RoleList == {<< >>, <<"pusher">>, <<"player">>, <<"pusher", "player">>, <<"player", "pusher">>}

\* Every goroutine is at a point of its own code.
Goroutines ==
  \A t \in Thread :
    /\ t[1] = "loop" => pc[t] \in {"read", "describe", "deliver", "append", "stop"} \cup Stops
    /\ t[1] = "relay" => pc[t] \in {"none", "select", "range", "deliver", "append", "gone"}
    /\ t[1] = "receiver" =>
         pc[t] \in {"none", "top", "lock", "wait", "woken", "check", "stop"} \cup Stops

\* What is registered, and what a goroutine has still to call of it.
FunctionLists ==
  /\ \A s \in Session : roles[s] \in RoleList
  /\ \A t \in Thread : todoFuncs[t] \in RoleList
StopLists ==
  \A t \in Thread : pc[t] \in {"hooks", "unregister", "detach"} =>
    \A r \in {"pusher", "player"} : Has(todoFuncs[t], r) => Has(roles[t[2]], r)

\* A goroutine inside a function has that function, and its frame, in hand.
InCall ==
  \A t \in Thread :
    /\ pc[t] \in {"range", "deliver", "append"} => frame[t] \in Frame
    /\ pc[t] = "append" => todoFuncs[t] # << >>
    /\ pc[t] = "unregister" => todoFuncs[t] # << >> /\ Head(todoFuncs[t]) = "pusher"
    /\ pc[t] = "detach" => todoFuncs[t] # << >> /\ Head(todoFuncs[t]) = "player"

\* A session has one Player at most, and a receiver only when its Player is in a map.
Viewing ==
  \A s \in Session :
    /\ Plays(s) \/ pc[Loop(s)] = "describe" => upstream[s] # None
    /\ pc[Loop(s)] = "describe" => ~Plays(s)
    /\ pc[Receiver(s)] # "none" => Plays(s)
    /\ \A q \in Session : s \in players[q] => Plays(s)

\* A receiver stops its session only because its Pusher has closed exit.
PusherLeftFirst ==
  \A s \in Session : pc[Receiver(s)] \in Stops \cup {"stop"} => exit[upstream[s]]

\* A goroutine that runs the functions has marked its session before.
MarkedBefore ==
  \A t \in Thread : pc[t] \in {"hooks", "unregister", "detach", "closing"} => stoped[t[2]]

\* Whoever is woken finds a frame, or its session stopped.
WokenForAReason ==
  \A s \in Session :
    pc[Receiver(s)] \in {"woken", "check"} => queue[s] # << >> \/ stoped[s]

\* t has no Pusher function left to call in the stop it runs, or ran.
PastPusher(t) ==
  \/ pc[t] \in {"unregister", "closing", "gone"}
  \/ pc[t] \in {"hooks", "detach"} /\ ~Has(todoFuncs[t], "pusher")

\* What a stop closed it closed on its way out.
ConnClosedByAStop ==
  \A s \in Session : conn[s] = "nil" => pc[Loop(s)] = "gone" \/ pc[Receiver(s)] = "gone"
ExitClosedByAStop ==
  \A s \in Session : exit[s] => PastPusher(Loop(s)) \/ PastPusher(Receiver(s))

\* A Pusher stays registered under its session's code until the one stop that closed
\* its exit deletes it.
Registered ==
  \A s \in Session :
    /\ Pushes(s) => code[s] \in Channel /\ (exit[s] \/ registry[code[s]] = s)
    /\ \A c \in Channel : registry[c] = s => code[s] = c /\ Pushes(s)

\* One stop at most is about to delete it, and it is still there then.
OneDeletes ==
  /\ \A t \in Thread : pc[t] = "unregister" => exit[t[2]] /\ registry[code[t[2]]] = t[2]
  /\ \A s \in Session : ~(pc[Loop(s)] = "unregister" /\ pc[Receiver(s)] = "unregister")

(***************************************************************************)
(* Preserved by every step and so, holding initially, true of every        *)
(* reachable state; a panic that ends the process leaves no goroutine.     *)
(***************************************************************************)
RelayInvariant ==
  /\ TypeOK
  /\ IF crashed THEN \A t \in Thread : pc[t] = "gone"
     ELSE /\ Goroutines /\ FunctionLists /\ StopLists /\ InCall /\ Viewing
          /\ PusherLeftFirst /\ MarkedBefore /\ WokenForAReason
          /\ ConnClosedByAStop /\ ExitClosedByAStop
          /\ Registered /\ OneDeletes
  /\ LockLeaksOnlyInStop

-----------------------------------------------------------------------------
(* Why frames arrive in order.                                              *)

\* In list the frames of u are those numbered a + 1 .. b, each once and in order.
Run(list, u, a, b) ==
  LET own == {i \in DOMAIN list : list[i].from = u}
  IN  /\ a <= b
      /\ \A i \in own : list[i].seq \in a + 1 .. b
      /\ \A n \in a + 1 .. b : \E i \in own : list[i].seq = n
      /\ \A i, j \in own : i < j => list[i].seq < list[j].seq

Handing(t) == pc[t] \in {"deliver", "append"}
Ranging(q) == pc[Relay(q)] \in {"range", "deliver", "append"}

\* Who is in a map described that Pusher, and who is described or relayed is a Pusher.
Joined ==
  \A s \in Session :
    /\ \A q \in Session : s \in players[q] => upstream[s] = q
    /\ upstream[s] # None => Pushes(upstream[s])
    /\ pc[Relay(s)] # "none" => Pushes(s)

\* A range holds the read lock, so whom it visits, or has still to visit, is in the map.
InRange ==
  \A q \in Session : Ranging(q) =>
    /\ readLock[q] /\ todo[q] \subseteq players[q]
    /\ Handing(Relay(q)) => at[Relay(q)] \in players[q] \ todo[q]

\* A goroutine calls functions that are registered with the session it calls them for,
\* a loop for the frame it has just read.
InHand ==
  \A t \in Thread : Handing(t) =>
    /\ \A r \in {"pusher", "player"} : Has(todoFuncs[t], r) => Has(roles[at[t]], r)
    /\ pc[t] = "append" => Head(todoFuncs[t]) = "player"
    /\ t[1] = "loop" => at[t] = t[2] /\ frame[t] = [from |-> t[2], seq |-> sent[t[2]]]

\* Frames reach a session through its functions only.
NothingBefore ==
  \A s \in Session : /\ ~Pushes(s) => channel[s] = << >>
                     /\ ~Plays(s) => Received(s) = << >>

\* Sets that hold with a player the publisher it plays, and so all it may get frames of.
Closed(set) == \A s \in set : upstream[s] # None => upstream[s] \in set

\* Nobody plays, directly or through others, a session that plays it ...
NoCycle ==
  \A s \in Session : upstream[s] # None =>
    \E set \in SUBSET Session : Closed(set) /\ upstream[s] \in set /\ s \notin set

\* ... and a relay passes on only what its session sent or plays.
FromAbove ==
  \A q \in Session : \A set \in SUBSET Session : (Closed(set) /\ q \in set) =>
    /\ \A i \in DOMAIN channel[q] : channel[q][i].from \in set
    /\ Ranging(q) => frame[Relay(q)].from \in set

\* The last frame of u that was sent on to u's own channel, if u is a Pusher.
Produced(u) ==
  IF Handing(Loop(u)) /\ Has(todoFuncs[Loop(u)], "pusher") THEN sent[u] - 1 ELSE sent[u]

\* The relay of u has a frame of u in hand; s is still to be handed what it has.
Carries(u) == Ranging(u) /\ frame[Relay(u)].from = u
Pending(u, s) ==
  \/ s \in todo[u]
  \/ Handing(Relay(u)) /\ at[Relay(u)] = s /\ Has(todoFuncs[Relay(u)], "player")

\* The frames of u up to n have left its channel, and each player it serves was handed
\* them all since it joined, but for the one in the relay's hand.
Pipeline(u, n) ==
  /\ Run(channel[u], u, n, Produced(u))
  /\ Carries(u) => frame[Relay(u)].seq = n
  /\ \A s \in players[u] : ~stoped[s] =>
       \E a \in 0 .. MaxFrames :
         Run(Received(s), u, a, IF Carries(u) /\ Pending(u, s) THEN n - 1 ELSE n)
  /\ (Carries(u) /\ pc[Relay(u)] = "append") =>
       \E a \in 0 .. MaxFrames : Run(Received(at[Relay(u)]), u, a, n - 1)
Pipelines == \A u \in Session : \E n \in 0 .. MaxFrames : Pipeline(u, n)

\* What any player was handed of its Pusher is without a gap, also after it was stopped.
Runs ==
  \A s \in Session : \E a, b \in 0 .. MaxFrames : Run(Received(s), upstream[s], a, b)

(***************************************************************************)
(* Preserved by every step from a state that satisfies RelayInvariant:     *)
(* with it inductive.                                                      *)
(***************************************************************************)
DeliveryInvariant ==
  /\ Runs
  /\ ~crashed => /\ Joined /\ InRange /\ InHand /\ NothingBefore
                 /\ NoCycle /\ FromAbove /\ Pipelines

-----------------------------------------------------------------------------
(* Liveness.                                                                *)

(***************************************************************************)
(* A receiver that was started delivers what is queued: frames do not lie  *)
(* in the queue for ever, because no Signal is lost between its test of    *)
(* the queue and its Wait.                                                 *)
(***************************************************************************)
QueueDrains ==
  \A s \in Session :
    []<>(queue[s] # << >> /\ pc[Receiver(s)] # "none"
           => stoped[s] \/ exit[upstream[s]] \/ crashed)

\* The receiver keeps the lock it leaked, and stands or waits elsewhere.
Leaked(s) == cond[s] = Receiver(s) /\ pc[Receiver(s)] # "check"

\* A goroutine waits to send into a full channel that nobody empties: no RECORD has
\* started its relay yet, or the relay has ended with its session's stop.
Clogged(t) ==
  LET p == at[t]
  IN  /\ pc[t] = "deliver" /\ todoFuncs[t] # << >> /\ Head(todoFuncs[t]) = "pusher"
      /\ Len(channel[p]) = QueueLime
      /\ pc[Relay(p)] = "none" \/ (pc[Relay(p)] = "gone" /\ stoped[p])

(***************************************************************************)
(* A session's loop that hands a frame on gets back to reading: it waits   *)
(* for ever in the send only when nobody empties the channel, or when the  *)
(* relay that does is itself held up, by a cond.L that a viewer has leaked *)
(* or by another such channel.                                             *)
(***************************************************************************)
LoopReadsOn ==
  \A s \in Session :
    []<>(pc[Loop(s)] \in {"deliver", "append"}
           => \E p \in Session : Leaked(p) \/ Clogged(Relay(p)) \/ Clogged(Loop(p)))

\* A stop of s has run its Pusher's function up to close(exit), or will get to it.
ToRelease(s) ==
  \/ exit[s]
  \/ \E t \in {Loop(s), Receiver(s)} :
       pc[t] \in {"hooks", "detach"} /\ Has(todoFuncs[t], "pusher")

(***************************************************************************)
(* A session that stops does not keep its channel code for ever, even when *)
(* its own relay is blocked for good, if it announced before it viewed     *)
(* anything, or if its Pusher's function is in the list that stop ranges   *)
(* over.  One that viewed first may wait for ever in the Player's          *)
(* function, which comes before, for the two reasons above.  Nothing is    *)
(* promised of a session whose receiver has begun to stop it before its    *)
(* loop handles an ANNOUNCE: that Pusher's function is never called.  Nor  *)
(* of one that does not stop, its loop waiting to send into its own full   *)
(* channel.                                                                *)
(***************************************************************************)
CodeReleased ==
  \A s \in Session, c \in Channel :
    []<>(/\ stoped[s] /\ registry[c] = s
         /\ Head(roles[s]) = "pusher" \/ ToRelease(s)
         => \/ crashed
            \/ Head(roles[s]) = "player" /\ \E p \in Session : Leaked(p) \/ Clogged(Relay(p)))

(***************************************************************************)
(* Sessions that began to stop close their connections: none stays half    *)
(* stopped for ever, unless a viewer has leaked its own cond.L or a relay  *)
(* waits to send into the full channel of a player that nobody empties:    *)
(* these are the two things that can hold a stop up.                       *)
(***************************************************************************)
StopCloses ==
  []<>(\/ \A s \in Session : stoped[s] => conn[s] = "nil"
       \/ crashed
       \/ \E p \in Session : Leaked(p) \/ Clogged(Relay(p)))
=============================================================================
