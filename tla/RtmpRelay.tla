------------------------------ MODULE RtmpRelay ------------------------------
(***************************************************************************)
(* The RTMP relay (internal/RTMP): one goroutine per connection runs       *)
(* Session.start.  A publisher's goroutine registers a Pusher, reads       *)
(* packets and broadcasts them to the players in its map; a player's       *)
(* goroutine finds a Pusher, joins its map and then only watches its own   *)
(* connection.  Goroutines meet in three places: the PusherManager's map,  *)
(* a Pusher's player map under playerMutex, and Session.stop, which the    *)
(* publisher's goroutine also runs on the players' sessions.               *)
(*                                                                         *)
(* A session makes at most one Pusher or one Player, so both are named by  *)
(* their session.  A step is atomic when it touches shared state once or   *)
(* does all its work inside one uncontended critical section.              *)
(***************************************************************************)
EXTENDS Naturals, Sequences, SequencesExt, FiniteSets

CONSTANTS Session,     \* the connections the server accepts
          Name,        \* stream names
          None,        \* nil
          Kind,        \* the kinds of packet publishers send
          MaxPackets   \* bound: packets one publisher sends

\* What Cache.Write tells apart; everything else is "media".
Header == {"meta", "vseq", "aseq"}

ASSUME NoneAssumption == None \notin Session \cup Name
ASSUME KindAssumption == Kind \subseteq Header \cup {"media"}
ASSUME BoundAssumption == MaxPackets \in Nat

Packet == [kind : Kind, seq : 1 .. MaxPackets]

VARIABLES
  pc,         \* where each session's goroutine is
  target,     \* the session a goroutine is stopping
  ret,        \* where it goes on after that stop
  name,       \* publishInfo.Name
  hook,       \* StopHandleFunc: what stop undoes ("none", "pusher", "player")
  stoped,     \* Session.Stoped
  conn,       \* "up", "lost" (the peer is gone) or "closed" (by the server)
  wErr,       \* the sticky error of the session's buffered writer
  upstream,   \* the Pusher a player found
  playerStop, \* Player.stop
  init,       \* Player.init
  got,        \* packets that reached the player, in order
  joined,     \* history: the packet at which a player was initialised, and
              \* the cached headers it was promised there
  registry,   \* PusherManager.pusher
  players,    \* Pusher.player
  lock,       \* Pusher.playerMutex: "free", or held by the Pusher's goroutine
  todo,       \* players the publisher's goroutine has still to visit
  serving,    \* the player it is visiting
  out,        \* the packets it has still to write to that player
  stream,     \* packets read by the Pusher
  cache,      \* cache.Cache: the last packet of each header kind, 0 when not full
  flv         \* the Pusher's flv file

control == <<pc, target, ret>>
sessions == <<name, hook, stoped, conn, wErr>>
viewers == <<upstream, playerStop, init, got, joined>>
work == <<todo, serving, out>>
media == <<stream, cache, flv>>
vars == <<control, sessions, viewers, registry, players, lock, work, media>>

Points == {"command", "checkName", "register", "streaming", "broadcast", "relay",
           "lookup", "attach", "hook", "check", "playerStop", "playerMark",
           "stop", "hooks", "detach", "unregister", "lockPlayers",
           "stopPlayers", "closeFlv", "close", "gone"}

\* A Pusher or a Player is only used where there is one (Go would dereference nil).
NoNilUsed ==
  \A s \in Session :
    /\ pc[s] \in {"checkName", "register", "lookup", "unregister"} => name[s] # None
    /\ pc[s] \in {"attach", "hook", "check"} \/ hook[s] = "player" => upstream[s] # None
    /\ hook[s] = "pusher" => name[s] # None

SessionTypeOK ==
  /\ pc \in [Session -> Points]
  /\ target \in [Session -> Session]
  /\ ret \in [Session -> {"relay", "stopPlayers", "exit", "gone"}]
  /\ name \in [Session -> Name \cup {None}]
  /\ hook \in [Session -> {"none", "pusher", "player"}]
  /\ stoped \in [Session -> BOOLEAN]
  /\ conn \in [Session -> {"up", "lost", "closed"}]
  /\ wErr \in [Session -> BOOLEAN]

RelayTypeOK ==
  /\ upstream \in [Session -> Session \cup {None}]
  /\ playerStop \in [Session -> BOOLEAN]
  /\ registry \in [Name -> Session \cup {None}]
  /\ players \in [Session -> SUBSET Session]
  /\ lock \in [Session -> {"free", "read", "write"}]
  /\ todo \in [Session -> SUBSET Session]
  /\ serving \in [Session -> Session \cup {None}]

MediaTypeOK ==
  /\ init \in [Session -> BOOLEAN]
  /\ got \in [Session -> Seq(Packet)]
  /\ joined \in [Session -> [at : Nat, headers : Seq(Packet)]]
  /\ out \in [Session -> Seq(Packet)]
  /\ stream \in [Session -> Seq(Packet)]
  /\ cache \in [Session -> [Header -> 0 .. MaxPackets]]
  /\ flv \in [Session -> {"none", "open", "closed"}]

TypeOK == SessionTypeOK /\ RelayTypeOK /\ MediaTypeOK /\ NoNilUsed

Init ==
  /\ pc = [s \in Session |-> "command"]
  /\ target = [s \in Session |-> s]
  /\ ret = [s \in Session |-> "gone"]
  /\ name = [s \in Session |-> None]
  /\ hook = [s \in Session |-> "none"]
  /\ stoped = [s \in Session |-> FALSE]
  /\ conn = [s \in Session |-> "up"]
  /\ wErr = [s \in Session |-> FALSE]
  /\ upstream = [s \in Session |-> None]
  /\ playerStop = [s \in Session |-> FALSE]
  /\ init = [s \in Session |-> FALSE]
  /\ got = [s \in Session |-> << >>]
  /\ joined = [s \in Session |-> [at |-> 0, headers |-> << >>]]
  /\ registry = [n \in Name |-> None]
  /\ players = [s \in Session |-> {}]
  /\ lock = [s \in Session |-> "free"]
  /\ todo = [s \in Session |-> {}]
  /\ serving = [s \in Session |-> None]
  /\ out = [s \in Session |-> << >>]
  /\ stream = [s \in Session |-> << >>]
  /\ cache = [s \in Session |-> [h \in Header |-> 0]]
  /\ flv = [s \in Session |-> "none"]

-----------------------------------------------------------------------------
(* Moving a goroutine.                                                     *)

Goto(s, p) == /\ pc' = [pc EXCEPT ![s] = p]
              /\ UNCHANGED <<target, ret>>

\* Call Player.Stop ("playerStop") or Session.stop ("stop") of t, then go on at r.
Call(s, p, t, r) == /\ pc' = [pc EXCEPT ![s] = p]
                    /\ target' = [target EXCEPT ![s] = t]
                    /\ ret' = [ret EXCEPT ![s] = r]

\* The deferred s.stop() of Session.start: the goroutine ends after it.
Leave(s) == Call(s, "stop", s, "gone")

\* A stop returns to its caller.  Check's return ends start, which runs the deferred stop.
Return(s) == IF ret[s] = "exit" THEN Leave(s) ELSE Goto(s, ret[s])

-----------------------------------------------------------------------------
(* Session.start: the command loop decides what the connection is.         *)

\* handleCmdMsg got "publish" or "play" for stream n: done is set, the loop ends.
Publish(s, n) ==
  /\ pc[s] = "command"
  /\ name' = [name EXCEPT ![s] = n]
  /\ Goto(s, "checkName")
  /\ UNCHANGED <<hook, stoped, conn, wErr, viewers, registry, players, lock, work, media>>

Play(s, n) ==
  /\ pc[s] = "command"
  /\ name' = [name EXCEPT ![s] = n]
  /\ Goto(s, "lookup")
  /\ UNCHANGED <<hook, stoped, conn, wErr, viewers, registry, players, lock, work, media>>

\* The handshake, a read or a command fails (or times out): start returns.
CommandFails(s) ==
  /\ pc[s] = "command"
  /\ Leave(s)
  /\ UNCHANGED <<sessions, viewers, registry, players, lock, work, media>>

\* The peer's connection breaks: reads fail from now on, writes may.
PeerLost(s) ==
  /\ conn[s] = "up"
  /\ conn' = [conn EXCEPT ![s] = "lost"]
  /\ UNCHANGED <<control, name, hook, stoped, wErr, viewers, registry, players, lock, work, media>>

-----------------------------------------------------------------------------
(* A publisher: NewPusher, SendPacket, broadcast.                          *)

\* NewPusher first asks whether the name is taken; if so start returns.
CheckName(s) ==
  /\ pc[s] = "checkName"
  /\ IF registry[name[s]] = None THEN Goto(s, "register") ELSE Leave(s)
  /\ UNCHANGED <<sessions, viewers, registry, players, lock, work, media>>

\* The rest of NewPusher: the FlvWriter is made, then addPusher keeps a present
\* entry, and NewPusher ignores what addPusher answers.
Register(s) ==
  /\ pc[s] = "register"
  /\ flv' = [flv EXCEPT ![s] = "open"]
  /\ registry' = [registry EXCEPT ![name[s]] = IF @ = None THEN s ELSE @]
  /\ hook' = [hook EXCEPT ![s] = "pusher"]
  /\ Goto(s, "streaming")
  /\ UNCHANGED <<name, stoped, conn, wErr, viewers, players, lock, work, stream, cache>>

\* Cache.Write keeps the n-th packet in the cache of its kind; media goes to the gop
\* cache, which keeps nothing.
Written(c, k, n) == [h \in Header |-> IF h = k THEN n ELSE c[h]]

\* readPacket returns a packet, and Cache.Write sees it before the players do.
ReadPacket(s, k) ==
  /\ pc[s] = "streaming"
  /\ conn[s] = "up"
  /\ Len(stream[s]) < MaxPackets
  /\ stream' = [stream EXCEPT ![s] = Append(@, [kind |-> k, seq |-> Len(@) + 1])]
  /\ cache' = [cache EXCEPT ![s] = Written(@, k, Len(stream[s]) + 1)]
  /\ Goto(s, "broadcast")
  /\ UNCHANGED <<sessions, viewers, registry, players, lock, work, flv>>

\* readPacket fails: the peer left, the read timed out or the packet is malformed.
ReadFails(s) ==
  /\ pc[s] = "streaming"
  /\ Leave(s)
  /\ UNCHANGED <<sessions, viewers, registry, players, lock, work, media>>

BroadcastUnlocked(s) ==
  /\ pc[s] = "broadcast"
  /\ todo' = [todo EXCEPT ![s] = players[s]]
  /\ Goto(s, "relay")
  /\ UNCHANGED <<sessions, viewers, registry, players, lock, serving, out, media>>

\* broadcast takes the read lock and starts to range over the players.
Broadcast(s) ==
  /\ pc[s] = "broadcast"
  /\ lock[s] = "free"
  /\ lock' = [lock EXCEPT ![s] = "read"]
  /\ todo' = [todo EXCEPT ![s] = players[s]]
  /\ Goto(s, "relay")
  /\ UNCHANGED <<sessions, viewers, registry, players, serving, out, media>>

\* Cache.Send: each cache that is full writes its packet, in this order.
Cached(s, h) == IF cache[s][h] = 0 THEN << >> ELSE <<stream[s][cache[s][h]]>>
CachedHeaders(s) == Cached(s, "meta") \o Cached(s, "vseq") \o Cached(s, "aseq")

ServeBoth(s, p) ==
  /\ pc[s] = "relay" /\ serving[s] = None /\ p \in todo[s]
  /\ todo' = [todo EXCEPT ![s] = @ \ {p}]
  /\ serving' = [serving EXCEPT ![s] = p]
  /\ out' = [out EXCEPT ![s] = (IF init[p] THEN << >> ELSE CachedHeaders(s))
                               \o <<Last(stream[s])>>]
  /\ joined' = IF init[p] THEN joined
               ELSE [joined EXCEPT ![p] = [at |-> Len(stream[s]), headers |-> CachedHeaders(s)]]
  /\ Goto(s, "relay")
  /\ UNCHANGED <<sessions, upstream, playerStop, init, got, registry, players, lock, media>>

\* The next player of the range: a new one is sent the cache instead of the packet.
Serve(s, p) ==
  /\ pc[s] = "relay" /\ serving[s] = None /\ p \in todo[s]
  /\ todo' = [todo EXCEPT ![s] = @ \ {p}]
  /\ serving' = [serving EXCEPT ![s] = p]
  /\ out' = [out EXCEPT ![s] = IF init[p] THEN <<Last(stream[s])>> ELSE CachedHeaders(s)]
  /\ joined' = IF init[p] THEN joined
               ELSE [joined EXCEPT ![p] = [at |-> Len(stream[s]), headers |-> CachedHeaders(s)]]
  /\ Goto(s, "relay")
  /\ UNCHANGED <<sessions, upstream, playerStop, init, got, registry, players, lock, media>>

\* HandlePacket writes one packet; a lost peer no longer receives it.
WriteOk(s) ==
  LET p == serving[s]
  IN  /\ pc[s] = "relay" /\ p # None /\ out[s] # << >>
      /\ conn[p] # "closed" /\ ~wErr[p]
      /\ got' = IF conn[p] = "up" THEN [got EXCEPT ![p] = Append(@, Head(out[s]))] ELSE got
      /\ out' = [out EXCEPT ![s] = Tail(@)]
      /\ Goto(s, "relay")
      /\ UNCHANGED <<sessions, upstream, playerStop, init, joined, registry, players, lock,
                     todo, serving, media>>

\* The write fails or times out: the error sticks, and HandlePacket stops the player.
WriteFails(s) ==
  LET p == serving[s]
  IN  /\ pc[s] = "relay" /\ p # None /\ out[s] # << >>
      /\ wErr' = [wErr EXCEPT ![p] = TRUE]
      /\ out' = [out EXCEPT ![s] = Tail(@)]
      /\ Call(s, "playerStop", p, "relay")
      /\ UNCHANGED <<name, hook, stoped, conn, viewers, registry, players, lock, todo,
                     serving, media>>

\* The visit ends; after Cache.Send the player counts as initialised.
Served(s) ==
  /\ pc[s] = "relay" /\ serving[s] # None /\ out[s] = << >>
  /\ init' = [init EXCEPT ![serving[s]] = TRUE]
  /\ serving' = [serving EXCEPT ![s] = None]
  /\ Goto(s, "relay")
  /\ UNCHANGED <<sessions, upstream, playerStop, got, joined, registry, players, lock,
                 todo, out, media>>

BroadcastKeepsLock(s) ==
  /\ pc[s] = "relay" /\ serving[s] = None /\ todo[s] = {}
  /\ Goto(s, "streaming")
  /\ UNCHANGED <<sessions, viewers, registry, players, lock, work, media>>

\* The range is over: RUnlock, back to SendPacket's loop (nothing sets Pusher.stop).
BroadcastDone(s) ==
  /\ pc[s] = "relay" /\ serving[s] = None /\ todo[s] = {}
  /\ lock' = [lock EXCEPT ![s] = "free"]
  /\ Goto(s, "streaming")
  /\ UNCHANGED <<sessions, viewers, registry, players, work, media>>

-----------------------------------------------------------------------------
(* A player: getPusher, NewPlayer, Check.                                  *)

LookupUnchecked(s) ==
  /\ pc[s] = "lookup"
  /\ upstream' = [upstream EXCEPT ![s] = registry[name[s]]]
  /\ Goto(s, "attach")
  /\ UNCHANGED <<sessions, playerStop, init, got, joined, registry, players, lock, work, media>>

\* getPusher; without a Pusher the session stops.
Lookup(s) ==
  /\ pc[s] = "lookup"
  /\ LET q == registry[name[s]]
     IN  IF q = None THEN Leave(s) /\ UNCHANGED upstream
         ELSE Goto(s, "attach") /\ upstream' = [upstream EXCEPT ![s] = q]
  /\ UNCHANGED <<sessions, playerStop, init, got, joined, registry, players, lock, work, media>>

\* addPlayer, under the write lock of the Pusher found (which may be gone by now).
Attach(s) ==
  /\ pc[s] = "attach"
  /\ lock[upstream[s]] = "free"
  /\ players' = [players EXCEPT ![upstream[s]] = @ \cup {s}]
  /\ Goto(s, "hook")
  /\ UNCHANGED <<sessions, viewers, registry, lock, work, media>>

\* NewPlayer registers the stop handler only after addPlayer; then Check starts.
Hook(s) ==
  /\ pc[s] = "hook"
  /\ hook' = [hook EXCEPT ![s] = "player"]
  /\ Goto(s, "check")
  /\ UNCHANGED <<name, stoped, conn, wErr, viewers, registry, players, lock, work, media>>

\* Check's readMsg fails: on a malformed chunk or after a silence also while the
\* connection works.
CheckFails(s) ==
  /\ pc[s] = "check"
  /\ Call(s, "playerStop", s, "exit")
  /\ UNCHANGED <<sessions, viewers, registry, players, lock, work, media>>

-----------------------------------------------------------------------------
(* Player.Stop and Session.stop, run by goroutine s on target[s].  Tests   *)
(* and sets of the two flags are separate, unsynchronised accesses.        *)

PlayerStop(s) ==
  /\ pc[s] = "playerStop"
  /\ IF playerStop[target[s]] THEN Return(s) ELSE Goto(s, "playerMark")
  /\ UNCHANGED <<sessions, viewers, registry, players, lock, work, media>>

PlayerMark(s) ==
  /\ pc[s] = "playerMark"
  /\ playerStop' = [playerStop EXCEPT ![target[s]] = TRUE]
  /\ Goto(s, "stop")
  /\ UNCHANGED <<sessions, upstream, init, got, joined, registry, players, lock, work, media>>

Stop(s) ==
  /\ pc[s] = "stop"
  /\ IF stoped[target[s]] THEN Return(s) ELSE Goto(s, "hooks")
  /\ UNCHANGED <<sessions, viewers, registry, players, lock, work, media>>

HooksLockFirst(s) ==
  /\ pc[s] = "hooks"
  /\ stoped' = [stoped EXCEPT ![target[s]] = TRUE]
  /\ Goto(s, CASE hook[target[s]] = "pusher" -> "lockPlayers"
               [] hook[target[s]] = "player" -> "detach"
               [] hook[target[s]] = "none" -> "close")
  /\ UNCHANGED <<name, hook, conn, wErr, viewers, registry, players, lock, work, media>>

\* Stoped is set and the range over StopHandleFunc begins.
Hooks(s) ==
  /\ pc[s] = "hooks"
  /\ stoped' = [stoped EXCEPT ![target[s]] = TRUE]
  /\ Goto(s, CASE hook[target[s]] = "pusher" -> "unregister"
               [] hook[target[s]] = "player" -> "detach"
               [] hook[target[s]] = "none" -> "close")
  /\ UNCHANGED <<name, hook, conn, wErr, viewers, registry, players, lock, work, media>>

DetachUnlocked(s) ==
  /\ pc[s] = "detach"
  /\ LET q == upstream[target[s]]
     IN  players' = [players EXCEPT ![q] = @ \ {target[s]}]
  /\ Goto(s, "close")
  /\ UNCHANGED <<sessions, viewers, registry, lock, work, media>>

\* The player's handler: removerPlayer, under the write lock.
Detach(s) ==
  /\ pc[s] = "detach"
  /\ LET q == upstream[target[s]]
     IN  /\ lock[q] = "free"
         /\ players' = [players EXCEPT ![q] = @ \ {target[s]}]
  /\ Goto(s, "close")
  /\ UNCHANGED <<sessions, viewers, registry, lock, work, media>>

\* The publisher's handler: removePusher deletes by name, whoever is registered.
Unregister(s) ==
  /\ pc[s] = "unregister"
  /\ registry' = [registry EXCEPT ![name[s]] = None]
  /\ Goto(s, "lockPlayers")
  /\ UNCHANGED <<sessions, viewers, players, lock, work, media>>

\* ... then playerMutex.Lock and a Player.Stop for every player in the map.
LockPlayers(s) ==
  /\ pc[s] = "lockPlayers"
  /\ lock[s] = "free"
  /\ lock' = [lock EXCEPT ![s] = "write"]
  /\ todo' = [todo EXCEPT ![s] = players[s]]
  /\ Goto(s, "stopPlayers")
  /\ UNCHANGED <<sessions, viewers, registry, players, serving, out, media>>

StopNextPlayer(s, p) ==
  /\ pc[s] = "stopPlayers" /\ p \in todo[s]
  /\ todo' = [todo EXCEPT ![s] = @ \ {p}]
  /\ Call(s, "playerStop", p, "stopPlayers")
  /\ UNCHANGED <<sessions, viewers, registry, players, lock, serving, out, media>>

UnlockPlayers(s) ==
  /\ pc[s] = "stopPlayers" /\ todo[s] = {}
  /\ lock' = [lock EXCEPT ![s] = "free"]
  /\ Call(s, "closeFlv", s, "gone")
  /\ UNCHANGED <<sessions, viewers, registry, players, work, media>>

\* ... and the flv file is closed.
CloseFlv(s) ==
  /\ pc[s] = "closeFlv"
  /\ flv' = [flv EXCEPT ![s] = "closed"]
  /\ Goto(s, "close")
  /\ UNCHANGED <<sessions, viewers, registry, players, lock, work, stream, cache>>

\* stop ends with Conn.Close.
Close(s) ==
  /\ pc[s] = "close"
  /\ conn' = [conn EXCEPT ![target[s]] = "closed"]
  /\ Return(s)
  /\ UNCHANGED <<name, hook, stoped, wErr, viewers, registry, players, lock, work, media>>

-----------------------------------------------------------------------------
\* What a goroutine does without waiting for its peer or for a mutex: a read fails for
\* certain once the peer is lost or the server closed the connection.
Proceed(s) ==
  \/ CheckName(s) \/ Register(s)
  \/ \E p \in Session : Serve(s, p)
  \/ WriteOk(s) \/ WriteFails(s) \/ Served(s) \/ BroadcastDone(s)
  \/ Lookup(s) \/ Hook(s) \/ (conn[s] # "up" /\ CheckFails(s))
  \/ PlayerStop(s) \/ PlayerMark(s) \/ Stop(s) \/ Hooks(s)
  \/ Unregister(s)
  \/ \E p \in Session : StopNextPlayer(s, p)
  \/ UnlockPlayers(s) \/ CloseFlv(s) \/ Close(s)

\* Acquisitions of a playerMutex.
Acquire(s) == Broadcast(s) \/ Attach(s) \/ Detach(s) \/ LockPlayers(s)

\* What the peers do, and the failures of the network.
Peer(s) ==
  \/ \E n \in Name : Publish(s, n) \/ Play(s, n)
  \/ CommandFails(s) \/ PeerLost(s)
  \/ \E k \in Kind : ReadPacket(s, k)
  \/ ReadFails(s) \/ CheckFails(s)

Next == \E s \in Session : Proceed(s) \/ Acquire(s) \/ Peer(s)

Spec == Init /\ [][Next]_vars

(***************************************************************************)
(* Go runs every runnable goroutine, and a sync.RWMutex starves neither    *)
(* readers nor writers (a blocked Lock keeps new readers out; an unlocking *)
(* writer lets waiting readers in).  Peers are not fair: they may send     *)
(* nothing for ever.                                                       *)
(***************************************************************************)
Fairness == \A s \in Session : WF_vars(Proceed(s)) /\ SF_vars(Acquire(s))

FairSpec == Spec /\ Fairness

-----------------------------------------------------------------------------
(* Properties.                                                             *)

\* The goroutine is inside broadcast's, or the stop handler's, critical section,
\* including the stops it runs there on its players.
Stopping == {"playerStop", "playerMark", "stop", "hooks", "detach", "close"}
InBroadcast(s) == pc[s] = "relay" \/ (pc[s] \in Stopping /\ ret[s] = "relay")
InStopHandler(s) == pc[s] = "stopPlayers" \/ (pc[s] \in Stopping /\ ret[s] = "stopPlayers")

(***************************************************************************)
(* playerMutex is held exactly while its owner is in one of its two        *)
(* critical sections, through every nested Player.Stop and whichever way   *)
(* that returns: no path of broadcast or of the stop handler leaves the    *)
(* mutex locked or gives it up early.                                      *)
(***************************************************************************)
LockDiscipline ==
  \A q \in Session : /\ lock[q] = "read" <=> InBroadcast(q)
                     /\ lock[q] = "write" <=> InStopHandler(q)

(***************************************************************************)
(* Nobody changes a player map while its Pusher ranges over it (Go would   *)
(* abort the whole process: "concurrent map iteration and map write").     *)
(***************************************************************************)
MapStableInRange ==
  [][\A q \in Session : InBroadcast(q) \/ InStopHandler(q) => players'[q] = players[q]]_vars

(***************************************************************************)
(* A Pusher that can be found under a name is one that publishes that name *)
(* and has not removed itself yet, even after duplicate publishers of the  *)
(* name came and went: getPusher never hands out a Pusher whose removal    *)
(* is over.                                                                *)
(***************************************************************************)
RegisteredIsAlive ==
  \A n \in Name : LET q == registry[n] IN
    q # None => /\ name[q] = n /\ hook[q] = "pusher"
                /\ \/ pc[q] \in {"streaming", "broadcast"}
                   \/ InBroadcast(q)
                   \/ pc[q] \in {"stop", "hooks", "unregister"} /\ ret[q] = "gone"

(***************************************************************************)
(* What the three properties above rest on.  Roles: a session is a         *)
(* publisher or a player, never both, and its goroutine is only at points  *)
(* of that role.                                                           *)
(***************************************************************************)
Roles ==
  \A s \in Session :
    /\ pc[s] \in {"command", "lookup", "checkName", "register"} =>
         hook[s] = "none" /\ upstream[s] = None
    /\ pc[s] \in {"lookup", "checkName", "register"} => name[s] # None
    /\ pc[s] \in {"streaming", "broadcast", "relay", "unregister", "lockPlayers",
                  "stopPlayers", "closeFlv"} => hook[s] = "pusher"
    /\ pc[s] \in {"attach", "hook", "check"} => upstream[s] # None
    /\ hook[s] = "pusher" => name[s] # None /\ upstream[s] = None
    /\ hook[s] = "player" => upstream[s] # None

\* A stop in progress is the goroutine's own, or a publisher's on one of its players.
StopFrames ==
  \A s \in Session :
    /\ pc[s] \in Stopping =>
         \/ /\ ret[s] \in {"relay", "stopPlayers"}
            /\ hook[s] = "pusher" /\ upstream[target[s]] = s
         \/ ret[s] = "exit" /\ target[s] = s /\ upstream[s] # None
         \/ ret[s] = "gone" /\ target[s] = s /\ pc[s] \notin {"playerStop", "playerMark"}
    /\ pc[s] = "detach" => hook[target[s]] = "player"
    /\ pc[s] \in {"unregister", "lockPlayers", "closeFlv"} =>
         target[s] = s /\ ret[s] = "gone"

\* A player is only in the map, the range and the hands of the Pusher it found.
OwnPlayers ==
  \A q, p \in Session :
    p \in players[q] \/ p \in todo[q] \/ serving[q] = p => upstream[p] = q

\* Nobody has stopped a publisher that is still before its own stop.
NotYetStopped ==
  \A s \in Session :
    /\ upstream[s] = None
    /\ \/ pc[s] \in {"command", "lookup", "checkName", "register", "streaming", "broadcast"}
       \/ InBroadcast(s)
       \/ pc[s] \in {"stop", "hooks"} /\ ret[s] = "gone"
    => ~stoped[s]

\* The cache points into the stream, and there is a packet to broadcast.
CacheInStream ==
  \A s \in Session :
    /\ Len(stream[s]) <= MaxPackets
    /\ \A h \in Header : cache[s][h] <= Len(stream[s])
    /\ pc[s] = "broadcast" \/ InBroadcast(s) => stream[s] # << >>

(***************************************************************************)
(* The inductive invariant of the relay: every step from a state that      *)
(* satisfies it, reachable or not, leads to one that does.                 *)
(***************************************************************************)
RelayInvariant ==
  /\ TypeOK /\ Roles /\ StopFrames /\ OwnPlayers /\ NotYetStopped
  /\ CacheInStream /\ LockDiscipline /\ RegisteredIsAlive

\* What a player was promised: the cached headers when it was initialised, then
\* every packet after the one at which that happened.
Promised(p) ==
  joined[p].headers \o
    SubSeq(stream[upstream[p]], joined[p].at + 1, Len(stream[upstream[p]]))

(***************************************************************************)
(* A player gets the cached headers first and then the publisher's packets *)
(* without a gap, a repetition or a reordering; and as long as its         *)
(* connection works and no stop has taken it out of the map it has got all *)
(* of them whenever its Pusher waits for the next packet.  (A player that  *)
(* sends a malformed chunk is stopped, and misses packets between          *)
(* removerPlayer and Conn.Close although its connection still works.)      *)
(***************************************************************************)
DeliveredInOrder ==
  \A p \in Session :
    got[p] # << >> \/ init[p] =>
      /\ IsPrefix(got[p], Promised(p))
      /\ (/\ init[p] /\ conn[p] = "up" /\ ~wErr[p] /\ pc[upstream[p]] = "streaming"
          /\ ~stoped[p] \/ p \in players[upstream[p]]) => got[p] = Promised(p)

-----------------------------------------------------------------------------
(* Why packets are delivered in order.                                     *)

\* A player finds a Pusher, and a session that is to become one is not found.
UpstreamPublishes ==
  \A p \in Session : upstream[p] # None => hook[upstream[p]] = "pusher"

\* Only in a broadcast is a player visited, and it and those still to be visited are
\* in the map: nobody leaves or joins while the Pusher ranges.
InRange ==
  \A q \in Session :
    /\ serving[q] # None => InBroadcast(q) /\ serving[q] \in players[q] \ todo[q]
    /\ out[q] # << >> => serving[q] # None
    /\ InBroadcast(q) => todo[q] \subseteq players[q]

\* Whoever takes a player out of its map has marked it as stopped.
MarkedFirst ==
  \A s \in Session : pc[s] = "detach" => stoped[target[s]]

\* Before addPlayer a session is in no map, and was never served.
NotYetJoined ==
  \A s \in Session : pc[s] \in {"command", "lookup", "attach"} =>
    ~init[s] /\ \A q \in Session : s \notin players[q]

\* The Pusher goes on delivering, to the players whose connection works.
Live(q) == pc[q] \in {"streaming", "broadcast"} \/ InBroadcast(q)
Works(p) == conn[p] = "up" /\ ~wErr[p]

\* What the Pusher has still to write to its player p before it reads on.
Coming(p) ==
  LET q == upstream[p]
  IN  IF serving[q] = p THEN out[q]
      ELSE IF pc[q] = "broadcast" \/ (InBroadcast(q) /\ p \in todo[q]) THEN <<Last(stream[q])>>
      ELSE << >>

\* Its Pusher has begun to serve p, so p has been promised something.
Begun(p) == upstream[p] # None /\ (init[p] \/ serving[upstream[p]] = p)

\* What a player got and what it has coming is together what it was promised, until a
\* stop takes it out of the map.
Delivery(p) ==
  /\ joined[p].at <= Len(stream[upstream[p]])
  /\ IsPrefix(got[p], Promised(p))
  /\ Live(upstream[p]) /\ Works(p) =>
       IF p \in players[upstream[p]] THEN Promised(p) = got[p] \o Coming(p) ELSE stoped[p]

Account(p) ==
  /\ init[p] => upstream[p] # None
  /\ ~Begun(p) => got[p] = << >>
  /\ Begun(p) => Delivery(p)

DeliveryInvariant ==
  /\ RelayInvariant /\ UpstreamPublishes /\ InRange /\ MarkedFirst /\ NotYetJoined
  /\ \A p \in Session : Account(p)

-----------------------------------------------------------------------------
(***************************************************************************)
(* Two connections never publish the same stream at the same time; the     *)
(* second is told "pusher already exists" (Session.go:108).                *)
(***************************************************************************)
OnePublisherPerName ==
  \A s, t \in Session :
    pc[s] = "streaming" /\ pc[t] = "streaming" /\ name[s] = name[t] => s = t

\* The goroutine waits for a playerMutex that it holds itself.
SelfBlocked(s) == pc[s] = "detach" /\ upstream[target[s]] = s /\ lock[s] # "free"

(***************************************************************************)
(* Sessions that began to stop close their connections: none stays half    *)
(* stopped for ever, unless some publisher's goroutine has blocked itself  *)
(* on its own playerMutex: that self-lock is the only thing that can hold  *)
(* a stop up.                                                              *)
(***************************************************************************)
StopCloses ==
  []<>(\/ \A s \in Session : stoped[s] => conn[s] = "closed"
       \/ \E q \in Session : SelfBlocked(q))

(***************************************************************************)
(* When a publisher stops, its players exit: "player exit ,because pusher  *)
(* exit" (Pusher.go:98), their connections are closed.                     *)
(***************************************************************************)
PlayersExitWithPusher ==
  \A q, p \in Session : stoped[q] /\ p \in players[q] ~> conn[p] = "closed"
==============================================================================
