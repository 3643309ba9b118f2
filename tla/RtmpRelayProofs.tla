--------------------------- MODULE RtmpRelayProofs ---------------------------
(***************************************************************************)
(* The safety of the RTMP relay for every set of connections and names and *)
(* for streams of every length.  RelayInvariant is inductive: it holds     *)
(* initially, and one lemma for each of its parts shows that every step    *)
(* preserves that part, with one proof step for each action.               *)
(*                                                                         *)
(* The argument: Roles and OwnPlayers say that only publishers run stops   *)
(* for somebody else, and only for players that found them (StopFrames).   *)
(* A stop that runs inside a critical section therefore never enters the   *)
(* publisher's own handler, and returns to the section it was called from, *)
(* which is LockDiscipline; and nobody but a publisher itself marks it     *)
(* stopped (NotYetStopped), so its stop always reaches Unregister, which   *)
(* is RegisteredIsAlive.                                                   *)
(***************************************************************************)
EXTENDS RtmpRelay, SequenceTheorems, TLAPS

\* Every initial state satisfies the invariant.
LEMMA InitInvariant == Init => RelayInvariant
<1> SUFFICES ASSUME Init PROVE RelayInvariant
  OBVIOUS
<1> USE NoneAssumption, BoundAssumption DEF Init
<1>1. SessionTypeOK
  BY DEF SessionTypeOK, Points
<1>2. RelayTypeOK
  BY DEF RelayTypeOK
<1>3. MediaTypeOK
  BY DEF MediaTypeOK
<1>4. NoNilUsed
  BY DEF NoNilUsed
<1>5. Roles /\ StopFrames /\ OwnPlayers
  BY DEF Roles, StopFrames, OwnPlayers, Stopping
<1>6. NotYetStopped /\ CacheInStream
  BY DEF NotYetStopped, CacheInStream, InBroadcast, Stopping
<1>7. LockDiscipline /\ RegisteredIsAlive
  BY DEF LockDiscipline, RegisteredIsAlive, InBroadcast, InStopHandler, Stopping
<1>8. QED
  BY <1>1, <1>2, <1>3, <1>4, <1>5, <1>6, <1>7 DEF RelayInvariant, TypeOK

\* What Cache.Send writes to a new player are packets of the stream.
LEMMA CachedHeadersType ==
  ASSUME RelayInvariant, NEW s \in Session
  PROVE  CachedHeaders(s) \in Seq(Packet)
<1>1. ASSUME NEW h \in Header PROVE Cached(s, h) \in Seq(Packet)
  <2>1. stream[s] \in Seq(Packet) /\ cache[s][h] \in 0 .. Len(stream[s])
    BY BoundAssumption DEF RelayInvariant, TypeOK, MediaTypeOK, CacheInStream
  <2>2. CASE cache[s][h] = 0
    BY <2>2 DEF Cached
  <2>3. CASE cache[s][h] # 0
    <3>1. stream[s][cache[s][h]] \in Packet
      BY <2>1, <2>3
    <3>2. QED
      BY <2>3, <3>1 DEF Cached
  <2>4. QED
    BY <2>2, <2>3
<1>2. QED
  BY <1>1 DEF CachedHeaders, Header

\* A step keeps the state of the sessions and their goroutines well typed.
LEMMA SessionTypeStep ==
  ASSUME RelayInvariant, [Next]_vars
  PROVE  SessionTypeOK'
<1>t. /\ upstream \in [Session -> Session \cup {None}]
      /\ registry \in [Name -> Session \cup {None}]
      /\ serving \in [Session -> Session \cup {None}]
  BY DEF RelayInvariant, TypeOK, SessionTypeOK, RelayTypeOK, MediaTypeOK
<1>i. SessionTypeOK /\ Roles /\ StopFrames
  BY DEF RelayInvariant, TypeOK
<1> USE <1>t, <1>i, NoneAssumption DEF SessionTypeOK, Points, Roles, StopFrames, Stopping,
      control, sessions, viewers, work, media
<1>0. CASE UNCHANGED vars
  BY <1>0 DEF vars
<1> SUFFICES ASSUME NEW s \in Session, Proceed(s) \/ Acquire(s) \/ Peer(s)
               PROVE  SessionTypeOK'
  BY <1>0 DEF Next
<1>1. ASSUME NEW n \in Name, Publish(s, n) PROVE SessionTypeOK'
  BY <1>1 DEF Publish, Goto
<1>2. ASSUME NEW n \in Name, Play(s, n) PROVE SessionTypeOK'
  BY <1>2 DEF Play, Goto
<1>3. CASE CommandFails(s)
  BY <1>3 DEF CommandFails, Leave, Call
<1>4. CASE PeerLost(s)
  BY <1>4 DEF PeerLost
<1>5. CASE CheckName(s)
  BY <1>5 DEF CheckName, Goto, Leave, Call
<1>6. CASE Register(s)
  BY <1>6 DEF Register, Goto
<1>7. ASSUME NEW k \in Kind, ReadPacket(s, k) PROVE SessionTypeOK'
  BY <1>7 DEF ReadPacket, Goto
<1>8. CASE ReadFails(s)
  BY <1>8 DEF ReadFails, Leave, Call
<1>9. CASE Broadcast(s)
  BY <1>9 DEF Broadcast, Goto
<1>10. ASSUME NEW p \in Session, Serve(s, p) PROVE SessionTypeOK'
  BY <1>10 DEF Serve, Goto
<1>11. CASE WriteOk(s)
  BY <1>11 DEF WriteOk, Goto
<1>12. CASE WriteFails(s)
  BY <1>12 DEF WriteFails, Call
<1>13. CASE Served(s)
  BY <1>13 DEF Served, Goto
<1>14. CASE BroadcastDone(s)
  BY <1>14 DEF BroadcastDone, Goto
<1>15. CASE Lookup(s)
  BY <1>15 DEF Lookup, Goto, Leave, Call
<1>16. CASE Attach(s)
  BY <1>16 DEF Attach, Goto
<1>17. CASE Hook(s)
  BY <1>17 DEF Hook, Goto
<1>18. CASE CheckFails(s)
  BY <1>18 DEF CheckFails, Call
<1>19. CASE PlayerStop(s)
  BY <1>19, SMTT(60) DEF PlayerStop, Return, Goto, Leave, Call
<1>20. CASE PlayerMark(s)
  BY <1>20 DEF PlayerMark, Goto
<1>21. CASE Stop(s)
  BY <1>21 DEF Stop, Return, Goto, Leave, Call
<1>22. CASE Hooks(s)
  BY <1>22 DEF Hooks, Goto
<1>23. CASE Detach(s)
  BY <1>23 DEF Detach, Goto
<1>24. CASE Unregister(s)
  BY <1>24 DEF Unregister, Goto
<1>25. CASE LockPlayers(s)
  BY <1>25 DEF LockPlayers, Goto
<1>26. ASSUME NEW p \in Session, StopNextPlayer(s, p) PROVE SessionTypeOK'
  BY <1>26 DEF StopNextPlayer, Call
<1>27. CASE UnlockPlayers(s)
  BY <1>27 DEF UnlockPlayers, Call
<1>28. CASE CloseFlv(s)
  BY <1>28 DEF CloseFlv, Goto
<1>29. CASE Close(s)
  BY <1>29 DEF Close, Return, Goto, Leave, Call
<1>q. QED
  BY <1>1, <1>2, <1>3, <1>4, <1>5, <1>6, <1>7, <1>8, <1>9, <1>10, <1>11, <1>12,
     <1>13, <1>14, <1>15, <1>16, <1>17, <1>18, <1>19, <1>20, <1>21, <1>22, <1>23,
     <1>24, <1>25, <1>26, <1>27, <1>28, <1>29 DEF Proceed, Acquire, Peer

\* A step keeps the directory, the player maps and the locks well typed.
LEMMA RelayTypeStep ==
  ASSUME RelayInvariant, [Next]_vars
  PROVE  RelayTypeOK'
<1>t. /\ pc \in [Session -> Points]
      /\ target \in [Session -> Session]
      /\ name \in [Session -> Name \cup {None}]
  BY DEF RelayInvariant, TypeOK, SessionTypeOK, RelayTypeOK, MediaTypeOK
<1>i. RelayTypeOK /\ Roles /\ StopFrames
  BY DEF RelayInvariant, TypeOK
<1> USE <1>t, <1>i, NoneAssumption DEF RelayTypeOK, Roles, StopFrames, Stopping,
      control, sessions, viewers, work, media
<1>0. CASE UNCHANGED vars
  BY <1>0 DEF vars
<1> SUFFICES ASSUME NEW s \in Session, Proceed(s) \/ Acquire(s) \/ Peer(s)
               PROVE  RelayTypeOK'
  BY <1>0 DEF Next
<1>1. CASE Register(s)
  BY <1>1 DEF Register, Goto
<1>2. CASE Broadcast(s)
  BY <1>2 DEF Broadcast, Goto
<1>3. ASSUME NEW p \in Session, Serve(s, p) PROVE RelayTypeOK'
  BY <1>3 DEF Serve, Goto
<1>4. CASE Served(s)
  BY <1>4 DEF Served, Goto
<1>5. CASE BroadcastDone(s)
  BY <1>5 DEF BroadcastDone, Goto
<1>6. CASE Lookup(s)
  <2>1. registry[name[s]] \in Session \cup {None}
    BY <1>6 DEF Lookup
  <2>2. upstream' \in [Session -> Session \cup {None}]
    BY <1>6, <2>1 DEF Lookup
  <2>3. QED
    BY <1>6, <2>2 DEF Lookup, work
<1>7. CASE Attach(s)
  BY <1>7 DEF Attach, Goto
<1>8. CASE PlayerMark(s)
  BY <1>8 DEF PlayerMark, Goto
<1>9. CASE Detach(s)
  BY <1>9 DEF Detach, Goto
<1>10. CASE Unregister(s)
  BY <1>10 DEF Unregister, Goto
<1>11. CASE LockPlayers(s)
  BY <1>11 DEF LockPlayers, Goto
<1>12. ASSUME NEW p \in Session, StopNextPlayer(s, p) PROVE RelayTypeOK'
  BY <1>12 DEF StopNextPlayer, Call
<1>13. CASE UnlockPlayers(s)
  BY <1>13 DEF UnlockPlayers, Call
<1>14. CASE UNCHANGED <<upstream, playerStop, registry, players, lock, todo, serving>>
  BY <1>14
<1>15. CASE Acquire(s)
  BY <1>2, <1>7, <1>9, <1>11, <1>14, <1>15 DEF Acquire
<1>16. CASE Peer(s)
  BY <1>14, <1>16 DEF Peer, Publish, Play, CommandFails, PeerLost, ReadPacket, ReadFails,
     CheckFails
<1>17. CASE Proceed(s)
  BY <1>1, <1>3, <1>4, <1>5, <1>6, <1>8, <1>10, <1>12, <1>13, <1>14,
     <1>17 DEF Proceed, CheckName, WriteOk, WriteFails, Hook, CheckFails, PlayerStop,
     Stop, Hooks, CloseFlv, Close
<1>18. QED
  BY <1>15, <1>16, <1>17

\* A step keeps the streams, the cache and what players got well typed.
LEMMA MediaTypeStep ==
  ASSUME RelayInvariant, [Next]_vars
  PROVE  MediaTypeOK'
<1>t. /\ pc \in [Session -> Points]
      /\ serving \in [Session -> Session \cup {None}]
  BY DEF RelayInvariant, TypeOK, SessionTypeOK, RelayTypeOK, MediaTypeOK
<1>i. MediaTypeOK /\ CacheInStream /\ NoNilUsed
  BY DEF RelayInvariant, TypeOK
<1> USE <1>t, <1>i, NoneAssumption DEF MediaTypeOK, CacheInStream, InBroadcast,
      control, sessions, viewers, work, media
<1>0. CASE UNCHANGED vars
  BY <1>0 DEF vars
<1> SUFFICES ASSUME NEW s \in Session, Proceed(s) \/ Acquire(s) \/ Peer(s)
               PROVE  MediaTypeOK'
  BY <1>0 DEF Next
<1>1. CASE Register(s)
  BY <1>1 DEF Register, Goto
<1>2. ASSUME NEW k \in Kind, ReadPacket(s, k) PROVE MediaTypeOK'
  <2> DEFINE packet == [kind |-> k, seq |-> Len(stream[s]) + 1]
  <2>1. Len(stream[s]) \in Nat /\ Len(stream[s]) < MaxPackets
    BY <1>2 DEF ReadPacket
  <2>2. packet \in Packet
    BY <2>1, BoundAssumption DEF Packet
  <2>3. stream' \in [Session -> Seq(Packet)]
    BY <1>2, <2>2 DEF ReadPacket
  <2>4. Len(stream[s]) + 1 \in 0 .. MaxPackets
    BY <2>1, BoundAssumption
  <2>5. cache' \in [Session -> [Header -> 0 .. MaxPackets]]
    BY <1>2, <2>4 DEF ReadPacket, Written, Header
  <2>6. QED
    BY <1>2, <2>3, <2>5 DEF ReadPacket, viewers, work
<1>3. ASSUME NEW p \in Session, Serve(s, p) PROVE MediaTypeOK'
  <2>1. CachedHeaders(s) \in Seq(Packet)
    BY CachedHeadersType
  <2>2. Last(stream[s]) \in Packet /\ Len(stream[s]) \in Nat
    BY <1>3 DEF Serve, Last
  <2>3. out' \in [Session -> Seq(Packet)]
    BY <1>3, <2>1, <2>2 DEF Serve
  <2>4. joined' \in [Session -> [at : Nat, headers : Seq(Packet)]]
    BY <1>3, <2>1, <2>2 DEF Serve
  <2>5. QED
    BY <1>3, <2>3, <2>4 DEF Serve, media
<1>4. CASE WriteOk(s)
  <2>1. Head(out[s]) \in Packet /\ Tail(out[s]) \in Seq(Packet)
    BY <1>4 DEF WriteOk
  <2>2. out' \in [Session -> Seq(Packet)]
    BY <1>4, <2>1 DEF WriteOk
  <2>3. got' \in [Session -> Seq(Packet)]
    BY <1>4, <2>1 DEF WriteOk
  <2>4. QED
    BY <1>4, <2>2, <2>3 DEF WriteOk, media
<1>5. CASE WriteFails(s)
  BY <1>5 DEF WriteFails, Call
<1>6. CASE Served(s)
  BY <1>6 DEF Served, Goto
<1>7. CASE CloseFlv(s)
  BY <1>7 DEF CloseFlv, Goto
<1>8. CASE UNCHANGED <<init, got, joined, out, media>>
  BY <1>8
<1>9. CASE Acquire(s)
  BY <1>8, <1>9 DEF Acquire, Broadcast, Attach, Detach, LockPlayers
<1>10. CASE Peer(s)
  BY <1>2, <1>8, <1>10 DEF Peer, Publish, Play, CommandFails, PeerLost, ReadFails, CheckFails
<1>11. CASE Proceed(s)
  BY <1>1, <1>3, <1>4, <1>5, <1>6, <1>7, <1>8, <1>11 DEF Proceed, CheckName,
     BroadcastDone, Lookup, Hook, CheckFails, PlayerStop, PlayerMark, Stop, Hooks,
     Unregister, StopNextPlayer, UnlockPlayers, Close
<1>12. QED
  BY <1>9, <1>10, <1>11

\* A step keeps publishers and players apart (Session.start's two branches).
LEMMA RolesStep ==
  ASSUME RelayInvariant, [Next]_vars
  PROVE  Roles'
<1>t. /\ pc \in [Session -> Points]
      /\ target \in [Session -> Session]
      /\ ret \in [Session -> {"relay", "stopPlayers", "exit", "gone"}]
      /\ name \in [Session -> Name \cup {None}]
      /\ hook \in [Session -> {"none", "pusher", "player"}]
      /\ upstream \in [Session -> Session \cup {None}]
  BY DEF RelayInvariant, TypeOK, SessionTypeOK, RelayTypeOK, MediaTypeOK
<1>i. Roles /\ StopFrames
  BY DEF RelayInvariant, TypeOK
<1> USE <1>t, <1>i, NoneAssumption DEF Roles, StopFrames, Stopping,
      control, sessions, viewers, work, media
<1>0. CASE UNCHANGED vars
  BY <1>0 DEF vars
<1> SUFFICES ASSUME NEW s \in Session, Proceed(s) \/ Acquire(s) \/ Peer(s)
               PROVE  Roles'
  BY <1>0 DEF Next
<1>1. ASSUME NEW n \in Name, Publish(s, n) PROVE Roles'
  BY <1>1 DEF Publish, Goto
<1>2. ASSUME NEW n \in Name, Play(s, n) PROVE Roles'
  BY <1>2 DEF Play, Goto
<1>3. CASE CommandFails(s)
  BY <1>3 DEF CommandFails, Leave, Call
<1>4. CASE PeerLost(s)
  BY <1>4 DEF PeerLost
<1>5. CASE CheckName(s)
  BY <1>5 DEF CheckName, Goto, Leave, Call
<1>6. CASE Register(s)
  BY <1>6 DEF Register, Goto
<1>7. ASSUME NEW k \in Kind, ReadPacket(s, k) PROVE Roles'
  BY <1>7 DEF ReadPacket, Goto
<1>8. CASE ReadFails(s)
  BY <1>8 DEF ReadFails, Leave, Call
<1>9. CASE Broadcast(s)
  BY <1>9 DEF Broadcast, Goto
<1>10. ASSUME NEW p \in Session, Serve(s, p) PROVE Roles'
  BY <1>10 DEF Serve, Goto
<1>11. CASE WriteOk(s)
  BY <1>11 DEF WriteOk, Goto
<1>12. CASE WriteFails(s)
  BY <1>12 DEF WriteFails, Call
<1>13. CASE Served(s)
  BY <1>13 DEF Served, Goto
<1>14. CASE BroadcastDone(s)
  BY <1>14 DEF BroadcastDone, Goto
<1>15. CASE Lookup(s)
  BY <1>15 DEF Lookup, Goto, Leave, Call
<1>16. CASE Attach(s)
  BY <1>16 DEF Attach, Goto
<1>17. CASE Hook(s)
  BY <1>17 DEF Hook, Goto
<1>18. CASE CheckFails(s)
  BY <1>18 DEF CheckFails, Call
<1>19. CASE PlayerStop(s)
  BY <1>19 DEF PlayerStop, Return, Goto, Leave, Call
<1>20. CASE PlayerMark(s)
  BY <1>20 DEF PlayerMark, Goto
<1>21. CASE Stop(s)
  BY <1>21 DEF Stop, Return, Goto, Leave, Call
<1>22. CASE Hooks(s)
  BY <1>22 DEF Hooks, Goto
<1>23. CASE Detach(s)
  BY <1>23 DEF Detach, Goto
<1>24. CASE Unregister(s)
  BY <1>24 DEF Unregister, Goto
<1>25. CASE LockPlayers(s)
  BY <1>25 DEF LockPlayers, Goto
<1>26. ASSUME NEW p \in Session, StopNextPlayer(s, p) PROVE Roles'
  BY <1>26 DEF StopNextPlayer, Call
<1>27. CASE UnlockPlayers(s)
  BY <1>27 DEF UnlockPlayers, Call
<1>28. CASE CloseFlv(s)
  BY <1>28 DEF CloseFlv, Goto
<1>29. CASE Close(s)
  BY <1>29 DEF Close, Return, Goto, Leave, Call
<1>q. QED
  BY <1>1, <1>2, <1>3, <1>4, <1>5, <1>6, <1>7, <1>8, <1>9, <1>10, <1>11, <1>12,
     <1>13, <1>14, <1>15, <1>16, <1>17, <1>18, <1>19, <1>20, <1>21, <1>22, <1>23,
     <1>24, <1>25, <1>26, <1>27, <1>28, <1>29 DEF Proceed, Acquire, Peer

\* A step keeps every stop in progress the goroutine's own or its publisher's.
LEMMA FramesStep ==
  ASSUME RelayInvariant, [Next]_vars
  PROVE  StopFrames'
<1>t. /\ pc \in [Session -> Points]
      /\ target \in [Session -> Session]
      /\ ret \in [Session -> {"relay", "stopPlayers", "exit", "gone"}]
      /\ hook \in [Session -> {"none", "pusher", "player"}]
      /\ upstream \in [Session -> Session \cup {None}]
      /\ todo \in [Session -> SUBSET Session]
      /\ serving \in [Session -> Session \cup {None}]
  BY DEF RelayInvariant, TypeOK, SessionTypeOK, RelayTypeOK, MediaTypeOK
<1>i. Roles /\ StopFrames /\ OwnPlayers
  BY DEF RelayInvariant, TypeOK
<1> USE <1>t, <1>i, NoneAssumption DEF Roles, StopFrames, OwnPlayers, Stopping,
      control, sessions, viewers, work, media
<1>0. CASE UNCHANGED vars
  BY <1>0 DEF vars
<1> SUFFICES ASSUME NEW s \in Session, Proceed(s) \/ Acquire(s) \/ Peer(s)
               PROVE  StopFrames'
  BY <1>0 DEF Next
<1>1. ASSUME NEW n \in Name, Publish(s, n) PROVE StopFrames'
  BY <1>1 DEF Publish, Goto
<1>2. ASSUME NEW n \in Name, Play(s, n) PROVE StopFrames'
  BY <1>2 DEF Play, Goto
<1>3. CASE CommandFails(s)
  BY <1>3 DEF CommandFails, Leave, Call
<1>4. CASE PeerLost(s)
  BY <1>4 DEF PeerLost
<1>5. CASE CheckName(s)
  BY <1>5 DEF CheckName, Goto, Leave, Call
<1>6. CASE Register(s)
  BY <1>6 DEF Register, Goto
<1>7. ASSUME NEW k \in Kind, ReadPacket(s, k) PROVE StopFrames'
  BY <1>7 DEF ReadPacket, Goto
<1>8. CASE ReadFails(s)
  BY <1>8 DEF ReadFails, Leave, Call
<1>9. CASE Broadcast(s)
  BY <1>9 DEF Broadcast, Goto
<1>10. ASSUME NEW p \in Session, Serve(s, p) PROVE StopFrames'
  BY <1>10 DEF Serve, Goto
<1>11. CASE WriteOk(s)
  BY <1>11 DEF WriteOk, Goto
<1>12. CASE WriteFails(s)
  BY <1>12 DEF WriteFails, Call
<1>13. CASE Served(s)
  BY <1>13 DEF Served, Goto
<1>14. CASE BroadcastDone(s)
  BY <1>14 DEF BroadcastDone, Goto
<1>15. CASE Lookup(s)
  BY <1>15 DEF Lookup, Goto, Leave, Call
<1>16. CASE Attach(s)
  BY <1>16 DEF Attach, Goto
<1>17. CASE Hook(s)
  BY <1>17 DEF Hook, Goto
<1>18. CASE CheckFails(s)
  BY <1>18 DEF CheckFails, Call
<1>19. CASE PlayerStop(s)
  BY <1>19 DEF PlayerStop, Return, Goto, Leave, Call
<1>20. CASE PlayerMark(s)
  BY <1>20 DEF PlayerMark, Goto
<1>21. CASE Stop(s)
  BY <1>21 DEF Stop, Return, Goto, Leave, Call
<1>22. CASE Hooks(s)
  BY <1>22 DEF Hooks, Goto
<1>23. CASE Detach(s)
  BY <1>23 DEF Detach, Goto
<1>24. CASE Unregister(s)
  BY <1>24 DEF Unregister, Goto
<1>25. CASE LockPlayers(s)
  BY <1>25 DEF LockPlayers, Goto
<1>26. ASSUME NEW p \in Session, StopNextPlayer(s, p) PROVE StopFrames'
  BY <1>26 DEF StopNextPlayer, Call
<1>27. CASE UnlockPlayers(s)
  BY <1>27 DEF UnlockPlayers, Call
<1>28. CASE CloseFlv(s)
  BY <1>28 DEF CloseFlv, Goto
<1>29. CASE Close(s)
  BY <1>29 DEF Close, Return, Goto, Leave, Call
<1>q. QED
  BY <1>1, <1>2, <1>3, <1>4, <1>5, <1>6, <1>7, <1>8, <1>9, <1>10, <1>11, <1>12,
     <1>13, <1>14, <1>15, <1>16, <1>17, <1>18, <1>19, <1>20, <1>21, <1>22, <1>23,
     <1>24, <1>25, <1>26, <1>27, <1>28, <1>29 DEF Proceed, Acquire, Peer

\* A step keeps players in the map of the Pusher that getPusher found.
LEMMA OwnStep ==
  ASSUME RelayInvariant, [Next]_vars
  PROVE  OwnPlayers'
<1>t. /\ pc \in [Session -> Points]
      /\ target \in [Session -> Session]
      /\ upstream \in [Session -> Session \cup {None}]
      /\ players \in [Session -> SUBSET Session]
      /\ todo \in [Session -> SUBSET Session]
      /\ serving \in [Session -> Session \cup {None}]
  BY DEF RelayInvariant, TypeOK, SessionTypeOK, RelayTypeOK, MediaTypeOK
<1>i. Roles /\ OwnPlayers
  BY DEF RelayInvariant, TypeOK
<1> USE <1>t, <1>i, NoneAssumption DEF Roles, OwnPlayers,
      control, sessions, viewers, work, media
<1>0. CASE UNCHANGED vars
  BY <1>0 DEF vars
<1> SUFFICES ASSUME NEW s \in Session, Proceed(s) \/ Acquire(s) \/ Peer(s)
               PROVE  OwnPlayers'
  BY <1>0 DEF Next
<1>1. CASE Broadcast(s)
  BY <1>1 DEF Broadcast, Goto
<1>2. ASSUME NEW p \in Session, Serve(s, p) PROVE OwnPlayers'
  BY <1>2 DEF Serve, Goto
<1>3. CASE Served(s)
  BY <1>3 DEF Served, Goto
<1>4. CASE Lookup(s)
  BY <1>4 DEF Lookup, Goto, Leave, Call
<1>5. CASE Attach(s)
  BY <1>5 DEF Attach, Goto
<1>6. CASE Detach(s)
  BY <1>6 DEF Detach, Goto
<1>7. CASE LockPlayers(s)
  BY <1>7 DEF LockPlayers, Goto
<1>8. ASSUME NEW p \in Session, StopNextPlayer(s, p) PROVE OwnPlayers'
  BY <1>8 DEF StopNextPlayer, Call
<1>9. CASE UNCHANGED <<upstream, players, todo, serving>>
  BY <1>9
<1>10. CASE Acquire(s)
  BY <1>1, <1>5, <1>6, <1>7, <1>9, <1>10 DEF Acquire
<1>11. CASE Peer(s)
  BY <1>9, <1>11 DEF Peer, Publish, Play, CommandFails, PeerLost, ReadPacket, ReadFails,
     CheckFails
<1>12. CASE Proceed(s)
  BY <1>2, <1>3, <1>4, <1>8, <1>9, <1>12 DEF Proceed, CheckName, Register, WriteOk,
     WriteFails, BroadcastDone, Hook, CheckFails, PlayerStop, PlayerMark, Stop,
     Hooks, Unregister, UnlockPlayers, CloseFlv, Close
<1>13. QED
  BY <1>10, <1>11, <1>12

\* A step by another session never marks a publisher stopped.
LEMMA NotYetStep ==
  ASSUME RelayInvariant, [Next]_vars
  PROVE  NotYetStopped'
<1>t. /\ pc \in [Session -> Points]
      /\ target \in [Session -> Session]
      /\ ret \in [Session -> {"relay", "stopPlayers", "exit", "gone"}]
      /\ upstream \in [Session -> Session \cup {None}]
      /\ stoped \in [Session -> BOOLEAN]
      /\ hook \in [Session -> {"none", "pusher", "player"}]
  BY DEF RelayInvariant, TypeOK, SessionTypeOK, RelayTypeOK, MediaTypeOK
<1>i. Roles /\ StopFrames /\ NotYetStopped
  BY DEF RelayInvariant, TypeOK
<1> USE <1>t, <1>i, NoneAssumption DEF Roles, StopFrames, NotYetStopped, InBroadcast, Stopping,
      control, sessions, viewers, work, media
<1>0. CASE UNCHANGED vars
  BY <1>0 DEF vars
<1> SUFFICES ASSUME NEW s \in Session, Proceed(s) \/ Acquire(s) \/ Peer(s)
               PROVE  NotYetStopped'
  BY <1>0 DEF Next
<1>1. ASSUME NEW n \in Name, Publish(s, n) PROVE NotYetStopped'
  BY <1>1 DEF Publish, Goto
<1>2. ASSUME NEW n \in Name, Play(s, n) PROVE NotYetStopped'
  BY <1>2 DEF Play, Goto
<1>3. CASE CommandFails(s)
  BY <1>3 DEF CommandFails, Leave, Call
<1>4. CASE PeerLost(s)
  BY <1>4 DEF PeerLost
<1>5. CASE CheckName(s)
  BY <1>5 DEF CheckName, Goto, Leave, Call
<1>6. CASE Register(s)
  BY <1>6 DEF Register, Goto
<1>7. ASSUME NEW k \in Kind, ReadPacket(s, k) PROVE NotYetStopped'
  BY <1>7 DEF ReadPacket, Goto
<1>8. CASE ReadFails(s)
  BY <1>8 DEF ReadFails, Leave, Call
<1>9. CASE Broadcast(s)
  BY <1>9 DEF Broadcast, Goto
<1>10. ASSUME NEW p \in Session, Serve(s, p) PROVE NotYetStopped'
  BY <1>10 DEF Serve, Goto
<1>11. CASE WriteOk(s)
  BY <1>11 DEF WriteOk, Goto
<1>12. CASE WriteFails(s)
  BY <1>12 DEF WriteFails, Call
<1>13. CASE Served(s)
  BY <1>13 DEF Served, Goto
<1>14. CASE BroadcastDone(s)
  BY <1>14 DEF BroadcastDone, Goto
<1>15. CASE Lookup(s)
  BY <1>15 DEF Lookup, Goto, Leave, Call
<1>16. CASE Attach(s)
  BY <1>16 DEF Attach, Goto
<1>17. CASE Hook(s)
  BY <1>17 DEF Hook, Goto
<1>18. CASE CheckFails(s)
  BY <1>18 DEF CheckFails, Call
<1>19. CASE PlayerStop(s)
  BY <1>19 DEF PlayerStop, Return, Goto, Leave, Call
<1>20. CASE PlayerMark(s)
  BY <1>20 DEF PlayerMark, Goto
<1>21. CASE Stop(s)
  BY <1>21 DEF Stop, Return, Goto, Leave, Call
<1>22. CASE Hooks(s)
  BY <1>22 DEF Hooks, Goto
<1>23. CASE Detach(s)
  BY <1>23 DEF Detach, Goto
<1>24. CASE Unregister(s)
  BY <1>24 DEF Unregister, Goto
<1>25. CASE LockPlayers(s)
  BY <1>25 DEF LockPlayers, Goto
<1>26. ASSUME NEW p \in Session, StopNextPlayer(s, p) PROVE NotYetStopped'
  BY <1>26 DEF StopNextPlayer, Call
<1>27. CASE UnlockPlayers(s)
  BY <1>27 DEF UnlockPlayers, Call
<1>28. CASE CloseFlv(s)
  BY <1>28 DEF CloseFlv, Goto
<1>29. CASE Close(s)
  BY <1>29 DEF Close, Return, Goto, Leave, Call
<1>q. QED
  BY <1>1, <1>2, <1>3, <1>4, <1>5, <1>6, <1>7, <1>8, <1>9, <1>10, <1>11, <1>12,
     <1>13, <1>14, <1>15, <1>16, <1>17, <1>18, <1>19, <1>20, <1>21, <1>22, <1>23,
     <1>24, <1>25, <1>26, <1>27, <1>28, <1>29 DEF Proceed, Acquire, Peer

\* A step keeps the cache inside the stream.
LEMMA CacheStep ==
  ASSUME RelayInvariant, [Next]_vars
  PROVE  CacheInStream'
<1>t. /\ pc \in [Session -> Points]
      /\ target \in [Session -> Session]
      /\ ret \in [Session -> {"relay", "stopPlayers", "exit", "gone"}]
      /\ hook \in [Session -> {"none", "pusher", "player"}]
      /\ stream \in [Session -> Seq(Packet)]
      /\ cache \in [Session -> [Header -> 0 .. MaxPackets]]
  BY DEF RelayInvariant, TypeOK, SessionTypeOK, RelayTypeOK, MediaTypeOK
<1>i. CacheInStream
  BY DEF RelayInvariant, TypeOK
<1> USE <1>t, <1>i, NoneAssumption DEF CacheInStream, InBroadcast, Stopping, Header,
      control, sessions, viewers, work, media
<1>0. CASE UNCHANGED vars
  BY <1>0 DEF vars
<1> SUFFICES ASSUME NEW s \in Session, Proceed(s) \/ Acquire(s) \/ Peer(s)
               PROVE  CacheInStream'
  BY <1>0 DEF Next
<1>1. ASSUME NEW n \in Name, Publish(s, n) PROVE CacheInStream'
  BY <1>1 DEF Publish, Goto
<1>2. ASSUME NEW n \in Name, Play(s, n) PROVE CacheInStream'
  BY <1>2 DEF Play, Goto
<1>3. CASE CommandFails(s)
  BY <1>3 DEF CommandFails, Leave, Call
<1>4. CASE PeerLost(s)
  BY <1>4 DEF PeerLost
<1>5. CASE CheckName(s)
  BY <1>5 DEF CheckName, Goto, Leave, Call
<1>6. CASE Register(s)
  BY <1>6 DEF Register, Goto
<1>7. ASSUME NEW k \in Kind, ReadPacket(s, k) PROVE CacheInStream'
  <2> DEFINE packet == [kind |-> k, seq |-> Len(stream[s]) + 1]
  <2>1. /\ stream' = [stream EXCEPT ![s] = Append(@, packet)]
        /\ pc' = [pc EXCEPT ![s] = "broadcast"] /\ ret' = ret
        /\ Len(stream[s]) < MaxPackets
    BY <1>7 DEF ReadPacket, Goto
  <2>2. /\ stream[s] \in Seq(Packet) /\ Len(stream[s]) \in Nat
        /\ \A h \in Header : cache[s][h] \in Nat
    BY BoundAssumption
  <2>3. packet \in Packet
    BY <2>1, <2>2, BoundAssumption DEF Packet
  <2>4. stream'[s] = Append(stream[s], packet)
    BY <2>1
  <2> HIDE DEF packet
  <2>5. /\ Len(Append(stream[s], packet)) = Len(stream[s]) + 1
        /\ Append(stream[s], packet) # << >>
    <3> HIDE <1>t, <1>i
    <3>1. QED
      BY <2>2, <2>3, AppendProperties
  <2>6. Len(stream'[s]) = Len(stream[s]) + 1 /\ stream'[s] # << >>
    BY <2>4, <2>5
  <2>7. \A t \in Session \ {s} :
          stream'[t] = stream[t] /\ cache'[t] = cache[t] /\ pc'[t] = pc[t]
    BY <1>7, <2>1 DEF ReadPacket, Written
  <2>8. ASSUME NEW h \in Header PROVE cache'[s][h] <= Len(stream'[s])
    <3>1. cache'[s][h] = cache[s][h] \/ cache'[s][h] = Len(stream[s]) + 1
      BY <1>7 DEF ReadPacket, Written
    <3>2. cache[s][h] <= Len(stream[s]) /\ cache[s][h] \in Nat
      BY <2>2
    <3>3. CASE cache'[s][h] = cache[s][h]
      BY <3>2, <3>3, <2>2, <2>6
    <3>4. CASE cache'[s][h] = Len(stream[s]) + 1
      BY <3>4, <2>2, <2>6
    <3>5. QED
      BY <3>1, <3>3, <3>4
  <2>9. Len(stream[s]) + 1 <= MaxPackets
    BY <2>1, <2>2, BoundAssumption
  <2>10. QED
    BY <2>1, <2>6, <2>7, <2>8, <2>9
<1>8. CASE ReadFails(s)
  BY <1>8 DEF ReadFails, Leave, Call
<1>9. CASE Broadcast(s)
  BY <1>9 DEF Broadcast, Goto
<1>10. ASSUME NEW p \in Session, Serve(s, p) PROVE CacheInStream'
  BY <1>10 DEF Serve, Goto
<1>11. CASE WriteOk(s)
  BY <1>11 DEF WriteOk, Goto
<1>12. CASE WriteFails(s)
  BY <1>12 DEF WriteFails, Call
<1>13. CASE Served(s)
  BY <1>13 DEF Served, Goto
<1>14. CASE BroadcastDone(s)
  BY <1>14 DEF BroadcastDone, Goto
<1>15. CASE Lookup(s)
  BY <1>15, ZenonT(60) DEF Lookup, Goto, Leave, Call
<1>16. CASE Attach(s)
  BY <1>16 DEF Attach, Goto
<1>17. CASE Hook(s)
  BY <1>17 DEF Hook, Goto
<1>18. CASE CheckFails(s)
  BY <1>18 DEF CheckFails, Call
<1>19. CASE PlayerStop(s)
  BY <1>19 DEF PlayerStop, Return, Goto, Leave, Call
<1>20. CASE PlayerMark(s)
  BY <1>20 DEF PlayerMark, Goto
<1>21. CASE Stop(s)
  BY <1>21 DEF Stop, Return, Goto, Leave, Call
<1>22. CASE Hooks(s)
  <2>1. UNCHANGED <<ret, stream, cache>> /\ pc[s] \in Stopping
    BY <1>22 DEF Hooks, Goto, media
  <2>2. pc' = [pc EXCEPT ![s] = pc'[s]] /\ pc'[s] \notin {"broadcast", "relay"}
    BY <1>22 DEF Hooks, Goto
  <2>3. QED
    BY <2>1, <2>2
<1>23. CASE Detach(s)
  BY <1>23 DEF Detach, Goto
<1>24. CASE Unregister(s)
  BY <1>24 DEF Unregister, Goto
<1>25. CASE LockPlayers(s)
  BY <1>25 DEF LockPlayers, Goto
<1>26. ASSUME NEW p \in Session, StopNextPlayer(s, p) PROVE CacheInStream'
  BY <1>26 DEF StopNextPlayer, Call
<1>27. CASE UnlockPlayers(s)
  BY <1>27 DEF UnlockPlayers, Call
<1>28. CASE CloseFlv(s)
  <2>1. UNCHANGED <<ret, stream, cache>> /\ ret[s] = "gone"
    BY <1>28 DEF CloseFlv, Goto, RelayInvariant, StopFrames
  <2>2. QED
    BY <1>28, <2>1 DEF CloseFlv, Goto
<1>29. CASE Close(s)
  BY <1>29 DEF Close, Return, Goto, Leave, Call
<1>q. QED
  BY <1>1, <1>2, <1>3, <1>4, <1>5, <1>6, <1>7, <1>8, <1>9, <1>10, <1>11, <1>12,
     <1>13, <1>14, <1>15, <1>16, <1>17, <1>18, <1>19, <1>20, <1>21, <1>22, <1>23,
     <1>24, <1>25, <1>26, <1>27, <1>28, <1>29 DEF Proceed, Acquire, Peer

\* A step keeps playerMutex and the critical sections in agreement.
LEMMA LockStep ==
  ASSUME RelayInvariant, [Next]_vars
  PROVE  LockDiscipline'
<1>t. /\ pc \in [Session -> Points]
      /\ target \in [Session -> Session]
      /\ ret \in [Session -> {"relay", "stopPlayers", "exit", "gone"}]
      /\ hook \in [Session -> {"none", "pusher", "player"}]
      /\ upstream \in [Session -> Session \cup {None}]
      /\ lock \in [Session -> {"free", "read", "write"}]
  BY DEF RelayInvariant, TypeOK, SessionTypeOK, RelayTypeOK, MediaTypeOK
<1>i. Roles /\ StopFrames /\ LockDiscipline
  BY DEF RelayInvariant, TypeOK
<1> USE <1>t, <1>i, NoneAssumption DEF Roles, StopFrames, LockDiscipline, InBroadcast, InStopHandler, Stopping,
      control, sessions, viewers, work, media
<1>0. CASE UNCHANGED vars
  BY <1>0 DEF vars
<1> SUFFICES ASSUME NEW s \in Session, Proceed(s) \/ Acquire(s) \/ Peer(s)
               PROVE  LockDiscipline'
  BY <1>0 DEF Next
<1>1. ASSUME NEW n \in Name, Publish(s, n) PROVE LockDiscipline'
  BY <1>1 DEF Publish, Goto
<1>2. ASSUME NEW n \in Name, Play(s, n) PROVE LockDiscipline'
  BY <1>2 DEF Play, Goto
<1>3. CASE CommandFails(s)
  BY <1>3 DEF CommandFails, Leave, Call
<1>4. CASE PeerLost(s)
  BY <1>4 DEF PeerLost
<1>5. CASE CheckName(s)
  BY <1>5 DEF CheckName, Goto, Leave, Call
<1>6. CASE Register(s)
  BY <1>6 DEF Register, Goto
<1>7. ASSUME NEW k \in Kind, ReadPacket(s, k) PROVE LockDiscipline'
  BY <1>7 DEF ReadPacket, Goto
<1>8. CASE ReadFails(s)
  BY <1>8 DEF ReadFails, Leave, Call
<1>9. CASE Broadcast(s)
  BY <1>9 DEF Broadcast, Goto
<1>10. ASSUME NEW p \in Session, Serve(s, p) PROVE LockDiscipline'
  BY <1>10 DEF Serve, Goto
<1>11. CASE WriteOk(s)
  BY <1>11 DEF WriteOk, Goto
<1>12. CASE WriteFails(s)
  BY <1>12 DEF WriteFails, Call
<1>13. CASE Served(s)
  BY <1>13 DEF Served, Goto
<1>14. CASE BroadcastDone(s)
  BY <1>14 DEF BroadcastDone, Goto
<1>15. CASE Lookup(s)
  BY <1>15 DEF Lookup, Goto, Leave, Call
<1>16. CASE Attach(s)
  BY <1>16 DEF Attach, Goto
<1>17. CASE Hook(s)
  BY <1>17 DEF Hook, Goto
<1>18. CASE CheckFails(s)
  BY <1>18 DEF CheckFails, Call
<1>19. CASE PlayerStop(s)
  BY <1>19 DEF PlayerStop, Return, Goto, Leave, Call
<1>20. CASE PlayerMark(s)
  BY <1>20 DEF PlayerMark, Goto
<1>21. CASE Stop(s)
  BY <1>21 DEF Stop, Return, Goto, Leave, Call
<1>22. CASE Hooks(s)
  BY <1>22 DEF Hooks, Goto
<1>23. CASE Detach(s)
  BY <1>23 DEF Detach, Goto
<1>24. CASE Unregister(s)
  BY <1>24 DEF Unregister, Goto
<1>25. CASE LockPlayers(s)
  BY <1>25 DEF LockPlayers, Goto
<1>26. ASSUME NEW p \in Session, StopNextPlayer(s, p) PROVE LockDiscipline'
  BY <1>26 DEF StopNextPlayer, Call
<1>27. CASE UnlockPlayers(s)
  BY <1>27 DEF UnlockPlayers, Call
<1>28. CASE CloseFlv(s)
  BY <1>28 DEF CloseFlv, Goto
<1>29. CASE Close(s)
  BY <1>29 DEF Close, Return, Goto, Leave, Call
<1>q. QED
  BY <1>1, <1>2, <1>3, <1>4, <1>5, <1>6, <1>7, <1>8, <1>9, <1>10, <1>11, <1>12,
     <1>13, <1>14, <1>15, <1>16, <1>17, <1>18, <1>19, <1>20, <1>21, <1>22, <1>23,
     <1>24, <1>25, <1>26, <1>27, <1>28, <1>29 DEF Proceed, Acquire, Peer

\* A step keeps every registered Pusher before its own removal.
LEMMA AliveStep ==
  ASSUME RelayInvariant, [Next]_vars
  PROVE  RegisteredIsAlive'
<1>t. /\ pc \in [Session -> Points]
      /\ target \in [Session -> Session]
      /\ ret \in [Session -> {"relay", "stopPlayers", "exit", "gone"}]
      /\ name \in [Session -> Name \cup {None}]
      /\ hook \in [Session -> {"none", "pusher", "player"}]
      /\ upstream \in [Session -> Session \cup {None}]
      /\ stoped \in [Session -> BOOLEAN]
      /\ registry \in [Name -> Session \cup {None}]
  BY DEF RelayInvariant, TypeOK, SessionTypeOK, RelayTypeOK, MediaTypeOK
<1>i. Roles /\ StopFrames /\ NotYetStopped /\ RegisteredIsAlive
  BY DEF RelayInvariant, TypeOK
<1> USE <1>t, <1>i, NoneAssumption DEF Roles, StopFrames, NotYetStopped, RegisteredIsAlive, InBroadcast, Stopping,
      control, sessions, viewers, work, media
<1>0. CASE UNCHANGED vars
  BY <1>0 DEF vars
<1> SUFFICES ASSUME NEW s \in Session, Proceed(s) \/ Acquire(s) \/ Peer(s)
               PROVE  RegisteredIsAlive'
  BY <1>0 DEF Next
<1>1. ASSUME NEW n \in Name, Publish(s, n) PROVE RegisteredIsAlive'
  BY <1>1 DEF Publish, Goto
<1>2. ASSUME NEW n \in Name, Play(s, n) PROVE RegisteredIsAlive'
  BY <1>2 DEF Play, Goto
<1>3. CASE CommandFails(s)
  BY <1>3 DEF CommandFails, Leave, Call
<1>4. CASE PeerLost(s)
  BY <1>4 DEF PeerLost
<1>5. CASE CheckName(s)
  BY <1>5 DEF CheckName, Goto, Leave, Call
<1>6. CASE Register(s)
  BY <1>6 DEF Register, Goto
<1>7. ASSUME NEW k \in Kind, ReadPacket(s, k) PROVE RegisteredIsAlive'
  BY <1>7 DEF ReadPacket, Goto
<1>8. CASE ReadFails(s)
  BY <1>8 DEF ReadFails, Leave, Call
<1>9. CASE Broadcast(s)
  BY <1>9 DEF Broadcast, Goto
<1>10. ASSUME NEW p \in Session, Serve(s, p) PROVE RegisteredIsAlive'
  BY <1>10 DEF Serve, Goto
<1>11. CASE WriteOk(s)
  BY <1>11 DEF WriteOk, Goto
<1>12. CASE WriteFails(s)
  BY <1>12 DEF WriteFails, Call
<1>13. CASE Served(s)
  BY <1>13 DEF Served, Goto
<1>14. CASE BroadcastDone(s)
  BY <1>14 DEF BroadcastDone, Goto
<1>15. CASE Lookup(s)
  BY <1>15 DEF Lookup, Goto, Leave, Call
<1>16. CASE Attach(s)
  BY <1>16 DEF Attach, Goto
<1>17. CASE Hook(s)
  BY <1>17 DEF Hook, Goto
<1>18. CASE CheckFails(s)
  BY <1>18 DEF CheckFails, Call
<1>19. CASE PlayerStop(s)
  BY <1>19 DEF PlayerStop, Return, Goto, Leave, Call
<1>20. CASE PlayerMark(s)
  BY <1>20 DEF PlayerMark, Goto
<1>21. CASE Stop(s)
  BY <1>21 DEF Stop, Return, Goto, Leave, Call
<1>22. CASE Hooks(s)
  BY <1>22 DEF Hooks, Goto
<1>23. CASE Detach(s)
  BY <1>23 DEF Detach, Goto
<1>24. CASE Unregister(s)
  BY <1>24 DEF Unregister, Goto
<1>25. CASE LockPlayers(s)
  BY <1>25 DEF LockPlayers, Goto
<1>26. ASSUME NEW p \in Session, StopNextPlayer(s, p) PROVE RegisteredIsAlive'
  BY <1>26 DEF StopNextPlayer, Call
<1>27. CASE UnlockPlayers(s)
  BY <1>27 DEF UnlockPlayers, Call
<1>28. CASE CloseFlv(s)
  BY <1>28 DEF CloseFlv, Goto
<1>29. CASE Close(s)
  BY <1>29 DEF Close, Return, Goto, Leave, Call
<1>q. QED
  BY <1>1, <1>2, <1>3, <1>4, <1>5, <1>6, <1>7, <1>8, <1>9, <1>10, <1>11, <1>12,
     <1>13, <1>14, <1>15, <1>16, <1>17, <1>18, <1>19, <1>20, <1>21, <1>22, <1>23,
     <1>24, <1>25, <1>26, <1>27, <1>28, <1>29 DEF Proceed, Acquire, Peer

\* The invariant is inductive.
LEMMA InvariantStep == RelayInvariant /\ [Next]_vars => RelayInvariant'
<1> SUFFICES ASSUME RelayInvariant, [Next]_vars PROVE RelayInvariant'
  OBVIOUS
<1>1. SessionTypeOK' /\ RelayTypeOK' /\ MediaTypeOK'
  BY SessionTypeStep, RelayTypeStep, MediaTypeStep
<1>2. Roles' /\ StopFrames' /\ OwnPlayers'
  BY RolesStep, FramesStep, OwnStep
<1>3. NoNilUsed'
  BY <1>2 DEF Roles, NoNilUsed
<1>4. NotYetStopped' /\ CacheInStream'
  BY NotYetStep, CacheStep
<1>5. LockDiscipline' /\ RegisteredIsAlive'
  BY LockStep, AliveStep
<1>6. QED
  BY <1>1, <1>2, <1>3, <1>4, <1>5 DEF RelayInvariant, TypeOK

\* The relay satisfies its inductive invariant.
THEOREM Invariance == Spec => []RelayInvariant
<1>1. QED
  BY InitInvariant, InvariantStep, PTL DEF Spec

\* Every variable keeps its type, and no nil Pusher, Player or name is used.
THEOREM TypeCorrectness == Spec => []TypeOK
<1>1. RelayInvariant => TypeOK
  BY DEF RelayInvariant
<1>2. QED
  BY Invariance, <1>1, PTL

\* playerMutex is held exactly inside broadcast and the stop handler's loop.
THEOREM Locking == Spec => []LockDiscipline
<1>1. RelayInvariant => LockDiscipline
  BY DEF RelayInvariant
<1>2. QED
  BY Invariance, <1>1, PTL

\* getPusher never hands out a Pusher that has removed itself.
THEOREM Registration == Spec => []RegisteredIsAlive
<1>1. RelayInvariant => RegisteredIsAlive
  BY DEF RelayInvariant
<1>2. QED
  BY Invariance, <1>1, PTL

\* No step changes a player map while its Pusher ranges over it.
THEOREM StableMaps == Spec => MapStableInRange
<1> DEFINE Ranging(q) == InBroadcast(q) \/ InStopHandler(q)
<1> DEFINE Stable == \A q \in Session : Ranging(q) => players'[q] = players[q]
<1>1. RelayInvariant /\ [Next]_vars => [Stable]_vars
  <2> SUFFICES ASSUME RelayInvariant, Next PROVE Stable
    BY DEF vars
  <2>1. PICK s \in Session : Proceed(s) \/ Acquire(s) \/ Peer(s)
    BY DEF Next
  <2>2. \A q \in Session : Ranging(q) => lock[q] # "free"
    BY DEF RelayInvariant, LockDiscipline
  <2>3. players \in [Session -> SUBSET Session]
    BY DEF RelayInvariant, TypeOK, RelayTypeOK
  <2> HIDE DEF Ranging
  <2>4. CASE Attach(s)
    BY <2>2, <2>3, <2>4 DEF Attach
  <2>5. CASE Detach(s)
    BY <2>2, <2>3, <2>5 DEF Detach
  <2>6. CASE UNCHANGED players
    BY <2>6
  <2>7. CASE Acquire(s)
    BY <2>4, <2>5, <2>6, <2>7 DEF Acquire, Broadcast, LockPlayers
  <2>8. CASE Peer(s)
    BY <2>6, <2>8 DEF Peer, Publish, Play, CommandFails, PeerLost, ReadPacket, ReadFails,
       CheckFails
  <2>9. CASE Proceed(s)
    BY <2>6, <2>9 DEF Proceed, CheckName, Register, Serve, WriteOk, WriteFails, Served,
      BroadcastDone, Lookup, Hook, CheckFails, PlayerStop, PlayerMark, Stop, Hooks,
      Unregister, StopNextPlayer, UnlockPlayers, CloseFlv, Close
  <2>10. QED
    BY <2>1, <2>7, <2>8, <2>9
<1>2. QED
  BY Invariance, <1>1, PTL DEF Spec, MapStableInRange

-----------------------------------------------------------------------------
(***************************************************************************)
(* What an RTMP player gets, for every set of connections and names and    *)
(* for streams of every length: DeliveredInOrder.  DeliveryInvariant keeps *)
(* an account for each player: what it got and what its Pusher has still   *)
(* to write to it is together what it was promised.                        *)
(*                                                                         *)
(* The argument: most steps serve nobody and leave the accounts alone      *)
(* (QuietStep, QuietSteps), because a player that nobody has marked as     *)
(* stopped is not taken out of a map (MarkedFirst): Check, which may stop  *)
(* it while its connection works, sets stoped before removerPlayer.  The   *)
(* others are taken one by one: reading a packet adds                      *)
(* it to the promise and to what is coming, beginning a broadcast and      *)
(* visiting a player only move what is coming to another place, a write    *)
(* moves it to the player, and the first visit makes the promise.          *)
(***************************************************************************)

\* IsPrefix, element by element.
LEMMA PrefixElements ==
  ASSUME NEW S, NEW s \in Seq(S), NEW t \in Seq(S), Len(s) <= Len(t),
         \A i \in 1 .. Len(s) : s[i] = t[i]
  PROVE  IsPrefix(s, t)
<1>1. Len(s) \in Nat /\ Len(t) \in Nat
  BY LenProperties
<1>2. \A i \in 1 .. Len(s) : s[i] \in S /\ t[i] \in S
  BY <1>1, ElementOfSeq
<1>3. /\ SubSeq(s, 1, Len(s)) \in Seq(S) /\ SubSeq(t, 1, Len(s)) \in Seq(S)
      /\ Len(SubSeq(s, 1, Len(s))) = Len(s) /\ Len(SubSeq(t, 1, Len(s))) = Len(s)
  BY <1>1, <1>2, SubSeqProperties
<1>4. \A i \in 1 .. Len(s) : SubSeq(s, 1, Len(s))[i] = SubSeq(t, 1, Len(s))[i]
  BY <1>1, <1>2, SubSeqProperties
<1>5. SubSeq(s, 1, Len(s)) = SubSeq(t, 1, Len(s))
  BY <1>3, <1>4, SeqEqual
<1>6. QED
  BY <1>5 DEF IsPrefix

\* What is written is a prefix of what is written and what is to come.
LEMMA PrefixOfConcat ==
  ASSUME NEW S, NEW s \in Seq(S), NEW u \in Seq(S)
  PROVE  IsPrefix(s, s \o u)
<1>1. Len(s) \in Nat /\ Len(u) \in Nat
  BY LenProperties
<1>2. /\ s \o u \in Seq(S) /\ Len(s \o u) = Len(s) + Len(u)
      /\ \A i \in 1 .. Len(s) : (s \o u)[i] = s[i]
  BY <1>1, ConcatProperties
<1> DEFINE t == s \o u
<1>3. t \in Seq(S) /\ Len(s) <= Len(t) /\ \A i \in 1 .. Len(s) : s[i] = t[i]
  BY <1>1, <1>2
<1> HIDE DEF t
<1>4. IsPrefix(s, t)
  BY <1>3, PrefixElements
<1>5. QED
  BY <1>4 DEF t

\* A prefix stays one when the sequence grows.
LEMMA PrefixGrows ==
  ASSUME NEW S, NEW s \in Seq(S), NEW t \in Seq(S), NEW u \in Seq(S), IsPrefix(s, t)
  PROVE  IsPrefix(s, t \o u)
<1>1. Len(s) \in Nat /\ Len(t) \in Nat /\ Len(u) \in Nat
  BY LenProperties
<1>2. Len(s) <= Len(t) /\ SubSeq(s, 1, Len(s)) = SubSeq(t, 1, Len(s))
  BY DEF IsPrefix
<1>3. /\ t \o u \in Seq(S) /\ Len(t \o u) = Len(t) + Len(u)
      /\ \A i \in 1 .. Len(t) : (t \o u)[i] = t[i]
  BY <1>1, ConcatProperties
<1>4. ASSUME NEW i \in 1 .. Len(s) PROVE s[i] = t[i]
  <2>1. \A j \in 1 .. Len(s) : s[j] \in S /\ t[j] \in S
    BY <1>1, <1>2, ElementOfSeq
  <2>2. SubSeq(s, 1, Len(s))[i] = s[i] /\ SubSeq(t, 1, Len(s))[i] = t[i]
    BY <1>1, <2>1, SubSeqProperties
  <2>3. QED
    BY <1>2, <2>2
<1> DEFINE v == t \o u
<1>5. v \in Seq(S) /\ Len(s) <= Len(v)
  BY <1>1, <1>2, <1>3
<1>6. \A i \in 1 .. Len(s) : s[i] = v[i]
  BY <1>1, <1>2, <1>3, <1>4
<1> HIDE DEF v
<1>7. IsPrefix(s, v)
  BY <1>5, <1>6, PrefixElements
<1>8. QED
  BY <1>7 DEF v

\* The packets after the first n, when one more is read.
LEMMA SuffixGrows ==
  ASSUME NEW S, NEW s \in Seq(S), NEW e \in S, NEW n \in Nat, n <= Len(s)
  PROVE  /\ SubSeq(s, n + 1, Len(s)) \in Seq(S)
         /\ SubSeq(Append(s, e), n + 1, Len(s) + 1) = SubSeq(s, n + 1, Len(s)) \o <<e>>
<1> DEFINE t == Append(s, e)
<1>1. Len(s) \in Nat
  BY LenProperties
<1>2. /\ t \in Seq(S) /\ Len(t) = Len(s) + 1 /\ t[Len(s) + 1] = e
      /\ \A i \in 1 .. Len(s) : t[i] = s[i]
  BY AppendProperties
<1> HIDE DEF t
<1>3. \A i \in n + 1 .. Len(s) : s[i] \in S /\ t[i] \in S
  BY <1>1, <1>2, ElementOfSeq
<1>4. /\ SubSeq(s, n + 1, Len(s)) \in Seq(S) /\ SubSeq(t, n + 1, Len(s)) \in Seq(S)
      /\ Len(SubSeq(s, n + 1, Len(s))) = Len(s) - n
      /\ Len(SubSeq(t, n + 1, Len(s))) = Len(s) - n
  <2>1. n + 1 \in Int /\ Len(s) \in Int
    BY <1>1
  <2>2. /\ SubSeq(s, n + 1, Len(s)) \in Seq(S)
        /\ Len(SubSeq(s, n + 1, Len(s))) = IF n + 1 <= Len(s) THEN Len(s) - (n + 1) + 1 ELSE 0
    BY <2>1, <1>3, SubSeqProperties
  <2>3. /\ SubSeq(t, n + 1, Len(s)) \in Seq(S)
        /\ Len(SubSeq(t, n + 1, Len(s))) = IF n + 1 <= Len(s) THEN Len(s) - (n + 1) + 1 ELSE 0
    BY <2>1, <1>3, SubSeqProperties
  <2>4. (IF n + 1 <= Len(s) THEN Len(s) - (n + 1) + 1 ELSE 0) = Len(s) - n
    BY <1>1
  <2>5. QED
    BY <2>2, <2>3, <2>4
<1>5. ASSUME NEW i \in 1 .. Len(s) - n
      PROVE  SubSeq(t, n + 1, Len(s))[i] = SubSeq(s, n + 1, Len(s))[i]
  <2>1. i \in 1 .. (Len(s) - (n + 1) + 1) /\ n + 1 \in Int /\ Len(s) \in Int
    BY <1>1
  <2>2. SubSeq(t, n + 1, Len(s))[i] = t[(n + 1) + i - 1]
    BY <2>1, <1>3, SubSeqProperties
  <2>3. SubSeq(s, n + 1, Len(s))[i] = s[(n + 1) + i - 1]
    BY <2>1, <1>3, SubSeqProperties
  <2>4. (n + 1) + i - 1 \in 1 .. Len(s)
    BY <2>1, <1>1
  <2>5. QED
    BY <2>2, <2>3, <2>4, <1>2
<1>6. SubSeq(t, n + 1, Len(s)) = SubSeq(s, n + 1, Len(s))
  BY <1>4, <1>5, SeqEqual
<1>7. SubSeq(t, n + 1, Len(s) + 1) = SubSeq(t, n + 1, (Len(s) + 1) - 1) \o <<t[Len(s) + 1]>>
  <2>1. n + 1 \in 1 .. Len(t) /\ Len(s) + 1 \in n + 1 .. Len(t)
    BY <1>1, <1>2
  <2>2. QED
    BY <2>1, <1>2, SubSeqRecursiveSecond
<1>8. (Len(s) + 1) - 1 = Len(s)
  BY <1>1
<1>9. QED
  BY <1>2, <1>4, <1>6, <1>7, <1>8 DEF t

\* A step leaves every player with a Pusher that has registered itself.
LEMMA PublishesStep ==
  ASSUME DeliveryInvariant, [Next]_vars
  PROVE  UpstreamPublishes'
<1>t. /\ hook \in [Session -> {"none", "pusher", "player"}]
      /\ name \in [Session -> Name \cup {None}]
      /\ upstream \in [Session -> Session \cup {None}]
      /\ registry \in [Name -> Session \cup {None}]
  BY DEF DeliveryInvariant, RelayInvariant, TypeOK, SessionTypeOK, RelayTypeOK
<1>i. UpstreamPublishes /\ Roles /\ RegisteredIsAlive
  BY DEF DeliveryInvariant, RelayInvariant
<1>0. ASSUME UNCHANGED <<upstream, hook>> PROVE UpstreamPublishes'
  BY <1>0, <1>i DEF UpstreamPublishes
<1>1. CASE UNCHANGED vars
  BY <1>0, <1>1 DEF vars, sessions, viewers
<1> SUFFICES ASSUME NEW s \in Session, Proceed(s) \/ Acquire(s) \/ Peer(s)
               PROVE  UpstreamPublishes'
  BY <1>1 DEF Next
<1>2. CASE Register(s)
  BY <1>2, <1>t, <1>i DEF Register, UpstreamPublishes, viewers
<1>3. CASE Lookup(s)
  <2>1. name[s] \in Name
    BY <1>3, <1>t, <1>i DEF Lookup, Roles
  <2>2. registry[name[s]] # None => hook[registry[name[s]]] = "pusher"
    BY <2>1, <1>i DEF RegisteredIsAlive
  <2>3. /\ hook' = hook
        /\ \/ upstream' = upstream
           \/ upstream' = [upstream EXCEPT ![s] = registry[name[s]]]
    BY <1>3 DEF Lookup, sessions
  <2>4. QED
    BY <2>2, <2>3, <1>t, <1>i DEF UpstreamPublishes
<1>4. CASE Hook(s)
  BY <1>4, <1>t, <1>i DEF Hook, UpstreamPublishes, Roles, viewers
<1>5. CASE Acquire(s)
  BY <1>0, <1>5 DEF Acquire, Broadcast, Attach, Detach, LockPlayers, sessions, viewers
<1>6. CASE Peer(s)
  BY <1>0, <1>6 DEF Peer, Publish, Play, CommandFails, PeerLost, ReadPacket, ReadFails,
     CheckFails, sessions, viewers
<1>7. CASE Proceed(s)
  BY <1>0, <1>2, <1>3, <1>4, <1>7 DEF Proceed, CheckName, Serve, WriteOk, WriteFails,
     Served, BroadcastDone, CheckFails, PlayerStop, PlayerMark, Stop, Hooks, Unregister,
     StopNextPlayer, UnlockPlayers, CloseFlv, Close, sessions, viewers
<1>8. QED
  BY <1>5, <1>6, <1>7

\* A step keeps the players of a range where the Pusher will find them.
LEMMA InRangeStep ==
  ASSUME DeliveryInvariant, [Next]_vars
  PROVE  InRange'
<1>t. /\ pc \in [Session -> Points]
      /\ target \in [Session -> Session]
      /\ ret \in [Session -> {"relay", "stopPlayers", "exit", "gone"}]
      /\ upstream \in [Session -> Session \cup {None}]
      /\ players \in [Session -> SUBSET Session]
      /\ lock \in [Session -> {"free", "read", "write"}]
      /\ todo \in [Session -> SUBSET Session]
      /\ serving \in [Session -> Session \cup {None}]
      /\ out \in [Session -> Seq(Packet)]
  BY DEF DeliveryInvariant, RelayInvariant, TypeOK, SessionTypeOK, RelayTypeOK, MediaTypeOK
<1>i. InRange /\ LockDiscipline /\ StopFrames
  BY DEF DeliveryInvariant, RelayInvariant
<1>h. hook \in [Session -> {"none", "pusher", "player"}]
  BY DEF DeliveryInvariant, RelayInvariant, TypeOK, SessionTypeOK
<1>r. Roles
  BY DEF DeliveryInvariant, RelayInvariant
<1> USE <1>t, <1>i, NoneAssumption DEF InRange, InBroadcast, Stopping,
      control, sessions, viewers, work, media
<1>0. CASE UNCHANGED vars
  BY <1>0 DEF vars
<1> SUFFICES ASSUME NEW s \in Session, Proceed(s) \/ Acquire(s) \/ Peer(s)
               PROVE  InRange'
  BY <1>0 DEF Next
<1>1. ASSUME NEW n \in Name, Publish(s, n) PROVE InRange'
  BY <1>1 DEF Publish, Goto
<1>2. ASSUME NEW n \in Name, Play(s, n) PROVE InRange'
  BY <1>2 DEF Play, Goto
<1>3. CASE CommandFails(s)
  BY <1>3 DEF CommandFails, Leave, Call
<1>4. CASE PeerLost(s)
  BY <1>4 DEF PeerLost
<1>5. CASE CheckName(s)
  BY <1>5 DEF CheckName, Goto, Leave, Call
<1>6. CASE Register(s)
  BY <1>6 DEF Register, Goto
<1>7. ASSUME NEW k \in Kind, ReadPacket(s, k) PROVE InRange'
  BY <1>7 DEF ReadPacket, Goto
<1>8. CASE ReadFails(s)
  BY <1>8 DEF ReadFails, Leave, Call
<1>9. CASE Broadcast(s)
  BY <1>9 DEF Broadcast, Goto, LockDiscipline
<1>10. ASSUME NEW p \in Session, Serve(s, p) PROVE InRange'
  BY <1>10 DEF Serve, Goto
<1>11. CASE WriteOk(s)
  BY <1>11 DEF WriteOk, Goto
<1>12. CASE WriteFails(s)
  BY <1>12 DEF WriteFails, Call
<1>13. CASE Served(s)
  BY <1>13 DEF Served, Goto
<1>14. CASE BroadcastDone(s)
  BY <1>14 DEF BroadcastDone, Goto
<1>15. CASE Lookup(s)
  <2>1. UNCHANGED <<players, todo, serving, out>> /\ pc[s] = "lookup"
    BY <1>15 DEF Lookup
  <2>2. \/ pc' = [pc EXCEPT ![s] = "attach"] /\ ret' = ret
        \/ pc' = [pc EXCEPT ![s] = "stop"] /\ ret' = [ret EXCEPT ![s] = "gone"]
    BY <1>15 DEF Lookup, Goto, Leave, Call
  <2>3. \A q \in Session : InBroadcast(q)' <=> InBroadcast(q)
    BY <2>1, <2>2
  <2>4. QED
    BY <2>1, <2>3
<1>16. CASE Attach(s)
  BY <1>16 DEF Attach, Goto
<1>17. CASE Hook(s)
  BY <1>17 DEF Hook, Goto
<1>18. CASE CheckFails(s)
  BY <1>18 DEF CheckFails, Call
<1>19. CASE PlayerStop(s)
  BY <1>19 DEF PlayerStop, Return, Goto, Leave, Call
<1>20. CASE PlayerMark(s)
  BY <1>20 DEF PlayerMark, Goto
<1>21. CASE Stop(s)
  BY <1>21 DEF Stop, Return, Goto, Leave, Call
<1>22. CASE Hooks(s)
  <2>1. /\ UNCHANGED <<ret, players, todo, serving, out>> /\ pc[s] = "hooks"
    BY <1>22 DEF Hooks, Goto
  <2>h. hook[target[s]] \in {"none", "pusher", "player"}
    BY <1>h
  <2>p. /\ hook[target[s]] = "pusher" => pc' = [pc EXCEPT ![s] = "unregister"]
        /\ hook[target[s]] = "player" => pc' = [pc EXCEPT ![s] = "detach"]
        /\ hook[target[s]] = "none" => pc' = [pc EXCEPT ![s] = "close"]
    BY <1>22 DEF Hooks, Goto
  <2>2. ret[s] = "relay" => upstream[target[s]] = s
    BY <2>1, <1>i DEF StopFrames
  <2>3. hook[target[s]] = "pusher" => ret[s] # "relay"
    BY <2>2, <1>r DEF Roles
  <2>4. \A q \in Session : InBroadcast(q)' <=> InBroadcast(q)
    BY <2>1, <2>h, <2>p, <2>3
  <2>5. QED
    BY <2>1, <2>4
<1>23. CASE Detach(s)
  BY <1>23 DEF Detach, Goto, LockDiscipline
<1>24. CASE Unregister(s)
  BY <1>24 DEF Unregister, Goto
<1>25. CASE LockPlayers(s)
  BY <1>25 DEF LockPlayers, Goto
<1>26. ASSUME NEW p \in Session, StopNextPlayer(s, p) PROVE InRange'
  BY <1>26 DEF StopNextPlayer, Call
<1>27. CASE UnlockPlayers(s)
  BY <1>27 DEF UnlockPlayers, Call
<1>28. CASE CloseFlv(s)
  BY <1>28 DEF CloseFlv, Goto, StopFrames
<1>29. CASE Close(s)
  <2>1. /\ UNCHANGED <<players, todo, serving, out>> /\ pc[s] = "close"
        /\ \/ ret[s] = "exit" /\ pc' = [pc EXCEPT ![s] = "stop"]
                             /\ ret' = [ret EXCEPT ![s] = "gone"]
           \/ ret[s] # "exit" /\ pc' = [pc EXCEPT ![s] = ret[s]] /\ ret' = ret
    BY <1>29 DEF Close, Return, Goto, Leave, Call
  <2>2. \A q \in Session : InBroadcast(q)' <=> InBroadcast(q)
    BY <2>1
  <2>3. QED
    BY <2>1, <2>2
<1>q. QED
  BY <1>1, <1>2, <1>3, <1>4, <1>5, <1>6, <1>7, <1>8, <1>9, <1>10, <1>11, <1>12,
     <1>13, <1>14, <1>15, <1>16, <1>17, <1>18, <1>19, <1>20, <1>21, <1>22, <1>23,
     <1>24, <1>25, <1>26, <1>27, <1>28, <1>29 DEF Proceed, Acquire, Peer

\* A step brings a goroutine to removerPlayer only after stoped is set.
LEMMA MarkedFirstStep ==
  ASSUME DeliveryInvariant, [Next]_vars
  PROVE  MarkedFirst'
<1>t. /\ pc \in [Session -> Points]
      /\ target \in [Session -> Session]
      /\ ret \in [Session -> {"relay", "stopPlayers", "exit", "gone"}]
      /\ hook \in [Session -> {"none", "pusher", "player"}]
      /\ stoped \in [Session -> BOOLEAN]
      /\ upstream \in [Session -> Session \cup {None}]
  BY DEF DeliveryInvariant, RelayInvariant, TypeOK, SessionTypeOK, RelayTypeOK, MediaTypeOK
<1>i. MarkedFirst /\ Roles
  BY DEF DeliveryInvariant, RelayInvariant
<1> USE <1>t, <1>i, NoneAssumption DEF MarkedFirst, Roles,
      control, sessions, viewers, work, media
<1>0. CASE UNCHANGED vars
  BY <1>0 DEF vars
<1> SUFFICES ASSUME NEW s \in Session, Proceed(s) \/ Acquire(s) \/ Peer(s)
               PROVE  MarkedFirst'
  BY <1>0 DEF Next
<1>1. ASSUME NEW n \in Name, Publish(s, n) PROVE MarkedFirst'
  BY <1>1 DEF Publish, Goto
<1>2. ASSUME NEW n \in Name, Play(s, n) PROVE MarkedFirst'
  BY <1>2 DEF Play, Goto
<1>3. CASE CommandFails(s)
  BY <1>3 DEF CommandFails, Leave, Call
<1>4. CASE PeerLost(s)
  BY <1>4 DEF PeerLost
<1>5. CASE CheckName(s)
  BY <1>5 DEF CheckName, Goto, Leave, Call
<1>6. CASE Register(s)
  BY <1>6 DEF Register, Goto
<1>7. ASSUME NEW k \in Kind, ReadPacket(s, k) PROVE MarkedFirst'
  BY <1>7 DEF ReadPacket, Goto
<1>8. CASE ReadFails(s)
  BY <1>8 DEF ReadFails, Leave, Call
<1>9. CASE Broadcast(s)
  BY <1>9 DEF Broadcast, Goto
<1>10. ASSUME NEW p \in Session, Serve(s, p) PROVE MarkedFirst'
  BY <1>10 DEF Serve, Goto
<1>11. CASE WriteOk(s)
  BY <1>11 DEF WriteOk, Goto
<1>12. CASE WriteFails(s)
  BY <1>12 DEF WriteFails, Call
<1>13. CASE Served(s)
  BY <1>13 DEF Served, Goto
<1>14. CASE BroadcastDone(s)
  BY <1>14 DEF BroadcastDone, Goto
<1>15. CASE Lookup(s)
  BY <1>15 DEF Lookup, Goto, Leave, Call
<1>16. CASE Attach(s)
  BY <1>16 DEF Attach, Goto
<1>17. CASE Hook(s)
  BY <1>17 DEF Hook, Goto
<1>18. CASE CheckFails(s)
  BY <1>18 DEF CheckFails, Call
<1>19. CASE PlayerStop(s)
  BY <1>19 DEF PlayerStop, Return, Goto, Leave, Call
<1>20. CASE PlayerMark(s)
  BY <1>20 DEF PlayerMark, Goto
<1>21. CASE Stop(s)
  BY <1>21 DEF Stop, Return, Goto, Leave, Call
<1>22. CASE Hooks(s)
  BY <1>22 DEF Hooks, Goto
<1>23. CASE Detach(s)
  BY <1>23 DEF Detach, Goto
<1>24. CASE Unregister(s)
  BY <1>24 DEF Unregister, Goto
<1>25. CASE LockPlayers(s)
  BY <1>25 DEF LockPlayers, Goto
<1>26. ASSUME NEW p \in Session, StopNextPlayer(s, p) PROVE MarkedFirst'
  BY <1>26 DEF StopNextPlayer, Call
<1>27. CASE UnlockPlayers(s)
  BY <1>27 DEF UnlockPlayers, Call
<1>28. CASE CloseFlv(s)
  BY <1>28 DEF CloseFlv, Goto
<1>29. CASE Close(s)
  BY <1>29 DEF Close, Return, Goto, Leave, Call
<1>q. QED
  BY <1>1, <1>2, <1>3, <1>4, <1>5, <1>6, <1>7, <1>8, <1>9, <1>10, <1>11, <1>12,
     <1>13, <1>14, <1>15, <1>16, <1>17, <1>18, <1>19, <1>20, <1>21, <1>22, <1>23,
     <1>24, <1>25, <1>26, <1>27, <1>28, <1>29 DEF Proceed, Acquire, Peer

\* Only addPlayer, whose caller goes on to Hook, puts a session into a map.
LEMMA NotYetJoinedStep ==
  ASSUME DeliveryInvariant, [Next]_vars
  PROVE  NotYetJoined'
<1>t. /\ pc \in [Session -> Points]
      /\ target \in [Session -> Session]
      /\ ret \in [Session -> {"relay", "stopPlayers", "exit", "gone"}]
      /\ hook \in [Session -> {"none", "pusher", "player"}]
      /\ init \in [Session -> BOOLEAN]
      /\ players \in [Session -> SUBSET Session]
      /\ serving \in [Session -> Session \cup {None}]
      /\ upstream \in [Session -> Session \cup {None}]
  BY DEF DeliveryInvariant, RelayInvariant, TypeOK, SessionTypeOK, RelayTypeOK, MediaTypeOK
<1>i. NotYetJoined /\ Roles /\ InRange
  BY DEF DeliveryInvariant, RelayInvariant
<1> USE <1>t, <1>i, NoneAssumption DEF NotYetJoined, Roles,
      control, sessions, viewers, work, media
<1>0. CASE UNCHANGED vars
  BY <1>0 DEF vars
<1> SUFFICES ASSUME NEW s \in Session, Proceed(s) \/ Acquire(s) \/ Peer(s)
               PROVE  NotYetJoined'
  BY <1>0 DEF Next
<1>1. ASSUME NEW n \in Name, Publish(s, n) PROVE NotYetJoined'
  BY <1>1 DEF Publish, Goto
<1>2. ASSUME NEW n \in Name, Play(s, n) PROVE NotYetJoined'
  BY <1>2 DEF Play, Goto
<1>3. CASE CommandFails(s)
  BY <1>3 DEF CommandFails, Leave, Call
<1>4. CASE PeerLost(s)
  BY <1>4 DEF PeerLost
<1>5. CASE CheckName(s)
  BY <1>5 DEF CheckName, Goto, Leave, Call
<1>6. CASE Register(s)
  BY <1>6 DEF Register, Goto
<1>7. ASSUME NEW k \in Kind, ReadPacket(s, k) PROVE NotYetJoined'
  BY <1>7 DEF ReadPacket, Goto
<1>8. CASE ReadFails(s)
  BY <1>8 DEF ReadFails, Leave, Call
<1>9. CASE Broadcast(s)
  BY <1>9 DEF Broadcast, Goto
<1>10. ASSUME NEW p \in Session, Serve(s, p) PROVE NotYetJoined'
  BY <1>10 DEF Serve, Goto
<1>11. CASE WriteOk(s)
  BY <1>11 DEF WriteOk, Goto
<1>12. CASE WriteFails(s)
  BY <1>12 DEF WriteFails, Call
<1>13. CASE Served(s)
  BY <1>13 DEF Served, Goto, InRange
<1>14. CASE BroadcastDone(s)
  BY <1>14 DEF BroadcastDone, Goto
<1>15. CASE Lookup(s)
  BY <1>15 DEF Lookup, Goto, Leave, Call
<1>16. CASE Attach(s)
  BY <1>16 DEF Attach, Goto
<1>17. CASE Hook(s)
  BY <1>17 DEF Hook, Goto
<1>18. CASE CheckFails(s)
  BY <1>18 DEF CheckFails, Call
<1>19. CASE PlayerStop(s)
  BY <1>19 DEF PlayerStop, Return, Goto, Leave, Call
<1>20. CASE PlayerMark(s)
  BY <1>20 DEF PlayerMark, Goto
<1>21. CASE Stop(s)
  BY <1>21 DEF Stop, Return, Goto, Leave, Call
<1>22. CASE Hooks(s)
  BY <1>22 DEF Hooks, Goto
<1>23. CASE Detach(s)
  BY <1>23 DEF Detach, Goto
<1>24. CASE Unregister(s)
  BY <1>24 DEF Unregister, Goto
<1>25. CASE LockPlayers(s)
  BY <1>25 DEF LockPlayers, Goto
<1>26. ASSUME NEW p \in Session, StopNextPlayer(s, p) PROVE NotYetJoined'
  BY <1>26 DEF StopNextPlayer, Call
<1>27. CASE UnlockPlayers(s)
  BY <1>27 DEF UnlockPlayers, Call
<1>28. CASE CloseFlv(s)
  BY <1>28 DEF CloseFlv, Goto
<1>29. CASE Close(s)
  BY <1>29 DEF Close, Return, Goto, Leave, Call
<1>q. QED
  BY <1>1, <1>2, <1>3, <1>4, <1>5, <1>6, <1>7, <1>8, <1>9, <1>10, <1>11, <1>12,
     <1>13, <1>14, <1>15, <1>16, <1>17, <1>18, <1>19, <1>20, <1>21, <1>22, <1>23,
     <1>24, <1>25, <1>26, <1>27, <1>28, <1>29 DEF Proceed, Acquire, Peer

\* What a player got and what it was promised are packets.
LEMMA PromisedType ==
  ASSUME DeliveryInvariant, NEW p \in Session, Begun(p)
  PROVE  /\ upstream[p] \in Session /\ stream[upstream[p]] \in Seq(Packet)
         /\ Len(stream[upstream[p]]) \in Nat
         /\ joined[p].at \in Nat /\ joined[p].at <= Len(stream[upstream[p]])
         /\ joined[p].headers \in Seq(Packet) /\ got[p] \in Seq(Packet)
         /\ SubSeq(stream[upstream[p]], joined[p].at + 1, Len(stream[upstream[p]])) \in Seq(Packet)
         /\ Promised(p) \in Seq(Packet)
<1>1. /\ upstream[p] \in Session
      /\ \A q \in Session : stream[q] \in Seq(Packet)
      /\ got[p] \in Seq(Packet)
      /\ joined[p] \in [at : Nat, headers : Seq(Packet)]
  BY DEF DeliveryInvariant, RelayInvariant, TypeOK, RelayTypeOK, MediaTypeOK, Begun
<1>2. joined[p].at <= Len(stream[upstream[p]])
  BY DEF DeliveryInvariant, Account, Delivery
<1>3. stream[upstream[p]] \in Seq(Packet) /\ Len(stream[upstream[p]]) \in Nat
  BY <1>1, LenProperties
<1>4. joined[p].at \in Nat /\ joined[p].headers \in Seq(Packet)
  BY <1>1
<1>5. SubSeq(stream[upstream[p]], joined[p].at + 1, Len(stream[upstream[p]])) \in Seq(Packet)
  <2>1. \A i \in joined[p].at + 1 .. Len(stream[upstream[p]]) : stream[upstream[p]][i] \in Packet
    BY <1>3, <1>4, ElementOfSeq
  <2>2. QED
    BY <1>3, <1>4, <2>1, SubSeqProperties
<1>6. Promised(p) \in Seq(Packet)
  BY <1>4, <1>5, ConcatProperties DEF Promised
<1>7. QED
  BY <1>1, <1>2, <1>3, <1>4, <1>5, <1>6

\* Nothing that a player's account is about changes, or its delivery is over.
LEMMA AccountKept ==
  ASSUME DeliveryInvariant, NEW p \in Session,
         upstream'[p] = upstream[p], init'[p] = init[p], got'[p] = got[p],
         joined'[p] = joined[p],
         Begun(p)' <=> Begun(p),
         Begun(p) => stream'[upstream[p]] = stream[upstream[p]],
         stoped[p] => stoped'[p],
         Begun(p) /\ Live(upstream[p])' /\ Works(p)' =>
           /\ Live(upstream[p]) /\ Works(p)
           /\ p \in players'[upstream[p]] => p \in players[upstream[p]] /\ Coming(p)' = Coming(p)
           /\ p \in players[upstream[p]] => p \in players'[upstream[p]] \/ stoped'[p]
  PROVE  Account(p)'
<1>1. Account(p)
  BY DEF DeliveryInvariant
<1>2. Begun(p)' <=> Begun(p)
  OBVIOUS
<1>3. CASE ~Begun(p)
  BY <1>1, <1>2, <1>3 DEF Account
<1>4. CASE Begun(p)
  <2>1. upstream[p] # None
    BY <1>4 DEF Begun
  <2>2. Promised(p)' = Promised(p)
    BY <1>4 DEF Promised
  <2>3. Delivery(p)
    BY <1>1, <1>4 DEF Account
  <2>4. joined'[p].at <= Len(stream'[upstream'[p]]) /\ IsPrefix(got'[p], Promised(p)')
    BY <1>4, <2>2, <2>3 DEF Delivery
  <2>5. ASSUME Live(upstream[p])', Works(p)'
        PROVE  IF p \in players'[upstream'[p]] THEN Promised(p)' = got'[p] \o Coming(p)'
               ELSE stoped'[p]
    <3>1. Live(upstream[p]) /\ Works(p)
      BY <1>4, <2>5
    <3>2. CASE p \in players'[upstream[p]]
      <4>1. p \in players[upstream[p]] /\ Coming(p)' = Coming(p)
        BY <1>4, <2>5, <3>2
      <4>2. Promised(p) = got[p] \o Coming(p)
        BY <2>3, <3>1, <4>1 DEF Delivery
      <4>3. QED
        BY <2>2, <3>2, <4>1, <4>2
    <3>3. CASE p \notin players'[upstream[p]]
      <4>1. stoped'[p]
        BY <1>4, <2>3, <2>5, <3>1, <3>3 DEF Delivery
      <4>2. QED
        BY <3>3, <4>1
    <3>4. QED
      BY <3>2, <3>3
  <2>6. Delivery(p)'
    BY <2>4, <2>5 DEF Delivery
  <2>7. QED
    BY <1>1, <1>2, <1>4, <2>1, <2>6 DEF Account
<1>5. QED
  BY <1>3, <1>4

\* A step of s that serves nobody leaves every account as it was, if it does not begin
\* a delivery, mend a connection, take a player that is not stopped out of a map or
\* put one that was served before into it.
LEMMA QuietStep ==
  ASSUME DeliveryInvariant, NEW s \in Session,
         UNCHANGED <<upstream, init, got, joined, serving, out, stream>>,
         \A q \in Session \ {s} : pc'[q] = pc[q] /\ ret'[q] = ret[q] /\ todo'[q] = todo[q],
         hook[s] = "pusher" /\ Live(s)' =>
           /\ Live(s) /\ todo'[s] = todo[s]
           /\ InBroadcast(s)' <=> InBroadcast(s)
           /\ pc'[s] = "broadcast" <=> pc[s] = "broadcast",
         \A p \in Session : Works(p)' => Works(p),
         \A p \in Session : stoped[p] => stoped'[p],
         \A p \in Session : Begun(p) /\ p \in players[upstream[p]] =>
           p \in players'[upstream[p]] \/ stoped'[p],
         \A p \in Session : Begun(p) /\ p \in players'[upstream[p]] => p \in players[upstream[p]]
  PROVE  \A p \in Session : Account(p)'
<1> TAKE p \in Session
<1>1. upstream[p] # None => upstream[p] \in Session /\ hook[upstream[p]] = "pusher"
  BY DEF DeliveryInvariant, RelayInvariant, TypeOK, RelayTypeOK, UpstreamPublishes
<1>2. ASSUME upstream[p] # None, Live(upstream[p])', Works(p)'
      PROVE  Live(upstream[p]) /\ Works(p) /\ Coming(p)' = Coming(p)
  <2> DEFINE q == upstream[p]
  <2>1. q' = q
    OBVIOUS
  <2>2. Works(p)
    BY <1>2
  <2>3. Live(q) /\ (InBroadcast(q)' <=> InBroadcast(q)) /\ todo'[q] = todo[q]
        /\ (pc'[q] = "broadcast" <=> pc[q] = "broadcast")
    <3>1. CASE q = s
      <4>1. Live(s)'
        BY <1>2, <3>1, <2>1 DEF Live, InBroadcast
      <4>2. QED
        BY <1>1, <1>2, <3>1, <4>1 DEF InBroadcast
    <3>2. CASE q # s
      <4>1. pc'[q] = pc[q] /\ ret'[q] = ret[q] /\ todo'[q] = todo[q]
        BY <1>1, <1>2, <3>2
      <4>2. InBroadcast(q)' <=> InBroadcast(q)
        BY <4>1, <2>1 DEF InBroadcast
      <4>3. QED
        BY <1>2, <4>1, <4>2, <2>1 DEF Live
    <3>3. QED
      BY <3>1, <3>2
  <2>4. Coming(p)' = Coming(p)
    BY <2>1, <2>3 DEF Coming
  <2>5. QED
    BY <2>2, <2>3, <2>4
<1>3. Begun(p) => upstream[p] # None
  BY DEF Begun
<1>4. Begun(p)' <=> Begun(p)
  BY DEF Begun
<1>5. QED
  BY <1>2, <1>3, <1>4, AccountKept

\* A step that serves nobody keeps every account (stops, joins and lookups included).
LEMMA QuietSteps ==
  ASSUME DeliveryInvariant, NEW s \in Session,
         \/ \E n \in Name : Publish(s, n) \/ Play(s, n)
         \/ CommandFails(s) \/ PeerLost(s) \/ CheckName(s) \/ Register(s) \/ ReadFails(s)
         \/ Attach(s) \/ Hook(s) \/ CheckFails(s) \/ PlayerStop(s) \/ PlayerMark(s)
         \/ Stop(s) \/ Hooks(s) \/ Detach(s) \/ Unregister(s) \/ LockPlayers(s)
         \/ \E p \in Session : StopNextPlayer(s, p)
         \/ UnlockPlayers(s) \/ CloseFlv(s) \/ Close(s)
  PROVE  \A p \in Session : Account(p)'
<1>t. /\ pc \in [Session -> Points]
      /\ target \in [Session -> Session]
      /\ ret \in [Session -> {"relay", "stopPlayers", "exit", "gone"}]
      /\ hook \in [Session -> {"none", "pusher", "player"}]
      /\ conn \in [Session -> {"up", "lost", "closed"}]
      /\ wErr \in [Session -> BOOLEAN]
      /\ stoped \in [Session -> BOOLEAN]
      /\ upstream \in [Session -> Session \cup {None}]
      /\ players \in [Session -> SUBSET Session]
      /\ todo \in [Session -> SUBSET Session]
  BY DEF DeliveryInvariant, RelayInvariant, TypeOK, SessionTypeOK, RelayTypeOK
<1>i. /\ Roles /\ StopFrames /\ LockDiscipline /\ MarkedFirst /\ NotYetJoined /\ InRange
  BY DEF DeliveryInvariant, RelayInvariant
<1>1. UNCHANGED <<upstream, init, got, joined, serving, out, stream>>
  BY DEF Publish, Play, CommandFails, PeerLost, CheckName, Register, ReadFails, Attach, Hook,
     CheckFails, PlayerStop, PlayerMark, Stop, Hooks, Detach, Unregister, LockPlayers,
     StopNextPlayer, UnlockPlayers, CloseFlv, Close, viewers, work, media
<1>2. ASSUME NEW q \in Session \ {s}
      PROVE  pc'[q] = pc[q] /\ ret'[q] = ret[q] /\ todo'[q] = todo[q]
  BY <1>2, <1>t DEF Publish, Play, CommandFails, PeerLost, CheckName, Register, ReadFails, Attach,
     Hook, CheckFails, PlayerStop, PlayerMark, Stop, Hooks, Detach, Unregister, LockPlayers,
     StopNextPlayer, UnlockPlayers, CloseFlv, Close, Goto, Call, Leave, Return, control, work
<1>3. ASSUME NEW p \in Session, Works(p)' PROVE Works(p)
  BY <1>3, <1>t DEF Publish, Play, CommandFails, PeerLost, CheckName, Register, ReadFails, Attach,
     Hook, CheckFails, PlayerStop, PlayerMark, Stop, Hooks, Detach, Unregister, LockPlayers,
     StopNextPlayer, UnlockPlayers, CloseFlv, Close, Works, sessions
<1>4. ASSUME NEW p \in Session, stoped[p] PROVE stoped'[p]
  BY <1>4, <1>t DEF Publish, Play, CommandFails, PeerLost, CheckName, Register, ReadFails, Attach,
     Hook, CheckFails, PlayerStop, PlayerMark, Stop, Hooks, Detach, Unregister, LockPlayers,
     StopNextPlayer, UnlockPlayers, CloseFlv, Close, sessions
<1>6. Attach(s) \/ Detach(s) \/ players' = players
  BY DEF Publish, Play, CommandFails, PeerLost, CheckName, Register, ReadFails, Hook,
     CheckFails, PlayerStop, PlayerMark, Stop, Hooks, Unregister, LockPlayers,
     StopNextPlayer, UnlockPlayers, CloseFlv, Close
<1>7. ASSUME NEW p \in Session, Begun(p), p \in players[upstream[p]]
      PROVE  p \in players'[upstream[p]] \/ stoped'[p]
  <2>1. upstream[p] \in Session /\ players[upstream[p]] \in SUBSET Session
    BY <1>7, <1>t DEF Begun
  <2>2. CASE Attach(s)
    BY <1>7, <1>t, <2>1, <2>2 DEF Attach
  <2>3. CASE Detach(s)
    <3>1. stoped[target[s]]
      BY <2>3, <1>i DEF Detach, MarkedFirst
    <3>2. players' = [players EXCEPT ![upstream[target[s]]] = @ \ {target[s]}]
      BY <2>3 DEF Detach
    <3>3. CASE p = target[s]
      BY <1>4, <3>1, <3>3
    <3>4. CASE p # target[s]
      BY <1>7, <1>t, <2>1, <3>2, <3>4
    <3>5. QED
      BY <3>3, <3>4
  <2>4. CASE players' = players
    BY <1>7, <2>4
  <2>5. QED
    BY <1>6, <2>2, <2>3, <2>4
<1>8. ASSUME NEW p \in Session, Begun(p), p \in players'[upstream[p]]
      PROVE  p \in players[upstream[p]]
  <2>1. upstream[p] \in Session /\ players[upstream[p]] \in SUBSET Session
    BY <1>8, <1>t DEF Begun
  <2>2. CASE Attach(s)
    <3>1. /\ pc[s] = "attach"
          /\ players' = [players EXCEPT ![upstream[s]] = @ \cup {s}]
      BY <2>2 DEF Attach
    <3>2. ~init[s] /\ \A q \in Session : s \notin players[q]
      BY <3>1, <1>i DEF NotYetJoined
    <3>3. CASE p = s
      <4>1. serving[upstream[s]] = s
        BY <1>8, <3>2, <3>3 DEF Begun
      <4>2. s \in players[upstream[s]]
        BY <1>i, <2>1, <3>3, <4>1, NoneAssumption DEF InRange
      <4>3. QED
        BY <2>1, <3>2, <3>3, <4>2
    <3>4. CASE p # s
      BY <1>8, <1>t, <2>1, <3>1, <3>4
    <3>5. QED
      BY <3>3, <3>4
  <2>3. CASE Detach(s)
    BY <1>8, <1>t, <2>1, <2>3 DEF Detach
  <2>4. CASE players' = players
    BY <1>8, <2>4
  <2>5. QED
    BY <1>6, <2>2, <2>3, <2>4
<1>5. ASSUME hook[s] = "pusher", Live(s)'
      PROVE  /\ Live(s) /\ todo'[s] = todo[s]
             /\ InBroadcast(s)' <=> InBroadcast(s)
             /\ pc'[s] = "broadcast" <=> pc[s] = "broadcast"
  <2> DEFINE Same == /\ Live(s) /\ todo'[s] = todo[s]
                     /\ InBroadcast(s)' <=> InBroadcast(s)
                     /\ pc'[s] = "broadcast" <=> pc[s] = "broadcast"
  <2> USE <1>5, <1>t, <1>i DEF Live, InBroadcast, Stopping, Roles, StopFrames, work, control
  <2>1. ASSUME NEW n \in Name, Publish(s, n) PROVE Same
    BY <2>1 DEF Publish, Goto
  <2>2. ASSUME NEW n \in Name, Play(s, n) PROVE Same
    BY <2>2 DEF Play, Goto
  <2>3. CASE CommandFails(s)
    BY <2>3 DEF CommandFails, Leave, Call
  <2>4. CASE PeerLost(s)
    BY <2>4 DEF PeerLost
  <2>5. CASE CheckName(s)
    BY <2>5 DEF CheckName, Goto, Leave, Call
  <2>6. CASE Register(s)
    BY <2>6 DEF Register, Goto
  <2>7. CASE ReadFails(s)
    BY <2>7 DEF ReadFails, Leave, Call
  <2>8. CASE Attach(s)
    BY <2>8 DEF Attach, Goto
  <2>9. CASE Hook(s)
    BY <2>9 DEF Hook, Goto
  <2>10. CASE CheckFails(s)
    BY <2>10 DEF CheckFails, Call
  <2>11. CASE PlayerStop(s)
    BY <2>11 DEF PlayerStop, Return, Goto, Leave, Call
  <2>12. CASE PlayerMark(s)
    BY <2>12 DEF PlayerMark, Goto
  <2>13. CASE Stop(s)
    BY <2>13 DEF Stop, Return, Goto, Leave, Call
  <2>14. CASE Hooks(s)
    BY <2>14 DEF Hooks, Goto
  <2>15. CASE Detach(s)
    BY <2>15 DEF Detach, Goto, LockDiscipline
  <2>16. CASE Unregister(s)
    BY <2>16 DEF Unregister, Goto
  <2>17. CASE LockPlayers(s)
    BY <2>17 DEF LockPlayers, Goto
  <2>18. ASSUME NEW p \in Session, StopNextPlayer(s, p) PROVE Same
    BY <2>18 DEF StopNextPlayer, Call
  <2>19. CASE UnlockPlayers(s)
    BY <2>19 DEF UnlockPlayers, Call
  <2>20. CASE CloseFlv(s)
    BY <2>20 DEF CloseFlv, Goto, StopFrames
  <2>21. CASE Close(s)
    BY <2>21 DEF Close, Return, Goto, Leave, Call
  <2>q. QED
    BY <2>1, <2>2, <2>3, <2>4, <2>5, <2>6, <2>7, <2>8, <2>9, <2>10, <2>11, <2>12, <2>13, <2>14, <2>15, <2>16, <2>17, <2>18, <2>19, <2>20, <2>21
<1>9. QED
  BY <1>1, <1>2, <1>3, <1>4, <1>5, <1>7, <1>8, QuietStep

\* A Pusher that reads a packet promises it to all it serves, and has it coming to them.
LEMMA ReadKeeps ==
  ASSUME DeliveryInvariant, NEW s \in Session, NEW k \in Kind, ReadPacket(s, k)
  PROVE  \A p \in Session : Account(p)'
<1> TAKE p \in Session
<1> DEFINE packet == [kind |-> k, seq |-> Len(stream[s]) + 1]
<1>t. /\ pc \in [Session -> Points] /\ ret \in [Session -> {"relay", "stopPlayers", "exit", "gone"}]
      /\ stream \in [Session -> Seq(Packet)]
      /\ upstream \in [Session -> Session \cup {None}]
  BY DEF DeliveryInvariant, RelayInvariant, TypeOK, SessionTypeOK, RelayTypeOK, MediaTypeOK
<1>1. /\ UNCHANGED <<upstream, init, got, joined, serving, out, todo, players, conn, wErr, stoped, ret>>
      /\ pc[s] = "streaming" /\ pc' = [pc EXCEPT ![s] = "broadcast"]
      /\ stream' = [stream EXCEPT ![s] = Append(@, packet)]
      /\ Len(stream[s]) < MaxPackets
  BY DEF ReadPacket, Goto, sessions, viewers, work
<1>2. packet \in Packet
  <2>1. Len(stream[s]) \in Nat
    BY <1>t, LenProperties
  <2>2. QED
    BY <1>1, <2>1, BoundAssumption DEF Packet
<1> HIDE DEF packet
<1>3. CASE upstream[p] # s
  <2>1. upstream[p] # None => stream'[upstream[p]] = stream[upstream[p]]
                              /\ pc'[upstream[p]] = pc[upstream[p]]
    BY <1>1, <1>3, <1>t
  <2>2. Begun(p) => upstream[p] # None
    BY DEF Begun
  <2>3. ASSUME upstream[p] # None
        PROVE  /\ InBroadcast(upstream[p])' <=> InBroadcast(upstream[p])
               /\ Live(upstream[p])' <=> Live(upstream[p])
    BY <1>1, <2>1, <2>3 DEF Live, InBroadcast
  <2>4. upstream[p] # None => Coming(p)' = Coming(p)
    BY <1>1, <2>1, <2>3 DEF Coming
  <2>5. Works(p)' <=> Works(p)
    BY <1>1 DEF Works
  <2>6. Begun(p)' <=> Begun(p)
    BY <1>1 DEF Begun
  <2>7. QED
    BY <1>1, <2>1, <2>2, <2>3, <2>4, <2>5, <2>6, AccountKept
<1>4. CASE upstream[p] = s /\ ~Begun(p)
  <2>1. Account(p)
    BY DEF DeliveryInvariant
  <2>2. ~Begun(p)'
    BY <1>1, <1>4 DEF Begun
  <2>3. QED
    BY <1>1, <1>4, <2>1, <2>2 DEF Account
<1>5. CASE upstream[p] = s /\ Begun(p)
  <2>1. /\ stream[s] \in Seq(Packet) /\ Len(stream[s]) \in Nat
        /\ joined[p].at \in Nat /\ joined[p].at <= Len(stream[s])
        /\ joined[p].headers \in Seq(Packet) /\ got[p] \in Seq(Packet)
        /\ Promised(p) \in Seq(Packet) /\ <<packet>> \in Seq(Packet)
    BY <1>2, <1>5, PromisedType
  <2>2. stream'[s] = Append(stream[s], packet) /\ Len(stream'[s]) = Len(stream[s]) + 1
    BY <1>1, <1>2, <1>t, <2>1, AppendProperties
  <2>3. Promised(p)' = Promised(p) \o <<packet>>
    <3> DEFINE rest == SubSeq(stream[s], joined[p].at + 1, Len(stream[s]))
    <3>1. rest \in Seq(Packet)
      BY <1>2, <2>1, SuffixGrows
    <3>2. SubSeq(Append(stream[s], packet), joined[p].at + 1, Len(stream[s]) + 1) = rest \o <<packet>>
      BY <1>2, <2>1, SuffixGrows, ZenonT(60)
    <3>3. Promised(p)' = joined[p].headers \o (rest \o <<packet>>)
      BY <1>1, <1>5, <2>2, <3>2 DEF Promised
    <3>4. Promised(p) = joined[p].headers \o rest
      BY <1>5 DEF Promised
    <3> HIDE DEF rest
    <3>5. (joined[p].headers \o rest) \o <<packet>> = joined[p].headers \o (rest \o <<packet>>)
      <4> DEFINE headers == joined[p].headers
                 one == <<packet>>
      <4>1. headers \in Seq(Packet) /\ one \in Seq(Packet)
        BY <2>1
      <4> HIDE DEF headers, one
      <4>2. (headers \o rest) \o one = headers \o (rest \o one)
        BY <3>1, <4>1, ConcatAssociative
      <4>3. QED
        BY <4>2 DEF headers, one
    <3>6. QED
      BY <3>3, <3>4, <3>5
  <2>4. Account(p) /\ Delivery(p)
    BY <1>5 DEF DeliveryInvariant, Account
  <2>5. IsPrefix(got'[p], Promised(p)')
    <3>1. IsPrefix(got[p], Promised(p))
      BY <2>4 DEF Delivery
    <3>2. IsPrefix(got[p], Promised(p) \o <<packet>>)
      BY <2>1, <3>1, PrefixGrows
    <3>3. QED
      BY <1>1, <2>3, <3>2
  <2>6. joined'[p].at <= Len(stream'[upstream'[p]])
    BY <1>1, <1>5, <2>1, <2>2
  <2>7. ~InBroadcast(s) /\ serving[s] = None
    BY <1>1 DEF InBroadcast, Stopping, DeliveryInvariant, InRange
  <2>8. ASSUME Works(p)', p \in players[s]
        PROVE  Promised(p)' = got'[p] \o Coming(p)'
    <3>1. Works(p) /\ Live(upstream[p])
      BY <1>1, <1>5, <2>8 DEF Works, Live
    <3>2. Promised(p) = got[p] \o Coming(p)
      BY <1>5, <2>4, <2>8, <3>1 DEF Delivery
    <3>3. Coming(p) = << >>
      BY <1>1, <1>5, <2>7, NoneAssumption DEF Coming
    <3>4. Coming(p)' = <<packet>>
      <4>1. Last(stream'[s]) = packet
        BY <1>2, <2>1, <2>2, AppendProperties DEF Last
      <4>2. pc'[s] = "broadcast" /\ serving'[s] # p /\ upstream'[p] = s
        BY <1>1, <1>t, <1>5, <2>7, NoneAssumption
      <4>3. QED
        BY <4>1, <4>2 DEF Coming
    <3>5. Promised(p) = got[p]
      BY <2>1, <3>2, <3>3, ConcatEmptySeq
    <3>6. QED
      BY <1>1, <1>5, <2>3, <3>2, <3>4, <3>5
  <2>o. ASSUME Works(p)', p \notin players[s] PROVE stoped'[p]
    BY <1>1, <1>5, <2>4, <2>o DEF Works, Live, Delivery
  <2>9. Delivery(p)'
    BY <1>1, <1>5, <2>5, <2>6, <2>8, <2>o DEF Delivery
  <2>10. Begun(p)' /\ upstream'[p] # None
    BY <1>1, <1>5 DEF Begun
  <2>11. QED
    BY <2>9, <2>10 DEF Account
<1>6. QED
  BY <1>3, <1>4, <1>5

\* A broadcast begins: the packet is still to come to every player in the map.
LEMMA BroadcastKeeps ==
  ASSUME DeliveryInvariant, NEW s \in Session, Broadcast(s)
  PROVE  \A p \in Session : Account(p)'
<1> TAKE p \in Session
<1>t. /\ pc \in [Session -> Points] /\ ret \in [Session -> {"relay", "stopPlayers", "exit", "gone"}]
      /\ upstream \in [Session -> Session \cup {None}]
      /\ players \in [Session -> SUBSET Session] /\ todo \in [Session -> SUBSET Session]
  BY DEF DeliveryInvariant, RelayInvariant, TypeOK, SessionTypeOK, RelayTypeOK, MediaTypeOK
<1>1. /\ UNCHANGED <<upstream, init, got, joined, serving, out, players, conn, wErr, stoped, ret, stream>>
      /\ pc[s] = "broadcast" /\ pc' = [pc EXCEPT ![s] = "relay"]
      /\ todo' = [todo EXCEPT ![s] = players[s]]
  BY DEF Broadcast, Goto, sessions, viewers, media
<1>2. ASSUME Begun(p), Live(upstream[p])', Works(p)'
      PROVE  /\ Live(upstream[p]) /\ Works(p)
             /\ p \in players[upstream[p]] => Coming(p)' = Coming(p)
  <2> DEFINE q == upstream[p]
  <2>1. q \in Session /\ q' = q
    BY <1>1, <1>2, <1>t DEF Begun
  <2>2. Works(p)
    BY <1>1, <1>2 DEF Works
  <2>3. CASE q # s
    <3>1. pc'[q] = pc[q] /\ ret'[q] = ret[q] /\ todo'[q] = todo[q]
      BY <1>1, <1>t, <2>1, <2>3
    <3>2. QED
      BY <1>1, <1>2, <2>1, <2>2, <3>1 DEF Live, InBroadcast, Coming
  <2>4. CASE q = s
    <3>1. Live(s)
      BY <1>1 DEF Live
    <3>2. pc'[s] = "relay" /\ todo'[s] = players[s]
      BY <1>1, <1>t
    <3>3. QED
      BY <1>1, <2>1, <2>2, <2>4, <3>1, <3>2 DEF Coming, InBroadcast
  <2>5. QED
    BY <2>3, <2>4
<1>3. Begun(p)' <=> Begun(p)
  BY <1>1 DEF Begun
<1>4. QED
  BY <1>1, <1>2, <1>3, AccountKept

\* A new player is promised the cached headers and what follows, and has the headers
\* coming; to any other the packet is still to come.
LEMMA ServeKeeps ==
  ASSUME DeliveryInvariant, NEW s \in Session, NEW v \in Session, Serve(s, v)
  PROVE  \A p \in Session : Account(p)'
<1> TAKE p \in Session
<1>t. /\ pc \in [Session -> Points] /\ ret \in [Session -> {"relay", "stopPlayers", "exit", "gone"}]
      /\ upstream \in [Session -> Session \cup {None}]
      /\ players \in [Session -> SUBSET Session] /\ todo \in [Session -> SUBSET Session]
      /\ init \in [Session -> BOOLEAN]
      /\ joined \in [Session -> [at : Nat, headers : Seq(Packet)]]
      /\ serving \in [Session -> Session \cup {None}]
      /\ out \in [Session -> Seq(Packet)] /\ stream \in [Session -> Seq(Packet)]
  BY DEF DeliveryInvariant, RelayInvariant, TypeOK, SessionTypeOK, RelayTypeOK, MediaTypeOK
<1>1. /\ UNCHANGED <<upstream, init, got, players, conn, wErr, stoped, ret, stream>>
      /\ pc[s] = "relay" /\ pc' = [pc EXCEPT ![s] = "relay"]
      /\ serving[s] = None /\ v \in todo[s]
      /\ todo' = [todo EXCEPT ![s] = @ \ {v}]
      /\ serving' = [serving EXCEPT ![s] = v]
      /\ out' = [out EXCEPT ![s] = IF init[v] THEN <<Last(stream[s])>> ELSE CachedHeaders(s)]
      /\ init[v] => joined' = joined
      /\ ~init[v] => joined' = [joined EXCEPT ![v] =
                                  [at |-> Len(stream[s]), headers |-> CachedHeaders(s)]]
  BY DEF Serve, Goto, sessions, media
<1>2. pc' = pc /\ upstream[v] = s /\ v \in players[s] /\ InBroadcast(s)
  BY <1>1, <1>t DEF DeliveryInvariant, RelayInvariant, OwnPlayers, InRange, InBroadcast
<1>3. CASE p # v \/ init[v]
  <2>1. joined'[p] = joined[p]
    BY <1>1, <1>3, <1>t
  <2>2. Begun(p)' <=> Begun(p)
    <3>1. CASE init[p]
      BY <1>1, <3>1 DEF Begun
    <3>2. CASE ~init[p]
      <4>1. p # v
        BY <1>3, <3>2
      <4>2. upstream[p] # None => (serving'[upstream[p]] = p <=> serving[upstream[p]] = p)
        BY <1>1, <1>t, <4>1, NoneAssumption
      <4>3. QED
        BY <1>1, <3>2, <4>2 DEF Begun
    <3>3. QED
      BY <3>1, <3>2
  <2>3. ASSUME Begun(p), Live(upstream[p])', Works(p)'
        PROVE  Live(upstream[p]) /\ Works(p) /\ Coming(p)' = Coming(p)
    <3> DEFINE q == upstream[p]
    <3>1. q \in Session /\ q' = q
      BY <1>1, <2>3, <1>t DEF Begun
    <3>2. Live(q) /\ Works(p) /\ (InBroadcast(q)' <=> InBroadcast(q))
      BY <1>1, <1>2, <2>3 DEF Live, Works, InBroadcast
    <3>3. CASE q # s
      <4>1. serving'[q] = serving[q] /\ out'[q] = out[q] /\ todo'[q] = todo[q]
        BY <1>1, <1>t, <3>1, <3>3
      <4>2. QED
        BY <1>1, <1>2, <3>1, <3>2, <4>1 DEF Coming
    <3>4. CASE q = s /\ p # v
      <4>1. serving'[s] # p /\ serving[s] # p /\ (p \in todo'[s] <=> p \in todo[s])
        BY <1>1, <1>t, <3>4, NoneAssumption
      <4>2. QED
        BY <1>1, <1>2, <3>1, <3>2, <3>4, <4>1 DEF Coming
    <3>5. CASE p = v
      <4>1. init[v] /\ q = s
        BY <1>2, <1>3, <3>5
      <4>2. serving'[s] = v /\ out'[s] = <<Last(stream[s])>>
        BY <1>1, <1>t, <4>1
      <4>3. Coming(p) = <<Last(stream[s])>>
        BY <1>1, <1>2, <3>5, <4>1, NoneAssumption DEF Coming
      <4>4. Coming(p)' = <<Last(stream[s])>>
        BY <3>1, <3>5, <4>1, <4>2 DEF Coming
      <4>5. QED
        BY <3>2, <4>3, <4>4
    <3>6. QED
      BY <3>3, <3>4, <3>5
  <2>4. QED
    BY <1>1, <2>1, <2>2, <2>3, AccountKept
<1>4. CASE p = v /\ ~init[v]
  <2>1. /\ stream[s] \in Seq(Packet) /\ Len(stream[s]) \in Nat
        /\ CachedHeaders(s) \in Seq(Packet)
    BY <1>t, CachedHeadersType, LenProperties DEF DeliveryInvariant
  <2>2. got[v] = << >>
    BY <1>1, <1>2, <1>4, <1>t, NoneAssumption DEF DeliveryInvariant, Account, Begun
  <2>3. /\ joined'[v].at = Len(stream[s]) /\ joined'[v].headers = CachedHeaders(s)
        /\ serving'[s] = v /\ out'[s] = CachedHeaders(s)
    BY <1>1, <1>4, <1>t
  <2>4. Promised(v)' = CachedHeaders(s)
    <3>1. SubSeq(stream[s], Len(stream[s]) + 1, Len(stream[s])) = << >>
      BY <2>1, SubSeqEmpty
    <3>2. Promised(v)' = CachedHeaders(s) \o << >>
      BY <1>1, <1>2, <2>3, <3>1 DEF Promised
    <3>3. QED
      BY <2>1, <3>2, ConcatEmptySeq
  <2>5. Coming(v)' = CachedHeaders(s)
    BY <1>1, <1>2, <2>3 DEF Coming
  <2>6. Promised(v)' = got'[v] \o Coming(v)'
    BY <1>1, <2>1, <2>2, <2>4, <2>5, ConcatEmptySeq
  <2>7. IsPrefix(got'[v], Promised(v)')
    <3>1. << >> \in Seq(Packet)
      OBVIOUS
    <3>2. IsPrefix(<< >>, << >> \o CachedHeaders(s))
      BY <2>1, <3>1, PrefixOfConcat
    <3>3. QED
      BY <1>1, <2>2, <2>5, <2>6, <3>2
  <2>8. Delivery(v)'
    BY <1>1, <1>2, <2>1, <2>3, <2>6, <2>7 DEF Delivery
  <2>9. Begun(v)' /\ upstream'[v] # None
    BY <1>1, <1>2, <2>3, NoneAssumption DEF Begun
  <2>10. QED
    BY <1>4, <2>8, <2>9 DEF Account
<1>5. QED
  BY <1>3, <1>4

\* What is written reaches a player whose connection works, and is no longer to come.
LEMMA WriteKeeps ==
  ASSUME DeliveryInvariant, NEW s \in Session, WriteOk(s) \/ WriteFails(s)
  PROVE  \A p \in Session : Account(p)'
<1> TAKE p \in Session
<1>t. /\ pc \in [Session -> Points] /\ ret \in [Session -> {"relay", "stopPlayers", "exit", "gone"}]
      /\ upstream \in [Session -> Session \cup {None}]
      /\ wErr \in [Session -> BOOLEAN]
      /\ got \in [Session -> Seq(Packet)] /\ serving \in [Session -> Session \cup {None}]
      /\ out \in [Session -> Seq(Packet)]
  BY DEF DeliveryInvariant, RelayInvariant, TypeOK, SessionTypeOK, RelayTypeOK, MediaTypeOK
<1>v. PICK v \in Session : v = serving[s]
  BY <1>t DEF WriteOk, WriteFails
<1>1. /\ UNCHANGED <<upstream, init, joined, players, conn, stoped, stream, serving, todo>>
      /\ pc[s] = "relay" /\ serving[s] = v /\ out[s] # << >>
      /\ out' = [out EXCEPT ![s] = Tail(@)]
  BY <1>v DEF WriteOk, WriteFails, sessions, viewers, media
<1>2. upstream[v] = s
  BY <1>1, <1>t DEF DeliveryInvariant, RelayInvariant, OwnPlayers
<1>3. /\ \A q \in Session \ {s} : pc'[q] = pc[q] /\ ret'[q] = ret[q]
      /\ InBroadcast(s) /\ InBroadcast(s)'
  BY <1>1, <1>t DEF WriteOk, WriteFails, Goto, Call, InBroadcast, Stopping
<1>4. Begun(p)' <=> Begun(p)
  BY <1>1 DEF Begun
<1>5. ASSUME Works(p)' PROVE Works(p)
  BY <1>1, <1>2, <1>5, <1>t DEF WriteOk, WriteFails, Works, sessions
<1>6. ASSUME p # v, Begun(p), Live(upstream[p])'
      PROVE  Live(upstream[p]) /\ Coming(p)' = Coming(p)
  <2> DEFINE q == upstream[p]
  <2>1. q \in Session /\ q' = q
    BY <1>1, <1>6, <1>t DEF Begun
  <2>2. CASE q # s
    <3>1. pc'[q] = pc[q] /\ ret'[q] = ret[q] /\ out'[q] = out[q]
      BY <1>1, <1>3, <1>t, <2>1, <2>2
    <3>2. QED
      BY <1>1, <1>6, <2>1, <3>1 DEF Live, InBroadcast, Coming
  <2>3. CASE q = s
    <3>1. pc'[s] # "broadcast" /\ pc[s] # "broadcast"
      BY <1>1, <1>t DEF WriteOk, WriteFails, Goto, Call
    <3>2. QED
      BY <1>1, <1>3, <1>6, <2>1, <2>3, <3>1 DEF Live, Coming
  <2>4. QED
    BY <2>2, <2>3
<1>7. CASE p # v
  <2>1. got'[p] = got[p]
    BY <1>1, <1>7, <1>t DEF WriteOk, WriteFails, viewers
  <2>2. QED
    BY <1>1, <1>4, <1>5, <1>6, <1>7, <2>1, AccountKept
<1>8. CASE p = v /\ ~(WriteOk(s) /\ conn[v] = "up")
  <2>1. got'[p] = got[p]
    BY <1>1, <1>8 DEF WriteOk, WriteFails, viewers
  <2>2. ~Works(p)'
    BY <1>1, <1>2, <1>8, <1>t DEF WriteFails, Works
  <2>3. QED
    BY <1>1, <1>4, <2>1, <2>2, AccountKept
<1>9. CASE p = v /\ WriteOk(s) /\ conn[v] = "up"
  <2>1. Begun(v) /\ Account(v)
    BY <1>1, <1>2, <1>9, NoneAssumption DEF Begun, DeliveryInvariant
  <2>2. Works(v) /\ Live(s)
    BY <1>1, <1>3, <1>9 DEF WriteOk, Works, Live
  <2>3. Delivery(v)
    BY <2>1 DEF Account
  <2>i. v \in players[s]
    BY <1>1, NoneAssumption DEF DeliveryInvariant, InRange
  <2>4. Promised(v) = got[v] \o out[s]
    BY <1>1, <1>2, <2>i, <2>2, <2>3 DEF Delivery, Coming
  <2> DEFINE head == Head(out[s])
             tail == Tail(out[s])
             one == <<head>>
  <2>5. got[v] \in Seq(Packet) /\ head \in Packet /\ tail \in Seq(Packet) /\ one \in Seq(Packet)
    BY <1>1, <1>2, <1>t, HeadTailProperties
  <2>6. out[s] = one \o tail
    <3> DEFINE o == out[s]
    <3>1. o \in Seq(Packet) /\ o # << >>
      BY <1>1, <1>t
    <3>2. Len(o) \in Nat \ {0}
      BY <3>1, EmptySeq
    <3> HIDE DEF o
    <3>3. SubSeq(o, 1, Len(o)) = <<o[1]>> \o SubSeq(o, 1 + 1, Len(o))
      BY <3>1, <3>2, SubSeqRecursiveFirst
    <3>4. SubSeq(o, 1, Len(o)) = o
      BY <3>1, SubSeqFull
    <3>5. Tail(o) = SubSeq(o, 2, Len(o))
      BY <3>1, TailIsSubSeq
    <3>6. Head(o) = o[1]
      BY <3>1, <3>2
    <3>7. o = <<Head(o)>> \o Tail(o)
      BY <3>3, <3>4, <3>5, <3>6
    <3>8. QED
      BY <3>7 DEF o
  <2>7. got'[v] = got[v] \o one
    <3>1. got'[v] = Append(got[v], head)
      BY <1>1, <1>2, <1>9, <1>t DEF WriteOk
    <3>2. QED
      BY <2>5, <3>1, AppendIsConcat
  <2>8. Coming(v)' = tail
    BY <1>1, <1>2, <1>t DEF Coming
  <2> HIDE DEF head, tail, one
  <2>9. Promised(v)' = Promised(v)
    BY <1>1 DEF Promised
  <2>10. Promised(v)' = got'[v] \o tail
    <3>1. (got[v] \o one) \o tail = got[v] \o (one \o tail)
      <4> DEFINE g == got[v]
      <4>1. g \in Seq(Packet)
        BY <2>5
      <4> HIDE DEF g
      <4>2. (g \o one) \o tail = g \o (one \o tail)
        BY <2>5, <4>1, ConcatAssociative
      <4>3. QED
        BY <4>2 DEF g
    <3>2. QED
      BY <2>4, <2>6, <2>7, <2>9, <3>1
  <2>11. got'[v] \in Seq(Packet)
    BY <2>5, <2>7, ConcatProperties
  <2>12. IsPrefix(got'[v], Promised(v)')
    BY <2>5, <2>10, <2>11, PrefixOfConcat
  <2>13. joined'[v].at <= Len(stream'[upstream'[v]]) /\ v \in players'[upstream'[v]]
    BY <1>1, <1>2, <2>i, <2>3 DEF Delivery
  <2>14. Delivery(v)'
    BY <2>8, <2>10, <2>12, <2>13 DEF Delivery
  <2>15. QED
    BY <1>1, <1>2, <1>4, <1>9, <2>1, <2>14, NoneAssumption DEF Account, Begun
<1>10. QED
  BY <1>7, <1>8, <1>9

\* A visit that ends has delivered all there was to come.
LEMMA ServedKeeps ==
  ASSUME DeliveryInvariant, NEW s \in Session, Served(s)
  PROVE  \A p \in Session : Account(p)'
<1> TAKE p \in Session
<1>t. /\ pc \in [Session -> Points] /\ ret \in [Session -> {"relay", "stopPlayers", "exit", "gone"}]
      /\ upstream \in [Session -> Session \cup {None}]
      /\ init \in [Session -> BOOLEAN] /\ serving \in [Session -> Session \cup {None}]
  BY DEF DeliveryInvariant, RelayInvariant, TypeOK, SessionTypeOK, RelayTypeOK, MediaTypeOK
<1>v. PICK v \in Session : v = serving[s]
  BY <1>t DEF Served
<1>1. /\ UNCHANGED <<upstream, got, joined, players, conn, wErr, stoped, ret, stream, todo, out>>
      /\ pc[s] = "relay" /\ pc' = [pc EXCEPT ![s] = "relay"]
      /\ serving[s] = v /\ out[s] = << >>
      /\ init' = [init EXCEPT ![v] = TRUE]
      /\ serving' = [serving EXCEPT ![s] = None]
  BY <1>v DEF Served, Goto, sessions, viewers, media
<1>2. upstream[v] = s /\ v \notin todo[s] /\ pc' = pc
  BY <1>1, <1>t, NoneAssumption DEF DeliveryInvariant, RelayInvariant, OwnPlayers, InRange
<1>3. CASE p # v
  <2>1. Begun(p)' <=> Begun(p)
    <3>1. init'[p] = init[p]
      BY <1>1, <1>2, <1>3, <1>t
    <3>2. upstream[p] # None => (serving'[upstream[p]] = p <=> serving[upstream[p]] = p)
      BY <1>1, <1>3, <1>t, NoneAssumption
    <3>3. QED
      BY <1>1, <3>1, <3>2 DEF Begun
  <2>2. ASSUME Begun(p), Live(upstream[p])', Works(p)'
        PROVE  Live(upstream[p]) /\ Works(p) /\ Coming(p)' = Coming(p)
    <3>1. upstream[p] \in Session /\ serving'[upstream[p]] = p <=> serving[upstream[p]] = p
      BY <1>1, <1>3, <2>2, <1>t, NoneAssumption DEF Begun
    <3>2. QED
      BY <1>1, <1>2, <2>2, <3>1 DEF Live, Works, InBroadcast, Coming
  <2>3. init'[p] = init[p]
    BY <1>1, <1>2, <1>3, <1>t
  <2>4. QED
    BY <1>1, <2>1, <2>2, <2>3, AccountKept
<1>4. CASE p = v
  <2>1. Begun(v) /\ Account(v) /\ Delivery(v)
    BY <1>1, <1>2, NoneAssumption DEF Begun, DeliveryInvariant, Account
  <2>2. Coming(v) = << >>
    BY <1>1, <1>2 DEF Coming
  <2>3. Coming(v)' = << >>
    <3>1. serving'[s] # v
      BY <1>1, <1>2, <1>t, NoneAssumption
    <3>2. QED
      BY <1>1, <1>2, <3>1 DEF Coming
  <2>4. Promised(v)' = Promised(v) /\ (Works(v)' <=> Works(v)) /\ Live(s)
    BY <1>1 DEF Promised, Works, Live, InBroadcast
  <2>5. Delivery(v)'
    BY <1>1, <1>2, <2>1, <2>2, <2>3, <2>4 DEF Delivery
  <2>6. Begun(v)' /\ upstream'[v] # None
    BY <1>1, <1>2, <1>t, NoneAssumption DEF Begun
  <2>7. QED
    BY <1>4, <2>5, <2>6 DEF Account
<1>5. QED
  BY <1>3, <1>4

\* A broadcast that ends has nothing left to deliver.
LEMMA DoneKeeps ==
  ASSUME DeliveryInvariant, NEW s \in Session, BroadcastDone(s)
  PROVE  \A p \in Session : Account(p)'
<1> TAKE p \in Session
<1>t. /\ pc \in [Session -> Points] /\ ret \in [Session -> {"relay", "stopPlayers", "exit", "gone"}]
      /\ upstream \in [Session -> Session \cup {None}]
  BY DEF DeliveryInvariant, RelayInvariant, TypeOK, SessionTypeOK, RelayTypeOK
<1>1. /\ UNCHANGED <<upstream, init, got, joined, players, conn, wErr, stoped, ret, stream, work>>
      /\ pc[s] = "relay" /\ pc' = [pc EXCEPT ![s] = "streaming"]
      /\ todo[s] = {}
  BY DEF BroadcastDone, Goto, sessions, viewers, media
<1>2. Begun(p)' <=> Begun(p)
  BY <1>1 DEF Begun, work
<1>3. ASSUME Begun(p), Live(upstream[p])', Works(p)'
      PROVE  Live(upstream[p]) /\ Works(p) /\ Coming(p)' = Coming(p)
  <2> DEFINE q == upstream[p]
  <2>1. q \in Session /\ q' = q
    BY <1>1, <1>3, <1>t DEF Begun
  <2>2. Works(p)
    BY <1>1, <1>3 DEF Works
  <2>3. CASE q # s
    <3>1. pc'[q] = pc[q]
      BY <1>1, <1>t, <2>3
    <3>2. QED
      BY <1>1, <1>3, <2>1, <2>2, <3>1 DEF Live, InBroadcast, Coming, work
  <2>4. CASE q = s
    <3>1. pc'[s] = "streaming"
      BY <1>1, <1>t, <2>1, <2>4
    <3>2. QED
      BY <1>1, <2>1, <2>2, <2>4, <3>1 DEF Live, InBroadcast, Stopping, Coming, work
  <2>5. QED
    BY <2>3, <2>4
<1>4. QED
  BY <1>1, <1>2, <1>3, AccountKept

\* A player that finds its Pusher has been promised nothing yet.
LEMMA LookupKeeps ==
  ASSUME DeliveryInvariant, NEW s \in Session, Lookup(s)
  PROVE  \A p \in Session : Account(p)'
<1> TAKE p \in Session
<1>t. /\ pc \in [Session -> Points] /\ ret \in [Session -> {"relay", "stopPlayers", "exit", "gone"}]
      /\ upstream \in [Session -> Session \cup {None}]
      /\ name \in [Session -> Name \cup {None}]
      /\ registry \in [Name -> Session \cup {None}]
      /\ init \in [Session -> BOOLEAN]
  BY DEF DeliveryInvariant, RelayInvariant, TypeOK, SessionTypeOK, RelayTypeOK, MediaTypeOK
<1>1. /\ UNCHANGED <<init, got, joined, players, conn, wErr, stoped, stream, work>>
      /\ pc[s] = "lookup" /\ upstream[s] = None
      /\ \/ upstream' = upstream
         \/ upstream' = [upstream EXCEPT ![s] = registry[name[s]]]
      /\ \/ pc' = [pc EXCEPT ![s] = "attach"] /\ ret' = ret
         \/ pc' = [pc EXCEPT ![s] = "stop"] /\ ret' = [ret EXCEPT ![s] = "gone"]
  BY DEF Lookup, Goto, Leave, Call, sessions, media, DeliveryInvariant, RelayInvariant, Roles
<1>2. \A q \in Session : (Live(q)' <=> Live(q)) /\ (InBroadcast(q)' <=> InBroadcast(q))
                         /\ (pc'[q] = "broadcast" <=> pc[q] = "broadcast")
  BY <1>1, <1>t DEF Live, InBroadcast, Stopping
<1>3. CASE p = s
  <2>1. ~Begun(s) /\ got[s] = << >> /\ ~init[s]
    BY <1>1 DEF Begun, DeliveryInvariant, Account
  <2>2. \A q \in Session : serving[q] # s
    BY <1>1, <1>t, NoneAssumption DEF DeliveryInvariant, RelayInvariant, OwnPlayers
  <2>3. upstream'[s] \in Session \cup {None}
    BY <1>1, <1>t DEF Lookup, DeliveryInvariant, RelayInvariant, Roles
  <2>4. ~Begun(s)'
    BY <1>1, <2>1, <2>2, <2>3 DEF Begun, work
  <2>5. QED
    BY <1>1, <1>3, <2>1, <2>4 DEF Account
<1>4. CASE p # s
  <2>1. upstream'[p] = upstream[p]
    BY <1>1, <1>4, <1>t
  <2>2. Begun(p)' <=> Begun(p)
    BY <1>1, <2>1 DEF Begun, work
  <2>3. ASSUME Begun(p), Live(upstream[p])', Works(p)'
        PROVE  Live(upstream[p]) /\ Works(p) /\ Coming(p)' = Coming(p)
    <3> DEFINE q == upstream[p]
    <3>1. q \in Session /\ upstream'[p] = q
      BY <2>1, <2>3, <1>t DEF Begun
    <3>2. Live(q)'
      BY <2>1, <2>3 DEF Live, InBroadcast
    <3>3. Live(q) /\ Works(p)
      BY <1>1, <1>2, <2>3, <3>1, <3>2 DEF Works
    <3>4. InBroadcast(q)' <=> InBroadcast(q)
      BY <1>2, <3>1
    <3>5. Coming(p)' = Coming(p)
      BY <1>1, <1>2, <3>1 DEF Coming, work, InBroadcast
    <3>6. QED
      BY <3>3, <3>5
  <2>4. QED
    BY <1>1, <2>1, <2>2, <2>3, AccountKept
<1>5. QED
  BY <1>3, <1>4

\* A step keeps the account of every player.
LEMMA AccountStep ==
  ASSUME DeliveryInvariant, [Next]_vars
  PROVE  \A p \in Session : Account(p)'
<1>0. CASE UNCHANGED vars
  <2> TAKE p \in Session
  <2>1. /\ UNCHANGED <<pc, ret, conn, wErr, stoped, upstream, init, got, joined, players, serving,
                      todo, out, stream>>
        /\ Account(p)
    BY <1>0 DEF vars, control, sessions, viewers, work, media, DeliveryInvariant
  <2>2. (Begun(p)' <=> Begun(p)) /\ Promised(p)' = Promised(p) /\ Coming(p)' = Coming(p)
    BY <2>1 DEF Begun, Promised, Coming, InBroadcast
  <2>3. (Works(p)' <=> Works(p)) /\ (Live(upstream[p])' <=> Live(upstream[p]))
    BY <2>1 DEF Works, Live, InBroadcast
  <2>4. QED
    BY <2>1, <2>2, <2>3, AccountKept
<1> SUFFICES ASSUME NEW s \in Session, Proceed(s) \/ Acquire(s) \/ Peer(s)
               PROVE  \A p \in Session : Account(p)'
  BY <1>0 DEF Next
<1>1. ASSUME NEW k \in Kind, ReadPacket(s, k) PROVE \A p \in Session : Account(p)'
  BY <1>1, ReadKeeps
<1>2. CASE Broadcast(s)
  BY <1>2, BroadcastKeeps
<1>3. ASSUME NEW v \in Session, Serve(s, v) PROVE \A p \in Session : Account(p)'
  BY <1>3, ServeKeeps
<1>4. CASE WriteOk(s) \/ WriteFails(s)
  BY <1>4, WriteKeeps
<1>5. CASE Served(s)
  BY <1>5, ServedKeeps
<1>6. CASE BroadcastDone(s)
  BY <1>6, DoneKeeps
<1>7. CASE Lookup(s)
  BY <1>7, LookupKeeps
<1>8. CASE Acquire(s)
  BY <1>2, <1>8, QuietSteps DEF Acquire
<1>9. CASE Peer(s)
  BY <1>1, <1>9, QuietSteps DEF Peer
<1>10. CASE Proceed(s)
  BY <1>3, <1>4, <1>5, <1>6, <1>7, <1>10, QuietSteps DEF Proceed
<1>11. QED
  BY <1>8, <1>9, <1>10

LEMMA DeliveryInit == Init => DeliveryInvariant
<1> SUFFICES ASSUME Init PROVE DeliveryInvariant
  OBVIOUS
<1>1. RelayInvariant
  BY InitInvariant
<1>2. UpstreamPublishes /\ InRange /\ MarkedFirst /\ NotYetJoined
  BY DEF Init, UpstreamPublishes, InRange, MarkedFirst, NotYetJoined
<1>3. \A p \in Session : Account(p)
  BY DEF Init, Account, Begun
<1>4. QED
  BY <1>1, <1>2, <1>3 DEF DeliveryInvariant

\* DeliveryInvariant is inductive.
LEMMA DeliveryStep == DeliveryInvariant /\ [Next]_vars => DeliveryInvariant'
<1> SUFFICES ASSUME DeliveryInvariant, [Next]_vars PROVE DeliveryInvariant'
  OBVIOUS
<1>1. RelayInvariant'
  BY InvariantStep DEF DeliveryInvariant
<1>2. QED
  BY <1>1, PublishesStep, InRangeStep, MarkedFirstStep, NotYetJoinedStep,
     AccountStep DEF DeliveryInvariant

\* A player is given what it was promised when its Pusher first served it, in order.
THEOREM Accounting == Spec => []DeliveryInvariant
<1>1. QED
  BY DeliveryInit, DeliveryStep, PTL DEF Spec

\* The cached headers first, then each packet once and in order, and nothing withheld
\* from a player whose connection works, and which no stop has taken out of the map,
\* when its Pusher waits for the next packet.
THEOREM InOrderDelivery == Spec => []DeliveredInOrder
<1>1. DeliveryInvariant => DeliveredInOrder
  <2> SUFFICES ASSUME DeliveryInvariant, NEW p \in Session, got[p] # << >> \/ init[p]
               PROVE  /\ IsPrefix(got[p], Promised(p))
                      /\ (/\ init[p] /\ conn[p] = "up" /\ ~wErr[p]
                          /\ pc[upstream[p]] = "streaming"
                          /\ ~stoped[p] \/ p \in players[upstream[p]]) => got[p] = Promised(p)
    BY DEF DeliveredInOrder
  <2>1. Account(p)
    BY DEF DeliveryInvariant
  <2>2. Begun(p)
    BY <2>1 DEF Account, Begun
  <2>3. Delivery(p)
    BY <2>1, <2>2 DEF Account
  <2>4. ASSUME conn[p] = "up", ~wErr[p], pc[upstream[p]] = "streaming",
               ~stoped[p] \/ p \in players[upstream[p]]
        PROVE  got[p] = Promised(p)
    <3>1. Promised(p) = got[p] \o Coming(p)
      BY <2>3, <2>4 DEF Delivery, Live, Works
    <3>2. upstream[p] \in Session /\ got[p] \in Seq(Packet)
      BY <2>2, PromisedType
    <3>3. ~InBroadcast(upstream[p]) /\ serving[upstream[p]] = None
      BY <2>4, <3>2 DEF InBroadcast, Stopping, DeliveryInvariant, InRange
    <3>4. Coming(p) = << >>
      BY <2>4, <3>3, NoneAssumption DEF Coming
    <3>5. QED
      BY <3>1, <3>2, <3>4, ConcatEmptySeq
  <2>5. QED
    BY <2>3, <2>4 DEF Delivery
<1>2. QED
  BY Accounting, <1>1, PTL
==============================================================================
