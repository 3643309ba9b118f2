--------------------------- MODULE RtspRelayProofs ---------------------------
(***************************************************************************)
(* The safety of the RTSP relay for every set of sessions and channels and *)
(* for streams of every length.  RelayInvariant is inductive: it holds     *)
(* initially, and one lemma for each of its parts shows that every step    *)
(* preserves that part, with one proof step for each action.               *)
(*                                                                         *)
(* The argument: a goroutine may run a session's functions only after it   *)
(* has marked the session (MarkedBefore), so whoever a stop wakes finds    *)
(* stoped, and whoever a frame wakes finds the frame, because only the     *)
(* receiver removes frames (WokenForAReason).  A receiver stops a session  *)
(* only after its Pusher has closed exit (PusherLeftFirst).  Of two stops  *)
(* of one session the second panics at close(exit) (ExitClosedByAStop), so *)
(* one alone deletes the registration, and finds it (OneDeletes,           *)
(* Registered), although removePusher deletes by code.                     *)
(*                                                                         *)
(* After a panic that ends the process nothing runs (AliveStep): only the  *)
(* types have to hold there.                                               *)
(***************************************************************************)
EXTENDS RtspRelay, SequenceTheorems, TLAPS

\* A goroutine has a kind and a session.
LEMMA ThreadSession == \A t \in Thread : t[1] \in {"loop", "relay", "receiver"} /\ t[2] \in Session
<1>1. QED
  BY DEF Thread

\* The goroutines of a session, whose kind and session tell them from all others.
LEMMA ThreadNames ==
  \A s \in Session :
    /\ Loop(s) \in Thread /\ Loop(s)[1] = "loop" /\ Loop(s)[2] = s
    /\ Relay(s) \in Thread /\ Relay(s)[1] = "relay" /\ Relay(s)[2] = s
    /\ Receiver(s) \in Thread /\ Receiver(s)[1] = "receiver" /\ Receiver(s)[2] = s
<1>1. QED
  BY DEF Thread, Loop, Relay, Receiver

\* A list of functions names each role once, and what is left of it after a call
\* names the roles that were not called.
LEMMA ListTail ==
  ASSUME NEW list \in RoleList, list # << >>
  PROVE  /\ Head(list) \in {"pusher", "player"} /\ Has(list, Head(list))
         /\ Tail(list) \in RoleList
         /\ \A r : Has(Tail(list), r) <=> Has(list, r) /\ r # Head(list)
<1>1. CASE list = <<"pusher">>
  BY <1>1 DEF RoleList, Has
<1>2. CASE list = <<"player">>
  BY <1>2 DEF RoleList, Has
<1>3. CASE list = <<"pusher", "player">>
  BY <1>3 DEF RoleList, Has
<1>4. CASE list = <<"player", "pusher">>
  BY <1>4 DEF RoleList, Has
<1>5. QED
  BY <1>1, <1>2, <1>3, <1>4, Zenon DEF RoleList

\* Appending to a list of one role.
LEMMA TwoRoles ==
  ASSUME NEW a \in {"pusher", "player"}, NEW b \in {"pusher", "player"},
         NEW list \in Seq({"pusher", "player"}), Len(list) = 1, list[1] = a
  PROVE  Append(list, b) = <<a, b>>
<1>1. /\ Append(list, b) \in Seq({"pusher", "player"})
      /\ Len(Append(list, b)) = 2
      /\ Append(list, b)[1] = a
      /\ Append(list, b)[2] = b
  <2>1. Append(list, b) \in Seq({"pusher", "player"})
    OBVIOUS
  <2>2. Len(Append(list, b)) = Len(list) + 1
    BY AppendProperties
  <2>3. Append(list, b)[1] = list[1]
    OBVIOUS
  <2>4. Append(list, b)[Len(list) + 1] = b
    BY AppendProperties
  <2>5. QED
    BY <2>1, <2>2, <2>3, <2>4
<1>2. <<a, b>> \in Seq({"pusher", "player"}) /\ Len(<<a, b>>) = 2
  OBVIOUS
<1>3. \A i \in 1 .. 2 : Append(list, b)[i] = <<a, b>>[i]
  <2>1. \A i \in 1 .. 2 : i = 1 \/ i = 2
    OBVIOUS
  <2>2. QED
    BY <1>1, <2>1
<1>4. QED
  BY <1>1, <1>2, <1>3, SeqEqual

\* Registering the role a list lacks gives a list of functions.
LEMMA ListAppend ==
  ASSUME NEW list \in RoleList, NEW role \in {"pusher", "player"}, ~Has(list, role)
  PROVE  /\ Append(list, role) \in RoleList
         /\ \A r : Has(Append(list, role), r) <=> Has(list, r) \/ r = role
<1>1. CASE list = << >>
  BY <1>1 DEF RoleList, Has
<1>2. CASE list = <<"pusher">>
  <2>1. list[1] = "pusher" /\ 1 \in DOMAIN list
    BY <1>2
  <2>2. role = "player"
    BY <2>1 DEF Has
  <2>3. Append(list, role) = <<"pusher", "player">>
    <3>1. list \in Seq({"pusher", "player"}) /\ Len(list) = 1 /\ list[1] = "pusher"
      BY <1>2
    <3>2. QED
      BY <2>2, <3>1, TwoRoles
  <2>4. QED
    BY <1>2, <2>2, <2>3 DEF RoleList, Has
<1>3. CASE list = <<"player">>
  <2>1. list[1] = "player" /\ 1 \in DOMAIN list
    BY <1>3
  <2>2. role = "pusher"
    BY <2>1 DEF Has
  <2>3. Append(list, role) = <<"player", "pusher">>
    <3>1. list \in Seq({"pusher", "player"}) /\ Len(list) = 1 /\ list[1] = "player"
      BY <1>3
    <3>2. QED
      BY <2>2, <3>1, TwoRoles
  <2>4. QED
    BY <1>3, <2>2, <2>3 DEF RoleList, Has
<1>4. CASE list = <<"pusher", "player">> \/ list = <<"player", "pusher">>
  BY <1>4 DEF RoleList, Has
<1>5. QED
  BY <1>1, <1>2, <1>3, <1>4 DEF RoleList

\* The lists of functions are sequences of roles.
LEMMA ListType == RoleList \subseteq Seq({"pusher", "player"})
<1>1. QED
  BY DEF RoleList

\* Taking a function off a goroutine's list leaves the lists well typed.
LEMMA CalledType ==
  ASSUME todoFuncs \in [Thread -> Seq({"pusher", "player"})],
         NEW t \in Thread, todoFuncs[t] # << >>, Called(t)
  PROVE  todoFuncs' \in [Thread -> Seq({"pusher", "player"})]
<1>1. Tail(todoFuncs[t]) \in Seq({"pusher", "player"})
  OBVIOUS
<1>2. QED
  BY <1>1 DEF Called

\* A panic leaves the goroutines well typed.
LEMMA PanicType ==
  ASSUME pc \in [Thread -> Points], crashed \in BOOLEAN, NEW t \in Thread, Panic(t)
  PROVE  pc' \in [Thread -> Points] /\ crashed' \in BOOLEAN
<1>1. QED
  BY DEF Panic, Goto, Points

\* The number of a further frame.
LEMMA NextSeq ==
  ASSUME NEW n \in 0 .. MaxFrames, n < MaxFrames
  PROVE  n + 1 \in 1 .. MaxFrames /\ n + 1 \in 0 .. MaxFrames
<1>1. MaxFrames \in Nat
  BY QueueAssumption
<1>2. QED
  BY <1>1

\* Taking a function off a goroutine's list leaves lists of functions.
LEMMA CalledLists ==
  ASSUME FunctionLists, todoFuncs \in [Thread -> Seq({"pusher", "player"})],
         NEW t \in Thread, todoFuncs[t] # << >>, Called(t), UNCHANGED roles
  PROVE  FunctionLists'
<1>1. Tail(todoFuncs[t]) \in RoleList
  BY ListTail DEF FunctionLists
<1>2. QED
  BY <1>1 DEF FunctionLists, Called

\* The frame at the head of a Pusher's channel.
LEMMA TakenFrame ==
  ASSUME TypeOK, NEW q \in Session, channel[q] # << >>
  PROVE  Head(channel[q]) \in Frame
<1>1. QED
  BY HeadTailProperties DEF TypeOK, PusherTypeOK

\* The next frame that a session reads.
LEMMA FrameRead ==
  ASSUME TypeOK, NEW s \in Session, sent[s] < MaxFrames
  PROVE  [from |-> s, seq |-> sent[s] + 1] \in Frame
<1>1. sent[s] \in 0 .. MaxFrames
  BY DEF TypeOK, SessionTypeOK
<1>2. sent[s] + 1 \in 1 .. MaxFrames
  BY <1>1, NextSeq
<1>3. QED
  BY <1>2 DEF Frame

\* Different goroutines are different threads.
LEMMA Distinct ==
  \A s, r \in Session : /\ Loop(s) # Relay(r) /\ Loop(s) # Receiver(r) /\ Relay(s) # Receiver(r)
                        /\ Loop(s) = Loop(r) => s = r
                        /\ Receiver(s) = Receiver(r) => s = r
<1>1. QED
  BY ThreadNames

\* Where a request leaves its session's loop, and whom it starts.
LEMMA RequestMoves ==
  ASSUME NEW s \in Session, NEW c \in Channel
  PROVE  /\ Announce(s, c) =>
              \E p \in {"read", "gone", "stop"} : pc' = [pc EXCEPT ![Loop(s)] = p]
         /\ Record(s, c) =>
              \/ pc' = [pc EXCEPT ![Loop(s)] = "stop"]
              \/ /\ registry[c] # None
                 /\ \E p \in {"read", "gone"}, r \in {"select", "gone"} :
                      pc' = [pc EXCEPT ![Loop(s)] = p, ![Relay(registry[c])] = r]
         /\ Describe(s, c) =>
              \/ /\ pc' = [pc EXCEPT ![Loop(s)] = "stop"] /\ upstream' = upstream
              \/ /\ registry[c] # None /\ pc' = [pc EXCEPT ![Loop(s)] = "describe"]
                 /\ upstream' = [upstream EXCEPT ![s] = registry[c]]
         /\ Play(s, c) =>
              \/ \E p \in {"gone", "stop"} : pc' = [pc EXCEPT ![Loop(s)] = p]
              \/ /\ registry[c] # None /\ s \in players[registry[c]]
                 /\ pc[Receiver(s)] = "none"
                 /\ \E p \in {"read", "gone"} :
                      pc' = [pc EXCEPT ![Loop(s)] = p, ![Receiver(s)] = "top"]
<1>1. Announce(s, c) => \E p \in {"read", "gone", "stop"} : pc' = [pc EXCEPT ![Loop(s)] = p]
  BY DEF Announce, Goto, Again
<1>2. Record(s, c) =>
        \/ pc' = [pc EXCEPT ![Loop(s)] = "stop"]
        \/ /\ registry[c] # None
           /\ \E p \in {"read", "gone"}, r \in {"select", "gone"} :
                pc' = [pc EXCEPT ![Loop(s)] = p, ![Relay(registry[c])] = r]
  BY DEF Record, Goto, Again, RelayAgain
<1>3. Describe(s, c) =>
        \/ /\ pc' = [pc EXCEPT ![Loop(s)] = "stop"] /\ upstream' = upstream
        \/ /\ registry[c] # None /\ pc' = [pc EXCEPT ![Loop(s)] = "describe"]
           /\ upstream' = [upstream EXCEPT ![s] = registry[c]]
  BY DEF Describe, Goto
<1>4. Play(s, c) =>
        \/ \E p \in {"gone", "stop"} : pc' = [pc EXCEPT ![Loop(s)] = p]
        \/ /\ registry[c] # None /\ s \in players[registry[c]]
           /\ pc[Receiver(s)] = "none"
           /\ \E p \in {"read", "gone"} :
                pc' = [pc EXCEPT ![Loop(s)] = p, ![Receiver(s)] = "top"]
  BY DEF Play, Goto, Again
<1>5. QED
  BY <1>1, <1>2, <1>3, <1>4

\* Only the loop and the receiver of a session stop it.
LEMMA Stopper ==
  ASSUME Goroutines, NEW t \in Thread,
         pc[t] \in {"stop", "mark", "hooks", "unregister", "detach", "closing"}
  PROVE  t[2] \in Session /\ t \in {Loop(t[2]), Receiver(t[2])}
<1>1. t[1] # "relay"
  BY DEF Goroutines
<1>2. QED
  BY <1>1 DEF Thread, Loop, Receiver

\* Nothing happens in a process that has ended.
LEMMA AliveStep ==
  ASSUME RelayInvariant, Next
  PROVE  ~crashed
<1> SUFFICES ASSUME crashed, \A t \in Thread : pc[t] = "gone",
                    \A s \in Session : /\ pc[Loop(s)] = "gone" /\ pc[Relay(s)] = "gone"
                                         /\ pc[Receiver(s)] = "gone"
             PROVE  FALSE
  BY ThreadNames DEF RelayInvariant
<1>1. ASSUME NEW t \in Thread, Offer(t) PROVE ~crashed
  BY <1>1 DEF Offer
<1>2. ASSUME NEW t \in Thread, Delivered(t) PROVE ~crashed
  BY <1>2 DEF Delivered
<1>3. ASSUME NEW t \in Thread, Stop(t) PROVE ~crashed
  BY <1>3 DEF Stop
<1>4. ASSUME NEW t \in Thread, Mark(t) PROVE ~crashed
  BY <1>4 DEF Mark
<1>5. ASSUME NEW t \in Thread, CloseExit(t) PROVE ~crashed
  BY <1>5 DEF CloseExit
<1>6. ASSUME NEW t \in Thread, Unregister(t) PROVE ~crashed
  BY <1>6 DEF Unregister
<1>7. ASSUME NEW t \in Thread, HooksDone(t) PROVE ~crashed
  BY <1>7 DEF HooksDone
<1>8. ASSUME NEW t \in Thread, Close(t) PROVE ~crashed
  BY <1>8 DEF Close
<1>9. ASSUME NEW t \in Thread, AppendFrame(t) PROVE ~crashed
  BY <1>9 DEF AppendFrame
<1>10. ASSUME NEW t \in Thread, Enqueue(t) PROVE ~crashed
  BY <1>10 DEF Enqueue
<1>11. ASSUME NEW t \in Thread, Broadcast(t) PROVE ~crashed
  BY <1>11 DEF Broadcast
<1>12. ASSUME NEW t \in Thread, Detach(t) PROVE ~crashed
  BY <1>12 DEF Detach
<1>13. ASSUME NEW q \in Session, RelayEnds(q) PROVE ~crashed
  BY <1>13 DEF RelayEnds
<1>14. ASSUME NEW q \in Session, RangeDone(q) PROVE ~crashed
  BY <1>14 DEF RangeDone
<1>15. ASSUME NEW q \in Session, Take(q) PROVE ~crashed
  BY <1>15 DEF Take
<1>16. ASSUME NEW q \in Session, NEW p \in Session, SendFrame(q, p) PROVE ~crashed
  BY <1>16 DEF SendFrame
<1>17. ASSUME NEW s \in Session, ReceiverTop(s) PROVE ~crashed
  BY <1>17 DEF ReceiverTop
<1>18. ASSUME NEW s \in Session, BreakOut(s) PROVE ~crashed
  BY <1>18 DEF BreakOut
<1>19. ASSUME NEW s \in Session, WriteFrame(s) PROVE ~crashed
  BY <1>19, Zenon DEF WriteFrame
<1>20. ASSUME NEW s \in Session, LockOrWait(s) PROVE ~crashed
  BY <1>20 DEF LockOrWait
<1>21. ASSUME NEW s \in Session, Woken(s) PROVE ~crashed
  BY <1>21 DEF Woken
<1>22. ASSUME NEW s \in Session, Attach(s) PROVE ~crashed
  BY <1>22 DEF Attach
<1>23. ASSUME NEW s \in Session, Teardown(s) PROVE ~crashed
  BY <1>23 DEF Teardown
<1>24. ASSUME NEW s \in Session, ReadFails(s) PROVE ~crashed
  BY <1>24 DEF ReadFails
<1>25. ASSUME NEW s \in Session, ReadFrame(s) PROVE ~crashed
  BY <1>25 DEF ReadFrame
<1>26. ASSUME NEW s \in Session, NEW c \in Channel, Announce(s, c) PROVE ~crashed
  BY <1>26 DEF Announce, Asked
<1>27. ASSUME NEW s \in Session, NEW c \in Channel, Record(s, c) PROVE ~crashed
  BY <1>27 DEF Record, Asked
<1>28. ASSUME NEW s \in Session, NEW c \in Channel, Describe(s, c) PROVE ~crashed
  BY <1>28 DEF Describe, Asked
<1>29. ASSUME NEW s \in Session, NEW c \in Channel, Play(s, c) PROVE ~crashed
  BY <1>29 DEF Play, Asked
<1>30. QED
  BY <1>1, <1>2, <1>3, <1>4, <1>5, <1>6, <1>7, <1>8, <1>9, <1>10, <1>11, <1>12, <1>13, <1>14,
     <1>15, <1>16, <1>17, <1>18, <1>19, <1>20, <1>21, <1>22, <1>23, <1>24, <1>25, <1>26, <1>27,
     <1>28, <1>29, ThreadSession DEF Next, Proceed, Acquire, Client

\* A step keeps the state of the goroutines well typed.
LEMMA GoroutineTypeStep ==
  ASSUME RelayInvariant, Next
  PROVE  GoroutineTypeOK'
<1>t. GoroutineTypeOK /\ SessionTypeOK /\ PusherTypeOK /\ InCall
  BY AliveStep DEF RelayInvariant, TypeOK
<1>n. \A t \in Thread : t[2] \in Session
  BY ThreadSession
<1>m. \A s \in Session : Loop(s) \in Thread /\ Relay(s) \in Thread /\ Receiver(s) \in Thread
  BY ThreadNames
<1> USE <1>t DEF GoroutineTypeOK, calls
<1>1. ASSUME NEW t \in Thread, Offer(t) PROVE GoroutineTypeOK'
  BY <1>1, <1>n, CalledType DEF Offer, Goto, Points
<1>2. ASSUME NEW t \in Thread, Delivered(t) PROVE GoroutineTypeOK'
  BY <1>2, <1>n DEF Delivered, Goto, Again, Points
<1>3. ASSUME NEW t \in Thread, Stop(t) PROVE GoroutineTypeOK'
  BY <1>3, <1>n DEF Stop, Goto, Points
<1>4. ASSUME NEW t \in Thread, Mark(t) PROVE GoroutineTypeOK'
  <2>1. pc' \in [Thread -> Points] /\ crashed' \in BOOLEAN
    BY <1>4, <1>n, PanicType DEF Mark, Goto, Points
  <2>2. QED
    BY <1>4, <1>n, <2>1, CalledType DEF Mark, SessionTypeOK
<1>5. ASSUME NEW t \in Thread, CloseExit(t) PROVE GoroutineTypeOK'
  <2>1. pc' \in [Thread -> Points] /\ crashed' \in BOOLEAN
    BY <1>5, <1>n, PanicType DEF CloseExit, Goto, Points
  <2>2. QED
    BY <1>5, <1>n, <2>1, CalledType DEF CloseExit
<1>6. ASSUME NEW t \in Thread, Unregister(t) PROVE GoroutineTypeOK'
  BY <1>6, <1>n, CalledType DEF Unregister, Goto, Points, InCall
<1>7. ASSUME NEW t \in Thread, HooksDone(t) PROVE GoroutineTypeOK'
  BY <1>7, <1>n DEF HooksDone, Goto, Points
<1>8. ASSUME NEW t \in Thread, Close(t) PROVE GoroutineTypeOK'
  <2>1. pc' \in [Thread -> Points] /\ crashed' \in BOOLEAN
    BY <1>8, <1>n, PanicType DEF Close, Goto, Points
  <2>2. QED
    BY <1>8, <1>n, <2>1, CalledType DEF Close
<1>9. ASSUME NEW t \in Thread, AppendFrame(t) PROVE GoroutineTypeOK'
  <2>1. pc' \in [Thread -> Points]
    BY <1>9, <1>n DEF AppendFrame, Wake, Points
  <2>2. QED
    BY <1>9, <1>n, <2>1, CalledType DEF AppendFrame, InCall
<1>10. ASSUME NEW t \in Thread, Enqueue(t) PROVE GoroutineTypeOK'
  BY <1>10, <1>n, CalledType DEF Enqueue, Points
<1>11. ASSUME NEW t \in Thread, Broadcast(t) PROVE GoroutineTypeOK'
  BY <1>11, <1>n DEF Broadcast, Wake, Points
<1>12. ASSUME NEW t \in Thread, Detach(t) PROVE GoroutineTypeOK'
  BY <1>12, <1>n, CalledType DEF Detach, Goto, Points, InCall
<1>13. ASSUME NEW q \in Session, RelayEnds(q) PROVE GoroutineTypeOK'
  BY <1>13, <1>m DEF RelayEnds, Goto, Points
<1>14. ASSUME NEW q \in Session, RangeDone(q) PROVE GoroutineTypeOK'
  BY <1>14, <1>m DEF RangeDone, Goto, RelayAgain, Points
<1>15. ASSUME NEW q \in Session, Take(q) PROVE GoroutineTypeOK'
  <2>1. Head(channel[q]) \in Frame
    BY <1>15, <1>m, AliveStep, TakenFrame DEF Take, RelayInvariant
  <2>2. QED
    BY <1>15, <1>m, <2>1 DEF Take, Goto, Points
<1>16. ASSUME NEW q \in Session, NEW p \in Session, SendFrame(q, p) PROVE GoroutineTypeOK'
  BY <1>16, <1>m DEF SendFrame, Goto, Points, SessionTypeOK, PusherTypeOK
<1>17. ASSUME NEW s \in Session, ReceiverTop(s) PROVE GoroutineTypeOK'
  BY <1>17, <1>m DEF ReceiverTop, Goto, Points
<1>18. ASSUME NEW s \in Session, BreakOut(s) PROVE GoroutineTypeOK'
  BY <1>18, <1>m DEF BreakOut, Goto, Points
<1>19. ASSUME NEW s \in Session, WriteFrame(s) PROVE GoroutineTypeOK'
  BY <1>19, <1>m DEF WriteFrame, Goto, Points
<1>20. ASSUME NEW s \in Session, LockOrWait(s) PROVE GoroutineTypeOK'
  BY <1>20, <1>m DEF LockOrWait, Goto, Points
<1>21. ASSUME NEW s \in Session, Woken(s) PROVE GoroutineTypeOK'
  BY <1>21, <1>m DEF Woken, Goto, Points
<1>22. ASSUME NEW s \in Session, Attach(s) PROVE GoroutineTypeOK'
  BY <1>22, <1>m DEF Attach, Goto, Again, Points
<1>23. ASSUME NEW s \in Session, Teardown(s) PROVE GoroutineTypeOK'
  BY <1>23, <1>m DEF Teardown, Goto, Points
<1>24. ASSUME NEW s \in Session, ReadFails(s) PROVE GoroutineTypeOK'
  BY <1>24, <1>m DEF ReadFails, Goto, Points
<1>25. ASSUME NEW s \in Session, ReadFrame(s) PROVE GoroutineTypeOK'
  <2>1. [from |-> s, seq |-> sent[s] + 1] \in Frame
    BY <1>25, <1>m, AliveStep, FrameRead DEF ReadFrame, RelayInvariant
  <2>2. QED
    BY <1>25, <1>m, <2>1 DEF ReadFrame, Goto, Points, SessionTypeOK
<1>26. ASSUME NEW s \in Session, NEW c \in Channel, Announce(s, c) PROVE GoroutineTypeOK'
  BY <1>26, <1>m DEF Announce, Asked, Goto, Again, Points
<1>27. ASSUME NEW s \in Session, NEW c \in Channel, Record(s, c) PROVE GoroutineTypeOK'
  BY <1>27, <1>m DEF Record, Asked, Goto, Again, RelayAgain, Points
<1>28. ASSUME NEW s \in Session, NEW c \in Channel, Describe(s, c) PROVE GoroutineTypeOK'
  BY <1>28, <1>m DEF Describe, Asked, Goto, Points
<1>29. ASSUME NEW s \in Session, NEW c \in Channel, Play(s, c) PROVE GoroutineTypeOK'
  BY <1>29, <1>m DEF Play, Asked, Goto, Again, Points
<1>30. QED
  BY <1>1, <1>2, <1>3, <1>4, <1>5, <1>6, <1>7, <1>8, <1>9, <1>10, <1>11, <1>12, <1>13, <1>14,
     <1>15, <1>16, <1>17, <1>18, <1>19, <1>20, <1>21, <1>22, <1>23, <1>24, <1>25, <1>26, <1>27,
     <1>28, <1>29, ThreadSession DEF Next, Proceed, Acquire, Client

\* A step keeps what sessions record of themselves well typed.
LEMMA SessionTypeStep ==
  ASSUME RelayInvariant, Next
  PROVE  SessionTypeOK'
<1>t. TypeOK /\ ~crashed
  BY AliveStep DEF RelayInvariant
<1>n. \A t \in Thread : t[2] \in Session
  BY ThreadSession
<1>m. \A s \in Session : Loop(s) \in Thread /\ Relay(s) \in Thread /\ Receiver(s) \in Thread
  BY ThreadNames
<1> USE <1>t DEF TypeOK, SessionTypeOK, sessions, media
<1>u. CASE UNCHANGED <<sessions, sent>>
  BY <1>u
<1>1. ASSUME NEW t \in Thread, Mark(t) PROVE SessionTypeOK'
  BY <1>1, <1>n DEF Mark
<1>2. ASSUME NEW t \in Thread, Close(t) PROVE SessionTypeOK'
  BY <1>2, <1>n DEF Close
<1>3. ASSUME NEW s \in Session, Attach(s) PROVE SessionTypeOK'
  BY <1>3, <1>m, AppendProperties DEF Attach
<1>4. ASSUME NEW s \in Session, ReadFrame(s) PROVE SessionTypeOK'
  BY <1>4, <1>m, NextSeq DEF ReadFrame, Goto
<1>5. ASSUME NEW s \in Session, NEW c \in Channel, Announce(s, c) PROVE SessionTypeOK'
  <2>1. Append(roles[s], "pusher") \in Seq({"pusher", "player"})
    BY AppendProperties
  <2>2. QED
    BY <1>5, <1>m, <2>1 DEF Announce, Asked
<1>6. ASSUME NEW s \in Session, NEW c \in Channel, Record(s, c) PROVE SessionTypeOK'
  BY <1>6, <1>m DEF Record, Asked
<1>7. ASSUME NEW s \in Session, NEW c \in Channel, Describe(s, c) PROVE SessionTypeOK'
  BY <1>7, <1>m DEF Describe, Asked
<1>8. ASSUME NEW s \in Session, NEW c \in Channel, Play(s, c) PROVE SessionTypeOK'
  BY <1>8, <1>m DEF Play, Asked
<1>9. ASSUME NEW t \in Thread, Offer(t) \/ Delivered(t) \/ Stop(t) \/ CloseExit(t) \/
              Unregister(t) \/ HooksDone(t) \/ AppendFrame(t) \/ Enqueue(t) \/ Broadcast(t) \/
              Detach(t)
      PROVE  SessionTypeOK'
  BY <1>u, <1>9 DEF Offer, Delivered, Stop, CloseExit, Unregister, HooksDone, AppendFrame,
     Enqueue, Broadcast, Detach
<1>10. ASSUME NEW q \in Session, RelayEnds(q) \/ RangeDone(q) \/ Take(q) \/ \E p \in Session :
              SendFrame(q, p)
      PROVE  SessionTypeOK'
  BY <1>u, <1>10 DEF RelayEnds, RangeDone, Take, SendFrame
<1>11. ASSUME NEW s \in Session, ReceiverTop(s) \/ BreakOut(s) \/ WriteFrame(s) \/ LockOrWait(s)
              \/ Woken(s) \/ Teardown(s) \/ ReadFails(s)
      PROVE  SessionTypeOK'
  BY <1>u, <1>11 DEF ReceiverTop, BreakOut, WriteFrame, LockOrWait, Woken, Teardown, ReadFails
<1>12. QED
  BY <1>u, <1>1, <1>2, <1>3, <1>4, <1>5, <1>6, <1>7, <1>8, <1>9, <1>10, <1>11, ThreadSession DEF
     Next, Proceed, Acquire, Client

\* A step keeps the Pushers and the PusherManager well typed.
LEMMA PusherTypeStep ==
  ASSUME RelayInvariant, Next
  PROVE  PusherTypeOK'
<1>t. TypeOK /\ ~crashed /\ InCall
  BY AliveStep DEF RelayInvariant
<1>n. \A t \in Thread : t[2] \in Session
  BY ThreadSession
<1>m. \A s \in Session : Loop(s) \in Thread /\ Relay(s) \in Thread /\ Receiver(s) \in Thread
  BY ThreadNames
<1> USE <1>t DEF TypeOK, PusherTypeOK, pushers, maps
<1>u. CASE UNCHANGED <<pushers, maps>>
  BY <1>u
<1>1. ASSUME NEW t \in Thread, CloseExit(t) PROVE PusherTypeOK'
  BY <1>1, <1>n DEF CloseExit
<1>2. ASSUME NEW t \in Thread, Unregister(t) PROVE PusherTypeOK'
  BY <1>2, <1>n DEF Unregister
<1>3. ASSUME NEW t \in Thread, Enqueue(t) PROVE PusherTypeOK'
  <2>1. frame[t] \in Frame /\ at[t] \in Session
    BY <1>3, <1>n DEF Enqueue, GoroutineTypeOK, InCall
  <2>2. /\ Append(channel[at[t]], frame[t]) \in Seq(Frame)
        /\ Len(Append(channel[at[t]], frame[t])) = Len(channel[at[t]]) + 1
    BY <2>1, AppendProperties
  <2>3. Len(channel[at[t]]) + 1 <= QueueLime
    BY <1>3, <1>n, <2>1, QueueAssumption DEF Enqueue
  <2>4. QED
    BY <1>3, <1>n, <2>1, <2>2, <2>3 DEF Enqueue
<1>4. ASSUME NEW t \in Thread, Detach(t) PROVE PusherTypeOK'
  BY <1>4, <1>n DEF Detach
<1>5. ASSUME NEW q \in Session, RangeDone(q) PROVE PusherTypeOK'
  BY <1>5, <1>m DEF RangeDone
<1>6. ASSUME NEW q \in Session, Take(q) PROVE PusherTypeOK'
  BY <1>6, <1>m, HeadTailProperties, QueueAssumption DEF Take
<1>7. ASSUME NEW q \in Session, NEW p \in Session, SendFrame(q, p) PROVE PusherTypeOK'
  BY <1>7, <1>m DEF SendFrame
<1>8. ASSUME NEW s \in Session, Attach(s) PROVE PusherTypeOK'
  BY <1>8, <1>m DEF Attach, PlayerTypeOK
<1>9. ASSUME NEW s \in Session, NEW c \in Channel, Announce(s, c) PROVE PusherTypeOK'
  BY <1>9, <1>m DEF Announce, Asked
<1>10. ASSUME NEW t \in Thread, Offer(t) \/ Delivered(t) \/ Stop(t) \/ Mark(t) \/ HooksDone(t)
              \/ Close(t) \/ AppendFrame(t) \/ Broadcast(t)
      PROVE  PusherTypeOK'
  BY <1>u, <1>10 DEF Offer, Delivered, Stop, Mark, HooksDone, Close, AppendFrame, Broadcast
<1>11. ASSUME NEW q \in Session, RelayEnds(q)
      PROVE  PusherTypeOK'
  BY <1>u, <1>11 DEF RelayEnds
<1>12. ASSUME NEW s \in Session, ReceiverTop(s) \/ BreakOut(s) \/ WriteFrame(s) \/ LockOrWait(s)
              \/ Woken(s) \/ Teardown(s) \/ ReadFails(s) \/ ReadFrame(s)
      PROVE  PusherTypeOK'
  BY <1>u, <1>12 DEF ReceiverTop, BreakOut, WriteFrame, LockOrWait, Woken, Teardown, ReadFails,
     ReadFrame
<1>13. ASSUME NEW s \in Session, NEW c \in Channel, Record(s, c) \/ Describe(s, c) \/ Play(s, c)
      PROVE  PusherTypeOK'
  BY <1>u, <1>13 DEF Record, Describe, Play
<1>14. QED
  BY <1>u, <1>1, <1>2, <1>3, <1>4, <1>5, <1>6, <1>7, <1>8, <1>9, <1>10, <1>11, <1>12, <1>13,
     ThreadSession DEF Next, Proceed, Acquire, Client

\* A step keeps the Players well typed.
LEMMA PlayerTypeStep ==
  ASSUME RelayInvariant, Next
  PROVE  PlayerTypeOK'
<1>t. TypeOK /\ ~crashed /\ InCall /\ WokenForAReason
  BY AliveStep DEF RelayInvariant
<1>n. \A t \in Thread : t[2] \in Session
  BY ThreadSession
<1>m. \A s \in Session : Loop(s) \in Thread /\ Relay(s) \in Thread /\ Receiver(s) \in Thread
  BY ThreadNames
<1> USE <1>t DEF TypeOK, PlayerTypeOK, playing, media
<1>u. CASE UNCHANGED <<playing, got>>
  BY <1>u
<1>1. ASSUME NEW t \in Thread, AppendFrame(t) PROVE PlayerTypeOK'
  BY <1>1, <1>n, AppendProperties DEF AppendFrame, GoroutineTypeOK, InCall
<1>2. ASSUME NEW s \in Session, WriteFrame(s) PROVE PlayerTypeOK'
  <2>1. queue[s] \in Seq(Frame) /\ queue[s] # << >>
    BY <1>2, <1>m DEF WriteFrame, WokenForAReason
  <2>2. Head(queue[s]) \in Frame /\ Tail(queue[s]) \in Seq(Frame)
    BY <2>1, HeadTailProperties
  <2>3. Append(got[s], Head(queue[s])) \in Seq(Frame)
    BY <2>2, AppendProperties
  <2>4. QED
    BY <1>2, <1>m, <2>2, <2>3 DEF WriteFrame
<1>3. ASSUME NEW s \in Session, LockOrWait(s) PROVE PlayerTypeOK'
  BY <1>3, <1>m DEF LockOrWait
<1>4. ASSUME NEW s \in Session, Woken(s) PROVE PlayerTypeOK'
  BY <1>4, <1>m DEF Woken
<1>5. ASSUME NEW s \in Session, NEW c \in Channel, Describe(s, c) PROVE PlayerTypeOK'
  BY <1>5, <1>m DEF Describe, PusherTypeOK
<1>6. ASSUME NEW t \in Thread, Offer(t) \/ Delivered(t) \/ Stop(t) \/ Mark(t) \/ CloseExit(t) \/
              Unregister(t) \/ HooksDone(t) \/ Close(t) \/ Enqueue(t) \/ Broadcast(t) \/
              Detach(t)
      PROVE  PlayerTypeOK'
  BY <1>u, <1>6 DEF Offer, Delivered, Stop, Mark, CloseExit, Unregister, HooksDone, Close,
     Enqueue, Broadcast, Detach
<1>7. ASSUME NEW q \in Session, RelayEnds(q) \/ RangeDone(q) \/ Take(q) \/ \E p \in Session :
              SendFrame(q, p)
      PROVE  PlayerTypeOK'
  BY <1>u, <1>7 DEF RelayEnds, RangeDone, Take, SendFrame
<1>8. ASSUME NEW s \in Session, ReceiverTop(s) \/ BreakOut(s) \/ Attach(s) \/ Teardown(s) \/
              ReadFails(s) \/ ReadFrame(s)
      PROVE  PlayerTypeOK'
  BY <1>u, <1>8 DEF ReceiverTop, BreakOut, Attach, Teardown, ReadFails, ReadFrame
<1>9. ASSUME NEW s \in Session, NEW c \in Channel, Announce(s, c) \/ Record(s, c) \/ Play(s, c)
      PROVE  PlayerTypeOK'
  BY <1>u, <1>9 DEF Announce, Record, Play
<1>10. QED
  BY <1>u, <1>1, <1>2, <1>3, <1>4, <1>5, <1>6, <1>7, <1>8, <1>9, ThreadSession DEF Next,
     Proceed, Acquire, Client

\* A step leaves every goroutine at a point of its own code.
LEMMA GoroutinesStep ==
  ASSUME RelayInvariant, Next, ~crashed'
  PROVE  Goroutines'
<1>t. ~crashed /\ Goroutines
  BY AliveStep DEF RelayInvariant
<1>v. /\ pc \in [Thread -> Points]
  BY AliveStep DEF RelayInvariant, TypeOK, GoroutineTypeOK
<1>n. \A t \in Thread : t[1] \in {"loop", "relay", "receiver"}
  BY ThreadSession
<1>m. \A s \in Session : /\ Loop(s) \in Thread /\ Loop(s)[1] = "loop"
                         /\ Relay(s) \in Thread /\ Relay(s)[1] = "relay"
                         /\ Receiver(s) \in Thread /\ Receiver(s)[1] = "receiver"
  BY ThreadNames
<1> USE <1>t, <1>v DEF Goroutines, Stops, calls
<1>u. CASE UNCHANGED <<pc>>
  BY <1>u
<1>1. ASSUME NEW t \in Thread, Offer(t) PROVE Goroutines'
  BY <1>1, <1>n DEF Offer, Goto
<1>2. ASSUME NEW t \in Thread, Delivered(t) PROVE Goroutines'
  BY <1>2, <1>n DEF Delivered, Goto, Again
<1>3. ASSUME NEW t \in Thread, Stop(t) PROVE Goroutines'
  BY <1>3, <1>n DEF Stop, Goto
<1>4. ASSUME NEW t \in Thread, Mark(t) PROVE Goroutines'
  BY <1>4, <1>n DEF Mark, Goto, Panic
<1>5. ASSUME NEW t \in Thread, CloseExit(t) PROVE Goroutines'
  BY <1>5, <1>n DEF CloseExit, Goto, Panic
<1>6. ASSUME NEW t \in Thread, Unregister(t) PROVE Goroutines'
  BY <1>6, <1>n DEF Unregister, Goto
<1>7. ASSUME NEW t \in Thread, HooksDone(t) PROVE Goroutines'
  BY <1>7, <1>n DEF HooksDone, Goto
<1>8. ASSUME NEW t \in Thread, Close(t) PROVE Goroutines'
  BY <1>8, <1>n DEF Close, Goto, Panic
<1>9. ASSUME NEW t \in Thread, AppendFrame(t) PROVE Goroutines'
  BY <1>9, <1>n DEF AppendFrame, Wake
<1>10. ASSUME NEW t \in Thread, Broadcast(t) PROVE Goroutines'
  BY <1>10, <1>n DEF Broadcast, Wake
<1>11. ASSUME NEW t \in Thread, Detach(t) PROVE Goroutines'
  BY <1>11, <1>n DEF Detach, Goto
<1>12. ASSUME NEW q \in Session, RelayEnds(q) PROVE Goroutines'
  BY <1>12, <1>m DEF RelayEnds, Goto
<1>13. ASSUME NEW q \in Session, RangeDone(q) PROVE Goroutines'
  BY <1>13, <1>m DEF RangeDone, Goto, RelayAgain
<1>14. ASSUME NEW q \in Session, Take(q) PROVE Goroutines'
  BY <1>14, <1>m DEF Take, Goto
<1>15. ASSUME NEW q \in Session, NEW p \in Session, SendFrame(q, p) PROVE Goroutines'
  BY <1>15, <1>m DEF SendFrame, Goto
<1>16. ASSUME NEW s \in Session, ReceiverTop(s) PROVE Goroutines'
  BY <1>16, <1>m DEF ReceiverTop, Goto
<1>17. ASSUME NEW s \in Session, BreakOut(s) PROVE Goroutines'
  BY <1>17, <1>m DEF BreakOut, Goto
<1>18. ASSUME NEW s \in Session, WriteFrame(s) PROVE Goroutines'
  BY <1>18, <1>m DEF WriteFrame, Goto
<1>19. ASSUME NEW s \in Session, LockOrWait(s) PROVE Goroutines'
  BY <1>19, <1>m DEF LockOrWait, Goto
<1>20. ASSUME NEW s \in Session, Woken(s) PROVE Goroutines'
  BY <1>20, <1>m DEF Woken, Goto
<1>21. ASSUME NEW s \in Session, Attach(s) PROVE Goroutines'
  BY <1>21, <1>m DEF Attach, Goto, Again
<1>22. ASSUME NEW s \in Session, Teardown(s) PROVE Goroutines'
  BY <1>22, <1>m DEF Teardown, Goto
<1>23. ASSUME NEW s \in Session, ReadFails(s) PROVE Goroutines'
  BY <1>23, <1>m DEF ReadFails, Goto
<1>24. ASSUME NEW s \in Session, ReadFrame(s) PROVE Goroutines'
  BY <1>24, <1>m DEF ReadFrame, Goto
<1>25. ASSUME NEW s \in Session, NEW c \in Channel, Announce(s, c) PROVE Goroutines'
  BY <1>25, <1>m DEF Announce, Asked, Goto, Again
<1>26. ASSUME NEW s \in Session, NEW c \in Channel, Record(s, c) PROVE Goroutines'
  <2> DEFINE q == registry[c]
  <2>1. CASE q = None
    BY <1>26, <1>m, <2>1 DEF Record, Asked, Goto
  <2>2. CASE q # None
    <3>1. q \in Session
      BY <2>2, AliveStep DEF RelayInvariant, TypeOK, PusherTypeOK
    <3>2. pc' = [pc EXCEPT ![Loop(s)] = Again(s), ![Relay(q)] = RelayAgain(q)]
      BY <1>26, <1>m, <2>2 DEF Record
    <3>3. Again(s) \in {"gone", "read"} /\ RelayAgain(q) \in {"gone", "select"}
      BY DEF Again, RelayAgain
    <3>4. QED
      BY <1>m, <3>1, <3>2, <3>3
  <2>3. QED
    BY <2>1, <2>2
<1>27. ASSUME NEW s \in Session, NEW c \in Channel, Describe(s, c) PROVE Goroutines'
  BY <1>27, <1>m DEF Describe, Asked, Goto
<1>28. ASSUME NEW s \in Session, NEW c \in Channel, Play(s, c) PROVE Goroutines'
  BY <1>28, <1>m DEF Play, Asked, Goto, Again
<1>29. ASSUME NEW t \in Thread, Enqueue(t)
      PROVE  Goroutines'
  BY <1>u, <1>29 DEF Enqueue
<1>30. QED
  BY <1>u, <1>1, <1>2, <1>3, <1>4, <1>5, <1>6, <1>7, <1>8, <1>9, <1>10, <1>11, <1>12, <1>13,
     <1>14, <1>15, <1>16, <1>17, <1>18, <1>19, <1>20, <1>21, <1>22, <1>23, <1>24, <1>25, <1>26,
     <1>27, <1>28, <1>29, ThreadSession DEF Next, Proceed, Acquire, Client

\* A step wakes a receiver only for a frame or for a stop.
LEMMA WokenStep ==
  ASSUME RelayInvariant, Next, ~crashed'
  PROVE  WokenForAReason'
<1>t. ~crashed /\ WokenForAReason
  BY AliveStep DEF RelayInvariant
<1>v. /\ pc \in [Thread -> Points]
      /\ stoped \in [Session -> BOOLEAN]
      /\ queue \in [Session -> Seq(Frame)]
  BY AliveStep DEF RelayInvariant, TypeOK, GoroutineTypeOK, PlayerTypeOK, SessionTypeOK
<1>n. \A t \in Thread : t[2] \in Session
  BY ThreadSession
<1>m. \A s \in Session : Loop(s) \in Thread /\ Relay(s) \in Thread /\ Receiver(s) \in Thread
  BY ThreadNames
<1> USE <1>t, <1>v DEF WokenForAReason, sessions, playing
<1>u. CASE UNCHANGED <<pc, queue, stoped>>
  BY <1>u
<1>1. ASSUME NEW t \in Thread, Offer(t) PROVE WokenForAReason'
  BY <1>1, <1>n, <1>m DEF Offer, Goto
<1>2. ASSUME NEW t \in Thread, Delivered(t) PROVE WokenForAReason'
  BY <1>2, <1>n, <1>m DEF Delivered, Goto, Again
<1>3. ASSUME NEW t \in Thread, Stop(t) PROVE WokenForAReason'
  BY <1>3, <1>n, <1>m DEF Stop, Goto
<1>4. ASSUME NEW t \in Thread, Mark(t) PROVE WokenForAReason'
  BY <1>4, <1>n, <1>m DEF Mark, Goto, Panic
<1>5. ASSUME NEW t \in Thread, CloseExit(t) PROVE WokenForAReason'
  BY <1>5, <1>n, <1>m DEF CloseExit, Goto, Panic
<1>6. ASSUME NEW t \in Thread, Unregister(t) PROVE WokenForAReason'
  BY <1>6, <1>n, <1>m DEF Unregister, Goto
<1>7. ASSUME NEW t \in Thread, HooksDone(t) PROVE WokenForAReason'
  BY <1>7, <1>n, <1>m DEF HooksDone, Goto
<1>8. ASSUME NEW t \in Thread, Close(t) PROVE WokenForAReason'
  BY <1>8, <1>n, <1>m DEF Close, Goto, Panic
<1>9. ASSUME NEW t \in Thread, AppendFrame(t) PROVE WokenForAReason'
  <2>1. at[t] \in Session /\ frame[t] \in Frame
    BY <1>9, <1>n, <1>m, AliveStep DEF AppendFrame, RelayInvariant, InCall, TypeOK, GoroutineTypeOK
  <2>2. Append(queue[at[t]], frame[t]) # << >>
    <3>1. queue[at[t]] \in Seq(Frame)
      BY <1>v, <2>1
    <3>2. QED
      BY <2>1, <3>1, AppendProperties
  <2>3. queue' = [queue EXCEPT ![at[t]] = Append(queue[at[t]], frame[t])] /\ stoped' = stoped
    BY <1>9, <1>n, <1>m DEF AppendFrame
  <2>4. ASSUME NEW r \in Session, r # at[t], pc'[Receiver(r)] \in {"woken", "check"}
        PROVE  pc[Receiver(r)] \in {"woken", "check"}
    <3>1. Receiver(r) # Receiver(at[t])
      BY <2>1, <2>4, ThreadNames
    <3>2. pc' \in {[pc EXCEPT ![t] = "deliver"],
                   [pc EXCEPT ![t] = "deliver", ![Receiver(at[t])] = "woken"]}
      BY <1>9, <1>n, <1>m DEF AppendFrame, Wake
    <3>3. QED
      BY <1>m, <2>1, <2>4, <3>1, <3>2
  <2>5. QED
    BY <2>1, <2>2, <2>3, <2>4
<1>10. ASSUME NEW t \in Thread, Broadcast(t) PROVE WokenForAReason'
  <2>1. stoped[t[2]] /\ stoped' = stoped /\ queue' = queue /\ t[2] \in Session
    BY <1>10, <1>n, <1>m, AliveStep DEF Broadcast, RelayInvariant, MarkedBefore
  <2>2. ASSUME NEW r \in Session, r # t[2], pc'[Receiver(r)] \in {"woken", "check"}
        PROVE  pc[Receiver(r)] \in {"woken", "check"}
    <3>1. Receiver(r) # Receiver(t[2])
      BY <2>1, <2>2, ThreadNames
    <3>2. pc' \in {[pc EXCEPT ![t] = "detach"],
                   [pc EXCEPT ![t] = "detach", ![Receiver(t[2])] = "woken"]}
      BY <1>10, <1>n, <1>m DEF Broadcast, Wake
    <3>3. QED
      BY <1>m, <2>1, <2>2, <3>1, <3>2
  <2>3. QED
    BY <2>1, <2>2
<1>11. ASSUME NEW t \in Thread, Detach(t) PROVE WokenForAReason'
  BY <1>11, <1>n, <1>m DEF Detach, Goto
<1>12. ASSUME NEW q \in Session, RelayEnds(q) PROVE WokenForAReason'
  BY <1>12, <1>m DEF RelayEnds, Goto
<1>13. ASSUME NEW q \in Session, RangeDone(q) PROVE WokenForAReason'
  BY <1>13, <1>m DEF RangeDone, Goto, RelayAgain
<1>14. ASSUME NEW q \in Session, Take(q) PROVE WokenForAReason'
  BY <1>14, <1>m DEF Take, Goto
<1>15. ASSUME NEW q \in Session, NEW p \in Session, SendFrame(q, p) PROVE WokenForAReason'
  BY <1>15, <1>m DEF SendFrame, Goto
<1>16. ASSUME NEW s \in Session, ReceiverTop(s) PROVE WokenForAReason'
  BY <1>16, <1>m DEF ReceiverTop, Goto
<1>17. ASSUME NEW s \in Session, BreakOut(s) PROVE WokenForAReason'
  BY <1>17, <1>m DEF BreakOut, Goto
<1>18. ASSUME NEW s \in Session, WriteFrame(s) PROVE WokenForAReason'
  BY <1>18, <1>m DEF WriteFrame, Goto
<1>19. ASSUME NEW s \in Session, LockOrWait(s) PROVE WokenForAReason'
  <2>1. queue' = queue /\ stoped' = stoped
    BY <1>19, <1>m DEF LockOrWait
  <2>2. CASE queue[s] = << >>
    <3>1. pc' = [pc EXCEPT ![Receiver(s)] = "wait"]
      BY <1>19, <1>m, <2>2 DEF LockOrWait, Goto
    <3>2. QED
      BY <1>m, <2>1, <3>1
  <2>3. CASE queue[s] # << >>
    <3>1. pc' = [pc EXCEPT ![Receiver(s)] = "check"]
      BY <1>19, <1>m, <2>3 DEF LockOrWait, Goto
    <3>2. ASSUME NEW r \in Session, r # s PROVE Receiver(r) # Receiver(s)
      BY <3>2, ThreadNames
    <3>3. QED
      BY <1>m, <2>1, <2>3, <3>1, <3>2
  <2>4. QED
    BY <2>2, <2>3
<1>20. ASSUME NEW s \in Session, Woken(s) PROVE WokenForAReason'
  BY <1>20, <1>m DEF Woken, Goto
<1>21. ASSUME NEW s \in Session, Attach(s) PROVE WokenForAReason'
  BY <1>21, <1>m DEF Attach, Goto, Again
<1>22. ASSUME NEW s \in Session, Teardown(s) PROVE WokenForAReason'
  BY <1>22, <1>m DEF Teardown, Goto
<1>23. ASSUME NEW s \in Session, ReadFails(s) PROVE WokenForAReason'
  BY <1>23, <1>m DEF ReadFails, Goto
<1>24. ASSUME NEW s \in Session, ReadFrame(s) PROVE WokenForAReason'
  BY <1>24, <1>m DEF ReadFrame, Goto
<1>25. ASSUME NEW s \in Session, NEW c \in Channel, Announce(s, c) PROVE WokenForAReason'
  BY <1>25, <1>m DEF Announce, Asked, Goto, Again
<1>26. ASSUME NEW s \in Session, NEW c \in Channel, Record(s, c) PROVE WokenForAReason'
  BY <1>26, <1>m DEF Record, Asked, Goto, Again, RelayAgain
<1>27. ASSUME NEW s \in Session, NEW c \in Channel, Describe(s, c) PROVE WokenForAReason'
  BY <1>27, <1>m DEF Describe, Asked, Goto
<1>28. ASSUME NEW s \in Session, NEW c \in Channel, Play(s, c) PROVE WokenForAReason'
  BY <1>28, <1>m DEF Play, Asked, Goto, Again
<1>29. ASSUME NEW t \in Thread, Enqueue(t)
      PROVE  WokenForAReason'
  BY <1>u, <1>29 DEF Enqueue
<1>30. QED
  BY <1>u, <1>1, <1>2, <1>3, <1>4, <1>5, <1>6, <1>7, <1>8, <1>9, <1>10, <1>11, <1>12, <1>13,
     <1>14, <1>15, <1>16, <1>17, <1>18, <1>19, <1>20, <1>21, <1>22, <1>23, <1>24, <1>25, <1>26,
     <1>27, <1>28, <1>29, ThreadSession DEF Next, Proceed, Acquire, Client

\* A step runs stop functions only for a session that was marked.
LEMMA MarkedStep ==
  ASSUME RelayInvariant, Next, ~crashed'
  PROVE  MarkedBefore'
<1>t. ~crashed /\ MarkedBefore
  BY AliveStep DEF RelayInvariant
<1>v. /\ pc \in [Thread -> Points]
      /\ stoped \in [Session -> BOOLEAN]
  BY AliveStep DEF RelayInvariant, TypeOK, GoroutineTypeOK, SessionTypeOK
<1>n. \A t \in Thread : t[2] \in Session
  BY ThreadSession
<1>m. \A s \in Session : Loop(s) \in Thread /\ Relay(s) \in Thread /\ Receiver(s) \in Thread
  BY ThreadNames
<1> USE <1>t, <1>v DEF MarkedBefore, sessions
<1>u. CASE UNCHANGED <<pc, stoped>>
  BY <1>u
<1>1. ASSUME NEW t \in Thread, Offer(t) PROVE MarkedBefore'
  BY <1>1, <1>n DEF Offer, Goto
<1>2. ASSUME NEW t \in Thread, Delivered(t) PROVE MarkedBefore'
  BY <1>2, <1>n DEF Delivered, Goto, Again
<1>3. ASSUME NEW t \in Thread, Stop(t) PROVE MarkedBefore'
  BY <1>3, <1>n DEF Stop, Goto
<1>4. ASSUME NEW t \in Thread, Mark(t) PROVE MarkedBefore'
  BY <1>4, <1>n DEF Mark, Goto, Panic
<1>5. ASSUME NEW t \in Thread, CloseExit(t) PROVE MarkedBefore'
  BY <1>5, <1>n DEF CloseExit, Goto, Panic
<1>6. ASSUME NEW t \in Thread, Unregister(t) PROVE MarkedBefore'
  BY <1>6, <1>n DEF Unregister, Goto
<1>7. ASSUME NEW t \in Thread, HooksDone(t) PROVE MarkedBefore'
  BY <1>7, <1>n DEF HooksDone, Goto
<1>8. ASSUME NEW t \in Thread, Close(t) PROVE MarkedBefore'
  BY <1>8, <1>n DEF Close, Goto, Panic
<1>9. ASSUME NEW t \in Thread, AppendFrame(t) PROVE MarkedBefore'
  BY <1>9, <1>n DEF AppendFrame, Wake
<1>10. ASSUME NEW t \in Thread, Broadcast(t) PROVE MarkedBefore'
  BY <1>10, <1>n DEF Broadcast, Wake
<1>11. ASSUME NEW t \in Thread, Detach(t) PROVE MarkedBefore'
  BY <1>11, <1>n DEF Detach, Goto
<1>12. ASSUME NEW q \in Session, RelayEnds(q) PROVE MarkedBefore'
  BY <1>12, <1>m DEF RelayEnds, Goto
<1>13. ASSUME NEW q \in Session, RangeDone(q) PROVE MarkedBefore'
  BY <1>13, <1>m DEF RangeDone, Goto, RelayAgain
<1>14. ASSUME NEW q \in Session, Take(q) PROVE MarkedBefore'
  BY <1>14, <1>m DEF Take, Goto
<1>15. ASSUME NEW q \in Session, NEW p \in Session, SendFrame(q, p) PROVE MarkedBefore'
  BY <1>15, <1>m DEF SendFrame, Goto
<1>16. ASSUME NEW s \in Session, ReceiverTop(s) PROVE MarkedBefore'
  BY <1>16, <1>m DEF ReceiverTop, Goto
<1>17. ASSUME NEW s \in Session, BreakOut(s) PROVE MarkedBefore'
  BY <1>17, <1>m DEF BreakOut, Goto
<1>18. ASSUME NEW s \in Session, WriteFrame(s) PROVE MarkedBefore'
  BY <1>18, <1>m DEF WriteFrame, Goto
<1>19. ASSUME NEW s \in Session, LockOrWait(s) PROVE MarkedBefore'
  BY <1>19, <1>m DEF LockOrWait, Goto
<1>20. ASSUME NEW s \in Session, Woken(s) PROVE MarkedBefore'
  BY <1>20, <1>m DEF Woken, Goto
<1>21. ASSUME NEW s \in Session, Attach(s) PROVE MarkedBefore'
  BY <1>21, <1>m DEF Attach, Goto, Again
<1>22. ASSUME NEW s \in Session, Teardown(s) PROVE MarkedBefore'
  BY <1>22, <1>m DEF Teardown, Goto
<1>23. ASSUME NEW s \in Session, ReadFails(s) PROVE MarkedBefore'
  BY <1>23, <1>m DEF ReadFails, Goto
<1>24. ASSUME NEW s \in Session, ReadFrame(s) PROVE MarkedBefore'
  BY <1>24, <1>m DEF ReadFrame, Goto
<1>25. ASSUME NEW s \in Session, NEW c \in Channel, Announce(s, c) PROVE MarkedBefore'
  BY <1>25, <1>m DEF Announce, Asked, Goto, Again
<1>26. ASSUME NEW s \in Session, NEW c \in Channel, Record(s, c) PROVE MarkedBefore'
  BY <1>26, <1>m DEF Record, Asked, Goto, Again, RelayAgain
<1>27. ASSUME NEW s \in Session, NEW c \in Channel, Describe(s, c) PROVE MarkedBefore'
  BY <1>27, <1>m DEF Describe, Asked, Goto
<1>28. ASSUME NEW s \in Session, NEW c \in Channel, Play(s, c) PROVE MarkedBefore'
  BY <1>28, <1>m DEF Play, Asked, Goto, Again
<1>29. ASSUME NEW t \in Thread, Enqueue(t)
      PROVE  MarkedBefore'
  BY <1>u, <1>29 DEF Enqueue
<1>30. QED
  BY <1>u, <1>1, <1>2, <1>3, <1>4, <1>5, <1>6, <1>7, <1>8, <1>9, <1>10, <1>11, <1>12, <1>13,
     <1>14, <1>15, <1>16, <1>17, <1>18, <1>19, <1>20, <1>21, <1>22, <1>23, <1>24, <1>25, <1>26,
     <1>27, <1>28, <1>29, ThreadSession DEF Next, Proceed, Acquire, Client

\* A step leaves every list of functions a list of distinct roles.
LEMMA ListsStep ==
  ASSUME RelayInvariant, Next, ~crashed'
  PROVE  FunctionLists'
<1>t. ~crashed /\ FunctionLists
  BY AliveStep DEF RelayInvariant
<1>v. /\ todoFuncs \in [Thread -> Seq({"pusher", "player"})]
      /\ roles \in [Session -> Seq({"pusher", "player"})]
  BY AliveStep DEF RelayInvariant, TypeOK, GoroutineTypeOK, SessionTypeOK
<1>n. \A t \in Thread : t[2] \in Session
  BY ThreadSession
<1>m. \A s \in Session : Loop(s) \in Thread /\ Relay(s) \in Thread /\ Receiver(s) \in Thread
  BY ThreadNames
<1> USE <1>t, <1>v DEF FunctionLists, calls, sessions
<1>u. CASE UNCHANGED <<todoFuncs, roles>>
  BY <1>u
<1>1. ASSUME NEW t \in Thread, Offer(t) PROVE FunctionLists'
  <2>1. CASE UNCHANGED <<todoFuncs, roles>>
    BY <1>u, <2>1
  <2>2. CASE Called(t)
    BY <1>1, <1>n, <2>2, CalledLists DEF Offer
  <2>3. QED
    BY <1>1, <1>n, <2>1, <2>2 DEF Offer
<1>2. ASSUME NEW t \in Thread, Mark(t) PROVE FunctionLists'
  BY <1>2, <1>n DEF Mark
<1>3. ASSUME NEW t \in Thread, Unregister(t) PROVE FunctionLists'
  <2>1. todoFuncs[t] # << >>
    BY <1>3, <1>n, AliveStep DEF Unregister, RelayInvariant, InCall
  <2>2. QED
    BY <1>3, <1>n, <2>1, CalledLists DEF Unregister
<1>4. ASSUME NEW t \in Thread, AppendFrame(t) PROVE FunctionLists'
  <2>1. todoFuncs[t] # << >>
    BY <1>4, <1>n, AliveStep DEF AppendFrame, RelayInvariant, InCall
  <2>2. QED
    BY <1>4, <1>n, <2>1, CalledLists DEF AppendFrame
<1>5. ASSUME NEW t \in Thread, Enqueue(t) PROVE FunctionLists'
  <2>1. todoFuncs[t] # << >>
    BY <1>5, <1>n, AliveStep DEF Enqueue, RelayInvariant, InCall
  <2>2. QED
    BY <1>5, <1>n, <2>1, CalledLists DEF Enqueue
<1>6. ASSUME NEW t \in Thread, Detach(t) PROVE FunctionLists'
  <2>1. todoFuncs[t] # << >>
    BY <1>6, <1>n, AliveStep DEF Detach, RelayInvariant, InCall
  <2>2. QED
    BY <1>6, <1>n, <2>1, CalledLists DEF Detach
<1>7. ASSUME NEW q \in Session, NEW p \in Session, SendFrame(q, p) PROVE FunctionLists'
  <2>1. roles[p] \in RoleList
    BY DEF FunctionLists
  <2>2. QED
    BY <1>7, <1>m, <2>1 DEF SendFrame
<1>8. ASSUME NEW s \in Session, Attach(s) PROVE FunctionLists'
  <2>1. ~Has(roles[s], "player") /\ roles[s] \in RoleList
    BY <1>8, <1>m, AliveStep DEF Attach, RelayInvariant, Viewing, Plays
  <2>2. Append(roles[s], "player") \in RoleList
    BY <2>1, ListAppend
  <2>3. QED
    BY <1>8, <1>m, <2>2 DEF Attach
<1>9. ASSUME NEW s \in Session, ReadFrame(s) PROVE FunctionLists'
  BY <1>9, <1>m DEF ReadFrame
<1>10. ASSUME NEW s \in Session, NEW c \in Channel, Announce(s, c) PROVE FunctionLists'
  <2>1. CASE registry[c] # None
    BY <1>10, <1>m, <1>u, <2>1 DEF Announce
  <2>2. CASE registry[c] = None
    <3>1. ~Has(roles[s], "pusher") /\ roles[s] \in RoleList
      BY <1>10, <1>m, <2>2 DEF Announce, Has
    <3>2. Append(roles[s], "pusher") \in RoleList
      BY <3>1, ListAppend
    <3>3. QED
      BY <1>10, <1>m, <2>2, <3>2 DEF Announce
  <2>3. QED
    BY <2>1, <2>2
<1>11. ASSUME NEW t \in Thread, Delivered(t) \/ Stop(t) \/ CloseExit(t) \/ HooksDone(t) \/
              Close(t) \/ Broadcast(t)
      PROVE  FunctionLists'
  BY <1>u, <1>11 DEF Delivered, Stop, CloseExit, HooksDone, Close, Broadcast
<1>12. ASSUME NEW q \in Session, RelayEnds(q) \/ RangeDone(q) \/ Take(q)
      PROVE  FunctionLists'
  BY <1>u, <1>12 DEF RelayEnds, RangeDone, Take
<1>13. ASSUME NEW s \in Session, ReceiverTop(s) \/ BreakOut(s) \/ WriteFrame(s) \/ LockOrWait(s)
              \/ Woken(s) \/ Teardown(s) \/ ReadFails(s)
      PROVE  FunctionLists'
  BY <1>u, <1>13 DEF ReceiverTop, BreakOut, WriteFrame, LockOrWait, Woken, Teardown, ReadFails
<1>14. ASSUME NEW s \in Session, NEW c \in Channel, Record(s, c) \/ Describe(s, c) \/ Play(s, c)
      PROVE  FunctionLists'
  BY <1>u, <1>14 DEF Record, Describe, Play
<1>15. QED
  BY <1>u, <1>1, <1>2, <1>3, <1>4, <1>5, <1>6, <1>7, <1>8, <1>9, <1>10, <1>11, <1>12, <1>13,
     <1>14, ThreadSession DEF Next, Proceed, Acquire, Client

\* A step leaves every goroutine that is inside a function with it in hand.
LEMMA InCallStep ==
  ASSUME RelayInvariant, Next, ~crashed'
  PROVE  InCall'
<1>t. ~crashed /\ InCall
  BY AliveStep DEF RelayInvariant
<1>v. /\ pc \in [Thread -> Points]
      /\ frame \in [Thread -> Frame \cup {None}]
      /\ todoFuncs \in [Thread -> Seq({"pusher", "player"})]
  BY AliveStep DEF RelayInvariant, TypeOK, GoroutineTypeOK
<1>n. \A t \in Thread : t[2] \in Session
  BY ThreadSession
<1>m. \A s \in Session : Loop(s) \in Thread /\ Relay(s) \in Thread /\ Receiver(s) \in Thread
  BY ThreadNames
<1> USE <1>t, <1>v DEF InCall, calls
<1>1. ASSUME NEW t \in Thread, Offer(t) PROVE InCall'
  BY <1>1, <1>n DEF Offer, Called, Goto
<1>2. ASSUME NEW t \in Thread, Delivered(t) PROVE InCall'
  BY <1>2, <1>n DEF Delivered, Goto, Again
<1>3. ASSUME NEW t \in Thread, Stop(t) PROVE InCall'
  BY <1>3, <1>n DEF Stop, Goto
<1>4. ASSUME NEW t \in Thread, Mark(t) PROVE InCall'
  BY <1>4, <1>n DEF Mark, Goto, Panic
<1>5. ASSUME NEW t \in Thread, CloseExit(t) PROVE InCall'
  BY <1>5, <1>n DEF CloseExit, Goto, Panic
<1>6. ASSUME NEW t \in Thread, Unregister(t) PROVE InCall'
  BY <1>6, <1>n DEF Unregister, Called, Goto
<1>7. ASSUME NEW t \in Thread, HooksDone(t) PROVE InCall'
  BY <1>7, <1>n DEF HooksDone, Goto
<1>8. ASSUME NEW t \in Thread, Close(t) PROVE InCall'
  BY <1>8, <1>n DEF Close, Goto, Panic
<1>9. ASSUME NEW t \in Thread, AppendFrame(t) PROVE InCall'
  BY <1>9, <1>n DEF AppendFrame, Called, Wake
<1>10. ASSUME NEW t \in Thread, Enqueue(t) PROVE InCall'
  BY <1>10, <1>n DEF Enqueue, Called
<1>11. ASSUME NEW t \in Thread, Broadcast(t) PROVE InCall'
  BY <1>11, <1>n DEF Broadcast, Wake
<1>12. ASSUME NEW t \in Thread, Detach(t) PROVE InCall'
  BY <1>12, <1>n DEF Detach, Called, Goto
<1>13. ASSUME NEW q \in Session, RelayEnds(q) PROVE InCall'
  BY <1>13, <1>m DEF RelayEnds, Goto
<1>14. ASSUME NEW q \in Session, RangeDone(q) PROVE InCall'
  BY <1>14, <1>m DEF RangeDone, Goto, RelayAgain
<1>15. ASSUME NEW q \in Session, Take(q) PROVE InCall'
  <2>1. Head(channel[q]) \in Frame
    BY <1>15, <1>m, AliveStep, TakenFrame DEF Take, RelayInvariant
  <2>2. QED
    BY <1>15, <1>m, <2>1 DEF Take, Goto
<1>16. ASSUME NEW q \in Session, NEW p \in Session, SendFrame(q, p) PROVE InCall'
  BY <1>16, <1>m DEF SendFrame, Goto
<1>17. ASSUME NEW s \in Session, ReceiverTop(s) PROVE InCall'
  BY <1>17, <1>m DEF ReceiverTop, Goto
<1>18. ASSUME NEW s \in Session, BreakOut(s) PROVE InCall'
  BY <1>18, <1>m DEF BreakOut, Goto
<1>19. ASSUME NEW s \in Session, WriteFrame(s) PROVE InCall'
  BY <1>19, <1>m DEF WriteFrame, Goto
<1>20. ASSUME NEW s \in Session, LockOrWait(s) PROVE InCall'
  BY <1>20, <1>m DEF LockOrWait, Goto
<1>21. ASSUME NEW s \in Session, Woken(s) PROVE InCall'
  BY <1>21, <1>m DEF Woken, Goto
<1>22. ASSUME NEW s \in Session, Attach(s) PROVE InCall'
  BY <1>22, <1>m DEF Attach, Goto, Again
<1>23. ASSUME NEW s \in Session, Teardown(s) PROVE InCall'
  BY <1>23, <1>m DEF Teardown, Goto
<1>24. ASSUME NEW s \in Session, ReadFails(s) PROVE InCall'
  BY <1>24, <1>m DEF ReadFails, Goto
<1>25. ASSUME NEW s \in Session, ReadFrame(s) PROVE InCall'
  <2>1. [from |-> s, seq |-> sent[s] + 1] \in Frame
    BY <1>25, <1>m, AliveStep, FrameRead DEF ReadFrame, RelayInvariant
  <2>2. QED
    BY <1>25, <1>m, <2>1 DEF ReadFrame, Goto
<1>26. ASSUME NEW s \in Session, NEW c \in Channel, Announce(s, c) PROVE InCall'
  BY <1>26, <1>m DEF Announce, Asked, Goto, Again
<1>27. ASSUME NEW s \in Session, NEW c \in Channel, Record(s, c) PROVE InCall'
  BY <1>27, <1>m DEF Record, Asked, Goto, Again, RelayAgain
<1>28. ASSUME NEW s \in Session, NEW c \in Channel, Describe(s, c) PROVE InCall'
  BY <1>28, <1>m DEF Describe, Asked, Goto
<1>29. ASSUME NEW s \in Session, NEW c \in Channel, Play(s, c) PROVE InCall'
  BY <1>29, <1>m DEF Play, Asked, Goto, Again
<1>30. QED
  BY <1>1, <1>2, <1>3, <1>4, <1>5, <1>6, <1>7, <1>8, <1>9, <1>10, <1>11, <1>12, <1>13, <1>14,
     <1>15, <1>16, <1>17, <1>18, <1>19, <1>20, <1>21, <1>22, <1>23, <1>24, <1>25, <1>26, <1>27,
     <1>28, <1>29, ThreadSession DEF Next, Proceed, Acquire, Client

\* A step leaves a stop to call only functions that are registered.
LEMMA StopListsStep ==
  ASSUME RelayInvariant, Next, ~crashed'
  PROVE  StopLists'
<1>t. ~crashed /\ StopLists
  BY AliveStep DEF RelayInvariant
<1>v. /\ pc \in [Thread -> Points]
      /\ roles \in [Session -> Seq({"pusher", "player"})]
      /\ todoFuncs \in [Thread -> Seq({"pusher", "player"})]
  BY AliveStep DEF RelayInvariant, TypeOK, GoroutineTypeOK, SessionTypeOK
<1>n. \A t \in Thread : t[2] \in Session
  BY ThreadSession
<1>m. \A s \in Session : Loop(s) \in Thread /\ Relay(s) \in Thread /\ Receiver(s) \in Thread
  BY ThreadNames
<1> USE <1>t, <1>v DEF StopLists, calls, sessions
<1>1. ASSUME NEW t \in Thread, Offer(t) PROVE StopLists'
  BY <1>1, <1>n DEF Offer, Called, Goto
<1>2. ASSUME NEW t \in Thread, Delivered(t) PROVE StopLists'
  BY <1>2, <1>n DEF Delivered, Goto, Again
<1>3. ASSUME NEW t \in Thread, Stop(t) PROVE StopLists'
  BY <1>3, <1>n DEF Stop, Goto
<1>4. ASSUME NEW t \in Thread, Mark(t) PROVE StopLists'
  BY <1>4, <1>n DEF Mark, Goto, Panic
<1>5. ASSUME NEW t \in Thread, CloseExit(t) PROVE StopLists'
  BY <1>5, <1>n DEF CloseExit, Goto, Panic
<1>6. ASSUME NEW t \in Thread, Unregister(t) PROVE StopLists'
  <2>1. todoFuncs[t] # << >> /\ todoFuncs[t] \in RoleList
    BY <1>6, <1>n, AliveStep DEF Unregister, RelayInvariant, InCall, FunctionLists
  <2>2. \A r : Has(Tail(todoFuncs[t]), r) => Has(todoFuncs[t], r)
    BY <2>1, ListTail
  <2>3. QED
    BY <1>6, <1>n, <2>2 DEF Unregister, Called, Goto
<1>7. ASSUME NEW t \in Thread, HooksDone(t) PROVE StopLists'
  BY <1>7, <1>n DEF HooksDone, Goto
<1>8. ASSUME NEW t \in Thread, Close(t) PROVE StopLists'
  BY <1>8, <1>n DEF Close, Goto, Panic
<1>9. ASSUME NEW t \in Thread, AppendFrame(t) PROVE StopLists'
  BY <1>9, <1>n DEF AppendFrame, Called, Wake
<1>10. ASSUME NEW t \in Thread, Enqueue(t) PROVE StopLists'
  BY <1>10, <1>n DEF Enqueue, Called
<1>11. ASSUME NEW t \in Thread, Broadcast(t) PROVE StopLists'
  BY <1>11, <1>n DEF Broadcast, Wake
<1>12. ASSUME NEW t \in Thread, Detach(t) PROVE StopLists'
  <2>1. todoFuncs[t] # << >> /\ todoFuncs[t] \in RoleList
    BY <1>12, <1>n, AliveStep DEF Detach, RelayInvariant, InCall, FunctionLists
  <2>2. \A r : Has(Tail(todoFuncs[t]), r) => Has(todoFuncs[t], r)
    BY <2>1, ListTail
  <2>3. QED
    BY <1>12, <1>n, <2>2 DEF Detach, Called, Goto
<1>13. ASSUME NEW q \in Session, RelayEnds(q) PROVE StopLists'
  BY <1>13, <1>m DEF RelayEnds, Goto
<1>14. ASSUME NEW q \in Session, RangeDone(q) PROVE StopLists'
  BY <1>14, <1>m DEF RangeDone, Goto, RelayAgain
<1>15. ASSUME NEW q \in Session, Take(q) PROVE StopLists'
  BY <1>15, <1>m DEF Take, Goto
<1>16. ASSUME NEW q \in Session, NEW p \in Session, SendFrame(q, p) PROVE StopLists'
  BY <1>16, <1>m DEF SendFrame, Goto
<1>17. ASSUME NEW s \in Session, ReceiverTop(s) PROVE StopLists'
  BY <1>17, <1>m DEF ReceiverTop, Goto
<1>18. ASSUME NEW s \in Session, BreakOut(s) PROVE StopLists'
  BY <1>18, <1>m DEF BreakOut, Goto
<1>19. ASSUME NEW s \in Session, WriteFrame(s) PROVE StopLists'
  BY <1>19, <1>m DEF WriteFrame, Goto
<1>20. ASSUME NEW s \in Session, LockOrWait(s) PROVE StopLists'
  BY <1>20, <1>m DEF LockOrWait, Goto
<1>21. ASSUME NEW s \in Session, Woken(s) PROVE StopLists'
  BY <1>21, <1>m DEF Woken, Goto
<1>22. ASSUME NEW s \in Session, Attach(s) PROVE StopLists'
  <2>1. roles[s] \in RoleList /\ ~Has(roles[s], "player")
    BY <1>22, <1>m, AliveStep DEF Attach, RelayInvariant, FunctionLists, Viewing, Plays
  <2>2. \A f : Has(roles[s], f) => Has(Append(roles[s], "player"), f)
    BY <2>1, ListAppend
  <2>3. QED
    BY <1>22, <1>m, <2>2 DEF Attach, Goto, Again
<1>23. ASSUME NEW s \in Session, Teardown(s) PROVE StopLists'
  BY <1>23, <1>m DEF Teardown, Goto
<1>24. ASSUME NEW s \in Session, ReadFails(s) PROVE StopLists'
  BY <1>24, <1>m DEF ReadFails, Goto
<1>25. ASSUME NEW s \in Session, ReadFrame(s) PROVE StopLists'
  BY <1>25, <1>m DEF ReadFrame, Goto
<1>26. ASSUME NEW s \in Session, NEW c \in Channel, Announce(s, c) PROVE StopLists'
  <2>1. CASE registry[c] # None
    BY <1>26, <1>m, <2>1 DEF Announce, Asked, Goto
  <2>2. CASE registry[c] = None
    <3>1. roles[s] \in RoleList /\ ~Has(roles[s], "pusher")
      BY <1>26, <1>m, <2>2, AliveStep DEF Announce, RelayInvariant, FunctionLists, Has
    <3>2. \A f : Has(roles[s], f) => Has(Append(roles[s], "pusher"), f)
      BY <3>1, ListAppend
    <3>3. /\ roles' = [roles EXCEPT ![s] = Append(roles[s], "pusher")] /\ todoFuncs' = todoFuncs
          /\ \E p \in {"read", "gone", "stop"} : pc' = [pc EXCEPT ![Loop(s)] = p]
      BY <1>26, <1>m, <2>2, RequestMoves DEF Announce
    <3>4. QED
      BY <1>m, <3>2, <3>3
  <2>3. QED
    BY <2>1, <2>2
<1>27. ASSUME NEW s \in Session, NEW c \in Channel, Record(s, c) PROVE StopLists'
  BY <1>27, <1>m DEF Record, Asked, Goto, Again, RelayAgain
<1>28. ASSUME NEW s \in Session, NEW c \in Channel, Describe(s, c) PROVE StopLists'
  BY <1>28, <1>m DEF Describe, Asked, Goto
<1>29. ASSUME NEW s \in Session, NEW c \in Channel, Play(s, c) PROVE StopLists'
  BY <1>29, <1>m DEF Play, Asked, Goto, Again
<1>30. QED
  BY <1>1, <1>2, <1>3, <1>4, <1>5, <1>6, <1>7, <1>8, <1>9, <1>10, <1>11, <1>12, <1>13, <1>14,
     <1>15, <1>16, <1>17, <1>18, <1>19, <1>20, <1>21, <1>22, <1>23, <1>24, <1>25, <1>26, <1>27,
     <1>28, <1>29, ThreadSession DEF Next, Proceed, Acquire, Client

\* A step lets a session view only once, and starts no receiver without its Player.
LEMMA ViewingStep ==
  ASSUME RelayInvariant, Next, ~crashed'
  PROVE  Viewing'
<1>t. ~crashed /\ Viewing
  BY AliveStep DEF RelayInvariant
<1>v. /\ pc \in [Thread -> Points]
      /\ roles \in [Session -> Seq({"pusher", "player"})]
      /\ players \in [Session -> SUBSET Session]
      /\ upstream \in [Session -> Session \cup {None}]
  BY AliveStep DEF RelayInvariant, TypeOK, GoroutineTypeOK, PlayerTypeOK, PusherTypeOK, SessionTypeOK
<1>n. \A t \in Thread : t[2] \in Session
  BY ThreadSession
<1>m. \A s \in Session : Loop(s) \in Thread /\ Relay(s) \in Thread /\ Receiver(s) \in Thread
  BY ThreadNames
<1> USE <1>t, <1>v DEF Viewing, Plays, sessions, maps, playing
<1>u. CASE UNCHANGED <<pc, roles, players, upstream>>
  BY <1>u
<1>1. ASSUME NEW t \in Thread, Offer(t) PROVE Viewing'
  BY <1>1, <1>m DEF Offer, Goto
<1>2. ASSUME NEW t \in Thread, Delivered(t) PROVE Viewing'
  BY <1>2, <1>m DEF Delivered, Goto, Again
<1>3. ASSUME NEW t \in Thread, Stop(t) PROVE Viewing'
  BY <1>3, <1>m DEF Stop, Goto
<1>4. ASSUME NEW t \in Thread, Mark(t) PROVE Viewing'
  BY <1>4, <1>m DEF Mark, Goto, Panic
<1>5. ASSUME NEW t \in Thread, CloseExit(t) PROVE Viewing'
  BY <1>5, <1>m DEF CloseExit, Goto, Panic
<1>6. ASSUME NEW t \in Thread, Unregister(t) PROVE Viewing'
  BY <1>6, <1>m DEF Unregister, Goto
<1>7. ASSUME NEW t \in Thread, HooksDone(t) PROVE Viewing'
  BY <1>7, <1>m DEF HooksDone, Goto
<1>8. ASSUME NEW t \in Thread, Close(t) PROVE Viewing'
  BY <1>8, <1>m DEF Close, Goto, Panic
<1>9. ASSUME NEW t \in Thread, AppendFrame(t) PROVE Viewing'
  BY <1>9, <1>m DEF AppendFrame, Wake
<1>10. ASSUME NEW t \in Thread, Broadcast(t) PROVE Viewing'
  BY <1>10, <1>m DEF Broadcast, Wake
<1>11. ASSUME NEW t \in Thread, Detach(t) PROVE Viewing'
  BY <1>11, <1>m DEF Detach, Goto
<1>12. ASSUME NEW q \in Session, RelayEnds(q) PROVE Viewing'
  BY <1>12, <1>m DEF RelayEnds, Goto
<1>13. ASSUME NEW q \in Session, RangeDone(q) PROVE Viewing'
  BY <1>13, <1>m DEF RangeDone, Goto, RelayAgain
<1>14. ASSUME NEW q \in Session, Take(q) PROVE Viewing'
  BY <1>14, <1>m DEF Take, Goto
<1>15. ASSUME NEW q \in Session, NEW p \in Session, SendFrame(q, p) PROVE Viewing'
  BY <1>15, <1>m DEF SendFrame, Goto
<1>16. ASSUME NEW s \in Session, ReceiverTop(s) PROVE Viewing'
  BY <1>16, <1>m DEF ReceiverTop, Goto
<1>17. ASSUME NEW s \in Session, BreakOut(s) PROVE Viewing'
  BY <1>17, <1>m DEF BreakOut, Goto
<1>18. ASSUME NEW s \in Session, WriteFrame(s) PROVE Viewing'
  BY <1>18, <1>m DEF WriteFrame, Goto
<1>19. ASSUME NEW s \in Session, LockOrWait(s) PROVE Viewing'
  BY <1>19, <1>m DEF LockOrWait, Goto
<1>20. ASSUME NEW s \in Session, Woken(s) PROVE Viewing'
  BY <1>20, <1>m DEF Woken, Goto
<1>21. ASSUME NEW s \in Session, Attach(s) PROVE Viewing'
  <2>1. roles[s] \in RoleList /\ ~Has(roles[s], "player")
    BY <1>21, <1>m, AliveStep DEF Attach, RelayInvariant, FunctionLists
  <2>2. Has(Append(roles[s], "player"), "player")
    BY <2>1, ListAppend
  <2>3. QED
    BY <1>21, <1>m, <2>2 DEF Attach, Goto, Again
<1>22. ASSUME NEW s \in Session, Teardown(s) PROVE Viewing'
  BY <1>22, <1>m DEF Teardown, Goto
<1>23. ASSUME NEW s \in Session, ReadFails(s) PROVE Viewing'
  BY <1>23, <1>m DEF ReadFails, Goto
<1>24. ASSUME NEW s \in Session, ReadFrame(s) PROVE Viewing'
  BY <1>24, <1>m DEF ReadFrame, Goto
<1>25. ASSUME NEW s \in Session, NEW c \in Channel, Announce(s, c) PROVE Viewing'
  <2>1. Has(roles'[s], "player") <=> Has(roles[s], "player")
    <3>1. CASE registry[c] # None
      BY <1>25, <1>m, <3>1 DEF Announce
    <3>2. CASE registry[c] = None
      <4>1. roles[s] \in RoleList /\ ~Has(roles[s], "pusher")
        BY <1>25, <1>m, <3>2, AliveStep DEF Announce, RelayInvariant, FunctionLists, Has
      <4>2. Has(Append(roles[s], "pusher"), "player") <=> Has(roles[s], "player")
        BY <4>1, ListAppend
      <4>3. QED
        BY <1>25, <1>m, <3>2, <4>2 DEF Announce
    <3>3. QED
      BY <3>1, <3>2
  <2>2. UNCHANGED <<players, upstream>> /\ \A x \in Session : x # s => roles'[x] = roles[x]
    BY <1>25, <1>m DEF Announce
  <2>3. PICK p \in {"read", "gone", "stop"} : pc' = [pc EXCEPT ![Loop(s)] = p]
    BY <1>25, <1>m, RequestMoves
  <2>4. QED
    BY <1>m, <2>1, <2>2, <2>3, Distinct
<1>26. ASSUME NEW s \in Session, NEW c \in Channel, Record(s, c) PROVE Viewing'
  <2>1. UNCHANGED <<roles, players, upstream>>
    BY <1>26, <1>m DEF Record
  <2>2. CASE pc' = [pc EXCEPT ![Loop(s)] = "stop"]
    BY <1>m, <2>1, <2>2, Distinct
  <2>3. ASSUME NEW p \in {"read", "gone"}, NEW r \in {"select", "gone"}, NEW q \in Session,
               pc' = [pc EXCEPT ![Loop(s)] = p, ![Relay(q)] = r]
        PROVE  Viewing'
    <3>1. \A x \in Session : pc'[Receiver(x)] = pc[Receiver(x)]
      BY <1>m, <2>3, Distinct
    <3>2. QED
      BY <1>m, <2>1, <2>3, <3>1, Distinct
  <2>4. CASE registry[c] # None
    <3>1. registry[c] \in Session
      BY <2>4, AliveStep DEF RelayInvariant, TypeOK, PusherTypeOK
    <3>2. QED
      BY <1>26, <1>m, <2>2, <2>3, <3>1, RequestMoves
  <2>5. QED
    BY <1>26, <1>m, <2>2, <2>4, RequestMoves
<1>27. ASSUME NEW s \in Session, NEW c \in Channel, Describe(s, c) PROVE Viewing'
  <2>1. UNCHANGED <<roles, players>> /\ upstream[s] = None
    BY <1>27, <1>m DEF Describe
  <2>2. QED
    BY <1>27, <1>m, <2>1, RequestMoves, Distinct
<1>28. ASSUME NEW s \in Session, NEW c \in Channel, Play(s, c) PROVE Viewing'
  <2>1. UNCHANGED <<roles, players, upstream>>
    BY <1>28, <1>m DEF Play
  <2>2. ASSUME NEW p \in {"gone", "stop"}, pc' = [pc EXCEPT ![Loop(s)] = p]
        PROVE  Viewing'
    BY <1>m, <2>1, <2>2, Distinct
  <2>3. ASSUME NEW p \in {"read", "gone"}, NEW q \in Session, s \in players[q],
               pc' = [pc EXCEPT ![Loop(s)] = p, ![Receiver(s)] = "top"]
        PROVE  Viewing'
    BY <1>m, <2>1, <2>3, Distinct
  <2>4. registry[c] # None => registry[c] \in Session
    BY AliveStep DEF RelayInvariant, TypeOK, PusherTypeOK
  <2>5. QED
    BY <1>28, <1>m, <2>2, <2>3, <2>4, RequestMoves
<1>29. ASSUME NEW t \in Thread, Enqueue(t)
      PROVE  Viewing'
  BY <1>u, <1>29 DEF Enqueue
<1>30. QED
  BY <1>u, <1>1, <1>2, <1>3, <1>4, <1>5, <1>6, <1>7, <1>8, <1>9, <1>10, <1>11, <1>12, <1>13,
     <1>14, <1>15, <1>16, <1>17, <1>18, <1>19, <1>20, <1>21, <1>22, <1>23, <1>24, <1>25, <1>26,
     <1>27, <1>28, <1>29, ThreadSession DEF Next, Proceed, Acquire, Client

\* A step stops no receiver before its Pusher has closed exit.
LEMMA LeftFirstStep ==
  ASSUME RelayInvariant, Next, ~crashed'
  PROVE  PusherLeftFirst'
<1>t. ~crashed /\ PusherLeftFirst
  BY AliveStep DEF RelayInvariant
<1>v. /\ pc \in [Thread -> Points]
      /\ exit \in [Session -> BOOLEAN]
      /\ upstream \in [Session -> Session \cup {None}]
  BY AliveStep DEF RelayInvariant, TypeOK, GoroutineTypeOK, PlayerTypeOK, PusherTypeOK
<1>n. \A t \in Thread : t[2] \in Session
  BY ThreadSession
<1>m. \A s \in Session : Loop(s) \in Thread /\ Relay(s) \in Thread /\ Receiver(s) \in Thread
  BY ThreadNames
<1>w. \A s \in Session : pc[Receiver(s)] # "none" => upstream[s] \in Session
  BY <1>v, AliveStep DEF RelayInvariant, Viewing
<1> USE <1>t, <1>v DEF PusherLeftFirst, Stops, pushers, playing
<1>u. CASE UNCHANGED <<pc, exit, upstream>>
  BY <1>u
<1>1. ASSUME NEW t \in Thread, Offer(t) PROVE PusherLeftFirst'
  BY <1>1, <1>n, <1>m, <1>w DEF Offer, Goto
<1>2. ASSUME NEW t \in Thread, Delivered(t) PROVE PusherLeftFirst'
  BY <1>2, <1>n, <1>m, <1>w, ThreadNames DEF Delivered, Goto, Again
<1>3. ASSUME NEW t \in Thread, Stop(t) PROVE PusherLeftFirst'
  BY <1>3, <1>n, <1>m, <1>w DEF Stop, Goto
<1>4. ASSUME NEW t \in Thread, Mark(t) PROVE PusherLeftFirst'
  BY <1>4, <1>n, <1>m, <1>w DEF Mark, Goto, Panic
<1>5. ASSUME NEW t \in Thread, CloseExit(t) PROVE PusherLeftFirst'
  BY <1>5, <1>n, <1>m, <1>w DEF CloseExit, Goto, Panic
<1>6. ASSUME NEW t \in Thread, Unregister(t) PROVE PusherLeftFirst'
  BY <1>6, <1>n, <1>m, <1>w DEF Unregister, Goto
<1>7. ASSUME NEW t \in Thread, HooksDone(t) PROVE PusherLeftFirst'
  BY <1>7, <1>n, <1>m, <1>w DEF HooksDone, Goto
<1>8. ASSUME NEW t \in Thread, Close(t) PROVE PusherLeftFirst'
  BY <1>8, <1>n, <1>m, <1>w DEF Close, Goto, Panic
<1>9. ASSUME NEW t \in Thread, AppendFrame(t) PROVE PusherLeftFirst'
  BY <1>9, <1>n, <1>m, <1>w DEF AppendFrame, Wake
<1>10. ASSUME NEW t \in Thread, Broadcast(t) PROVE PusherLeftFirst'
  BY <1>10, <1>n, <1>m, <1>w DEF Broadcast, Wake
<1>11. ASSUME NEW t \in Thread, Detach(t) PROVE PusherLeftFirst'
  BY <1>11, <1>n, <1>m, <1>w DEF Detach, Goto
<1>12. ASSUME NEW q \in Session, RelayEnds(q) PROVE PusherLeftFirst'
  BY <1>12, <1>m, <1>w, Distinct DEF RelayEnds, Goto
<1>13. ASSUME NEW q \in Session, RangeDone(q) PROVE PusherLeftFirst'
  BY <1>13, <1>m, <1>w, Distinct DEF RangeDone, Goto, RelayAgain
<1>14. ASSUME NEW q \in Session, Take(q) PROVE PusherLeftFirst'
  BY <1>14, <1>m, <1>w, Distinct DEF Take, Goto
<1>15. ASSUME NEW q \in Session, NEW p \in Session, SendFrame(q, p) PROVE PusherLeftFirst'
  BY <1>15, <1>m, <1>w, Distinct DEF SendFrame, Goto
<1>16. ASSUME NEW s \in Session, ReceiverTop(s) PROVE PusherLeftFirst'
  BY <1>16, <1>m, <1>w, Distinct DEF ReceiverTop, Goto
<1>17. ASSUME NEW s \in Session, BreakOut(s) PROVE PusherLeftFirst'
  BY <1>17, <1>m, <1>w, Distinct DEF BreakOut, Goto
<1>18. ASSUME NEW s \in Session, WriteFrame(s) PROVE PusherLeftFirst'
  BY <1>18, <1>m, <1>w, Distinct DEF WriteFrame, Goto
<1>19. ASSUME NEW s \in Session, LockOrWait(s) PROVE PusherLeftFirst'
  BY <1>19, <1>m, <1>w, Distinct DEF LockOrWait, Goto
<1>20. ASSUME NEW s \in Session, Woken(s) PROVE PusherLeftFirst'
  BY <1>20, <1>m, <1>w, Distinct DEF Woken, Goto
<1>21. ASSUME NEW s \in Session, Attach(s) PROVE PusherLeftFirst'
  BY <1>21, <1>m, <1>w, Distinct DEF Attach, Goto, Again
<1>22. ASSUME NEW s \in Session, Teardown(s) PROVE PusherLeftFirst'
  BY <1>22, <1>m, <1>w, Distinct DEF Teardown, Goto
<1>23. ASSUME NEW s \in Session, ReadFails(s) PROVE PusherLeftFirst'
  BY <1>23, <1>m, <1>w, Distinct DEF ReadFails, Goto
<1>24. ASSUME NEW s \in Session, ReadFrame(s) PROVE PusherLeftFirst'
  BY <1>24, <1>m, <1>w, Distinct DEF ReadFrame, Goto
<1>25. ASSUME NEW s \in Session, NEW c \in Channel, Announce(s, c) PROVE PusherLeftFirst'
  <2>1. PICK p \in {"read", "gone", "stop"} : pc' = [pc EXCEPT ![Loop(s)] = p]
    BY <1>25, <1>m, RequestMoves
  <2>2. UNCHANGED <<exit, upstream>>
    BY <1>25, <1>m DEF Announce
  <2>3. QED
    BY <1>m, <2>1, <2>2, Distinct
<1>26. ASSUME NEW s \in Session, NEW c \in Channel, Record(s, c) PROVE PusherLeftFirst'
  <2>1. \A x \in Session : pc'[Receiver(x)] = pc[Receiver(x)]
    <3>1. CASE registry[c] # None
      <4>1. registry[c] \in Session
        BY <3>1, AliveStep DEF RelayInvariant, TypeOK, PusherTypeOK
      <4>2. QED
        BY <1>26, <1>m, <4>1, RequestMoves, Distinct
    <3>2. CASE registry[c] = None
      BY <1>26, <1>m, <3>2, RequestMoves, Distinct
    <3>3. QED
      BY <3>1, <3>2
  <2>2. UNCHANGED <<exit, upstream>>
    BY <1>26, <1>m DEF Record
  <2>3. QED
    BY <2>1, <2>2
<1>27. ASSUME NEW s \in Session, NEW c \in Channel, Describe(s, c) PROVE PusherLeftFirst'
  <2>1. upstream[s] = None /\ exit' = exit
    BY <1>27, <1>m DEF Describe
  <2>2. pc[Receiver(s)] = "none"
    BY <2>1, AliveStep DEF RelayInvariant, Viewing
  <2>3. \A x \in Session : x # s => upstream'[x] = upstream[x]
    BY <1>27, <1>m, RequestMoves
  <2>4. \A x \in Session : pc'[Receiver(x)] = pc[Receiver(x)]
    BY <1>27, <1>m, RequestMoves, Distinct
  <2>5. QED
    BY <2>1, <2>2, <2>3, <2>4
<1>28. ASSUME NEW s \in Session, NEW c \in Channel, Play(s, c) PROVE PusherLeftFirst'
  <2>1. UNCHANGED <<exit, upstream>>
    BY <1>28, <1>m DEF Play
  <2>2. \A x \in Session : pc'[Receiver(x)] \in {pc[Receiver(x)], "top"}
    BY <1>28, <1>m, RequestMoves, Distinct
  <2>3. QED
    BY <2>1, <2>2
<1>29. ASSUME NEW t \in Thread, Enqueue(t)
      PROVE  PusherLeftFirst'
  BY <1>u, <1>29 DEF Enqueue
<1>30. QED
  BY <1>u, <1>1, <1>2, <1>3, <1>4, <1>5, <1>6, <1>7, <1>8, <1>9, <1>10, <1>11, <1>12, <1>13,
     <1>14, <1>15, <1>16, <1>17, <1>18, <1>19, <1>20, <1>21, <1>22, <1>23, <1>24, <1>25, <1>26,
     <1>27, <1>28, <1>29, ThreadSession DEF Next, Proceed, Acquire, Client

\* A step sets richConn to nil only at the end of a stop.
LEMMA ConnStep ==
  ASSUME RelayInvariant, Next, ~crashed'
  PROVE  ConnClosedByAStop'
<1>t. ~crashed /\ ConnClosedByAStop
  BY AliveStep DEF RelayInvariant
<1>v. /\ pc \in [Thread -> Points]
      /\ conn \in [Session -> {"open", "nil"}]
  BY AliveStep DEF RelayInvariant, TypeOK, GoroutineTypeOK, SessionTypeOK
<1>n. \A t \in Thread : t[2] \in Session
  BY ThreadSession
<1>m. \A s \in Session : Loop(s) \in Thread /\ Relay(s) \in Thread /\ Receiver(s) \in Thread
  BY ThreadNames
<1> USE <1>t, <1>v DEF ConnClosedByAStop, sessions
<1>u. CASE UNCHANGED <<pc, conn>>
  BY <1>u
<1>1. ASSUME NEW t \in Thread, Offer(t) PROVE ConnClosedByAStop'
  BY <1>1, <1>n, <1>m DEF Offer, Goto
<1>2. ASSUME NEW t \in Thread, Delivered(t) PROVE ConnClosedByAStop'
  BY <1>2, <1>n, <1>m DEF Delivered, Goto, Again
<1>3. ASSUME NEW t \in Thread, Stop(t) PROVE ConnClosedByAStop'
  BY <1>3, <1>n, <1>m DEF Stop, Goto
<1>4. ASSUME NEW t \in Thread, Mark(t) PROVE ConnClosedByAStop'
  BY <1>4, <1>n, <1>m DEF Mark, Goto, Panic
<1>5. ASSUME NEW t \in Thread, CloseExit(t) PROVE ConnClosedByAStop'
  BY <1>5, <1>n, <1>m DEF CloseExit, Goto, Panic
<1>6. ASSUME NEW t \in Thread, Unregister(t) PROVE ConnClosedByAStop'
  BY <1>6, <1>n, <1>m DEF Unregister, Goto
<1>7. ASSUME NEW t \in Thread, HooksDone(t) PROVE ConnClosedByAStop'
  BY <1>7, <1>n, <1>m DEF HooksDone, Goto
<1>8. ASSUME NEW t \in Thread, Close(t) PROVE ConnClosedByAStop'
  <2>1. t[2] \in Session /\ t \in {Loop(t[2]), Receiver(t[2])}
    BY <1>8, <1>n, <1>m, AliveStep, Stopper DEF Close, RelayInvariant
  <2>2. QED
    BY <1>8, <1>n, <1>m, <2>1 DEF Close, Goto, Panic
<1>9. ASSUME NEW t \in Thread, AppendFrame(t) PROVE ConnClosedByAStop'
  BY <1>9, <1>n, <1>m DEF AppendFrame, Wake
<1>10. ASSUME NEW t \in Thread, Broadcast(t) PROVE ConnClosedByAStop'
  BY <1>10, <1>n, <1>m DEF Broadcast, Wake
<1>11. ASSUME NEW t \in Thread, Detach(t) PROVE ConnClosedByAStop'
  BY <1>11, <1>n, <1>m DEF Detach, Goto
<1>12. ASSUME NEW q \in Session, RelayEnds(q) PROVE ConnClosedByAStop'
  BY <1>12, <1>m DEF RelayEnds, Goto
<1>13. ASSUME NEW q \in Session, RangeDone(q) PROVE ConnClosedByAStop'
  BY <1>13, <1>m DEF RangeDone, Goto, RelayAgain
<1>14. ASSUME NEW q \in Session, Take(q) PROVE ConnClosedByAStop'
  BY <1>14, <1>m DEF Take, Goto
<1>15. ASSUME NEW q \in Session, NEW p \in Session, SendFrame(q, p) PROVE ConnClosedByAStop'
  BY <1>15, <1>m DEF SendFrame, Goto
<1>16. ASSUME NEW s \in Session, ReceiverTop(s) PROVE ConnClosedByAStop'
  BY <1>16, <1>m DEF ReceiverTop, Goto
<1>17. ASSUME NEW s \in Session, BreakOut(s) PROVE ConnClosedByAStop'
  BY <1>17, <1>m DEF BreakOut, Goto
<1>18. ASSUME NEW s \in Session, WriteFrame(s) PROVE ConnClosedByAStop'
  BY <1>18, <1>m DEF WriteFrame, Goto
<1>19. ASSUME NEW s \in Session, LockOrWait(s) PROVE ConnClosedByAStop'
  BY <1>19, <1>m DEF LockOrWait, Goto
<1>20. ASSUME NEW s \in Session, Woken(s) PROVE ConnClosedByAStop'
  BY <1>20, <1>m DEF Woken, Goto
<1>21. ASSUME NEW s \in Session, Attach(s) PROVE ConnClosedByAStop'
  BY <1>21, <1>m DEF Attach, Goto, Again
<1>22. ASSUME NEW s \in Session, Teardown(s) PROVE ConnClosedByAStop'
  BY <1>22, <1>m DEF Teardown, Goto
<1>23. ASSUME NEW s \in Session, ReadFails(s) PROVE ConnClosedByAStop'
  BY <1>23, <1>m DEF ReadFails, Goto
<1>24. ASSUME NEW s \in Session, ReadFrame(s) PROVE ConnClosedByAStop'
  BY <1>24, <1>m DEF ReadFrame, Goto
<1>25. ASSUME NEW s \in Session, NEW c \in Channel, Announce(s, c) PROVE ConnClosedByAStop'
  BY <1>25, <1>m DEF Announce, Asked, Goto, Again
<1>26. ASSUME NEW s \in Session, NEW c \in Channel, Record(s, c) PROVE ConnClosedByAStop'
  BY <1>26, <1>m DEF Record, Asked, Goto, Again, RelayAgain
<1>27. ASSUME NEW s \in Session, NEW c \in Channel, Describe(s, c) PROVE ConnClosedByAStop'
  BY <1>27, <1>m DEF Describe, Asked, Goto
<1>28. ASSUME NEW s \in Session, NEW c \in Channel, Play(s, c) PROVE ConnClosedByAStop'
  BY <1>28, <1>m DEF Play, Asked, Goto, Again
<1>29. ASSUME NEW t \in Thread, Enqueue(t)
      PROVE  ConnClosedByAStop'
  BY <1>u, <1>29 DEF Enqueue
<1>30. QED
  BY <1>u, <1>1, <1>2, <1>3, <1>4, <1>5, <1>6, <1>7, <1>8, <1>9, <1>10, <1>11, <1>12, <1>13,
     <1>14, <1>15, <1>16, <1>17, <1>18, <1>19, <1>20, <1>21, <1>22, <1>23, <1>24, <1>25, <1>26,
     <1>27, <1>28, <1>29, ThreadSession DEF Next, Proceed, Acquire, Client

\* A step closes exit only in a stop that has passed the Pusher's function.
LEMMA ExitStep ==
  ASSUME RelayInvariant, Next, ~crashed'
  PROVE  ExitClosedByAStop'
<1>t. ~crashed /\ ExitClosedByAStop
  BY AliveStep DEF RelayInvariant
<1>v. /\ pc \in [Thread -> Points]
      /\ exit \in [Session -> BOOLEAN]
      /\ todoFuncs \in [Thread -> Seq({"pusher", "player"})]
  BY AliveStep DEF RelayInvariant, TypeOK, GoroutineTypeOK, PusherTypeOK
<1>n. \A t \in Thread : t[2] \in Session
  BY ThreadSession
<1>m. \A s \in Session : Loop(s) \in Thread /\ Relay(s) \in Thread /\ Receiver(s) \in Thread
  BY ThreadNames
<1> USE <1>t, <1>v DEF ExitClosedByAStop, PastPusher, calls, pushers
<1>1. ASSUME NEW t \in Thread, Offer(t) PROVE ExitClosedByAStop'
  BY <1>1, <1>n, <1>m DEF Offer, Called, Goto
<1>2. ASSUME NEW t \in Thread, Delivered(t) PROVE ExitClosedByAStop'
  BY <1>2, <1>n, <1>m DEF Delivered, Goto, Again
<1>3. ASSUME NEW t \in Thread, Stop(t) PROVE ExitClosedByAStop'
  BY <1>3, <1>n, <1>m DEF Stop, Goto
<1>4. ASSUME NEW t \in Thread, Mark(t) PROVE ExitClosedByAStop'
  BY <1>4, <1>n, <1>m DEF Mark, Goto, Panic
<1>5. ASSUME NEW t \in Thread, CloseExit(t) PROVE ExitClosedByAStop'
  <2>1. t[2] \in Session /\ t \in {Loop(t[2]), Receiver(t[2])}
    BY <1>5, <1>n, <1>m, AliveStep, Stopper DEF CloseExit, RelayInvariant
  <2>2. todoFuncs' = todoFuncs
    BY <1>5, <1>n, <1>m DEF CloseExit
  <2>3. CASE exit[t[2]]
    <3>1. pc' = [pc EXCEPT ![t] = "gone"] /\ exit' = exit
      BY <1>5, <1>n, <1>m, <2>3 DEF CloseExit, Goto, Panic
    <3>2. QED
      BY <1>m, <2>2, <3>1
  <2>4. CASE ~exit[t[2]]
    <3>1. pc' = [pc EXCEPT ![t] = "unregister"] /\ exit' = [exit EXCEPT ![t[2]] = TRUE]
      BY <1>5, <1>n, <1>m, <2>4 DEF CloseExit, Goto
    <3>2. QED
      BY <1>m, <2>1, <2>2, <3>1
  <2>5. QED
    BY <2>3, <2>4
<1>6. ASSUME NEW t \in Thread, Unregister(t) PROVE ExitClosedByAStop'
  <2>1. todoFuncs[t] \in RoleList /\ todoFuncs[t] # << >> /\ Head(todoFuncs[t]) = "pusher"
    BY <1>6, <1>n, <1>m, AliveStep DEF Unregister, RelayInvariant, FunctionLists, InCall
  <2>2. ~Has(Tail(todoFuncs[t]), "pusher")
    BY <2>1, ListTail
  <2>3. QED
    BY <1>6, <1>n, <1>m, <2>2 DEF Unregister, Called, Goto
<1>7. ASSUME NEW t \in Thread, HooksDone(t) PROVE ExitClosedByAStop'
  BY <1>7, <1>n, <1>m DEF HooksDone, Goto
<1>8. ASSUME NEW t \in Thread, Close(t) PROVE ExitClosedByAStop'
  BY <1>8, <1>n, <1>m DEF Close, Goto, Panic
<1>9. ASSUME NEW t \in Thread, AppendFrame(t) PROVE ExitClosedByAStop'
  BY <1>9, <1>n, <1>m DEF AppendFrame, Called, Wake
<1>10. ASSUME NEW t \in Thread, Enqueue(t) PROVE ExitClosedByAStop'
  BY <1>10, <1>n, <1>m DEF Enqueue, Called
<1>11. ASSUME NEW t \in Thread, Broadcast(t) PROVE ExitClosedByAStop'
  BY <1>11, <1>n, <1>m DEF Broadcast, Wake
<1>12. ASSUME NEW t \in Thread, Detach(t) PROVE ExitClosedByAStop'
  <2>1. todoFuncs[t] \in RoleList /\ todoFuncs[t] # << >>
    BY <1>12, <1>n, <1>m, AliveStep DEF Detach, RelayInvariant, FunctionLists, InCall
  <2>2. Has(Tail(todoFuncs[t]), "pusher") => Has(todoFuncs[t], "pusher")
    BY <2>1, ListTail
  <2>3. QED
    BY <1>12, <1>n, <1>m, <2>2 DEF Detach, Called, Goto
<1>13. ASSUME NEW q \in Session, RelayEnds(q) PROVE ExitClosedByAStop'
  BY <1>13, <1>m DEF RelayEnds, Goto
<1>14. ASSUME NEW q \in Session, RangeDone(q) PROVE ExitClosedByAStop'
  BY <1>14, <1>m DEF RangeDone, Goto, RelayAgain
<1>15. ASSUME NEW q \in Session, Take(q) PROVE ExitClosedByAStop'
  BY <1>15, <1>m DEF Take, Goto
<1>16. ASSUME NEW q \in Session, NEW p \in Session, SendFrame(q, p) PROVE ExitClosedByAStop'
  BY <1>16, <1>m DEF SendFrame, Goto
<1>17. ASSUME NEW s \in Session, ReceiverTop(s) PROVE ExitClosedByAStop'
  BY <1>17, <1>m DEF ReceiverTop, Goto
<1>18. ASSUME NEW s \in Session, BreakOut(s) PROVE ExitClosedByAStop'
  BY <1>18, <1>m DEF BreakOut, Goto
<1>19. ASSUME NEW s \in Session, WriteFrame(s) PROVE ExitClosedByAStop'
  BY <1>19, <1>m DEF WriteFrame, Goto
<1>20. ASSUME NEW s \in Session, LockOrWait(s) PROVE ExitClosedByAStop'
  BY <1>20, <1>m DEF LockOrWait, Goto
<1>21. ASSUME NEW s \in Session, Woken(s) PROVE ExitClosedByAStop'
  BY <1>21, <1>m DEF Woken, Goto
<1>22. ASSUME NEW s \in Session, Attach(s) PROVE ExitClosedByAStop'
  BY <1>22, <1>m DEF Attach, Goto, Again
<1>23. ASSUME NEW s \in Session, Teardown(s) PROVE ExitClosedByAStop'
  BY <1>23, <1>m DEF Teardown, Goto
<1>24. ASSUME NEW s \in Session, ReadFails(s) PROVE ExitClosedByAStop'
  BY <1>24, <1>m DEF ReadFails, Goto
<1>25. ASSUME NEW s \in Session, ReadFrame(s) PROVE ExitClosedByAStop'
  BY <1>25, <1>m DEF ReadFrame, Goto
<1>26. ASSUME NEW s \in Session, NEW c \in Channel, Announce(s, c) PROVE ExitClosedByAStop'
  BY <1>26, <1>m DEF Announce, Asked, Goto, Again
<1>27. ASSUME NEW s \in Session, NEW c \in Channel, Record(s, c) PROVE ExitClosedByAStop'
  BY <1>27, <1>m DEF Record, Asked, Goto, Again, RelayAgain
<1>28. ASSUME NEW s \in Session, NEW c \in Channel, Describe(s, c) PROVE ExitClosedByAStop'
  BY <1>28, <1>m DEF Describe, Asked, Goto
<1>29. ASSUME NEW s \in Session, NEW c \in Channel, Play(s, c) PROVE ExitClosedByAStop'
  BY <1>29, <1>m DEF Play, Asked, Goto, Again
<1>30. QED
  BY <1>1, <1>2, <1>3, <1>4, <1>5, <1>6, <1>7, <1>8, <1>9, <1>10, <1>11, <1>12, <1>13, <1>14,
     <1>15, <1>16, <1>17, <1>18, <1>19, <1>20, <1>21, <1>22, <1>23, <1>24, <1>25, <1>26, <1>27,
     <1>28, <1>29, ThreadSession DEF Next, Proceed, Acquire, Client

\* A step leaves cond.L locked only after Wait, or in a stopped session.
LEMMA LockStep ==
  ASSUME RelayInvariant, Next, ~crashed'
  PROVE  LockLeaksOnlyInStop'
<1>t. ~crashed /\ LockLeaksOnlyInStop
  BY AliveStep DEF RelayInvariant
<1>v. /\ pc \in [Thread -> Points]
      /\ cond \in [Session -> Thread \cup {None}]
      /\ stoped \in [Session -> BOOLEAN]
  BY AliveStep DEF RelayInvariant, TypeOK, GoroutineTypeOK, PlayerTypeOK, SessionTypeOK
<1>n. \A t \in Thread : t[2] \in Session
  BY ThreadSession
<1>m. \A s \in Session : Loop(s) \in Thread /\ Relay(s) \in Thread /\ Receiver(s) \in Thread
  BY ThreadNames
<1> USE <1>t, <1>v DEF LockLeaksOnlyInStop, sessions, playing
<1>u. CASE UNCHANGED <<pc, cond, stoped, crashed>>
  BY <1>u
<1>1. ASSUME NEW t \in Thread, Offer(t) PROVE LockLeaksOnlyInStop'
  BY <1>1, <1>n, <1>m DEF Offer, Goto
<1>2. ASSUME NEW t \in Thread, Delivered(t) PROVE LockLeaksOnlyInStop'
  BY <1>2, <1>n, <1>m DEF Delivered, Goto, Again
<1>3. ASSUME NEW t \in Thread, Stop(t) PROVE LockLeaksOnlyInStop'
  BY <1>3, <1>n, <1>m DEF Stop, Goto
<1>4. ASSUME NEW t \in Thread, Mark(t) PROVE LockLeaksOnlyInStop'
  BY <1>4, <1>n, <1>m DEF Mark, Goto, Panic
<1>5. ASSUME NEW t \in Thread, CloseExit(t) PROVE LockLeaksOnlyInStop'
  BY <1>5, <1>n, <1>m DEF CloseExit, Goto, Panic
<1>6. ASSUME NEW t \in Thread, Unregister(t) PROVE LockLeaksOnlyInStop'
  BY <1>6, <1>n, <1>m DEF Unregister, Goto
<1>7. ASSUME NEW t \in Thread, HooksDone(t) PROVE LockLeaksOnlyInStop'
  BY <1>7, <1>n, <1>m DEF HooksDone, Goto
<1>8. ASSUME NEW t \in Thread, Close(t) PROVE LockLeaksOnlyInStop'
  BY <1>8, <1>n, <1>m DEF Close, Goto, Panic
<1>9. ASSUME NEW t \in Thread, AppendFrame(t) PROVE LockLeaksOnlyInStop'
  BY <1>9, <1>n, <1>m DEF AppendFrame, Wake
<1>10. ASSUME NEW t \in Thread, Broadcast(t) PROVE LockLeaksOnlyInStop'
  BY <1>10, <1>n, <1>m DEF Broadcast, Wake
<1>11. ASSUME NEW t \in Thread, Detach(t) PROVE LockLeaksOnlyInStop'
  BY <1>11, <1>n, <1>m DEF Detach, Goto
<1>12. ASSUME NEW q \in Session, RelayEnds(q) PROVE LockLeaksOnlyInStop'
  BY <1>12, <1>m DEF RelayEnds, Goto
<1>13. ASSUME NEW q \in Session, RangeDone(q) PROVE LockLeaksOnlyInStop'
  BY <1>13, <1>m DEF RangeDone, Goto, RelayAgain
<1>14. ASSUME NEW q \in Session, Take(q) PROVE LockLeaksOnlyInStop'
  BY <1>14, <1>m DEF Take, Goto
<1>15. ASSUME NEW q \in Session, NEW p \in Session, SendFrame(q, p) PROVE LockLeaksOnlyInStop'
  BY <1>15, <1>m DEF SendFrame, Goto
<1>16. ASSUME NEW s \in Session, ReceiverTop(s) PROVE LockLeaksOnlyInStop'
  BY <1>16, <1>m DEF ReceiverTop, Goto
<1>17. ASSUME NEW s \in Session, BreakOut(s) PROVE LockLeaksOnlyInStop'
  BY <1>17, <1>m, Distinct DEF BreakOut, Goto
<1>18. ASSUME NEW s \in Session, WriteFrame(s) PROVE LockLeaksOnlyInStop'
  BY <1>18, <1>m, Distinct DEF WriteFrame, Goto
<1>19. ASSUME NEW s \in Session, LockOrWait(s) PROVE LockLeaksOnlyInStop'
  BY <1>19, <1>m DEF LockOrWait, Goto
<1>20. ASSUME NEW s \in Session, Woken(s) PROVE LockLeaksOnlyInStop'
  BY <1>20, <1>m DEF Woken, Goto
<1>21. ASSUME NEW s \in Session, Attach(s) PROVE LockLeaksOnlyInStop'
  BY <1>21, <1>m DEF Attach, Goto, Again
<1>22. ASSUME NEW s \in Session, Teardown(s) PROVE LockLeaksOnlyInStop'
  BY <1>22, <1>m DEF Teardown, Goto
<1>23. ASSUME NEW s \in Session, ReadFails(s) PROVE LockLeaksOnlyInStop'
  BY <1>23, <1>m DEF ReadFails, Goto
<1>24. ASSUME NEW s \in Session, ReadFrame(s) PROVE LockLeaksOnlyInStop'
  BY <1>24, <1>m DEF ReadFrame, Goto
<1>25. ASSUME NEW s \in Session, NEW c \in Channel, Announce(s, c) PROVE LockLeaksOnlyInStop'
  BY <1>25, <1>m DEF Announce, Asked, Goto, Again
<1>26. ASSUME NEW s \in Session, NEW c \in Channel, Record(s, c) PROVE LockLeaksOnlyInStop'
  BY <1>26, <1>m DEF Record, Asked, Goto, Again, RelayAgain
<1>27. ASSUME NEW s \in Session, NEW c \in Channel, Describe(s, c) PROVE LockLeaksOnlyInStop'
  BY <1>27, <1>m DEF Describe, Asked, Goto
<1>28. ASSUME NEW s \in Session, NEW c \in Channel, Play(s, c) PROVE LockLeaksOnlyInStop'
  BY <1>28, <1>m DEF Play, Asked, Goto, Again
<1>29. ASSUME NEW t \in Thread, Enqueue(t)
      PROVE  LockLeaksOnlyInStop'
  BY <1>u, <1>29 DEF Enqueue
<1>30. QED
  BY <1>u, <1>1, <1>2, <1>3, <1>4, <1>5, <1>6, <1>7, <1>8, <1>9, <1>10, <1>11, <1>12, <1>13,
     <1>14, <1>15, <1>16, <1>17, <1>18, <1>19, <1>20, <1>21, <1>22, <1>23, <1>24, <1>25, <1>26,
     <1>27, <1>28, <1>29, ThreadSession DEF Next, Proceed, Acquire, Client

\* A step registers a Pusher under its code and takes it away only after exit.
LEMMA RegisteredStep ==
  ASSUME RelayInvariant, Next, ~crashed'
  PROVE  Registered'
<1>t. ~crashed /\ Registered
  BY AliveStep DEF RelayInvariant
<1>v. /\ code \in [Session -> Channel \cup {None}]
      /\ roles \in [Session -> Seq({"pusher", "player"})]
      /\ registry \in [Channel -> Session \cup {None}]
      /\ exit \in [Session -> BOOLEAN]
  BY AliveStep DEF RelayInvariant, TypeOK, PusherTypeOK, SessionTypeOK
<1>n. \A t \in Thread : t[2] \in Session
  BY ThreadSession
<1>m. \A s \in Session : Loop(s) \in Thread /\ Relay(s) \in Thread /\ Receiver(s) \in Thread
  BY ThreadNames
<1> USE <1>t, <1>v DEF Registered, Pushes, sessions, pushers
<1>u. CASE UNCHANGED <<code, roles, registry, exit>>
  BY <1>u
<1>1. ASSUME NEW t \in Thread, CloseExit(t) PROVE Registered'
  BY <1>1, <1>n DEF CloseExit
<1>2. ASSUME NEW t \in Thread, Unregister(t) PROVE Registered'
  <2>1. t[2] \in Session /\ exit[t[2]] /\ registry[code[t[2]]] = t[2]
    BY <1>2, <1>n, AliveStep DEF Unregister, RelayInvariant, OneDeletes
  <2>2. /\ UNCHANGED <<code, roles, exit>>
        /\ registry' = [registry EXCEPT ![code[t[2]]] = None]
    BY <1>2, <1>n DEF Unregister
  <2>3. QED
    BY <2>1, <2>2, NoneAssumption
<1>3. ASSUME NEW s \in Session, Attach(s) PROVE Registered'
  <2>1. roles[s] \in RoleList /\ ~Has(roles[s], "player")
    BY <1>3, <1>m, AliveStep DEF Attach, RelayInvariant, FunctionLists, Viewing, Plays
  <2>2. Has(Append(roles[s], "player"), "pusher") <=> Has(roles[s], "pusher")
    BY <2>1, ListAppend
  <2>3. UNCHANGED <<code, registry, exit>> /\ roles' = [roles EXCEPT ![s] = Append(roles[s], "player")]
    BY <1>3, <1>m DEF Attach
  <2>4. QED
    BY <2>2, <2>3
<1>4. ASSUME NEW s \in Session, NEW c \in Channel, Announce(s, c) PROVE Registered'
  <2>1. exit' = exit /\ code[s] \in {None, c} /\ code' = [code EXCEPT ![s] = c]
    BY <1>4, <1>m DEF Announce, Asked
  <2>2. CASE registry[c] # None
    <3>1. UNCHANGED <<roles, registry>>
      BY <1>4, <1>m, <2>2 DEF Announce
    <3>2. QED
      BY <2>1, <3>1, NoneAssumption
  <2>3. CASE registry[c] = None
    <3>1. roles[s] \in RoleList /\ ~Has(roles[s], "pusher")
      BY <1>4, <1>m, <2>3, AliveStep DEF Announce, RelayInvariant, FunctionLists, Has
    <3>2. Has(Append(roles[s], "pusher"), "pusher")
      BY <3>1, ListAppend
    <3>3. /\ registry' = [registry EXCEPT ![c] = s]
          /\ roles' = [roles EXCEPT ![s] = Append(roles[s], "pusher")]
      BY <1>4, <1>m, <2>3 DEF Announce
    <3>4. QED
      BY <2>1, <2>3, <3>1, <3>2, <3>3, NoneAssumption
  <2>4. QED
    BY <2>2, <2>3
<1>5. ASSUME NEW s \in Session, NEW c \in Channel, Record(s, c) PROVE Registered'
  BY <1>5, <1>m, NoneAssumption DEF Record, Asked
<1>6. ASSUME NEW s \in Session, NEW c \in Channel, Describe(s, c) PROVE Registered'
  BY <1>6, <1>m, NoneAssumption DEF Describe, Asked
<1>7. ASSUME NEW s \in Session, NEW c \in Channel, Play(s, c) PROVE Registered'
  BY <1>7, <1>m, NoneAssumption DEF Play, Asked
<1>8. ASSUME NEW t \in Thread, Offer(t) \/ Delivered(t) \/ Stop(t) \/ Mark(t) \/ HooksDone(t) \/
              Close(t) \/ AppendFrame(t) \/ Enqueue(t) \/ Broadcast(t) \/ Detach(t)
      PROVE  Registered'
  BY <1>u, <1>8 DEF Offer, Delivered, Stop, Mark, HooksDone, Close, AppendFrame, Enqueue,
     Broadcast, Detach
<1>9. ASSUME NEW q \in Session, RelayEnds(q) \/ RangeDone(q) \/ Take(q) \/ \E p \in Session :
              SendFrame(q, p)
      PROVE  Registered'
  BY <1>u, <1>9 DEF RelayEnds, RangeDone, Take, SendFrame
<1>10. ASSUME NEW s \in Session, ReceiverTop(s) \/ BreakOut(s) \/ WriteFrame(s) \/ LockOrWait(s)
              \/ Woken(s) \/ Teardown(s) \/ ReadFails(s) \/ ReadFrame(s)
      PROVE  Registered'
  BY <1>u, <1>10 DEF ReceiverTop, BreakOut, WriteFrame, LockOrWait, Woken, Teardown, ReadFails,
     ReadFrame
<1>11. QED
  BY <1>u, <1>1, <1>2, <1>3, <1>4, <1>5, <1>6, <1>7, <1>8, <1>9, <1>10, ThreadSession DEF Next,
     Proceed, Acquire, Client

\* A step leaves at most one stop about to delete a Pusher, and that Pusher in its place.
LEMMA OneDeletesStep ==
  ASSUME RelayInvariant, Next, ~crashed'
  PROVE  OneDeletes'
<1>t. ~crashed /\ OneDeletes
  BY AliveStep DEF RelayInvariant
<1>v. /\ pc \in [Thread -> Points]
      /\ code \in [Session -> Channel \cup {None}]
      /\ registry \in [Channel -> Session \cup {None}]
      /\ exit \in [Session -> BOOLEAN]
  BY AliveStep DEF RelayInvariant, TypeOK, GoroutineTypeOK, PusherTypeOK, SessionTypeOK
<1>n. \A t \in Thread : t[2] \in Session
  BY ThreadSession
<1>m. \A s \in Session : Loop(s) \in Thread /\ Relay(s) \in Thread /\ Receiver(s) \in Thread
  BY ThreadNames
<1>w. \A t \in Thread : pc[t] = "unregister" => code[t[2]] \in Channel
  <2>1. ASSUME NEW t \in Thread, pc[t] = "unregister" PROVE code[t[2]] \in Channel
    <3>1. todoFuncs[t] \in RoleList /\ todoFuncs[t] # << >> /\ Head(todoFuncs[t]) = "pusher"
      BY <2>1, AliveStep DEF RelayInvariant, FunctionLists, InCall
    <3>2. Has(todoFuncs[t], "pusher")
      BY <3>1, ListTail
    <3>3. Pushes(t[2])
      BY <2>1, <3>2, AliveStep DEF RelayInvariant, StopLists, Pushes
    <3>4. QED
      BY <1>n, <2>1, <3>3, AliveStep DEF RelayInvariant, Registered
  <2>2. QED
    BY <2>1
<1> USE <1>t, <1>v DEF OneDeletes, sessions, pushers
<1>u. CASE UNCHANGED <<pc, code, registry, exit>>
  BY <1>u
<1>1. ASSUME NEW t \in Thread, Offer(t) PROVE OneDeletes'
  BY <1>1, <1>n, <1>m DEF Offer, Goto
<1>2. ASSUME NEW t \in Thread, Delivered(t) PROVE OneDeletes'
  BY <1>2, <1>n, <1>m DEF Delivered, Goto, Again
<1>3. ASSUME NEW t \in Thread, Stop(t) PROVE OneDeletes'
  BY <1>3, <1>n, <1>m DEF Stop, Goto
<1>4. ASSUME NEW t \in Thread, Mark(t) PROVE OneDeletes'
  BY <1>4, <1>n, <1>m DEF Mark, Goto, Panic
<1>5. ASSUME NEW t \in Thread, CloseExit(t) PROVE OneDeletes'
  <2>1. UNCHANGED <<code, registry>>
    BY <1>5, <1>n, <1>m DEF CloseExit
  <2>2. CASE exit[t[2]]
    <3>1. pc' = [pc EXCEPT ![t] = "gone"] /\ exit' = exit
      BY <1>5, <1>n, <1>m, <2>2 DEF CloseExit, Goto, Panic
    <3>2. QED
      BY <1>m, <2>1, <3>1
  <2>3. CASE ~exit[t[2]]
    <3>1. /\ pc' = [pc EXCEPT ![t] = "unregister"] /\ exit' = [exit EXCEPT ![t[2]] = TRUE]
          /\ pc[t] = "hooks" /\ todoFuncs[t] # << >> /\ Head(todoFuncs[t]) = "pusher"
      BY <1>5, <1>n, <1>m, <2>3 DEF CloseExit, Goto
    <3>2. Has(todoFuncs[t], "pusher")
      BY <3>1, ListTail, AliveStep DEF RelayInvariant, FunctionLists
    <3>3. Pushes(t[2])
      BY <3>1, <3>2, AliveStep DEF RelayInvariant, StopLists, Pushes
    <3>4. registry[code[t[2]]] = t[2]
      BY <1>n, <2>3, <3>3, AliveStep DEF RelayInvariant, Registered
    <3>5. \A u \in Thread : u[2] = t[2] => pc[u] # "unregister"
      BY <2>3
    <3>6. \A x \in Session : Loop(x)[2] = x /\ Receiver(x)[2] = x /\ Loop(x) # Receiver(x)
      BY ThreadNames, Distinct
    <3>7. QED
      BY <1>m, <1>n, <2>1, <3>1, <3>4, <3>5, <3>6
  <2>4. QED
    BY <2>2, <2>3
<1>6. ASSUME NEW t \in Thread, Unregister(t) PROVE OneDeletes'
  <2>1. /\ pc[t] = "unregister" /\ pc' = [pc EXCEPT ![t] = "hooks"] /\ UNCHANGED <<code, exit>>
        /\ registry' = [registry EXCEPT ![code[t[2]]] = None]
    BY <1>6, <1>n, <1>m DEF Unregister, Goto
  <2>2. ASSUME NEW u \in Thread, u # t, pc[u] = "unregister" PROVE code[u[2]] # code[t[2]]
    <3>1. SUFFICES u[2] # t[2]
      BY <1>n, <2>1, <2>2
    <3>2. SUFFICES ASSUME u[2] = t[2] PROVE FALSE
      OBVIOUS
    <3>3. t \in {Loop(t[2]), Receiver(t[2])} /\ u \in {Loop(t[2]), Receiver(t[2])}
      BY <2>1, <2>2, <3>2, AliveStep, Stopper DEF RelayInvariant
    <3>4. QED
      BY <1>n, <2>1, <2>2, <3>3
  <2>3. QED
    BY <1>m, <1>n, <1>w, <2>1, <2>2
<1>7. ASSUME NEW t \in Thread, HooksDone(t) PROVE OneDeletes'
  BY <1>7, <1>n, <1>m DEF HooksDone, Goto
<1>8. ASSUME NEW t \in Thread, Close(t) PROVE OneDeletes'
  BY <1>8, <1>n, <1>m DEF Close, Goto, Panic
<1>9. ASSUME NEW t \in Thread, AppendFrame(t) PROVE OneDeletes'
  BY <1>9, <1>n, <1>m DEF AppendFrame, Wake
<1>10. ASSUME NEW t \in Thread, Broadcast(t) PROVE OneDeletes'
  BY <1>10, <1>n, <1>m DEF Broadcast, Wake
<1>11. ASSUME NEW t \in Thread, Detach(t) PROVE OneDeletes'
  BY <1>11, <1>n, <1>m DEF Detach, Goto
<1>12. ASSUME NEW q \in Session, RelayEnds(q) PROVE OneDeletes'
  BY <1>12, <1>m DEF RelayEnds, Goto
<1>13. ASSUME NEW q \in Session, RangeDone(q) PROVE OneDeletes'
  BY <1>13, <1>m DEF RangeDone, Goto, RelayAgain
<1>14. ASSUME NEW q \in Session, Take(q) PROVE OneDeletes'
  BY <1>14, <1>m DEF Take, Goto
<1>15. ASSUME NEW q \in Session, NEW p \in Session, SendFrame(q, p) PROVE OneDeletes'
  BY <1>15, <1>m DEF SendFrame, Goto
<1>16. ASSUME NEW s \in Session, ReceiverTop(s) PROVE OneDeletes'
  BY <1>16, <1>m DEF ReceiverTop, Goto
<1>17. ASSUME NEW s \in Session, BreakOut(s) PROVE OneDeletes'
  BY <1>17, <1>m DEF BreakOut, Goto
<1>18. ASSUME NEW s \in Session, WriteFrame(s) PROVE OneDeletes'
  BY <1>18, <1>m DEF WriteFrame, Goto
<1>19. ASSUME NEW s \in Session, LockOrWait(s) PROVE OneDeletes'
  BY <1>19, <1>m DEF LockOrWait, Goto
<1>20. ASSUME NEW s \in Session, Woken(s) PROVE OneDeletes'
  BY <1>20, <1>m DEF Woken, Goto
<1>21. ASSUME NEW s \in Session, Attach(s) PROVE OneDeletes'
  BY <1>21, <1>m DEF Attach, Goto, Again
<1>22. ASSUME NEW s \in Session, Teardown(s) PROVE OneDeletes'
  BY <1>22, <1>m DEF Teardown, Goto
<1>23. ASSUME NEW s \in Session, ReadFails(s) PROVE OneDeletes'
  BY <1>23, <1>m DEF ReadFails, Goto
<1>24. ASSUME NEW s \in Session, ReadFrame(s) PROVE OneDeletes'
  BY <1>24, <1>m DEF ReadFrame, Goto
<1>25. ASSUME NEW s \in Session, NEW c \in Channel, Announce(s, c) PROVE OneDeletes'
  <2>1. exit' = exit /\ code[s] \in {None, c} /\ code' = [code EXCEPT ![s] = c]
    BY <1>25, <1>m DEF Announce, Asked
  <2>2. ASSUME NEW t \in Thread, pc'[t] = "unregister" PROVE pc[t] = "unregister"
    BY <1>25, <1>m, <2>2, RequestMoves
  <2>3. ASSUME NEW t \in Thread, pc[t] = "unregister" PROVE code'[t[2]] = code[t[2]]
    BY <1>n, <1>w, <2>1, <2>3, NoneAssumption
  <2>4. \/ registry' = registry
        \/ registry[c] = None /\ registry' = [registry EXCEPT ![c] = s]
    <3>1. CASE registry[c] # None
      <4>1. UNCHANGED <<roles, registry>>
        BY <1>25, <1>m, <3>1 DEF Announce
      <4>2. QED
        BY <4>1
    <3>2. CASE registry[c] = None
      BY <1>25, <1>m, <3>2 DEF Announce
    <3>3. QED
      BY <3>1, <3>2
  <2>5. ASSUME NEW t \in Thread, pc[t] = "unregister"
        PROVE  registry'[code[t[2]]] = registry[code[t[2]]]
    BY <1>n, <1>w, <2>4, <2>5, NoneAssumption
  <2>6. QED
    BY <1>m, <1>n, <2>1, <2>2, <2>3, <2>5
<1>26. ASSUME NEW s \in Session, NEW c \in Channel, Record(s, c) PROVE OneDeletes'
  <2>1. exit' = exit /\ code[s] \in {None, c} /\ code' = [code EXCEPT ![s] = c] /\ registry' = registry
    BY <1>26, <1>m DEF Record, Asked
  <2>2. ASSUME NEW t \in Thread, pc'[t] = "unregister" PROVE pc[t] = "unregister"
    BY <1>26, <1>m, <2>2, RequestMoves
  <2>3. ASSUME NEW t \in Thread, pc[t] = "unregister" PROVE code'[t[2]] = code[t[2]]
    BY <1>n, <1>w, <2>1, <2>3, NoneAssumption
  <2>4. QED
    BY <1>m, <2>1, <2>2, <2>3
<1>27. ASSUME NEW s \in Session, NEW c \in Channel, Describe(s, c) PROVE OneDeletes'
  <2>1. exit' = exit /\ code[s] \in {None, c} /\ code' = [code EXCEPT ![s] = c] /\ registry' = registry
    BY <1>27, <1>m DEF Describe, Asked
  <2>2. ASSUME NEW t \in Thread, pc'[t] = "unregister" PROVE pc[t] = "unregister"
    BY <1>27, <1>m, <2>2, RequestMoves
  <2>3. ASSUME NEW t \in Thread, pc[t] = "unregister" PROVE code'[t[2]] = code[t[2]]
    BY <1>n, <1>w, <2>1, <2>3, NoneAssumption
  <2>4. QED
    BY <1>m, <2>1, <2>2, <2>3
<1>28. ASSUME NEW s \in Session, NEW c \in Channel, Play(s, c) PROVE OneDeletes'
  <2>1. exit' = exit /\ code[s] \in {None, c} /\ code' = [code EXCEPT ![s] = c] /\ registry' = registry
    BY <1>28, <1>m DEF Play, Asked
  <2>2. ASSUME NEW t \in Thread, pc'[t] = "unregister" PROVE pc[t] = "unregister"
    BY <1>28, <1>m, <2>2, RequestMoves
  <2>3. ASSUME NEW t \in Thread, pc[t] = "unregister" PROVE code'[t[2]] = code[t[2]]
    BY <1>n, <1>w, <2>1, <2>3, NoneAssumption
  <2>4. QED
    BY <1>m, <2>1, <2>2, <2>3
<1>29. ASSUME NEW t \in Thread, Enqueue(t)
      PROVE  OneDeletes'
  BY <1>u, <1>29 DEF Enqueue
<1>30. QED
  BY <1>u, <1>1, <1>2, <1>3, <1>4, <1>5, <1>6, <1>7, <1>8, <1>9, <1>10, <1>11, <1>12, <1>13,
     <1>14, <1>15, <1>16, <1>17, <1>18, <1>19, <1>20, <1>21, <1>22, <1>23, <1>24, <1>25, <1>26,
     <1>27, <1>28, <1>29, ThreadSession DEF Next, Proceed, Acquire, Client

\* Every initial state satisfies the invariant.
LEMMA InitInvariant == Init => RelayInvariant
<1> SUFFICES ASSUME Init PROVE RelayInvariant
  OBVIOUS
<1> USE DEF Init
<1>1. GoroutineTypeOK
  BY ThreadSession, ListType DEF GoroutineTypeOK, Points, RoleList
<1>2. SessionTypeOK
  BY QueueAssumption DEF SessionTypeOK
<1>3. PusherTypeOK
  BY QueueAssumption DEF PusherTypeOK
<1>4. PlayerTypeOK
  BY DEF PlayerTypeOK
<1>5. Goroutines
  BY ThreadSession DEF Goroutines
<1>6. FunctionLists
  BY DEF FunctionLists, RoleList
<1>7. StopLists /\ InCall /\ MarkedBefore
  BY DEF StopLists, InCall, MarkedBefore
<1>8. Viewing
  <2>1. \A s \in Session : ~Plays(s) /\ pc[Loop(s)] = "read" /\ pc[Receiver(s)] = "none"
    BY ThreadNames DEF Plays, Has
  <2>2. QED
    BY <2>1 DEF Viewing
<1>9. PusherLeftFirst /\ WokenForAReason
  BY ThreadNames DEF PusherLeftFirst, WokenForAReason, Stops
<1>10. ConnClosedByAStop /\ ExitClosedByAStop
  BY DEF ConnClosedByAStop, ExitClosedByAStop
<1>11. Registered
  <2>1. \A s \in Session : ~Pushes(s)
    BY DEF Pushes, Has
  <2>2. QED
    BY <2>1, NoneAssumption DEF Registered
<1>12. OneDeletes
  BY ThreadNames DEF OneDeletes
<1>13. LockLeaksOnlyInStop
  BY DEF LockLeaksOnlyInStop
<1>14. ~crashed
  OBVIOUS
<1>15. QED
  BY <1>1, <1>2, <1>3, <1>4, <1>5, <1>6, <1>7, <1>8, <1>9, <1>10, <1>11, <1>12, <1>13, <1>14
  DEF RelayInvariant, TypeOK

\* A step that ends the process leaves no goroutine.
LEMMA CrashStep ==
  ASSUME RelayInvariant, Next, crashed'
  PROVE  pc' = [u \in Thread |-> "gone"]
<1>t. ~crashed
  BY AliveStep
<1> USE <1>t
<1>1. ASSUME NEW t \in Thread, Mark(t) PROVE pc' = [u \in Thread |-> "gone"]
  BY <1>1 DEF Mark, Panic
<1>2. ASSUME NEW t \in Thread, CloseExit(t) PROVE pc' = [u \in Thread |-> "gone"]
  BY <1>2 DEF CloseExit, Panic
<1>3. ASSUME NEW t \in Thread, Close(t) PROVE pc' = [u \in Thread |-> "gone"]
  BY <1>3 DEF Close, Panic
<1>4. CASE crashed' = crashed
  BY <1>4
<1>5. ASSUME NEW t \in Thread, Proceed(t) PROVE pc' = [u \in Thread |-> "gone"]
  BY <1>1, <1>2, <1>3, <1>4, <1>5 DEF Proceed, Offer, Delivered, Stop, Unregister, HooksDone,
     RelayEnds, RangeDone, SendFrame, ReceiverTop, BreakOut, WriteFrame
<1>6. ASSUME NEW t \in Thread, Acquire(t) PROVE pc' = [u \in Thread |-> "gone"]
  BY <1>4, <1>6 DEF Acquire, AppendFrame, Enqueue, Broadcast, Detach, Attach, Take, LockOrWait, Woken
<1>7. ASSUME NEW s \in Session, Client(s) PROVE pc' = [u \in Thread |-> "gone"]
  BY <1>4, <1>7 DEF Client, Announce, Record, Describe, Play, Teardown, ReadFails, ReadFrame
<1>8. QED
  BY <1>5, <1>6, <1>7 DEF Next

\* The invariant is inductive.
LEMMA InvariantStep == RelayInvariant /\ [Next]_vars => RelayInvariant'
<1>1. CASE UNCHANGED vars
  <2>1. UNCHANGED <<pc, frame, at, todoFuncs, deferred, code, roles, stoped, conn, registry, exit,
                    channel, players, readLock, todo, upstream, queue, cond, sent, got, crashed>>
    BY <1>1 DEF vars, calls, sessions, pushers, maps, playing, media
  <2>2. RelayInvariant = RelayInvariant'
    BY <2>1 DEF RelayInvariant, TypeOK, GoroutineTypeOK, SessionTypeOK, PusherTypeOK, PlayerTypeOK,
       Goroutines, FunctionLists, StopLists, InCall, Viewing, PusherLeftFirst, MarkedBefore,
       WokenForAReason, ConnClosedByAStop, ExitClosedByAStop, PastPusher, Registered, OneDeletes,
       LockLeaksOnlyInStop, Plays, Pushes
  <2>3. QED
    BY <2>2
<1>2. ASSUME RelayInvariant, Next PROVE RelayInvariant'
  <2>1. TypeOK'
    BY <1>2, GoroutineTypeStep, SessionTypeStep, PusherTypeStep, PlayerTypeStep DEF TypeOK
  <2>2. CASE crashed'
    <3>1. \A t \in Thread : pc'[t] = "gone"
      BY <1>2, <2>2, CrashStep
    <3>2. LockLeaksOnlyInStop'
      BY <2>2 DEF LockLeaksOnlyInStop
    <3>3. QED
      BY <2>1, <2>2, <3>1, <3>2 DEF RelayInvariant
  <2>3. CASE ~crashed'
    <3>1. Goroutines' /\ FunctionLists' /\ StopLists' /\ InCall'
      BY <1>2, <2>3, GoroutinesStep, ListsStep, StopListsStep, InCallStep
    <3>2. Viewing' /\ PusherLeftFirst' /\ MarkedBefore' /\ WokenForAReason'
      BY <1>2, <2>3, ViewingStep, LeftFirstStep, MarkedStep, WokenStep
    <3>3. ConnClosedByAStop' /\ ExitClosedByAStop' /\ Registered' /\ OneDeletes'
      BY <1>2, <2>3, ConnStep, ExitStep, RegisteredStep, OneDeletesStep
    <3>4. LockLeaksOnlyInStop'
      BY <1>2, <2>3, LockStep
    <3>5. QED
      BY <2>1, <2>3, <3>1, <3>2, <3>3, <3>4 DEF RelayInvariant
  <2>4. QED
    BY <2>2, <2>3
<1>3. QED
  BY <1>1, <1>2

\* The relay satisfies its inductive invariant.
THEOREM Invariance == Spec => []RelayInvariant
<1>1. QED
  BY InitInvariant, InvariantStep, PTL DEF Spec

\* Every variable keeps its type, in particular the queues and the channel's capacity.
THEOREM TypeCorrectness == Spec => []TypeOK
<1>1. RelayInvariant => TypeOK
  BY DEF RelayInvariant
<1>2. QED
  BY Invariance, <1>1, PTL

\* receiverFrame never indexes an empty queue.
THEOREM NoEmptyTake == Spec => []NeverTakesFromEmpty
<1>1. RelayInvariant => NeverTakesFromEmpty
  <2>1. CASE crashed
    BY <2>1, ThreadNames DEF RelayInvariant, NeverTakesFromEmpty
  <2>2. CASE ~crashed
    BY <2>2 DEF RelayInvariant, WokenForAReason, NeverTakesFromEmpty
  <2>3. QED
    BY <2>1, <2>2
<1>2. QED
  BY Invariance, <1>1, PTL

\* cond.L stays locked outside receiverFrame's few lines only in a session that stops.
THEOREM LockLeaks == Spec => []LockLeaksOnlyInStop
<1>1. RelayInvariant => LockLeaksOnlyInStop
  BY DEF RelayInvariant
<1>2. QED
  BY Invariance, <1>1, PTL

-----------------------------------------------------------------------------
(***************************************************************************)
(* What the inductive invariant of RtspRelayProofs gives beyond itself:    *)
(* the RTSP relay implements the stream directory, and a panic ends the    *)
(* process only when two goroutines stop the same viewer.                  *)
(*                                                                         *)
(* The refinement: ANNOUNCE is Publish, removePusher is Withdraw, and      *)
(* every other step leaves the directory alone.  That removePusher, which  *)
(* deletes by code, finds the stopping session there is OneDeletes; that   *)
(* closing exit does not yet end the publication is Registered.            *)
(***************************************************************************)

\* The directory sees a step only through what is registered, the roles and exit.
LEMMA PhaseUnchanged ==
  ASSUME UNCHANGED <<registry, roles, exit>>
  PROVE  UNCHANGED Directory!dvars
<1>1. \A s \in Session : Phase(s)' = Phase(s)
  BY DEF Phase, Pushes
<1>2. QED
  BY <1>1 DEF Directory!dvars

\* ANNOUNCE of a code nobody holds publishes under it.
LEMMA AnnouncePublishes ==
  ASSUME RelayInvariant, ~crashed, NEW s \in Session, NEW c \in Channel,
         Announce(s, c), registry[c] = None
  PROVE  Directory!Publish(s, c)
<1>1. TypeOK /\ FunctionLists /\ Registered
  BY DEF RelayInvariant
<1>2. roles[s] \in RoleList /\ ~Has(roles[s], "pusher")
  BY <1>1 DEF Announce, FunctionLists, Has
<1>3. Has(Append(roles[s], "pusher"), "pusher")
  BY <1>2, ListAppend
<1>4. /\ registry' = [registry EXCEPT ![c] = s] /\ exit' = exit
      /\ roles' = [roles EXCEPT ![s] = Append(roles[s], "pusher")]
  BY DEF Announce
<1>5. registry'[c] = s /\ \A d \in Channel : d # c => registry'[d] = registry[d]
  BY <1>1, <1>4 DEF TypeOK, PusherTypeOK
<1>6. /\ Has(roles'[s], "pusher")
      /\ \A x \in Session : x # s => roles'[x] = roles[x]
  BY <1>1, <1>3, <1>4 DEF TypeOK, SessionTypeOK
<1>7. Phase(s) = "idle" /\ Phase(s)' = "live"
  BY <1>2, <1>5, <1>6 DEF Phase, Pushes
<1>8. \A x \in Session : x # s => Phase(x)' = Phase(x)
  <2>1. ASSUME NEW x \in Session, x # s, NEW d \in Channel
        PROVE  registry'[d] = x <=> registry[d] = x
    BY <1>5, <2>1, NoneAssumption
  <2>2. QED
    BY <1>4, <1>6, <2>1 DEF Phase, Pushes
<1>9. [x \in Session |-> Phase(x)]' = [[x \in Session |-> Phase(x)] EXCEPT ![s] = "live"]
  BY <1>7, <1>8
<1>10. QED
  BY <1>4, <1>7, <1>9 DEF Directory!Publish

\* removePusher withdraws the session that stops, and no other.
LEMMA UnregisterWithdraws ==
  ASSUME RelayInvariant, ~crashed, NEW t \in Thread, Unregister(t)
  PROVE  \E s \in Session, c \in Channel : Directory!Withdraw(s, c)
<1> DEFINE s == t[2]
           c == code[s]
<1>1. TypeOK /\ Registered /\ OneDeletes
  BY DEF RelayInvariant
<1>2. s \in Session /\ exit[s] /\ registry[c] = s
  BY <1>1, ThreadSession DEF Unregister, OneDeletes
<1>3. Pushes(s)
  <2>1. todoFuncs[t] \in RoleList /\ todoFuncs[t] # << >> /\ Head(todoFuncs[t]) = "pusher"
    BY DEF Unregister, RelayInvariant, FunctionLists, InCall
  <2>2. Has(todoFuncs[t], "pusher")
    BY <2>1, ListTail
  <2>3. QED
    BY <2>2 DEF Unregister, RelayInvariant, StopLists, Pushes
<1>4. c \in Channel /\ \A d \in Channel : registry[d] = s => d = c
  BY <1>1, <1>2, <1>3 DEF Registered
<1>5. UNCHANGED <<roles, exit>> /\ registry' = [registry EXCEPT ![c] = None]
  BY DEF Unregister, sessions
<1>6. registry'[c] = None /\ \A d \in Channel : d # c => registry'[d] = registry[d]
  BY <1>1, <1>4, <1>5 DEF TypeOK, PusherTypeOK
<1>7. Phase(s)' = "over"
  BY <1>2, <1>3, <1>4, <1>5, <1>6, NoneAssumption DEF Phase, Pushes
<1>8. \A x \in Session : x # s => Phase(x)' = Phase(x)
  <2>1. ASSUME NEW x \in Session, x # s, NEW d \in Channel
        PROVE  registry'[d] = x <=> registry[d] = x
    BY <1>2, <1>6, <2>1, NoneAssumption
  <2>2. QED
    BY <1>5, <2>1 DEF Phase, Pushes
<1>9. [x \in Session |-> Phase(x)]' = [[x \in Session |-> Phase(x)] EXCEPT ![s] = "over"]
  BY <1>2, <1>7, <1>8
<1>10. Directory!Withdraw(s, c)
  BY <1>2, <1>5, <1>9 DEF Directory!Withdraw
<1>11. QED
  BY <1>2, <1>4, <1>10

\* Closing exit leaves the Pusher published: it is still registered.
LEMMA CloseExitStutters ==
  ASSUME RelayInvariant, ~crashed, NEW t \in Thread, CloseExit(t)
  PROVE  UNCHANGED Directory!dvars
<1>1. UNCHANGED <<roles, registry>>
  BY DEF CloseExit, sessions
<1>2. CASE exit[t[2]]
  <2>1. exit' = exit
    BY <1>2 DEF CloseExit
  <2>2. QED
    BY <1>1, <2>1, PhaseUnchanged
<1>3. CASE ~exit[t[2]]
  <2>1. t[2] \in Session /\ exit' = [exit EXCEPT ![t[2]] = TRUE]
    BY <1>3, ThreadSession DEF CloseExit
  <2>2. todoFuncs[t] \in RoleList /\ todoFuncs[t] # << >> /\ Head(todoFuncs[t]) = "pusher"
    BY DEF CloseExit, RelayInvariant, FunctionLists
  <2>3. Has(todoFuncs[t], "pusher")
    BY <2>2, ListTail
  <2>4. Pushes(t[2])
    BY <2>3 DEF CloseExit, RelayInvariant, StopLists, Pushes
  <2>5. code[t[2]] \in Channel /\ registry[code[t[2]]] = t[2]
    BY <1>3, <2>1, <2>4 DEF RelayInvariant, Registered
  <2>6. Phase(t[2])' = "live" /\ Phase(t[2]) = "live"
    BY <1>1, <1>3, <2>4, <2>5 DEF Phase, Pushes
  <2>7. ASSUME NEW x \in Session, x # t[2] PROVE Phase(x)' = Phase(x)
    <3>1. exit'[x] = exit[x]
      BY <2>1, <2>7 DEF RelayInvariant, TypeOK, PusherTypeOK
    <3>2. QED
      BY <1>1, <3>1 DEF Phase, Pushes
  <2>8. QED
    BY <1>1, <2>6, <2>7 DEF Directory!dvars
<1>4. QED
  BY <1>2, <1>3

\* A session that becomes a player publishes no more and no less.
LEMMA AttachStutters ==
  ASSUME RelayInvariant, ~crashed, NEW s \in Session, Attach(s)
  PROVE  UNCHANGED Directory!dvars
<1>1. UNCHANGED <<registry, exit>> /\ roles' = [roles EXCEPT ![s] = Append(roles[s], "player")]
  BY DEF Attach, pushers
<1>2. roles[s] \in RoleList /\ ~Has(roles[s], "player")
  BY DEF Attach, RelayInvariant, FunctionLists, Viewing, Plays
<1>3. Has(Append(roles[s], "player"), "pusher") <=> Has(roles[s], "pusher")
  BY <1>2, ListAppend
<1>4. roles \in [Session -> Seq({"pusher", "player"})]
  BY DEF RelayInvariant, TypeOK, SessionTypeOK
<1>5. \A x \in Session : Pushes(x)' <=> Pushes(x)
  <2>1. ASSUME NEW x \in Session, x # s PROVE Pushes(x)' <=> Pushes(x)
    <3>1. roles'[x] = roles[x]
      BY <1>1, <1>4, <2>1
    <3>2. QED
      BY <3>1 DEF Pushes
  <2>2. roles'[s] = Append(roles[s], "player")
    BY <1>1, <1>4
  <2>3. Pushes(s)' <=> Pushes(s)
    BY <1>3, <2>2 DEF Pushes
  <2>4. QED
    BY <2>1, <2>3, Zenon
<1>6. \A x \in Session : Phase(x)' = Phase(x)
  BY <1>1, <1>5 DEF Phase
<1>7. QED
  BY <1>1, <1>6 DEF Directory!dvars

\* Every step publishes, withdraws or leaves the directory alone.
LEMMA DirectoryStep ==
  ASSUME RelayInvariant, Next
  PROVE  Directory!DirectoryNext \/ UNCHANGED Directory!dvars
<1>t. ~crashed
  BY AliveStep
<1>1. ASSUME NEW s \in Session, NEW c \in Channel, Announce(s, c)
      PROVE  Directory!DirectoryNext \/ UNCHANGED Directory!dvars
  <2>1. CASE registry[c] = None
    BY <1>t, <1>1, <2>1, AnnouncePublishes DEF Directory!DirectoryNext
  <2>2. CASE registry[c] # None
    <3>1. UNCHANGED <<roles, registry>> /\ exit' = exit
      BY <1>1, <2>2 DEF Announce
    <3>2. QED
      BY <3>1, PhaseUnchanged
  <2>3. QED
    BY <2>1, <2>2
<1>2. ASSUME NEW t \in Thread, Unregister(t) PROVE Directory!DirectoryNext
  BY <1>t, <1>2, UnregisterWithdraws DEF Directory!DirectoryNext
<1>3. ASSUME NEW t \in Thread, CloseExit(t) PROVE UNCHANGED Directory!dvars
  BY <1>t, <1>3, CloseExitStutters
<1>4. ASSUME NEW s \in Session, Attach(s) PROVE UNCHANGED Directory!dvars
  BY <1>t, <1>4, AttachStutters
<1>5. CASE UNCHANGED <<registry, roles, exit>>
  BY <1>5, PhaseUnchanged
<1>6. ASSUME NEW t \in Thread, Proceed(t)
      PROVE  Directory!DirectoryNext \/ UNCHANGED Directory!dvars
  BY <1>2, <1>3, <1>5, <1>6 DEF Proceed, Offer, Delivered, Stop, Mark, HooksDone, Close,
     RelayEnds, RangeDone, SendFrame, ReceiverTop, BreakOut, WriteFrame, sessions, pushers
<1>7. ASSUME NEW t \in Thread, Acquire(t)
      PROVE  Directory!DirectoryNext \/ UNCHANGED Directory!dvars
  BY <1>4, <1>5, <1>7, ThreadSession DEF Acquire, AppendFrame, Enqueue, Broadcast, Detach, Take,
     LockOrWait, Woken, sessions, pushers
<1>8. ASSUME NEW s \in Session, Client(s)
      PROVE  Directory!DirectoryNext \/ UNCHANGED Directory!dvars
  BY <1>1, <1>5, <1>8 DEF Client, Record, Describe, Play, Teardown, ReadFails, ReadFrame,
     sessions, pushers
<1>9. QED
  BY <1>6, <1>7, <1>8 DEF Next

\* The PusherManager of the RTSP server implements the stream directory: a code has one
\* publisher at most, who is found there from ANNOUNCE until its own removePusher.
THEOREM Refinement == Spec => DirectoryImplemented
<1>1. Init => Directory!DirectoryInit
  <2>1. ASSUME Init PROVE \A s \in Session : Phase(s) = "idle"
    BY <2>1 DEF Init, Phase, Pushes, Has
  <2>2. QED
    BY <2>1 DEF Init, Directory!DirectoryInit
<1>2. RelayInvariant /\ [Next]_vars => [Directory!DirectoryNext]_(Directory!dvars)
  <2>1. CASE UNCHANGED vars
    BY <2>1, PhaseUnchanged DEF vars, sessions, pushers
  <2>2. QED
    BY <2>1, DirectoryStep
<1>3. QED
  BY <1>1, <1>2, Invariance, PTL DEF Spec, DirectoryImplemented, Directory!DirectorySpec
\* A goroutine that panics for good runs the stop of its session, and so does, or did,
\* the other goroutine of the session that may.
LEMMA SecondStop ==
  ASSUME RelayInvariant, ~crashed, NEW t \in Thread,
         pc[t] \in {"mark", "hooks", "closing"},
         \/ conn[t[2]] = "nil"
         \/ exit[t[2]] /\ pc[t] = "hooks" /\ todoFuncs[t] # << >> /\ Head(todoFuncs[t]) = "pusher"
  PROVE  \E s \in Session : /\ Plays(s) /\ exit[upstream[s]]
                            /\ pc[Loop(s)] \in Stops /\ pc[Receiver(s)] \in Stops
<1> DEFINE s == t[2]
<1>1. s \in Session /\ (t = Loop(s) \/ t = Receiver(s))
  <2>1. t[1] # "relay"
    BY DEF RelayInvariant, Goroutines
  <2>2. QED
    BY <2>1 DEF Thread, Loop, Receiver
<1>2. pc[t] \in Stops /\ pc[t] # "gone"
  BY DEF Stops
<1>3. \/ pc[Loop(s)] = "gone" \/ pc[Receiver(s)] = "gone"
      \/ PastPusher(Loop(s)) /\ Loop(s) # t
      \/ PastPusher(Receiver(s)) /\ Receiver(s) # t
  <2>1. CASE conn[s] = "nil"
    BY <1>1, <2>1 DEF RelayInvariant, ConnClosedByAStop
  <2>2. CASE exit[s] /\ pc[t] = "hooks" /\ todoFuncs[t] # << >> /\ Head(todoFuncs[t]) = "pusher"
    <3>1. todoFuncs[t] \in RoleList
      BY DEF RelayInvariant, FunctionLists
    <3>2. Has(todoFuncs[t], "pusher")
      BY <2>2, <3>1, ListTail
    <3>3. ~PastPusher(t)
      BY <2>2, <3>2 DEF PastPusher
    <3>4. PastPusher(Loop(s)) \/ PastPusher(Receiver(s))
      BY <1>1, <2>2 DEF RelayInvariant, ExitClosedByAStop
    <3>5. QED
      BY <3>3, <3>4
  <2>3. QED
    BY <2>1, <2>2
<1>4. pc[Loop(s)] \in Stops /\ pc[Receiver(s)] \in Stops
  BY <1>1, <1>2, <1>3 DEF PastPusher, Stops
<1>5. Plays(s) /\ exit[upstream[s]]
  BY <1>1, <1>4 DEF RelayInvariant, Viewing, PusherLeftFirst, Stops
<1>6. QED
  BY <1>1, <1>4, <1>5

\* Only the three points of Session.stop that may panic end the process, and they do so
\* when another stop has closed what they use.
LEMMA PanicStep ==
  ASSUME RelayInvariant, Next
  PROVE  crashed' =>
           \E s \in Session : /\ Plays(s) /\ exit[upstream[s]]
                              /\ pc[Loop(s)] \in Stops /\ pc[Receiver(s)] \in Stops
<1> SUFFICES ASSUME crashed'
             PROVE  \E s \in Session : /\ Plays(s) /\ exit[upstream[s]]
                                       /\ pc[Loop(s)] \in Stops /\ pc[Receiver(s)] \in Stops
  OBVIOUS
<1>a. ~crashed
  BY AliveStep
<1>1. ASSUME NEW t \in Thread, Proceed(t)
      PROVE  \/ pc[t] = "mark" /\ conn[t[2]] = "nil"
             \/ pc[t] = "closing" /\ conn[t[2]] = "nil"
             \/ /\ exit[t[2]] /\ pc[t] = "hooks"
                /\ todoFuncs[t] # << >> /\ Head(todoFuncs[t]) = "pusher"
  BY <1>a, <1>1 DEF Proceed, Offer, Delivered, Stop, Mark, CloseExit, Unregister, HooksDone,
     Close, RelayEnds, RangeDone, SendFrame, ReceiverTop, BreakOut, WriteFrame
<1>2. ASSUME NEW t \in Thread PROVE ~Acquire(t)
  BY <1>a DEF Acquire, Enqueue, AppendFrame, Broadcast, Detach, Attach, Take, LockOrWait, Woken
<1>3. ASSUME NEW s \in Session PROVE ~Client(s)
  BY <1>a DEF Client, Announce, Record, Describe, Play, Teardown, ReadFails, ReadFrame
<1>4. PICK t \in Thread : Proceed(t)
  BY <1>2, <1>3 DEF Next
<1>5. /\ pc[t] \in {"mark", "hooks", "closing"}
      /\ \/ conn[t[2]] = "nil"
         \/ /\ exit[t[2]] /\ pc[t] = "hooks"
            /\ todoFuncs[t] # << >> /\ Head(todoFuncs[t]) = "pusher"
  BY <1>1, <1>4
<1>6. QED
  BY <1>a, <1>4, <1>5, SecondStop

\* The server dies of a panic only when the loop and the receiver of a viewer both run its
\* stop, after its Pusher has left.
THEOREM CrashNeedsTwoStops == Spec => CrashIsDoubleStop
<1>1. RelayInvariant /\ [Next]_vars =>
        [crashed' /\ ~crashed =>
           \E s \in Session : /\ Plays(s) /\ exit[upstream[s]]
                              /\ pc[Loop(s)] \in Stops /\ pc[Receiver(s)] \in Stops]_vars
  <2>1. CASE UNCHANGED vars
    BY <2>1
  <2>2. CASE Next
    BY <2>2, PanicStep
  <2>3. QED
    BY <2>1, <2>2
<1>2. QED
  BY <1>1, Invariance, PTL DEF Spec, CrashIsDoubleStop
==============================================================================
