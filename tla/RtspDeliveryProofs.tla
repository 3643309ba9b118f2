-------------------------- MODULE RtspDeliveryProofs --------------------------
(***************************************************************************)
(* What an RTSP player gets, for every set of sessions and channels and    *)
(* for streams of every length: FramesInOrder.  DeliveryInvariant follows  *)
(* the frames of each publisher along its pipeline: those in its channel,  *)
(* the one in its relay's hand and those its players were handed are       *)
(* numbered without a gap.                                                 *)
(*                                                                         *)
(* The argument: most steps move no frame and leave the pipelines alone    *)
(* (QuietPipelines, QuietSteps).  Of the others reading a frame and        *)
(* sending it to the channel extend a pipeline at its end, taking it from  *)
(* the channel and appending it to a player's queue move it on, and a      *)
(* player joins or leaves a map only between two ranges.  Frames of        *)
(* another session that pass through the same channel or queue do not      *)
(* count, and no frame returns to the session that sent it, because no     *)
(* session plays itself, directly or through others (NoCycle).             *)
(***************************************************************************)
EXTENDS RtspRelayProofs

\* What a frame holds.
LEMMA FrameFields ==
  ASSUME NEW f \in Frame
  PROVE  f.from \in Session /\ f.seq \in 1 .. MaxFrames /\ f.seq \in Nat /\ MaxFrames \in Nat
<1>1. f.from \in Session /\ f.seq \in 1 .. MaxFrames
  BY DEF Frame
<1>2. QED
  BY <1>1, QueueAssumption

\* The elements of a sequence of frames.
LEMMA ListFrames ==
  ASSUME NEW list \in Seq(Frame)
  PROVE  /\ Len(list) \in Nat /\ DOMAIN list = 1 .. Len(list)
         /\ \A i \in DOMAIN list : list[i].from \in Session /\ list[i].seq \in Nat
<1>1. Len(list) \in Nat /\ DOMAIN list = 1 .. Len(list)
  BY LenProperties
<1>2. \A i \in DOMAIN list : list[i] \in Frame
  BY <1>1, ElementOfSeq
<1>3. QED
  BY <1>1, <1>2, FrameFields

\* In an empty list no frame is missing.
LEMMA RunEmpty ==
  ASSUME NEW u, NEW a \in Nat
  PROVE  Run(<< >>, u, a, a)
<1>1. DOMAIN << >> = {}
  OBVIOUS
<1>2. a + 1 .. a = {} /\ a <= a
  OBVIOUS
<1>3. QED
  BY <1>1, <1>2 DEF Run

\* The next frame extends a run.
LEMMA RunNext ==
  ASSUME NEW list \in Seq(Frame), NEW f \in Frame, NEW u, NEW a \in Nat, NEW b \in Int,
         Run(list, u, a, b), f.from = u, f.seq = b + 1
  PROVE  Run(Append(list, f), u, a, b + 1)
<1> DEFINE longer == Append(list, f)
           own == {i \in DOMAIN list : list[i].from = u}
           more == {i \in DOMAIN longer : longer[i].from = u}
           n == Len(list)
<1>1. /\ longer \in Seq(Frame) /\ Len(longer) = n + 1 /\ longer[n + 1] = f
      /\ \A i \in 1 .. n : longer[i] = list[i]
  BY AppendProperties
<1>2. n \in Nat /\ DOMAIN list = 1 .. n /\ \A i \in own : list[i].seq \in Nat
  BY ListFrames
<1>3. DOMAIN longer = 1 .. n + 1
  BY <1>1, ListFrames
<1>4. more = own \cup {n + 1}
  BY <1>1, <1>2, <1>3
<1>5. /\ a <= b
      /\ \A i \in own : list[i].seq \in a + 1 .. b
      /\ \A m \in a + 1 .. b : \E i \in own : list[i].seq = m
      /\ \A i, j \in own : i < j => list[i].seq < list[j].seq
  BY DEF Run
<1>6. \A i \in own : i \in 1 .. n /\ longer[i] = list[i]
  BY <1>1, <1>2
<1> HIDE DEF longer, own, more, n
<1>7. a <= b + 1 /\ \A i \in more : longer[i].seq \in a + 1 .. b + 1
  BY <1>1, <1>4, <1>5, <1>6
<1>8. \A m \in a + 1 .. b + 1 : \E i \in more : longer[i].seq = m
  <2> TAKE m \in a + 1 .. b + 1
  <2>1. CASE m = b + 1
    BY <1>1, <1>4, <2>1
  <2>2. CASE m # b + 1
    <3>1. m \in a + 1 .. b
      BY <2>2
    <3>2. PICK i \in own : list[i].seq = m
      BY <1>5, <3>1
    <3>3. QED
      BY <1>4, <1>6, <3>2
  <2>3. QED
    BY <2>1, <2>2
<1>9. \A i, j \in more : i < j => longer[i].seq < longer[j].seq
  <2> SUFFICES ASSUME NEW i \in more, NEW j \in more, i < j PROVE longer[i].seq < longer[j].seq
    OBVIOUS
  <2>1. i \in own
    BY <1>2, <1>4, <1>6
  <2>2. CASE j \in own
    BY <1>5, <1>6, <2>1, <2>2
  <2>3. CASE j = n + 1
    BY <1>1, <1>5, <1>6, <2>1, <2>3
  <2>4. QED
    BY <1>4, <2>2, <2>3
<1>10. QED
  BY <1>7, <1>8, <1>9 DEF Run, more, longer

\* A frame of another session does not count.
LEMMA RunOther ==
  ASSUME NEW list \in Seq(Frame), NEW f \in Frame, NEW u, NEW a, NEW b,
         Run(list, u, a, b), f.from # u
  PROVE  Run(Append(list, f), u, a, b)
<1> DEFINE longer == Append(list, f)
           own == {i \in DOMAIN list : list[i].from = u}
           more == {i \in DOMAIN longer : longer[i].from = u}
           n == Len(list)
<1>1. /\ longer \in Seq(Frame) /\ Len(longer) = n + 1 /\ longer[n + 1] = f
      /\ \A i \in 1 .. n : longer[i] = list[i]
  BY AppendProperties
<1>2. n \in Nat /\ DOMAIN list = 1 .. n /\ DOMAIN longer = 1 .. n + 1
  BY <1>1, ListFrames
<1>3. more = own /\ \A i \in own : longer[i] = list[i]
  BY <1>1, <1>2
<1>4. /\ a <= b
      /\ \A i \in own : list[i].seq \in a + 1 .. b
      /\ \A m \in a + 1 .. b : \E i \in own : list[i].seq = m
      /\ \A i, j \in own : i < j => list[i].seq < list[j].seq
  BY DEF Run
<1> HIDE DEF longer, own, more, n
<1>5. /\ a <= b
      /\ \A i \in more : longer[i].seq \in a + 1 .. b
      /\ \A m \in a + 1 .. b : \E i \in more : longer[i].seq = m
      /\ \A i, j \in more : i < j => longer[i].seq < longer[j].seq
  BY <1>3, <1>4
<1>6. QED
  BY <1>5 DEF Run, more, longer

\* Taking the first frame off a list leaves the run of the others.
LEMMA RunTail ==
  ASSUME NEW list \in Seq(Frame), list # << >>, NEW u, NEW a \in Nat, NEW b \in Int,
         Run(list, u, a, b)
  PROVE  /\ Head(list).from # u => Run(Tail(list), u, a, b)
         /\ Head(list).from = u => Head(list).seq = a + 1 /\ Run(Tail(list), u, a + 1, b)
<1> DEFINE rest == Tail(list)
           own == {i \in DOMAIN list : list[i].from = u}
           less == {i \in DOMAIN rest : rest[i].from = u}
           n == Len(list)
<1>1. /\ rest \in Seq(Frame) /\ Len(rest) = n - 1 /\ Head(list) = list[1]
      /\ \A i \in 1 .. n - 1 : rest[i] = list[i + 1]
  BY HeadTailProperties, LenProperties
<1>2. /\ n \in Nat /\ n >= 1 /\ DOMAIN list = 1 .. n /\ DOMAIN rest = 1 .. n - 1
      /\ \A i \in own : list[i].seq \in Nat
  BY <1>1, ListFrames, EmptySeq
<1>3. /\ \A i \in less : i + 1 \in own /\ rest[i] = list[i + 1] /\ i \in 1 .. n - 1
      /\ \A i \in own : i # 1 => i - 1 \in less /\ rest[i - 1] = list[i]
  BY <1>1, <1>2
<1>4. 1 \in own <=> Head(list).from = u
  BY <1>1, <1>2
<1>5. \A i \in own : i \in 1 .. n
  BY <1>2
<1>6. /\ a <= b
      /\ \A i \in own : list[i].seq \in a + 1 .. b
      /\ \A m \in a + 1 .. b : \E i \in own : list[i].seq = m
      /\ \A i, j \in own : i < j => list[i].seq < list[j].seq
  BY DEF Run
<1> HIDE DEF rest, own, less, n
<1>7. \A i, j \in less : i < j => rest[i].seq < rest[j].seq
  <2> SUFFICES ASSUME NEW i \in less, NEW j \in less, i < j PROVE rest[i].seq < rest[j].seq
    OBVIOUS
  <2>1. i + 1 \in own /\ j + 1 \in own /\ i + 1 < j + 1
    BY <1>2, <1>3
  <2>2. QED
    BY <1>3, <1>6, <2>1
<1>8. ASSUME Head(list).from # u PROVE Run(rest, u, a, b)
  <2>1. \A i \in less : rest[i].seq \in a + 1 .. b
    BY <1>3, <1>6
  <2>2. \A m \in a + 1 .. b : \E i \in less : rest[i].seq = m
    <3> TAKE m \in a + 1 .. b
    <3>1. PICK i \in own : list[i].seq = m
      BY <1>6
    <3>2. i # 1
      BY <1>4, <1>8
    <3>3. i - 1 \in less /\ rest[i - 1].seq = m
      BY <1>3, <3>1, <3>2
    <3>4. QED
      BY <3>3
  <2>3. QED
    BY <1>6, <1>7, <2>1, <2>2 DEF Run, less
<1>9. ASSUME Head(list).from = u PROVE Head(list).seq = a + 1 /\ Run(rest, u, a + 1, b)
  <2>1. 1 \in own /\ list[1].seq \in a + 1 .. b
    BY <1>4, <1>6, <1>9
  <2>2. a + 1 \in a + 1 .. b
    BY <2>1
  <2>3. PICK k \in own : list[k].seq = a + 1
    BY <1>6, <2>2
  <2>4. k = 1
    <3> SUFFICES ASSUME k # 1 PROVE FALSE
      OBVIOUS
    <3>1. 1 < k
      BY <1>2, <1>5
    <3>2. list[1].seq < list[k].seq
      BY <1>6, <2>1, <3>1
    <3>3. QED
      BY <2>1, <2>3, <3>2
  <2>5. list[1].seq = a + 1
    BY <2>3, <2>4
  <2>6. \A i \in less : rest[i].seq \in a + 1 + 1 .. b
    <3> TAKE i \in less
    <3>1. i + 1 \in own /\ 1 < i + 1
      BY <1>2, <1>3
    <3>2. list[1].seq < list[i + 1].seq /\ list[i + 1].seq \in a + 1 .. b
      BY <1>6, <2>1, <3>1
    <3>3. QED
      BY <1>3, <2>5, <3>2
  <2>7. \A m \in a + 1 + 1 .. b : \E i \in less : rest[i].seq = m
    <3> TAKE m \in a + 1 + 1 .. b
    <3>1. m \in a + 1 .. b
      OBVIOUS
    <3>2. PICK i \in own : list[i].seq = m
      BY <1>6, <3>1
    <3>3. i # 1
      BY <2>5, <3>2
    <3>4. QED
      BY <1>3, <3>2, <3>3
  <2>8. a + 1 <= b
    BY <2>1
  <2>9. Run(rest, u, a + 1, b)
    BY <1>7, <2>6, <2>7, <2>8 DEF Run, less
  <2>10. QED
    BY <1>1, <2>5, <2>9
<1>10. QED
  BY <1>8, <1>9 DEF rest

\* A run is consecutive.
LEMMA RunConsecutive ==
  ASSUME NEW list \in Seq(Frame), NEW u, NEW a \in Nat, NEW b \in Nat, Run(list, u, a, b)
  PROVE  Consecutive(list, u)
<1> DEFINE own == {i \in DOMAIN list : list[i].from = u}
<1>1. /\ \A i \in own : list[i].seq \in a + 1 .. b
      /\ \A m \in a + 1 .. b : \E i \in own : list[i].seq = m
      /\ \A i, j \in own : i < j => list[i].seq < list[j].seq
  BY DEF Run
<1>2. Len(list) \in Nat /\ DOMAIN list = 1 .. Len(list)
  BY ListFrames
<1>3. SUFFICES ASSUME NEW i \in DOMAIN list, NEW j \in DOMAIN list,
                      i < j, list[i].from = u, list[j].from = u,
                      \A k \in i + 1 .. j - 1 : list[k].from # u
               PROVE  list[j].seq = list[i].seq + 1
  BY DEF Consecutive
<1>4. /\ i \in own /\ j \in own /\ list[i].seq < list[j].seq
      /\ list[i].seq \in a + 1 .. b /\ list[j].seq \in a + 1 .. b
  BY <1>1, <1>3
<1>5. ASSUME list[i].seq + 1 < list[j].seq PROVE FALSE
  <2>1. list[i].seq + 1 \in a + 1 .. b
    BY <1>4, <1>5
  <2>2. PICK k \in own : list[k].seq = list[i].seq + 1
    BY <1>1, <2>1
  <2>3. k \in 1 .. Len(list) /\ i \in 1 .. Len(list) /\ j \in 1 .. Len(list)
    BY <1>2
  <2>4. ~(k < i) /\ ~(j < k) /\ k # i /\ k # j
    <3>1. k < i => list[k].seq < list[i].seq
      BY <1>1, <1>4
    <3>2. j < k => list[j].seq < list[k].seq
      BY <1>1, <1>4
    <3>3. QED
      BY <1>4, <1>5, <2>2, <3>1, <3>2
  <2>5. k \in i + 1 .. j - 1
    BY <2>3, <2>4
  <2>6. QED
    BY <1>3, <2>2, <2>5
<1>6. QED
  BY <1>4, <1>5

\* Appending to the second of two sequences appends to both together.
LEMMA ConcatAppend ==
  ASSUME NEW S, NEW g \in Seq(S), NEW q \in Seq(S), NEW f \in S
  PROVE  g \o Append(q, f) = Append(g \o q, f)
<1> DEFINE both == g \o q
           longer == Append(q, f)
           left == g \o longer
           right == Append(both, f)
<1>1. Len(g) \in Nat /\ Len(q) \in Nat
  BY LenProperties
<1>2. /\ both \in Seq(S) /\ Len(both) = Len(g) + Len(q)
      /\ \A i \in 1 .. Len(g) : both[i] = g[i]
      /\ \A i \in 1 .. Len(q) : both[Len(g) + i] = q[i]
  BY <1>1, ConcatProperties
<1>3. /\ longer \in Seq(S) /\ Len(longer) = Len(q) + 1 /\ longer[Len(q) + 1] = f
      /\ \A i \in 1 .. Len(q) : longer[i] = q[i]
      /\ Len(longer) \in Nat
  BY <1>1, AppendProperties
<1> HIDE DEF both, longer
<1>4. /\ left \in Seq(S) /\ Len(left) = Len(g) + Len(longer)
      /\ \A i \in 1 .. Len(g) : left[i] = g[i]
      /\ \A i \in 1 .. Len(longer) : left[Len(g) + i] = longer[i]
  <2>1. longer \in Seq(S)
    BY <1>3
  <2>2. QED
    BY <2>1, ConcatProperties
<1>5. /\ right \in Seq(S) /\ Len(right) = Len(both) + 1 /\ right[Len(both) + 1] = f
      /\ \A i \in 1 .. Len(both) : right[i] = both[i]
  BY <1>2, AppendProperties
<1> HIDE DEF left, right
<1>6. Len(left) = Len(right) /\ Len(left) = Len(g) + Len(q) + 1
  BY <1>1, <1>2, <1>3, <1>4, <1>5
<1>7. ASSUME NEW i \in 1 .. Len(left) PROVE left[i] = right[i]
  <2>1. CASE i \in 1 .. Len(g)
    BY <1>1, <1>2, <1>4, <1>5, <2>1
  <2>2. CASE i - Len(g) \in 1 .. Len(q)
    <3>1. i = Len(g) + (i - Len(g)) /\ i - Len(g) \in 1 .. Len(longer) /\ i \in 1 .. Len(both)
      BY <1>1, <1>2, <1>3, <2>2
    <3>2. left[i] = q[i - Len(g)]
      BY <1>3, <1>4, <2>2, <3>1
    <3>3. right[i] = q[i - Len(g)]
      BY <1>2, <1>5, <2>2, <3>1
    <3>4. QED
      BY <3>2, <3>3
  <2>3. CASE i = Len(g) + Len(q) + 1
    <3>1. i = Len(g) + (Len(q) + 1) /\ Len(q) + 1 \in 1 .. Len(longer) /\ i = Len(both) + 1
      BY <1>1, <1>2, <1>3, <2>3
    <3>2. QED
      BY <1>3, <1>4, <1>5, <3>1
  <2>4. QED
    BY <1>1, <1>6, <2>1, <2>2, <2>3
<1>8. left = right
  BY <1>4, <1>5, <1>6, <1>7, SeqEqual
<1>9. QED
  BY <1>8 DEF left, right, both, longer

\* Moving the head of the second sequence to the end of the first leaves both together.
LEMMA ConcatMove ==
  ASSUME NEW S, NEW g \in Seq(S), NEW q \in Seq(S), q # << >>
  PROVE  /\ Append(g, Head(q)) \o Tail(q) = g \o q
         /\ Append(g, Head(q)) \in Seq(S) /\ Tail(q) \in Seq(S)
<1> DEFINE both == g \o q
           longer == Append(g, Head(q))
           rest == Tail(q)
           left == longer \o rest
<1>1. Len(g) \in Nat /\ Len(q) \in Nat /\ Len(q) >= 1
  BY LenProperties, EmptySeq
<1>2. /\ both \in Seq(S) /\ Len(both) = Len(g) + Len(q)
      /\ \A i \in 1 .. Len(g) : both[i] = g[i]
      /\ \A i \in 1 .. Len(q) : both[Len(g) + i] = q[i]
  BY <1>1, ConcatProperties
<1>3. Head(q) \in S /\ Head(q) = q[1]
  BY HeadTailProperties
<1>4. /\ longer \in Seq(S) /\ Len(longer) = Len(g) + 1 /\ longer[Len(g) + 1] = Head(q)
      /\ \A i \in 1 .. Len(g) : longer[i] = g[i]
  BY <1>3, AppendProperties
<1>5. /\ rest \in Seq(S) /\ Len(rest) = Len(q) - 1
      /\ \A i \in 1 .. Len(q) - 1 : rest[i] = q[i + 1]
  BY HeadTailProperties
<1>l. Len(longer) \in Nat /\ Len(rest) \in Nat
  BY <1>1, <1>4, <1>5
<1> HIDE DEF both, longer, rest
<1>6. /\ left \in Seq(S) /\ Len(left) = Len(longer) + Len(rest)
      /\ \A i \in 1 .. Len(longer) : left[i] = longer[i]
      /\ \A i \in 1 .. Len(rest) : left[Len(longer) + i] = rest[i]
  <2>1. longer \in Seq(S) /\ rest \in Seq(S)
    BY <1>4, <1>5
  <2>2. QED
    BY <2>1, ConcatProperties
<1> HIDE DEF left
<1>7. Len(left) = Len(both) /\ Len(left) = Len(g) + Len(q)
  BY <1>1, <1>2, <1>4, <1>5, <1>6
<1>8. ASSUME NEW i \in 1 .. Len(left) PROVE left[i] = both[i]
  <2>1. CASE i \in 1 .. Len(g)
    BY <1>1, <1>2, <1>4, <1>6, <2>1
  <2>2. CASE i = Len(g) + 1
    BY <1>1, <1>2, <1>3, <1>4, <1>6, <2>2
  <2>3. CASE i - Len(g) - 1 \in 1 .. Len(q) - 1
    <3> DEFINE k == i - Len(g) - 1
    <3>1. k \in 1 .. Len(rest) /\ i = Len(longer) + k /\ i = Len(g) + (k + 1) /\ k + 1 \in 1 .. Len(q)
      BY <1>1, <1>4, <1>5, <2>3
    <3> HIDE DEF k
    <3>2. left[i] = rest[k] /\ rest[k] = q[k + 1]
      BY <1>5, <1>6, <3>1
    <3>3. both[i] = q[k + 1]
      BY <1>2, <3>1
    <3>4. QED
      BY <3>2, <3>3
  <2>4. QED
    BY <1>1, <1>7, <2>1, <2>2, <2>3
<1>9. left = both
  BY <1>2, <1>6, <1>7, <1>8, SeqEqual
<1>10. QED
  BY <1>4, <1>5, <1>9 DEF left, both, longer, rest

\* What a player was handed is a sequence of frames, and a write leaves it as it is.
LEMMA ReceivedType ==
  ASSUME TypeOK, NEW s \in Session
  PROVE  Received(s) \in Seq(Frame) /\ got[s] \in Seq(Frame) /\ queue[s] \in Seq(Frame)
<1>1. got[s] \in Seq(Frame) /\ queue[s] \in Seq(Frame)
  BY DEF TypeOK, PlayerTypeOK
<1>2. QED
  BY <1>1, ConcatProperties DEF Received

\* receiverFrame writes frames in the order of the queue: nothing is gained or lost.
LEMMA WriteMoves ==
  ASSUME RelayInvariant, ~crashed, NEW v \in Session, WriteFrame(v)
  PROVE  \A s \in Session : Received(s)' = Received(s)
<1>t. TypeOK
  BY DEF RelayInvariant
<1>1. /\ got \in [Session -> Seq(Frame)] /\ queue \in [Session -> Seq(Frame)]
      /\ got' = [got EXCEPT ![v] = Append(@, Head(queue[v]))]
      /\ queue' = [queue EXCEPT ![v] = Tail(@)]
  BY <1>t DEF WriteFrame, TypeOK, PlayerTypeOK
<1>2. queue[v] # << >>
  BY DEF RelayInvariant, WokenForAReason, WriteFrame
<1>3. got[v] \in Seq(Frame) /\ queue[v] \in Seq(Frame)
  BY <1>t, ReceivedType
<1>4. Append(got[v], Head(queue[v])) \o Tail(queue[v]) = got[v] \o queue[v]
  BY <1>2, <1>3, ConcatMove
<1>5. got'[v] = Append(got[v], Head(queue[v])) /\ queue'[v] = Tail(queue[v])
  BY <1>1
<1>6. \A s \in Session \ {v} : got'[s] = got[s] /\ queue'[s] = queue[s]
  BY <1>1
<1>7. QED
  BY <1>4, <1>5, <1>6 DEF Received

\* The Player's function adds a frame to what its player was handed.
LEMMA AppendHands ==
  ASSUME TypeOK, NEW t \in Thread, AppendFrame(t), NEW v \in Session, v = at[t], frame[t] \in Frame
  PROVE  /\ Received(v)' = Append(Received(v), frame[t])
         /\ \A s \in Session \ {v} : Received(s)' = Received(s)
<1>1. /\ got' = got /\ queue \in [Session -> Seq(Frame)]
      /\ queue' = [queue EXCEPT ![v] = Append(@, frame[t])]
  BY DEF AppendFrame, media, TypeOK, PlayerTypeOK
<1>2. got[v] \in Seq(Frame) /\ queue[v] \in Seq(Frame)
  BY ReceivedType
<1> DEFINE g == got[v]
           q == queue[v]
           f == frame[t]
<1>3. g \in Seq(Frame) /\ q \in Seq(Frame) /\ f \in Frame
  BY <1>2
<1> HIDE DEF g, q, f
<1>4. g \o Append(q, f) = Append(g \o q, f)
  BY <1>3, ConcatAppend
<1>5. queue'[v] = Append(queue[v], frame[t]) /\ \A s \in Session \ {v} : queue'[s] = queue[s]
  BY <1>1
<1>6. QED
  BY <1>1, <1>4, <1>5 DEF Received, g, q, f

-----------------------------------------------------------------------------
\* Functions are registered for good.
LEMMA RolesGrow ==
  ASSUME RelayInvariant, Next, NEW s \in Session
  PROVE  /\ \A r \in {"pusher", "player"} : Has(roles[s], r) => Has(roles[s], r)'
         /\ (Pushes(s) => Pushes(s)') /\ (Plays(s) => Plays(s)')
<1>t. ~crashed /\ roles \in [Session -> Seq({"pusher", "player"})] /\ \A v \in Session : roles[v] \in RoleList
  BY AliveStep DEF RelayInvariant, TypeOK, SessionTypeOK, FunctionLists
<1>n. \A t \in Thread : t[2] \in Session
  BY ThreadSession
<1> SUFFICES \A r \in {"pusher", "player"} : Has(roles[s], r) => Has(roles'[s], r)
  BY DEF Pushes, Plays, Has
<1> USE DEF sessions
<1>1. ASSUME NEW v \in Session, NEW r \in {"pusher", "player"}, ~Has(roles[v], r),
             roles' = [roles EXCEPT ![v] = Append(@, r)]
      PROVE  \A x \in {"pusher", "player"} : Has(roles[s], x) => Has(roles'[s], x)
  <2>1. \A x \in {"pusher", "player"} : Has(roles[v], x) => Has(Append(roles[v], r), x)
    BY <1>t, <1>1, ListAppend
  <2>2. CASE s = v
    <3>1. roles'[s] = Append(roles[v], r)
      BY <1>t, <1>1, <2>2
    <3>2. QED
      BY <2>1, <2>2, <3>1
  <2>3. CASE s # v
    <3>1. roles'[s] = roles[s]
      BY <1>t, <1>1, <2>3
    <3>2. QED
      BY <3>1
  <2>4. QED
    BY <2>2, <2>3
<1>2. ASSUME NEW v \in Session, Attach(v)
      PROVE  ~Has(roles[v], "player") /\ roles' = [roles EXCEPT ![v] = Append(@, "player")]
  BY <1>t, <1>2 DEF Attach, RelayInvariant, Viewing, Plays
<1>3. ASSUME NEW v \in Session, NEW c \in Channel, Announce(v, c)
      PROVE  \/ roles' = roles
             \/ ~Has(roles[v], "pusher") /\ roles' = [roles EXCEPT ![v] = Append(@, "pusher")]
  <2>1. CASE registry[c] # None
    <3>1. UNCHANGED <<roles, registry>>
      BY <1>3, <2>1 DEF Announce
    <3>2. QED
      BY <3>1
  <2>2. CASE registry[c] = None
    BY <1>3, <2>2 DEF Announce, Has
  <2>3. QED
    BY <2>1, <2>2
<1>4. CASE roles' = roles
  BY <1>4
<1>5. ASSUME NEW t \in Thread, Proceed(t) PROVE roles' = roles
  BY <1>5 DEF Proceed, Offer, Delivered, RelayEnds, RangeDone, SendFrame, ReceiverTop, BreakOut,
     WriteFrame, Stop, Mark, CloseExit, Unregister, HooksDone, Close
<1>6. ASSUME NEW t \in Thread, Acquire(t) PROVE roles' = roles \/ Attach(t[2])
  BY <1>6 DEF Acquire, AppendFrame, Enqueue, Broadcast, Detach, Take, LockOrWait, Woken
<1>7. ASSUME NEW v \in Session, Client(v)
      PROVE  roles' = roles \/ \E c \in Channel : Announce(v, c)
  BY <1>7 DEF Client, Record, Describe, Play, Teardown, ReadFails, ReadFrame
<1>8. QED
  BY <1>1, <1>2, <1>3, <1>4, <1>5, <1>6, <1>7, <1>n DEF Next

\* A Pusher is registered under some code only as long as it is its session's.
LEMMA RegisteredPushes ==
  ASSUME RelayInvariant, ~crashed, NEW c \in Channel, registry[c] # None
  PROVE  registry[c] \in Session /\ Pushes(registry[c])
<1>1. registry[c] \in Session
  BY DEF RelayInvariant, TypeOK, PusherTypeOK
<1>2. QED
  BY <1>1 DEF RelayInvariant, Registered

\* Who describes a stream has not announced one.
LEMMA NoPusherDescribes ==
  ASSUME RelayInvariant, ~crashed, NEW s \in Session, NEW c \in Channel, Describe(s, c)
  PROVE  ~Pushes(s) /\ ~Plays(s)
<1>1. /\ pc[Loop(s)] = "read" /\ code[s] \in {None, c} /\ registry[c] # s /\ upstream[s] = None
  BY DEF Describe, Asked
<1>2. ~Plays(s) /\ pc[Receiver(s)] = "none"
  BY <1>1 DEF RelayInvariant, Viewing
<1>3. ~exit[s]
  BY <1>1, <1>2 DEF RelayInvariant, ExitClosedByAStop, PastPusher
<1>4. Pushes(s) => code[s] \in Channel /\ registry[code[s]] = s
  BY <1>3 DEF RelayInvariant, Registered
<1>5. ~Pushes(s)
  BY <1>1, <1>4, NoneAssumption
<1>6. QED
  BY <1>2, <1>5

\* A step keeps the players of a map its own, and Pushers those who are played.
LEMMA JoinedStep ==
  ASSUME RelayInvariant, Joined, Next, ~crashed'
  PROVE  Joined'
<1>t. /\ ~crashed /\ pc \in [Thread -> Points] /\ players \in [Session -> SUBSET Session]
      /\ upstream \in [Session -> Session \cup {None}]
  BY AliveStep DEF RelayInvariant, TypeOK, GoroutineTypeOK, PusherTypeOK, PlayerTypeOK
<1>g. \A s \in Session : Pushes(s) => Pushes(s)'
  BY RolesGrow
<1>m. \A s \in Session : Loop(s) \in Thread /\ Relay(s) \in Thread /\ Receiver(s) \in Thread
  BY ThreadNames
<1>n. \A t \in Thread : t[1] \in {"loop", "relay", "receiver"} /\ t[2] \in Session
  BY ThreadSession
<1>d. \A s, r \in Session : Loop(s) # Relay(r) /\ Receiver(s) # Relay(r)
  BY Distinct
<1>s. ASSUME UNCHANGED <<players, upstream>>,
             \A s \in Session : pc'[Relay(s)] # "none" => pc[Relay(s)] # "none"
      PROVE  Joined'
  BY <1>t, <1>g, <1>s DEF Joined
<1> USE DEF calls, sessions, pushers, maps, playing, media
<1>1. ASSUME NEW t \in Thread, NEW p,
             pc[t] # "none", pc' = [pc EXCEPT ![t] = p], UNCHANGED <<players, upstream>>
      PROVE  Joined'
  BY <1>t, <1>m, <1>s, <1>1
<1>2. ASSUME NEW t \in Thread, Offer(t) \/ Delivered(t) \/ Stop(t) \/ Unregister(t) \/ HooksDone(t)
      PROVE  Joined'
  <2>1. pc[t] # "none" /\ UNCHANGED <<players, upstream>>
    BY <1>2 DEF Offer, Delivered, Stop, Unregister, HooksDone
  <2>2. \/ pc' = pc
        \/ \E p : pc' = [pc EXCEPT ![t] = p]
    BY <1>2 DEF Offer, Delivered, Stop, Unregister, HooksDone, Goto
  <2>3. QED
    BY <1>s, <1>1, <2>1, <2>2
<1>3. ASSUME NEW t \in Thread, Mark(t) \/ CloseExit(t) \/ Close(t)
      PROVE  Joined'
  <2>1. pc[t] # "none" /\ UNCHANGED <<players, upstream>>
    BY <1>3 DEF Mark, CloseExit, Close
  <2>2. \E p : pc' = [pc EXCEPT ![t] = p]
    BY <1>3 DEF Mark, CloseExit, Close, Goto, Panic
  <2>3. QED
    BY <1>1, <2>1, <2>2
<1>4. ASSUME NEW t \in Thread, AppendFrame(t) \/ Broadcast(t) \/ Enqueue(t) PROVE Joined'
  <2>1. UNCHANGED <<players, upstream>>
    BY <1>4 DEF AppendFrame, Broadcast, Enqueue
  <2>2. \A s \in Session : pc'[Relay(s)] # "none" => pc[Relay(s)] # "none"
    BY <1>4, <1>t, <1>m, <1>n, <1>d DEF AppendFrame, Broadcast, Enqueue, Wake
  <2>3. QED
    BY <1>s, <2>1, <2>2
<1>5. ASSUME NEW t \in Thread, Detach(t) PROVE Joined'
  <2>1. /\ upstream' = upstream /\ pc' = [pc EXCEPT ![t] = "hooks"] /\ pc[t] # "none"
        /\ players' = [players EXCEPT ![upstream[t[2]]] = @ \ {t[2]}]
    BY <1>5 DEF Detach, Goto
  <2>2. \A q \in Session : players'[q] \subseteq players[q]
    BY <1>t, <2>1
  <2>3. QED
    BY <1>t, <1>g, <1>m, <2>1, <2>2 DEF Joined
<1>6. ASSUME NEW q \in Session, RelayEnds(q) \/ RangeDone(q) \/ Take(q) \/ \E p \in Session : SendFrame(q, p)
      PROVE  Joined'
  <2>1. pc[Relay(q)] # "none" /\ UNCHANGED <<players, upstream>>
    BY <1>6 DEF RelayEnds, RangeDone, Take, SendFrame
  <2>2. \E p : pc' = [pc EXCEPT ![Relay(q)] = p]
    BY <1>6 DEF RelayEnds, RangeDone, Take, SendFrame, Goto
  <2>3. QED
    BY <1>m, <1>1, <2>1, <2>2
<1>7. ASSUME NEW s \in Session, ReceiverTop(s) \/ BreakOut(s) \/ WriteFrame(s) \/ LockOrWait(s) \/ Woken(s)
      PROVE  Joined'
  <2>1. pc[Receiver(s)] # "none" /\ UNCHANGED <<players, upstream>>
    BY <1>7 DEF ReceiverTop, BreakOut, WriteFrame, LockOrWait, Woken
  <2>2. \E p : pc' = [pc EXCEPT ![Receiver(s)] = p]
    BY <1>7 DEF ReceiverTop, BreakOut, WriteFrame, LockOrWait, Woken, Goto
  <2>3. QED
    BY <1>m, <1>1, <2>1, <2>2
<1>8. ASSUME NEW s \in Session, Teardown(s) \/ ReadFails(s) \/ ReadFrame(s)
      PROVE  Joined'
  <2>1. pc[Loop(s)] # "none" /\ UNCHANGED <<players, upstream>>
    BY <1>8 DEF Teardown, ReadFails, ReadFrame
  <2>2. \E p : pc' = [pc EXCEPT ![Loop(s)] = p]
    BY <1>8 DEF Teardown, ReadFails, ReadFrame, Goto
  <2>3. QED
    BY <1>m, <1>1, <2>1, <2>2
<1>9. ASSUME NEW s \in Session, Attach(s) PROVE Joined'
  <2>1. /\ upstream' = upstream /\ pc[Loop(s)] = "describe"
        /\ \E p : pc' = [pc EXCEPT ![Loop(s)] = p]
        /\ players' = [players EXCEPT ![upstream[s]] = @ \cup {s}]
    BY <1>9 DEF Attach, Goto
  <2>2. \A v, q \in Session : v \in players'[q] => v \in players[q] \/ q = upstream[v]
    BY <1>t, <2>1
  <2>3. QED
    BY <1>t, <1>d, <1>g, <1>m, <2>1, <2>2 DEF Joined
<1>10. ASSUME NEW s \in Session, NEW c \in Channel, Announce(s, c) PROVE Joined'
  <2>1. pc[Loop(s)] # "none" /\ UNCHANGED <<players, upstream>>
    BY <1>10 DEF Announce, Asked
  <2>2. \E p : pc' = [pc EXCEPT ![Loop(s)] = p]
    BY <1>10, RequestMoves
  <2>3. QED
    BY <1>m, <1>1, <2>1, <2>2
<1>11. ASSUME NEW s \in Session, NEW c \in Channel, Record(s, c) PROVE Joined'
  <2>1. UNCHANGED <<players, upstream>> /\ pc[Loop(s)] # "none"
    BY <1>11 DEF Record, Asked
  <2>2. CASE pc' = [pc EXCEPT ![Loop(s)] = "stop"]
    BY <1>m, <1>1, <2>1, <2>2
  <2>3. ASSUME NEW p, NEW r, registry[c] # None,
               pc' = [pc EXCEPT ![Loop(s)] = p, ![Relay(registry[c])] = r]
        PROVE  Joined'
    <3>1. registry[c] \in Session /\ Pushes(registry[c])
      BY <1>t, <2>3, RegisteredPushes
    <3>2. \A v \in Session : pc'[Relay(v)] # "none" => pc[Relay(v)] # "none" \/ v = registry[c]
      <4>1. \A v \in Session : Relay(v) = Relay(registry[c]) => v = registry[c]
        BY <3>1, ThreadNames
      <4>2. QED
        BY <1>d, <1>m, <1>t, <2>3, <3>1, <4>1
    <3>3. QED
      BY <1>t, <1>g, <2>1, <3>1, <3>2 DEF Joined
  <2>4. QED
    BY <1>11, <2>2, <2>3, RequestMoves
<1>12. ASSUME NEW s \in Session, NEW c \in Channel, Describe(s, c) PROVE Joined'
  <2>1. players' = players /\ pc[Loop(s)] # "none" /\ upstream[s] = None
    BY <1>12 DEF Describe, Asked
  <2>2. \E p : pc' = [pc EXCEPT ![Loop(s)] = p]
    BY <1>12, RequestMoves
  <2>3. CASE upstream' = upstream
    BY <1>m, <1>1, <2>1, <2>2, <2>3
  <2>4. CASE registry[c] # None /\ upstream' = [upstream EXCEPT ![s] = registry[c]]
    <3>1. registry[c] \in Session /\ Pushes(registry[c])
      BY <1>t, <2>4, RegisteredPushes
    <3>2. \A q \in Session : s \notin players[q]
      BY <2>1, NoneAssumption DEF Joined
    <3>3. QED
      BY <1>t, <1>d, <1>g, <1>m, <2>1, <2>2, <2>4, <3>1, <3>2 DEF Joined
  <2>5. QED
    BY <1>12, <2>3, <2>4, RequestMoves
<1>13. ASSUME NEW s \in Session, NEW c \in Channel, Play(s, c) PROVE Joined'
  <2>1. UNCHANGED <<players, upstream>> /\ pc[Loop(s)] # "none"
    BY <1>13 DEF Play, Asked
  <2>2. \A v \in Session : pc'[Relay(v)] # "none" => pc[Relay(v)] # "none"
    BY <1>13, <1>d, <1>m, <1>t, RequestMoves
  <2>3. QED
    BY <1>s, <2>1, <2>2
<1>14. QED
  BY <1>2, <1>3, <1>4, <1>5, <1>6, <1>7, <1>8, <1>9, <1>10, <1>11, <1>12, <1>13, <1>n
  DEF Next, Proceed, Acquire, Client

\* A step makes nobody a player of itself, and takes nothing out of a closed set.
LEMMA UpstreamStep ==
  ASSUME RelayInvariant, Joined, NoCycle, Next, ~crashed'
  PROVE  NoCycle' /\ \A set \in SUBSET Session : Closed(set)' => Closed(set)
<1>t. ~crashed /\ upstream \in [Session -> Session \cup {None}]
  BY AliveStep DEF RelayInvariant, TypeOK, PlayerTypeOK
<1>1. CASE upstream' = upstream
  BY <1>1 DEF NoCycle, Closed
<1>2. ASSUME NEW s \in Session, NEW c \in Channel, Describe(s, c), upstream' # upstream
      PROVE  NoCycle' /\ \A set \in SUBSET Session : Closed(set)' => Closed(set)
  <2>1. /\ upstream[s] = None /\ registry[c] # s /\ registry[c] # None
        /\ upstream' = [upstream EXCEPT ![s] = registry[c]]
    BY <1>2 DEF Describe
  <2>2. registry[c] \in Session
    BY <1>t, <2>1, RegisteredPushes
  <2>3. ~Pushes(s)
    BY <1>t, <1>2, NoPusherDescribes
  <2>4. \A v \in Session : upstream[v] # s
    BY <2>3, NoneAssumption DEF Joined
  <2>5. /\ upstream'[s] = registry[c]
        /\ \A v \in Session \ {s} : upstream'[v] = upstream[v] /\ upstream'[v] # s
    BY <1>t, <2>1, <2>4
  <2>6. \A set \in SUBSET Session : Closed(set)' => Closed(set)
    BY <2>1, <2>5 DEF Closed
  <2>7. ASSUME NEW v \in Session, upstream'[v] # None
        PROVE  \E set \in SUBSET Session : Closed(set)' /\ upstream'[v] \in set /\ v \notin set
    <3>1. CASE v = s
      <4> DEFINE others == Session \ {s}
      <4>1. Closed(others)'
        BY <1>t, <2>5 DEF Closed
      <4>2. others \in SUBSET Session /\ upstream'[v] \in others /\ v \notin others
        BY <2>1, <2>2, <2>5, <3>1
      <4>3. QED
        BY <4>1, <4>2
    <3>2. CASE v # s
      <4>1. upstream'[v] = upstream[v] /\ upstream[v] # s
        BY <2>5, <3>2
      <4>2. PICK set \in SUBSET Session : Closed(set) /\ upstream[v] \in set /\ v \notin set
        BY <2>7, <4>1 DEF NoCycle
      <4> DEFINE rest == set \ {s}
      <4>3. Closed(rest)'
        BY <2>5, <4>2 DEF Closed
      <4>4. rest \in SUBSET Session /\ upstream'[v] \in rest /\ v \notin rest
        BY <4>1, <4>2
      <4>5. QED
        BY <4>3, <4>4
    <3>3. QED
      BY <3>1, <3>2
  <2>8. QED
    BY <2>6, <2>7 DEF NoCycle
<1> USE DEF playing
<1>3. ASSUME NEW t \in Thread, Proceed(t) PROVE upstream' = upstream
  BY <1>3 DEF Proceed, Offer, Delivered, RelayEnds, RangeDone, SendFrame, ReceiverTop, BreakOut,
     WriteFrame, Stop, Mark, CloseExit, Unregister, HooksDone, Close
<1>4. ASSUME NEW t \in Thread, Acquire(t) PROVE upstream' = upstream
  BY <1>4 DEF Acquire, AppendFrame, Enqueue, Broadcast, Detach, Attach, Take, LockOrWait, Woken
<1>5. ASSUME NEW s \in Session, Client(s)
      PROVE  upstream' = upstream \/ \E c \in Channel : Describe(s, c)
  BY <1>5 DEF Client, Announce, Record, Play, Teardown, ReadFails, ReadFrame
<1>6. QED
  BY <1>1, <1>2, <1>3, <1>4, <1>5 DEF Next

-----------------------------------------------------------------------------
\* A goroutine has a frame in hand.
Moving(t) == pc[t] \in {"range", "deliver", "append"}

\* No frame moves, no Pusher begins to serve a player, and none loses one in a range.
Quiet ==
  /\ UNCHANGED <<channel, frame, at, todo, readLock, sent>>
  /\ \A s \in Session : Received(s)' = Received(s)
  /\ \A q \in Session : players'[q] \subseteq players[q] /\ (readLock[q] => players'[q] = players[q])
  /\ \A s \in Session : stoped[s] => stoped'[s]
  /\ \A t \in Thread : Moving(t) \/ Moving(t)' => pc'[t] = pc[t] /\ todoFuncs'[t] = todoFuncs[t]

\* The steps that serve frames, and the one that adds a player.
Serves(t) ==
  \/ Offer(t) \/ AppendFrame(t) \/ Enqueue(t) \/ Delivered(t)
  \/ t[1] = "relay" /\ (Take(t[2]) \/ RangeDone(t[2]) \/ \E p \in Session : SendFrame(t[2], p))
  \/ t[1] = "loop" /\ (ReadFrame(t[2]) \/ Attach(t[2]))

\* All other steps are quiet.
LEMMA QuietSteps ==
  ASSUME RelayInvariant, Next, ~crashed', \A t \in Thread : ~Serves(t)
  PROVE  Quiet
<1>t. /\ ~crashed /\ pc \in [Thread -> Points] /\ players \in [Session -> SUBSET Session]
      /\ stoped \in [Session -> BOOLEAN]
      /\ todoFuncs \in [Thread -> Seq({"pusher", "player"})]
  BY AliveStep DEF RelayInvariant, TypeOK, GoroutineTypeOK, SessionTypeOK, PusherTypeOK
<1>m. \A s \in Session : Loop(s) \in Thread /\ Relay(s) \in Thread /\ Receiver(s) \in Thread
  BY ThreadNames
<1>n. \A t \in Thread : t[1] \in {"loop", "relay", "receiver"} /\ t[2] \in Session
  BY ThreadSession
<1> DEFINE Same == UNCHANGED <<channel, frame, at, todo, readLock, sent>>
           SameMap == players' = players
           SameStops == stoped' = stoped
           Handed == UNCHANGED <<got, queue>>
           Out == {"range", "deliver", "append"}
<1>h. Handed => \A s \in Session : Received(s)' = Received(s)
  BY DEF Received
<1>p. ASSUME NEW t \in Thread, NEW p, pc[t] \notin Out, p \notin Out, pc' = [pc EXCEPT ![t] = p],
             \A u \in Thread \ {t} : todoFuncs'[u] = todoFuncs[u]
      PROVE  \A u \in Thread : Moving(u) \/ Moving(u)' => pc'[u] = pc[u] /\ todoFuncs'[u] = todoFuncs[u]
  BY <1>t, <1>p DEF Moving
<1>q. ASSUME Same, SameMap, SameStops, Handed,
             \A u \in Thread : Moving(u) \/ Moving(u)' => pc'[u] = pc[u] /\ todoFuncs'[u] = todoFuncs[u]
      PROVE  Quiet
  BY <1>h, <1>q DEF Quiet
<1>o. ASSUME NEW t \in Thread, NEW p, pc[t] \notin Out, p \notin Out, pc' = [pc EXCEPT ![t] = p],
             todoFuncs' = todoFuncs, Same, SameMap, SameStops, Handed
      PROVE  Quiet
  BY <1>o, <1>p, <1>q
<1>c. ASSUME NEW t \in Thread, Called(t)
      PROVE  \A u \in Thread \ {t} : todoFuncs'[u] = todoFuncs[u]
  BY <1>t, <1>c DEF Called
<1> USE DEF calls, sessions, pushers, maps, playing, media
<1>1. ASSUME NEW t \in Thread, Stop(t) \/ HooksDone(t) PROVE Quiet
  <2>1. pc[t] \notin Out /\ todoFuncs' = todoFuncs /\ Same /\ SameMap /\ SameStops /\ Handed
    BY <1>1 DEF Stop, HooksDone
  <2>2. \E p : p \notin Out /\ pc' = [pc EXCEPT ![t] = p]
    BY <1>1 DEF Stop, HooksDone, Goto
  <2>3. QED
    BY <1>o, <2>1, <2>2
<1>2. ASSUME NEW t \in Thread, CloseExit(t) \/ Close(t) PROVE Quiet
  <2>1. pc[t] \notin Out /\ todoFuncs' = todoFuncs /\ Same /\ SameMap /\ SameStops /\ Handed
    BY <1>2 DEF CloseExit, Close
  <2>2. \E p : p \notin Out /\ pc' = [pc EXCEPT ![t] = p]
    BY <1>2 DEF CloseExit, Close, Goto, Panic
  <2>3. QED
    BY <1>o, <2>1, <2>2
<1>3. ASSUME NEW t \in Thread, Mark(t) PROVE Quiet
  <2>1. pc[t] \notin Out /\ Same /\ SameMap /\ Handed /\ stoped' = [stoped EXCEPT ![t[2]] = TRUE]
    BY <1>3 DEF Mark
  <2>2. \E p : p \notin Out /\ pc' = [pc EXCEPT ![t] = p]
    BY <1>3 DEF Mark, Goto, Panic
  <2>3. \A u \in Thread \ {t} : todoFuncs'[u] = todoFuncs[u]
    BY <1>3, <1>t DEF Mark
  <2>4. \A s \in Session : stoped[s] => stoped'[s]
    BY <1>t, <1>n, <2>1
  <2>5. \A u \in Thread : Moving(u) \/ Moving(u)' => pc'[u] = pc[u] /\ todoFuncs'[u] = todoFuncs[u]
    BY <1>p, <2>1, <2>2, <2>3
  <2>6. QED
    BY <1>h, <2>1, <2>4, <2>5 DEF Quiet
<1>4. ASSUME NEW t \in Thread, Unregister(t) PROVE Quiet
  <2>1. /\ pc[t] = "unregister" /\ Same /\ SameMap /\ SameStops /\ Handed
        /\ pc' = [pc EXCEPT ![t] = "hooks"] /\ Called(t)
    BY <1>4 DEF Unregister, Goto
  <2>2. \A u \in Thread : Moving(u) \/ Moving(u)' => pc'[u] = pc[u] /\ todoFuncs'[u] = todoFuncs[u]
    BY <1>c, <1>p, <2>1
  <2>3. QED
    BY <1>q, <2>1, <2>2
<1>5. ASSUME NEW t \in Thread, Detach(t) PROVE Quiet
  <2>1. /\ pc[t] = "detach" /\ Same /\ SameStops /\ Handed
        /\ pc' = [pc EXCEPT ![t] = "hooks"] /\ Called(t)
        /\ ~readLock[upstream[t[2]]]
        /\ players' = [players EXCEPT ![upstream[t[2]]] = @ \ {t[2]}]
    BY <1>5 DEF Detach, Goto
  <2>2. \A u \in Thread : Moving(u) \/ Moving(u)' => pc'[u] = pc[u] /\ todoFuncs'[u] = todoFuncs[u]
    BY <1>c, <1>p, <2>1
  <2>3. \A q \in Session : players'[q] \subseteq players[q] /\ (readLock[q] => players'[q] = players[q])
    BY <1>t, <2>1
  <2>4. QED
    BY <1>h, <2>1, <2>2, <2>3 DEF Quiet
<1>6. ASSUME NEW t \in Thread, Broadcast(t) PROVE Quiet
  <2>1. /\ pc[t] = "hooks" /\ Same /\ SameMap /\ SameStops /\ Handed /\ todoFuncs' = todoFuncs
        /\ pc' = Wake(t[2], [pc EXCEPT ![t] = "detach"])
    BY <1>6 DEF Broadcast
  <2>2. \A u \in Thread : Moving(u) \/ Moving(u)' => pc'[u] = pc[u]
    BY <1>t, <1>m, <1>n, <2>1 DEF Wake, Moving
  <2>3. QED
    BY <1>q, <2>1, <2>2
<1>7. ASSUME NEW q \in Session, RelayEnds(q) PROVE Quiet
  BY <1>7, <1>m, <1>o DEF RelayEnds, Goto
<1>8. ASSUME NEW s \in Session, ReceiverTop(s) \/ BreakOut(s) \/ LockOrWait(s) \/ Woken(s)
      PROVE  Quiet
  <2>1. pc[Receiver(s)] \notin Out /\ todoFuncs' = todoFuncs /\ Same /\ SameMap /\ SameStops /\ Handed
    BY <1>8 DEF ReceiverTop, BreakOut, LockOrWait, Woken
  <2>2. \E p : p \notin Out /\ pc' = [pc EXCEPT ![Receiver(s)] = p]
    BY <1>8 DEF ReceiverTop, BreakOut, LockOrWait, Woken, Goto
  <2>3. QED
    BY <1>m, <1>o, <2>1, <2>2
<1>9. ASSUME NEW s \in Session, WriteFrame(s) PROVE Quiet
  <2>1. /\ pc[Receiver(s)] = "check" /\ todoFuncs' = todoFuncs /\ Same /\ SameMap /\ SameStops
        /\ pc' = [pc EXCEPT ![Receiver(s)] = "top"]
    BY <1>9 DEF WriteFrame, Goto
  <2>2. \A v \in Session : Received(v)' = Received(v)
    BY <1>9, <1>t, WriteMoves
  <2>3. \A u \in Thread : Moving(u) \/ Moving(u)' => pc'[u] = pc[u] /\ todoFuncs'[u] = todoFuncs[u]
    BY <1>m, <1>p, <2>1
  <2>4. QED
    BY <2>1, <2>2, <2>3 DEF Quiet
<1>10. ASSUME NEW s \in Session, Teardown(s) \/ ReadFails(s) PROVE Quiet
  <2>1. pc[Loop(s)] = "read" /\ todoFuncs' = todoFuncs /\ Same /\ SameMap /\ SameStops /\ Handed
    BY <1>10 DEF Teardown, ReadFails
  <2>2. pc' = [pc EXCEPT ![Loop(s)] = "stop"]
    BY <1>10 DEF Teardown, ReadFails, Goto
  <2>3. QED
    BY <1>m, <1>o, <2>1, <2>2
<1>11. ASSUME NEW s \in Session, NEW c \in Channel, Announce(s, c) \/ Describe(s, c)
      PROVE  Quiet
  <2>1. pc[Loop(s)] = "read" /\ todoFuncs' = todoFuncs /\ Same /\ SameMap /\ SameStops /\ Handed
    BY <1>11 DEF Announce, Describe, Asked
  <2>2. \E p : p \notin Out /\ pc' = [pc EXCEPT ![Loop(s)] = p]
    BY <1>11, RequestMoves
  <2>3. QED
    BY <1>m, <1>o, <2>1, <2>2
<1>12. ASSUME NEW s \in Session, NEW c \in Channel, Record(s, c) PROVE Quiet
  <2>1. /\ pc[Loop(s)] = "read" /\ todoFuncs' = todoFuncs
        /\ Same /\ SameMap /\ SameStops /\ Handed
        /\ registry[c] # None => pc[Relay(registry[c])] = "none"
    BY <1>12 DEF Record, Asked
  <2>2. CASE pc' = [pc EXCEPT ![Loop(s)] = "stop"]
    BY <1>m, <1>o, <2>1, <2>2
  <2>3. ASSUME NEW p \in {"read", "gone"}, NEW r \in {"select", "gone"}, registry[c] # None,
               pc' = [pc EXCEPT ![Loop(s)] = p, ![Relay(registry[c])] = r]
        PROVE  Quiet
    <3>1. registry[c] \in Session /\ pc[Relay(registry[c])] = "none"
      BY <1>t, <2>1, <2>3, RegisteredPushes
    <3>2. \A u \in Thread : Moving(u) \/ Moving(u)' => pc'[u] = pc[u]
      BY <1>t, <1>m, <2>1, <2>3, <3>1 DEF Moving
    <3>3. QED
      BY <1>q, <2>1, <3>2
  <2>4. QED
    BY <1>12, <2>2, <2>3, RequestMoves
<1>13. ASSUME NEW s \in Session, NEW c \in Channel, Play(s, c) PROVE Quiet
  <2>1. pc[Loop(s)] = "read" /\ todoFuncs' = todoFuncs /\ Same /\ SameMap /\ SameStops /\ Handed
    BY <1>13 DEF Play, Asked
  <2>2. CASE \E p \in {"gone", "stop"} : pc' = [pc EXCEPT ![Loop(s)] = p]
    BY <1>m, <1>o, <2>1, <2>2
  <2>3. ASSUME NEW p \in {"read", "gone"}, pc[Receiver(s)] = "none",
               pc' = [pc EXCEPT ![Loop(s)] = p, ![Receiver(s)] = "top"]
        PROVE  Quiet
    <3>1. \A u \in Thread : Moving(u) \/ Moving(u)' => pc'[u] = pc[u]
      BY <1>t, <1>m, <2>1, <2>3 DEF Moving
    <3>2. QED
      BY <1>q, <2>1, <3>1
  <2>4. QED
    BY <1>13, <2>2, <2>3, RequestMoves
<1>14. ASSUME NEW t \in Thread, Proceed(t) PROVE Quiet
  BY <1>1, <1>2, <1>3, <1>4, <1>7, <1>8, <1>9, <1>14, <1>n DEF Proceed, Serves
<1>15. ASSUME NEW t \in Thread, Acquire(t) PROVE Quiet
  BY <1>5, <1>6, <1>8, <1>15, <1>n DEF Acquire, Serves
<1>16. ASSUME NEW s \in Session, Client(s) PROVE Quiet
  <2>1. ~ReadFrame(s)
    BY ThreadNames DEF Serves
  <2>2. QED
    BY <1>10, <1>11, <1>12, <1>13, <1>16, <2>1 DEF Client
<1>17. QED
  BY <1>14, <1>15, <1>16 DEF Next

\* Calling a function takes it off the goroutine's list, and off no other.
LEMMA CalledOne ==
  ASSUME RelayInvariant, ~crashed, NEW t \in Thread, todoFuncs[t] # << >>, Called(t)
  PROVE  /\ todoFuncs'[t] = Tail(todoFuncs[t])
         /\ \A r : Has(todoFuncs'[t], r) <=> Has(todoFuncs[t], r) /\ r # Head(todoFuncs[t])
         /\ Has(todoFuncs[t], Head(todoFuncs[t]))
         /\ \A u \in Thread \ {t} : todoFuncs'[u] = todoFuncs[u]
<1>1. todoFuncs \in [Thread -> Seq({"pusher", "player"})] /\ todoFuncs[t] \in RoleList
  BY DEF RelayInvariant, TypeOK, GoroutineTypeOK, FunctionLists
<1>2. todoFuncs'[t] = Tail(todoFuncs[t]) /\ \A u \in Thread \ {t} : todoFuncs'[u] = todoFuncs[u]
  BY <1>1 DEF Called
<1>3. QED
  BY <1>1, <1>2, ListTail

\* Only loops and relays hand frames out.
LEMMA Handers ==
  ASSUME RelayInvariant, ~crashed, NEW t \in Thread, Handing(t)
  PROVE  /\ t[2] \in Session /\ (t = Loop(t[2]) \/ t = Relay(t[2]))
         /\ at[t] \in Session /\ frame[t] \in Frame
<1>1. t[1] # "receiver"
  BY DEF RelayInvariant, Goroutines, Handing, Stops
<1>2. t[2] \in Session /\ (t = Loop(t[2]) \/ t = Relay(t[2]))
  BY <1>1 DEF Thread, Loop, Relay
<1>3. at[t] \in Session /\ frame[t] \in Frame
  BY DEF RelayInvariant, TypeOK, GoroutineTypeOK, InCall, Handing
<1>4. QED
  BY <1>2, <1>3

\* A step keeps the ranges under their read locks.
LEMMA InRangeStep ==
  ASSUME RelayInvariant, InRange, Next, ~crashed'
  PROVE  InRange'
<1>t. /\ ~crashed /\ pc \in [Thread -> Points] /\ players \in [Session -> SUBSET Session]
      /\ at \in [Thread -> Session] /\ todo \in [Session -> SUBSET Session]
      /\ readLock \in [Session -> BOOLEAN]
  BY AliveStep DEF RelayInvariant, TypeOK, GoroutineTypeOK, PusherTypeOK
<1>m. \A s \in Session : Loop(s) \in Thread /\ Relay(s) \in Thread
  BY ThreadNames
<1>d. \A s, r \in Session : Loop(s) # Relay(r) /\ (Relay(s) = Relay(r) => s = r)
  BY ThreadNames, Distinct
<1> USE DEF calls, sessions, pushers, maps, playing, media
<1>s. ASSUME UNCHANGED <<at, players, todo, readLock>>,
             \A q \in Session : /\ Ranging(q)' => Ranging(q)
                                /\ Handing(Relay(q))' => Handing(Relay(q))
      PROVE  InRange'
  BY <1>s DEF InRange
<1>1. CASE Quiet
  <2>1. \A q \in Session : Ranging(q)' => Ranging(q) /\ pc'[Relay(q)] = pc[Relay(q)]
    BY <1>1, <1>m DEF Quiet, Moving, Ranging
  <2>2. \A q \in Session : readLock[q] => players'[q] = players[q]
    BY <1>1 DEF Quiet
  <2>3. UNCHANGED <<at, todo, readLock>>
    BY <1>1 DEF Quiet
  <2>4. QED
    BY <2>1, <2>2, <2>3 DEF InRange, Handing
<1>2. ASSUME NEW t \in Thread, Offer(t) \/ Enqueue(t) \/ Delivered(t) PROVE InRange'
  <2>1. pc[t] = "deliver" /\ UNCHANGED <<at, players, todo, readLock>>
    BY <1>2 DEF Offer, Enqueue, Delivered
  <2>2. pc' = pc \/ \E p : p # "deliver" /\ pc' = [pc EXCEPT ![t] = p]
                           /\ (p = "append" \/ p \notin {"append", "deliver"})
    BY <1>2 DEF Offer, Enqueue, Delivered, Goto, Again
  <2>3. \A u \in Thread : pc'[u] \in {"deliver", "append"} => pc[u] \in {"deliver", "append"}
    BY <1>t, <2>1, <2>2
  <2>4. \A u \in Thread : pc'[u] = "range" => pc[u] \in {"range", "deliver", "append"}
    BY <1>t, <2>1, <2>2
  <2>5. QED
    BY <1>m, <1>s, <2>1, <2>3, <2>4 DEF Handing, Ranging
<1>3. ASSUME NEW t \in Thread, AppendFrame(t) PROVE InRange'
  <2>1. /\ pc[t] = "append" /\ UNCHANGED <<at, players, todo, readLock>>
        /\ pc' = Wake(at[t], [pc EXCEPT ![t] = "deliver"])
    BY <1>3 DEF AppendFrame
  <2>2. \A u \in Thread : pc'[u] \in {"range", "deliver", "append"} =>
          \/ pc'[u] = pc[u]
          \/ /\ pc'[u] = "deliver"
             /\ pc[u] = "append"
    BY <1>t, <1>m, <2>1, ThreadNames DEF Wake
  <2>3. QED
    BY <1>m, <1>s, <2>1, <2>2 DEF Handing, Ranging
<1>4. ASSUME NEW q \in Session, Take(q) PROVE InRange'
  <2>1. /\ UNCHANGED <<at, players>> /\ pc' = [pc EXCEPT ![Relay(q)] = "range"]
        /\ readLock' = [readLock EXCEPT ![q] = TRUE] /\ todo' = [todo EXCEPT ![q] = players[q]]
    BY <1>4 DEF Take, Goto
  <2>2. QED
    BY <1>t, <1>m, <1>d, <2>1 DEF InRange, Ranging, Handing
<1>5. ASSUME NEW q \in Session, RangeDone(q) PROVE InRange'
  <2>1. /\ UNCHANGED <<at, players>> /\ todo' = todo
        /\ \E p \in {"gone", "select"} : pc' = [pc EXCEPT ![Relay(q)] = p]
        /\ readLock' = [readLock EXCEPT ![q] = FALSE]
    BY <1>5 DEF RangeDone, Goto, RelayAgain
  <2>2. QED
    BY <1>t, <1>m, <1>d, <2>1 DEF InRange, Ranging, Handing
<1>6. ASSUME NEW q \in Session, NEW p \in Session, SendFrame(q, p) PROVE InRange'
  <2>1. /\ UNCHANGED <<players, readLock>> /\ pc' = [pc EXCEPT ![Relay(q)] = "deliver"]
        /\ pc[Relay(q)] = "range" /\ p \in todo[q]
        /\ todo' = [todo EXCEPT ![q] = @ \ {p}] /\ at' = [at EXCEPT ![Relay(q)] = p]
    BY <1>6 DEF SendFrame, Goto
  <2>2. QED
    BY <1>t, <1>m, <1>d, <2>1 DEF InRange, Ranging, Handing
<1>7. ASSUME NEW s \in Session, ReadFrame(s) PROVE InRange'
  <2>1. /\ UNCHANGED <<players, todo, readLock>> /\ pc' = [pc EXCEPT ![Loop(s)] = "deliver"]
        /\ at' = [at EXCEPT ![Loop(s)] = s]
    BY <1>7 DEF ReadFrame, Goto
  <2>2. \A q \in Session : pc'[Relay(q)] = pc[Relay(q)] /\ at'[Relay(q)] = at[Relay(q)]
    BY <1>t, <1>m, <1>d, <2>1
  <2>3. QED
    BY <2>1, <2>2 DEF InRange, Ranging, Handing
<1>8. ASSUME NEW s \in Session, Attach(s) PROVE InRange'
  <2>1. /\ UNCHANGED <<at, todo, readLock>> /\ \E p : pc' = [pc EXCEPT ![Loop(s)] = p]
        /\ players' = [players EXCEPT ![upstream[s]] = @ \cup {s}]
    BY <1>8 DEF Attach, Goto
  <2>2. \A q \in Session : pc'[Relay(q)] = pc[Relay(q)] /\ players[q] \subseteq players'[q]
    BY <1>t, <1>m, <1>d, <2>1
  <2>3. QED
    BY <2>1, <2>2 DEF InRange, Ranging, Handing
<1>9. QED
  BY <1>1, <1>2, <1>3, <1>4, <1>5, <1>6, <1>7, <1>8, QuietSteps, ThreadSession DEF Serves

\* A step keeps the goroutines' lists to what is registered.
LEMMA InHandStep ==
  ASSUME RelayInvariant, InHand, Next, ~crashed'
  PROVE  InHand'
<1>t. /\ ~crashed /\ pc \in [Thread -> Points] /\ at \in [Thread -> Session]
      /\ sent \in [Session -> 0 .. MaxFrames] /\ frame \in [Thread -> Frame \cup {None}]
      /\ todoFuncs \in [Thread -> Seq({"pusher", "player"})]
  BY AliveStep DEF RelayInvariant, TypeOK, GoroutineTypeOK, SessionTypeOK
<1>g. \A s \in Session : \A r \in {"pusher", "player"} : Has(roles[s], r) => Has(roles'[s], r)
  BY RolesGrow DEF Has
<1>m. \A s \in Session : Loop(s) \in Thread /\ Relay(s) \in Thread
  BY ThreadNames
<1>n. \A t \in Thread : t[1] \in {"loop", "relay", "receiver"} /\ t[2] \in Session
  BY ThreadSession
<1> USE DEF calls, sessions, pushers, maps, playing, media
\* What InHand says of one goroutine stays true while its own state does.
<1>k. ASSUME NEW u \in Thread, Handing(u) => pc'[u] = pc[u], Handing(u)' => Handing(u), Handing(u),
             at'[u] = at[u], frame'[u] = frame[u], todoFuncs'[u] = todoFuncs[u],
             sent'[u[2]] = sent[u[2]]
      PROVE  /\ \A r \in {"pusher", "player"} : Has(todoFuncs'[u], r) => Has(roles'[at'[u]], r)
             /\ pc'[u] = "append" => Head(todoFuncs'[u]) = "player"
             /\ u[1] = "loop" => at'[u] = u[2] /\ frame'[u] = [from |-> u[2], seq |-> sent'[u[2]]]
  BY <1>k, <1>t, <1>g DEF InHand, Handing
<1> DEFINE Holds(u) ==
      /\ \A r \in {"pusher", "player"} : Has(todoFuncs'[u], r) => Has(roles'[at'[u]], r)
      /\ pc'[u] = "append" => Head(todoFuncs'[u]) = "player"
      /\ u[1] = "loop" => at'[u] = u[2] /\ frame'[u] = [from |-> u[2], seq |-> sent'[u[2]]]
<1>s. ASSUME \A u \in Thread : Handing(u)' => Holds(u) PROVE InHand'
  BY <1>s DEF InHand, Has
<1> HIDE DEF Holds
<1>1. CASE Quiet
  <2>1. \A u \in Thread : Handing(u)' => Holds(u)
    <3> TAKE u \in Thread
    <3>1. Moving(u) \/ Moving(u)' => pc'[u] = pc[u] /\ todoFuncs'[u] = todoFuncs[u]
      BY <1>1 DEF Quiet
    <3>2. (Handing(u)' => Moving(u)') /\ (Handing(u) => Moving(u))
      BY DEF Handing, Moving
    <3>3. UNCHANGED <<at, frame, sent>>
      BY <1>1 DEF Quiet
    <3>4. QED
      BY <1>k, <3>1, <3>2, <3>3 DEF Holds, Handing
  <2>2. QED
    BY <1>s, <2>1
<1>2. ASSUME NEW t \in Thread, NEW u \in Thread, u # t, UNCHANGED <<at, frame, sent>>,
             Called(t) \/ todoFuncs' = todoFuncs,
             (\E p : pc' = [pc EXCEPT ![t] = p]) \/ pc' = pc, Handing(u)'
      PROVE  Holds(u)
  <2>1. pc'[u] = pc[u] /\ todoFuncs'[u] = todoFuncs[u]
    BY <1>2, <1>t DEF Called
  <2>2. QED
    BY <1>2, <1>k, <2>1 DEF Holds, Handing
<1>3. ASSUME NEW t \in Thread, Handing(t), todoFuncs[t] # << >>, Called(t), pc'[t] = "deliver",
             UNCHANGED <<at, frame, sent>>
      PROVE  Holds(t)
  <2>1. \A r : Has(todoFuncs'[t], r) => Has(todoFuncs[t], r)
    BY <1>3, <1>t, CalledOne
  <2>2. QED
    BY <1>3, <1>g, <1>t, <2>1 DEF Holds, InHand
<1>4. ASSUME NEW t \in Thread, Offer(t) PROVE InHand'
  <2>1. /\ UNCHANGED <<at, frame, sent>> /\ pc[t] = "deliver" /\ todoFuncs[t] # << >>
        /\ Head(todoFuncs[t]) = "player"
        /\ \/ Called(t) /\ pc' = pc
           \/ todoFuncs' = todoFuncs /\ pc' = [pc EXCEPT ![t] = "append"]
    BY <1>4 DEF Offer, Goto
  <2>2. CASE Called(t) /\ pc' = pc
    <3>1. Holds(t)
      BY <1>3, <2>1, <2>2 DEF Handing
    <3>2. QED
      BY <1>2, <1>s, <2>1, <2>2, <3>1
  <2>3. CASE todoFuncs' = todoFuncs /\ pc' = [pc EXCEPT ![t] = "append"]
    <3>1. Holds(t)
      BY <1>g, <1>t, <2>1, <2>3 DEF Holds, InHand, Handing
    <3>2. QED
      BY <1>2, <1>s, <2>1, <2>3, <3>1
  <2>4. QED
    BY <2>1, <2>2, <2>3
<1>5. ASSUME NEW t \in Thread, Enqueue(t) PROVE InHand'
  <2>1. /\ UNCHANGED <<at, frame, sent>> /\ pc[t] = "deliver" /\ todoFuncs[t] # << >>
        /\ Called(t) /\ pc' = pc
    BY <1>5 DEF Enqueue
  <2>2. Holds(t)
    BY <1>3, <2>1 DEF Handing
  <2>3. QED
    BY <1>2, <1>s, <2>1, <2>2
<1>6. ASSUME NEW t \in Thread, AppendFrame(t) PROVE InHand'
  <2>1. /\ UNCHANGED <<at, frame, sent>> /\ pc[t] = "append" /\ todoFuncs[t] # << >>
        /\ Called(t) /\ pc' = Wake(at[t], [pc EXCEPT ![t] = "deliver"])
    BY <1>6, <1>t DEF AppendFrame, RelayInvariant, InCall
  <2>2. pc'[t] = "deliver" /\ \A u \in Thread \ {t} : Handing(u)' => pc'[u] = pc[u]
    BY <1>t, <2>1, ThreadNames DEF Wake, Handing
  <2>3. Holds(t)
    BY <1>3, <2>1, <2>2 DEF Handing
  <2>4. ASSUME NEW u \in Thread \ {t}, Handing(u)' PROVE Holds(u)
    <3>1. pc'[u] = pc[u] /\ todoFuncs'[u] = todoFuncs[u]
      BY <1>t, <2>1, <2>2, <2>4, CalledOne
    <3>2. QED
      BY <1>k, <2>1, <2>4, <3>1 DEF Holds, Handing
  <2>5. QED
    BY <1>s, <2>3, <2>4
<1>7. ASSUME NEW t \in Thread, Delivered(t) PROVE InHand'
  <2>1. /\ UNCHANGED <<at, frame, sent>> /\ todoFuncs' = todoFuncs
        /\ \E p \in {"range", "read", "gone"} : pc' = [pc EXCEPT ![t] = p]
    BY <1>7 DEF Delivered, Goto, Again
  <2>2. ~Handing(t)'
    BY <1>t, <2>1 DEF Handing
  <2>3. QED
    BY <1>2, <1>s, <2>1, <2>2
<1>8. ASSUME NEW q \in Session, Take(q) PROVE InHand'
  <2>1. /\ UNCHANGED <<at, sent, todoFuncs>> /\ pc' = [pc EXCEPT ![Relay(q)] = "range"]
        /\ frame' = [frame EXCEPT ![Relay(q)] = Head(channel[q])]
    BY <1>8 DEF Take, Goto
  <2>2. \A u \in Thread : Handing(u)' => pc'[u] = pc[u] /\ frame'[u] = frame[u]
    BY <1>t, <1>m, <2>1 DEF Handing
  <2>3. QED
    BY <1>k, <1>s, <2>1, <2>2 DEF Holds, Handing
<1>9. ASSUME NEW q \in Session, RangeDone(q) PROVE InHand'
  <2>1. /\ UNCHANGED <<at, sent, todoFuncs, frame>>
        /\ \E p \in {"gone", "select"} : pc' = [pc EXCEPT ![Relay(q)] = p]
    BY <1>9 DEF RangeDone, Goto, RelayAgain
  <2>2. \A u \in Thread : Handing(u)' => pc'[u] = pc[u]
    BY <1>t, <1>m, <2>1 DEF Handing
  <2>3. QED
    BY <1>k, <1>s, <2>1, <2>2 DEF Holds, Handing
<1>10. ASSUME NEW q \in Session, NEW p \in Session, SendFrame(q, p) PROVE InHand'
  <2>1. /\ UNCHANGED <<roles, sent, frame>> /\ pc' = [pc EXCEPT ![Relay(q)] = "deliver"]
        /\ at' = [at EXCEPT ![Relay(q)] = p]
        /\ todoFuncs' = [todoFuncs EXCEPT ![Relay(q)] = roles[p]]
    BY <1>10 DEF SendFrame, Goto
  <2>2. Holds(Relay(q))
    BY <1>t, <1>m, <2>1, ThreadNames DEF Holds
  <2>3. ASSUME NEW u \in Thread \ {Relay(q)}, Handing(u)' PROVE Holds(u)
    <3>1. pc'[u] = pc[u] /\ todoFuncs'[u] = todoFuncs[u] /\ at'[u] = at[u]
      BY <1>t, <1>m, <2>1
    <3>2. QED
      BY <1>k, <2>1, <2>3, <3>1 DEF Holds, Handing
  <2>4. QED
    BY <1>s, <2>2, <2>3
<1>11. ASSUME NEW s \in Session, ReadFrame(s) PROVE InHand'
  <2>1. /\ pc' = [pc EXCEPT ![Loop(s)] = "deliver"] /\ at' = [at EXCEPT ![Loop(s)] = s]
        /\ roles' = roles /\ sent' = [sent EXCEPT ![s] = @ + 1]
        /\ frame' = [frame EXCEPT ![Loop(s)] = [from |-> s, seq |-> sent[s] + 1]]
        /\ todoFuncs' = [todoFuncs EXCEPT ![Loop(s)] = roles[s]]
    BY <1>11 DEF ReadFrame, Goto
  <2>2. Holds(Loop(s))
    <3>1. /\ pc'[Loop(s)] = "deliver" /\ at'[Loop(s)] = s /\ todoFuncs'[Loop(s)] = roles[s]
          /\ frame'[Loop(s)] = [from |-> s, seq |-> sent[s] + 1] /\ sent'[s] = sent[s] + 1
      BY <1>t, <1>m, <2>1
    <3>2. Loop(s)[2] = s
      BY ThreadNames
    <3>3. QED
      BY <2>1, <3>1, <3>2 DEF Holds
  <2>3. ASSUME NEW u \in Thread \ {Loop(s)}, Handing(u)' PROVE Holds(u)
    <3>1. pc'[u] = pc[u] /\ todoFuncs'[u] = todoFuncs[u] /\ at'[u] = at[u] /\ frame'[u] = frame[u]
      BY <1>t, <1>m, <2>1
    <3>2. CASE u[1] = "loop"
      <4>1. u = Loop(u[2])
        BY <3>2 DEF Thread, Loop
      <4>2. u[2] # s
        BY <2>3, <4>1
      <4>3. sent'[u[2]] = sent[u[2]]
        BY <1>n, <1>t, <2>1, <4>2
      <4>4. QED
        BY <1>k, <2>3, <3>1, <4>3 DEF Holds, Handing
    <3>3. CASE u[1] # "loop"
      BY <1>t, <2>1, <2>3, <3>1, <3>3 DEF Holds, InHand, Handing
    <3>4. QED
      BY <3>2, <3>3
  <2>4. QED
    BY <1>s, <2>2, <2>3
<1>12. ASSUME NEW s \in Session, Attach(s) PROVE InHand'
  <2>1. /\ UNCHANGED <<at, sent, todoFuncs, frame>>
        /\ \E p \in {"gone", "read"} : pc' = [pc EXCEPT ![Loop(s)] = p]
    BY <1>12 DEF Attach, Goto, Again
  <2>2. \A u \in Thread : Handing(u)' => pc'[u] = pc[u]
    BY <1>t, <1>m, <2>1 DEF Handing
  <2>3. QED
    BY <1>k, <1>s, <2>1, <2>2 DEF Holds, Handing
<1>13. QED
  BY <1>1, <1>4, <1>5, <1>6, <1>7, <1>8, <1>9, <1>10, <1>11, <1>12, QuietSteps, ThreadSession
  DEF Serves

\* The function a goroutine is about to call is registered with the session it calls it for.
LEMMA CallsRegistered ==
  ASSUME RelayInvariant, ~crashed, InHand, NEW t \in Thread, Handing(t), todoFuncs[t] # << >>
  PROVE  /\ Head(todoFuncs[t]) = "pusher" => Pushes(at[t])
         /\ Head(todoFuncs[t]) = "player" => Plays(at[t])
<1>1. todoFuncs[t] \in RoleList
  BY DEF RelayInvariant, FunctionLists
<1>2. Has(todoFuncs[t], Head(todoFuncs[t])) /\ Head(todoFuncs[t]) \in {"pusher", "player"}
  BY <1>1, ListTail
<1>3. Has(roles[at[t]], Head(todoFuncs[t]))
  BY <1>2 DEF InHand
<1>4. QED
  BY <1>3 DEF Pushes, Plays

\* A step puts frames only where a function is registered.
LEMMA NothingBeforeStep ==
  ASSUME RelayInvariant, InHand, NothingBefore, Next, ~crashed'
  PROVE  NothingBefore'
<1>t. /\ ~crashed /\ TypeOK /\ channel \in [Session -> Seq(Frame)] /\ at \in [Thread -> Session]
  BY AliveStep DEF RelayInvariant, TypeOK, GoroutineTypeOK, PusherTypeOK
<1>g. \A s \in Session : (Pushes(s) => Pushes(s)') /\ (Plays(s) => Plays(s)')
  BY RolesGrow
<1>s. ASSUME channel' = channel, \A s \in Session : Received(s)' = Received(s)
      PROVE  NothingBefore'
  BY <1>s, <1>g DEF NothingBefore
<1>h. UNCHANGED <<got, queue>> => \A s \in Session : Received(s)' = Received(s)
  BY DEF Received
<1> USE DEF calls, sessions, pushers, maps, playing, media
<1>1. CASE Quiet
  BY <1>1, <1>s DEF Quiet
<1>2. ASSUME NEW t \in Thread, Offer(t) \/ Delivered(t) PROVE NothingBefore'
  BY <1>2, <1>s, <1>h DEF Offer, Delivered
<1>3. ASSUME NEW q \in Session, RangeDone(q) \/ \E p \in Session : SendFrame(q, p)
      PROVE  NothingBefore'
  BY <1>3, <1>s, <1>h DEF RangeDone, SendFrame
<1>4. ASSUME NEW s \in Session, ReadFrame(s) \/ Attach(s) PROVE NothingBefore'
  BY <1>4, <1>s, <1>h DEF ReadFrame, Attach
<1>5. ASSUME NEW t \in Thread, Enqueue(t) PROVE NothingBefore'
  <2>1. /\ channel' = [channel EXCEPT ![at[t]] = Append(@, frame[t])] /\ UNCHANGED <<got, queue>>
        /\ pc[t] = "deliver" /\ todoFuncs[t] # << >> /\ Head(todoFuncs[t]) = "pusher"
    BY <1>5 DEF Enqueue
  <2>2. Pushes(at[t])
    BY <1>t, <2>1, CallsRegistered DEF Handing
  <2>3. \A s \in Session : s # at[t] => channel'[s] = channel[s]
    BY <1>t, <2>1
  <2>4. QED
    BY <1>t, <1>g, <1>h, <2>1, <2>2, <2>3 DEF NothingBefore
<1>6. ASSUME NEW t \in Thread, AppendFrame(t) PROVE NothingBefore'
  <2>1. channel' = channel /\ pc[t] = "append"
    BY <1>6 DEF AppendFrame
  <2>2. todoFuncs[t] # << >> /\ Head(todoFuncs[t]) = "player" /\ frame[t] \in Frame
    BY <1>t, <2>1 DEF RelayInvariant, InCall, InHand, Handing
  <2>3. Plays(at[t])
    BY <1>t, <2>1, <2>2, CallsRegistered DEF Handing
  <2>4. \A s \in Session : s # at[t] => Received(s)' = Received(s)
    BY <1>6, <1>t, <2>2, AppendHands
  <2>5. QED
    BY <1>t, <1>g, <2>1, <2>3, <2>4 DEF NothingBefore
<1>7. ASSUME NEW q \in Session, Take(q) PROVE NothingBefore'
  <2>1. /\ channel' = [channel EXCEPT ![q] = Tail(@)] /\ channel[q] # << >> /\ UNCHANGED <<got, queue>>
    BY <1>7 DEF Take
  <2>2. Pushes(q)
    BY <2>1 DEF NothingBefore
  <2>3. \A s \in Session : s # q => channel'[s] = channel[s]
    BY <1>t, <2>1
  <2>4. \A s \in Session : Received(s)' = Received(s)
    BY <1>h, <2>1
  <2>5. QED
    BY <1>g, <2>2, <2>3, <2>4 DEF NothingBefore
<1>8. QED
  BY <1>1, <1>2, <1>3, <1>4, <1>5, <1>6, <1>7, QuietSteps, ThreadSession DEF Serves

\* A step leaves frames only with those who sent them or play their sender.
LEMMA FromAboveStep ==
  ASSUME RelayInvariant, Joined, InRange, InHand, NoCycle, FromAbove, Next, ~crashed'
  PROVE  FromAbove'
<1>t. /\ ~crashed /\ pc \in [Thread -> Points] /\ channel \in [Session -> Seq(Frame)]
      /\ at \in [Thread -> Session] /\ frame \in [Thread -> Frame \cup {None}]
  BY AliveStep DEF RelayInvariant, TypeOK, GoroutineTypeOK, PusherTypeOK
<1>c. \A set \in SUBSET Session : Closed(set)' => Closed(set)
  BY UpstreamStep
<1>m. \A s \in Session : Loop(s) \in Thread /\ Relay(s) \in Thread
  BY ThreadNames
<1>d. \A s, r \in Session : Loop(s) # Relay(r) /\ (Relay(s) = Relay(r) => s = r)
  BY ThreadNames, Distinct
<1> USE DEF calls, sessions, pushers, maps, playing, media
<1>s. ASSUME channel' = channel,
             \A q \in Session : Ranging(q)' => Ranging(q) /\ frame'[Relay(q)] = frame[Relay(q)]
      PROVE  FromAbove'
  BY <1>s, <1>c DEF FromAbove
<1>1. CASE Quiet
  <2>1. \A q \in Session : Ranging(q)' => Ranging(q)
    BY <1>1, <1>m DEF Quiet, Moving, Ranging
  <2>2. channel' = channel /\ frame' = frame
    BY <1>1 DEF Quiet
  <2>3. QED
    BY <1>s, <2>1, <2>2
<1>2. ASSUME NEW t \in Thread, Offer(t) \/ Delivered(t) \/ AppendFrame(t) PROVE FromAbove'
  <2>1. channel' = channel /\ frame' = frame /\ pc[t] \in {"deliver", "append"}
    BY <1>2 DEF Offer, Delivered, AppendFrame
  <2>2. \A q \in Session : Ranging(q)' => Ranging(q)
    <3> TAKE q \in Session
    <3>1. Relay(q) # t => pc'[Relay(q)] = pc[Relay(q)]
      BY <1>2, <1>t, <1>m, Distinct DEF Offer, Delivered, AppendFrame, Goto, Wake
    <3>2. QED
      BY <2>1, <3>1 DEF Ranging
  <2>3. QED
    BY <1>s, <2>1, <2>2
<1>3. ASSUME NEW q \in Session, RangeDone(q) \/ \E p \in Session : SendFrame(q, p)
      PROVE  FromAbove'
  <2>1. channel' = channel /\ frame' = frame /\ pc[Relay(q)] = "range"
    BY <1>3 DEF RangeDone, SendFrame
  <2>2. \E p : pc' = [pc EXCEPT ![Relay(q)] = p]
    BY <1>3 DEF RangeDone, SendFrame, Goto
  <2>3. \A r \in Session : Ranging(r)' => Ranging(r)
    BY <1>t, <1>m, <2>1, <2>2 DEF Ranging
  <2>4. QED
    BY <1>s, <2>1, <2>3
<1>4. ASSUME NEW s \in Session, ReadFrame(s) \/ Attach(s) PROVE FromAbove'
  <2>1. /\ channel' = channel /\ \E p : pc' = [pc EXCEPT ![Loop(s)] = p]
        /\ frame' = frame \/ \E f : frame' = [frame EXCEPT ![Loop(s)] = f]
    BY <1>4 DEF ReadFrame, Attach, Goto
  <2>2. \A q \in Session : pc'[Relay(q)] = pc[Relay(q)] /\ frame'[Relay(q)] = frame[Relay(q)]
    BY <1>t, <1>m, <1>d, <2>1
  <2>3. QED
    BY <1>s, <2>1, <2>2 DEF Ranging
<1>5. ASSUME NEW t \in Thread, Enqueue(t) PROVE FromAbove'
  <2>1. /\ channel' = [channel EXCEPT ![at[t]] = Append(@, frame[t])] /\ UNCHANGED <<pc, frame>>
        /\ pc[t] = "deliver"
    BY <1>5 DEF Enqueue
  <2>2. /\ t[2] \in Session /\ (t = Loop(t[2]) \/ t = Relay(t[2]))
        /\ at[t] \in Session /\ frame[t] \in Frame
    BY <1>t, <2>1, Handers DEF Handing
  <2>3. ASSUME NEW set \in SUBSET Session, Closed(set), at[t] \in set PROVE frame[t].from \in set
    <3>1. CASE t = Loop(t[2])
      <4>1. t[1] = "loop"
        BY <2>2, <3>1, ThreadNames
      <4>2. Handing(t)
        BY <2>1 DEF Handing
      <4>3. at[t] = t[2] /\ frame[t] = [from |-> t[2], seq |-> sent[t[2]]]
        BY <4>1, <4>2 DEF InHand
      <4>4. QED
        BY <2>3, <4>3
    <3>2. CASE t = Relay(t[2])
      <4>1. at[t] \in players[t[2]] /\ Ranging(t[2])
        BY <2>1, <2>2, <3>2 DEF InRange, Ranging, Handing
      <4>2. upstream[at[t]] = t[2] /\ t[2] # None
        BY <2>2, <4>1, NoneAssumption DEF Joined
      <4>3. t[2] \in set
        BY <2>3, <4>2 DEF Closed
      <4>4. QED
        BY <2>2, <2>3, <3>2, <4>1, <4>3 DEF FromAbove
    <3>3. QED
      BY <2>2, <3>1, <3>2
  <2>4. ASSUME NEW q \in Session, NEW set \in SUBSET Session, Closed(set), q \in set,
               NEW i \in DOMAIN channel'[q]
        PROVE  channel'[q][i].from \in set
    <3>1. CASE q # at[t]
      <4>1. channel'[q] = channel[q]
        BY <1>t, <2>1, <2>2, <3>1
      <4>2. QED
        BY <2>4, <4>1 DEF FromAbove
    <3>2. CASE q = at[t]
      <4> DEFINE list == channel[q]
      <4>1. channel'[q] = Append(list, frame[t]) /\ list \in Seq(Frame)
        BY <1>t, <2>1, <2>2, <3>2
      <4>2. \A k \in DOMAIN list : list[k].from \in set
        BY <2>4 DEF FromAbove
      <4> HIDE DEF list
      <4>3. /\ Append(list, frame[t]) \in Seq(Frame)
            /\ Len(Append(list, frame[t])) = Len(list) + 1
            /\ Append(list, frame[t])[Len(list) + 1] = frame[t]
            /\ \A k \in 1 .. Len(list) : Append(list, frame[t])[k] = list[k]
        BY <2>2, <4>1, AppendProperties
      <4>4. Len(list) \in Nat /\ DOMAIN list = 1 .. Len(list) /\ i \in 1 .. Len(list) + 1
        BY <2>4, <4>1, <4>3, ListFrames
      <4>5. CASE i \in 1 .. Len(list)
        BY <4>1, <4>2, <4>3, <4>4, <4>5
      <4>6. CASE i = Len(list) + 1
        BY <2>3, <2>4, <3>2, <4>1, <4>3, <4>6
      <4>7. QED
        BY <4>4, <4>5, <4>6
    <3>3. QED
      BY <3>1, <3>2
  <2>5. QED
    BY <1>c, <2>1, <2>4 DEF FromAbove, Ranging
<1>6. ASSUME NEW q \in Session, Take(q) PROVE FromAbove'
  <2>1. /\ channel[q] # << >> /\ pc' = [pc EXCEPT ![Relay(q)] = "range"]
        /\ frame' = [frame EXCEPT ![Relay(q)] = Head(channel[q])]
        /\ channel' = [channel EXCEPT ![q] = Tail(@)]
    BY <1>6 DEF Take, Goto
  <2> DEFINE list == channel[q]
  <2>2. list \in Seq(Frame) /\ list # << >>
    BY <1>t, <2>1
  <2>3. /\ frame'[Relay(q)] = Head(list) /\ channel'[q] = Tail(list)
        /\ \A r \in Session \ {q} : /\ channel'[r] = channel[r] /\ pc'[Relay(r)] = pc[Relay(r)]
                                    /\ frame'[Relay(r)] = frame[Relay(r)]
    BY <1>t, <1>m, <1>d, <2>1
  <2>4. ASSUME NEW set \in SUBSET Session, Closed(set), q \in set
        PROVE  /\ Head(list).from \in set
               /\ \A i \in DOMAIN Tail(list) : Tail(list)[i].from \in set
    <3>1. \A i \in DOMAIN list : list[i].from \in set
      BY <2>4 DEF FromAbove
    <3> HIDE DEF list
    <3>2. /\ Tail(list) \in Seq(Frame) /\ Len(Tail(list)) = Len(list) - 1 /\ Head(list) = list[1]
          /\ \A i \in 1 .. Len(list) - 1 : Tail(list)[i] = list[i + 1]
      BY <2>2, HeadTailProperties
    <3>3. /\ Len(list) \in Nat /\ Len(list) >= 1 /\ DOMAIN list = 1 .. Len(list)
          /\ DOMAIN Tail(list) = 1 .. Len(list) - 1
      BY <2>2, <3>2, ListFrames, EmptySeq
    <3>4. QED
      BY <3>1, <3>2, <3>3
  <2> HIDE DEF list
  <2>5. ASSUME NEW r \in Session, NEW set \in SUBSET Session, Closed(set), r \in set
        PROVE  /\ \A i \in DOMAIN channel'[r] : channel'[r][i].from \in set
               /\ Ranging(r)' => frame'[Relay(r)].from \in set
    <3>1. CASE r = q
      BY <2>3, <2>4, <2>5, <3>1
    <3>2. CASE r # q
      BY <2>3, <2>5, <3>2 DEF FromAbove, Ranging
    <3>3. QED
      BY <3>1, <3>2
  <2>6. QED
    BY <1>c, <2>5 DEF FromAbove
<1>7. QED
  BY <1>1, <1>2, <1>3, <1>4, <1>5, <1>6, QuietSteps, ThreadSession DEF Serves

-----------------------------------------------------------------------------
\* What leaves a pipeline as it is.
LEMMA PipelineKept ==
  ASSUME NEW u \in Session, NEW n, Pipeline(u, n),
         Run(channel[u], u, n, Produced(u))',
         Carries(u)' => Carries(u) /\ frame'[Relay(u)] = frame[Relay(u)],
         players'[u] \subseteq players[u],
         \A s \in players'[u] : ~stoped'[s] =>
           /\ ~stoped[s] /\ Received(s)' = Received(s)
           /\ (Carries(u) /\ Pending(u, s))' <=> Carries(u) /\ Pending(u, s),
         Carries(u)' /\ pc'[Relay(u)] = "append" =>
           /\ pc[Relay(u)] = "append" /\ at'[Relay(u)] = at[Relay(u)]
           /\ \E s : s = at[Relay(u)] /\ Received(s)' = Received(s)
  PROVE  Pipeline(u, n)'
<1>1. Carries(u)' => frame'[Relay(u)].seq = n
  BY DEF Pipeline
<1>2. ASSUME NEW s \in players'[u], ~stoped'[s]
      PROVE  \E a \in 0 .. MaxFrames :
               Run(Received(s)', u, a, IF (Carries(u) /\ Pending(u, s))' THEN n - 1 ELSE n)
  <2>1. PICK a \in 0 .. MaxFrames :
          Run(Received(s), u, a, IF Carries(u) /\ Pending(u, s) THEN n - 1 ELSE n)
    BY <1>2 DEF Pipeline
  <2>2. Received(s)' = Received(s) /\ ((Carries(u) /\ Pending(u, s))' <=> Carries(u) /\ Pending(u, s))
    BY <1>2
  <2>3. CASE Carries(u) /\ Pending(u, s)
    BY <2>1, <2>2, <2>3
  <2>4. CASE ~(Carries(u) /\ Pending(u, s))
    BY <2>1, <2>2, <2>4
  <2>5. QED
    BY <2>3, <2>4
<1>3. ASSUME Carries(u)', pc'[Relay(u)] = "append"
      PROVE  \E a \in 0 .. MaxFrames : Run(Received(at[Relay(u)]), u, a, n - 1)'
  <2>1. PICK a \in 0 .. MaxFrames : Run(Received(at[Relay(u)]), u, a, n - 1)
    BY <1>3 DEF Pipeline
  <2>2. PICK s : s = at[Relay(u)] /\ Received(s)' = Received(s)
    BY <1>3
  <2>3. s = at'[Relay(u)] /\ Run(Received(s), u, a, n - 1)
    BY <1>3, <2>1, <2>2
  <2>4. Received(at[Relay(u)])' = Received(s)
    BY <2>2, <2>3 DEF Received
  <2>5. Run(Received(at[Relay(u)])', u, a, n - 1)
    BY <2>3, <2>4
  <2>6. QED
    BY <2>5 DEF Run
<1>4. \A s \in players'[u] : ~stoped'[s] =>
        \E a \in 0 .. MaxFrames :
          Run(Received(s), u, a, IF Carries(u) /\ Pending(u, s) THEN n - 1 ELSE n)'
  BY <1>2 DEF Run
<1>5. QED
  BY <1>1, <1>3, <1>4 DEF Pipeline

\* What the last frame sent on depends on.
LEMMA ProducedKept ==
  ASSUME NEW u \in Session, sent'[u] = sent[u],
         (Handing(Loop(u)) /\ Has(todoFuncs[Loop(u)], "pusher"))'
           <=> Handing(Loop(u)) /\ Has(todoFuncs[Loop(u)], "pusher")
  PROVE  Produced(u)' = Produced(u)
<1>1. QED
  BY DEF Produced

\* A quiet step leaves all pipelines.
LEMMA QuietPipelines ==
  ASSUME TypeOK, Pipelines, Quiet
  PROVE  Pipelines'
<1>1. ASSUME NEW u \in Session, NEW n \in 0 .. MaxFrames, Pipeline(u, n) PROVE Pipeline(u, n)'
  <2>1. Loop(u) \in Thread /\ Relay(u) \in Thread
    BY ThreadNames
  <2>2. UNCHANGED <<channel, frame, at, todo, sent>> /\ at \in [Thread -> Session]
    BY DEF Quiet, TypeOK, GoroutineTypeOK
  <2>3. \A t \in Thread : Moving(t) \/ Moving(t)' => pc'[t] = pc[t] /\ todoFuncs'[t] = todoFuncs[t]
    BY DEF Quiet
  <2>4. (Handing(Loop(u)) /\ Has(todoFuncs[Loop(u)], "pusher"))'
          <=> Handing(Loop(u)) /\ Has(todoFuncs[Loop(u)], "pusher")
    BY <2>1, <2>3 DEF Handing, Moving, Has
  <2>5. Produced(u)' = Produced(u)
    BY <2>2, <2>4, ProducedKept
  <2>6. Run(channel[u], u, n, Produced(u))'
    BY <1>1, <2>2, <2>5 DEF Pipeline, Run
  <2>7. Carries(u)' => Carries(u) /\ frame'[Relay(u)] = frame[Relay(u)]
    BY <2>1, <2>2, <2>3 DEF Carries, Ranging, Moving
  <2>8. \A s \in Session : (Carries(u) /\ Pending(u, s))' <=> Carries(u) /\ Pending(u, s)
    BY <2>1, <2>2, <2>3 DEF Carries, Pending, Ranging, Moving, Handing, Has
  <2>9. /\ players'[u] \subseteq players[u]
        /\ \A s \in Session : (stoped[s] => stoped'[s]) /\ Received(s)' = Received(s)
    BY DEF Quiet
  <2>10. /\ Carries(u)' => pc'[Relay(u)] = pc[Relay(u)]
         /\ at'[Relay(u)] = at[Relay(u)] /\ at[Relay(u)] \in Session
    BY <2>1, <2>2, <2>3 DEF Carries, Ranging, Moving
  <2>11. players[u] \subseteq Session
    BY DEF TypeOK, PusherTypeOK
  <2>12. QED
    BY <1>1, <2>6, <2>7, <2>8, <2>9, <2>10, <2>11, PipelineKept
<1>2. QED
  BY <1>1 DEF Pipelines

\* The state of the media, in one fact.
LEMMA MediaTypes ==
  ASSUME TypeOK
  PROVE  /\ pc \in [Thread -> Points] /\ frame \in [Thread -> Frame \cup {None}]
         /\ at \in [Thread -> Session] /\ todoFuncs \in [Thread -> Seq({"pusher", "player"})]
         /\ stoped \in [Session -> BOOLEAN] /\ sent \in [Session -> 0 .. MaxFrames]
         /\ channel \in [Session -> Seq(Frame)] /\ players \in [Session -> SUBSET Session]
         /\ todo \in [Session -> SUBSET Session]
<1>1. QED
  BY DEF TypeOK, GoroutineTypeOK, SessionTypeOK, PusherTypeOK

\* A player that is stopped is passed over; one that is not gets the frame next.
LEMMA OfferKeeps ==
  ASSUME RelayInvariant, ~crashed, InRange, InHand, Pipelines, NEW t \in Thread, Offer(t)
  PROVE  Pipelines'
<1>t. TypeOK
  BY DEF RelayInvariant
<1>1. /\ UNCHANGED <<channel, frame, at, todo, sent, players, stoped, got, queue>>
      /\ pc[t] = "deliver" /\ todoFuncs[t] # << >> /\ Head(todoFuncs[t]) = "player"
      /\ \/ stoped[at[t]] /\ Called(t) /\ pc' = pc
         \/ ~stoped[at[t]] /\ todoFuncs' = todoFuncs /\ pc' = [pc EXCEPT ![t] = "append"]
  BY DEF Offer, Goto, calls, sessions, pushers, maps, playing, media
<1>2. \A u \in Thread \ {t} : pc'[u] = pc[u] /\ todoFuncs'[u] = todoFuncs[u]
  BY <1>1, <1>t, MediaTypes, CalledOne
<1>3. /\ Has(todoFuncs'[t], "pusher") <=> Has(todoFuncs[t], "pusher")
      /\ Has(todoFuncs[t], "player")
      /\ ~stoped[at[t]] => Has(todoFuncs'[t], "player")
      /\ pc'[t] \in {"deliver", "append"}
      /\ stoped[at[t]] => pc'[t] = "deliver"
  <2>1. CASE Called(t)
    BY <1>1, <1>t, <2>1, CalledOne, MediaTypes
  <2>2. CASE todoFuncs' = todoFuncs
    <3>1. Has(todoFuncs[t], "player")
      BY <1>1, ListTail DEF RelayInvariant, FunctionLists
    <3>2. QED
      BY <1>1, <1>t, <2>2, <3>1, MediaTypes
  <2>3. QED
    BY <1>1, <2>1, <2>2
<1>4. \A s \in Session : Received(s)' = Received(s)
  BY <1>1 DEF Received
<1>5. ASSUME NEW u \in Session, NEW n \in 0 .. MaxFrames, Pipeline(u, n) PROVE Pipeline(u, n)'
  <2>1. Loop(u) \in Thread /\ Relay(u) \in Thread
    BY ThreadNames
  <2>2. Handing(Loop(u))' <=> Handing(Loop(u))
    BY <1>1, <1>2, <1>3, <2>1 DEF Handing
  <2>3. Has(todoFuncs'[Loop(u)], "pusher") <=> Has(todoFuncs[Loop(u)], "pusher")
    BY <1>2, <1>3, <2>1
  <2>4. Produced(u)' = Produced(u)
    BY <1>1, <2>2, <2>3, ProducedKept DEF Has
  <2>5. Run(channel[u], u, n, Produced(u))'
    BY <1>1, <1>5, <2>4 DEF Pipeline, Run
  <2>6. Carries(u)' <=> Carries(u)
    BY <1>1, <1>2, <1>3, <2>1 DEF Carries, Ranging
  <2>7. Handing(Relay(u))' <=> Handing(Relay(u))
    BY <1>1, <1>2, <1>3, <2>1 DEF Handing
  <2>8. \A s \in players[u] : ~stoped[s] => (Pending(u, s)' <=> Pending(u, s))
    <3> SUFFICES ASSUME NEW s \in players[u], ~stoped[s] PROVE Pending(u, s)' <=> Pending(u, s)
      OBVIOUS
    <3>1. at[Relay(u)] = s => (Has(todoFuncs'[Relay(u)], "player") <=> Has(todoFuncs[Relay(u)], "player"))
      BY <1>2, <1>3, <2>1
    <3>2. QED
      BY <1>1, <2>7, <3>1 DEF Pending, Has
  <2>9. players[u] \subseteq Session /\ at[Relay(u)] \in Session
    BY <1>t, <2>1, MediaTypes
  <2>10. CASE t = Relay(u) /\ ~stoped[at[t]] /\ Carries(u)
    <3>1. at[t] \in players[u] /\ Pending(u, at[t])
      BY <1>1, <1>3, <2>10 DEF InRange, Pending, Carries, Handing
    <3>2. PICK a \in 0 .. MaxFrames : Run(Received(at[t]), u, a, n - 1)
      BY <1>5, <2>10, <3>1 DEF Pipeline
    <3>3. \E b \in 0 .. MaxFrames : Run(Received(at[Relay(u)]), u, b, n - 1)'
      <4>1. Received(at[Relay(u)])' = Received(at[t])
        BY <1>1, <2>10 DEF Received
      <4>2. Run(Received(at[Relay(u)])', u, a, n - 1)
        BY <3>2, <4>1
      <4>3. QED
        BY <4>2 DEF Run
    <3>4. \A s \in players[u] : ~stoped[s] =>
            \E b \in 0 .. MaxFrames : Run(Received(s), u, b, IF Carries(u) /\ Pending(u, s) THEN n - 1 ELSE n)'
      <4> SUFFICES ASSUME NEW s \in players[u], ~stoped[s]
                   PROVE  \E b \in 0 .. MaxFrames :
                            Run(Received(s), u, b, IF Carries(u) /\ Pending(u, s) THEN n - 1 ELSE n)'
        OBVIOUS
      <4>1. PICK b \in 0 .. MaxFrames :
              Run(Received(s), u, b, IF Carries(u) /\ Pending(u, s) THEN n - 1 ELSE n)
        BY <1>5 DEF Pipeline
      <4>2. /\ Received(s)' = Received(s)
            /\ (IF Carries(u) /\ Pending(u, s) THEN n - 1 ELSE n)'
                 = (IF Carries(u) /\ Pending(u, s) THEN n - 1 ELSE n)
        BY <1>4, <2>6, <2>8, <2>9
      <4>3. QED
        BY <4>1, <4>2 DEF Run
    <3>5. Carries(u)' => frame'[Relay(u)].seq = n
      BY <1>1, <1>5, <2>6 DEF Pipeline
    <3>6. QED
      BY <1>1, <2>5, <3>3, <3>4, <3>5 DEF Pipeline
  <2>11. CASE ~(t = Relay(u) /\ ~stoped[at[t]] /\ Carries(u))
    <3>1. Carries(u)' /\ pc'[Relay(u)] = "append" =>
            /\ pc[Relay(u)] = "append" /\ at'[Relay(u)] = at[Relay(u)]
            /\ \E s : s = at[Relay(u)] /\ Received(s)' = Received(s)
      BY <1>1, <1>2, <1>3, <1>4, <2>1, <2>6, <2>9, <2>11
    <3>2. QED
      BY <1>1, <1>4, <1>5, <2>5, <2>6, <2>8, <2>9, <3>1, PipelineKept
  <2>12. QED
    BY <2>10, <2>11
<1>6. QED
  BY <1>5 DEF Pipelines

\* Whom a relay serves plays that Pusher, and not itself.
LEMMA ServedBy ==
  ASSUME RelayInvariant, ~crashed, Joined, InRange, NoCycle, NEW u \in Session
  PROVE  /\ \A s \in players[u] : s \in Session /\ upstream[s] = u /\ s # u
         /\ Handing(Relay(u)) => at[Relay(u)] \in players[u] \ todo[u]
<1>1. players[u] \subseteq Session
  BY DEF RelayInvariant, TypeOK, PusherTypeOK
<1>2. \A s \in players[u] : upstream[s] = u
  BY <1>1 DEF Joined
<1>3. \A s \in players[u] : s # u
  BY <1>1, <1>2, NoneAssumption DEF NoCycle
<1>4. Handing(Relay(u)) => at[Relay(u)] \in players[u] \ todo[u]
  BY DEF InRange, Ranging, Handing
<1>5. QED
  BY <1>1, <1>2, <1>3, <1>4

\* Appending moves the frame in the relay's hand to the player, and counts for no other
\* publisher.
LEMMA AppendKeeps ==
  ASSUME RelayInvariant, ~crashed, Joined, InRange, InHand, NoCycle, Pipelines, Runs,
         NEW t \in Thread, AppendFrame(t)
  PROVE  Pipelines' /\ Runs'
<1>t. TypeOK /\ at[t] \in Session
  BY DEF RelayInvariant, TypeOK, GoroutineTypeOK
<1>v. PICK v \in Session : v = at[t]
  BY <1>t
<1>1. /\ UNCHANGED <<channel, frame, at, todo, sent, players, stoped, upstream>> /\ pc[t] = "append"
      /\ pc' = Wake(v, [pc EXCEPT ![t] = "deliver"]) /\ Called(t)
  BY <1>v DEF AppendFrame, calls, sessions, pushers, maps, playing, media
<1>2. todoFuncs[t] # << >> /\ Head(todoFuncs[t]) = "player" /\ frame[t] \in Frame /\ Handing(t)
  BY <1>1 DEF RelayInvariant, InCall, InHand, Handing
<1>3. /\ Has(todoFuncs[t], "player") /\ ~Has(todoFuncs'[t], "player")
      /\ Has(todoFuncs'[t], "pusher") <=> Has(todoFuncs[t], "pusher")
      /\ \A u \in Thread \ {t} : todoFuncs'[u] = todoFuncs[u]
  BY <1>1, <1>2, CalledOne
<1>4. /\ pc'[t] = "deliver"
      /\ \A u \in Thread \ {t} : \/ pc'[u] = pc[u]
                                 \/ pc[u] = "wait" /\ pc'[u] = "woken"
  BY <1>1, <1>t, <1>v, ThreadNames, MediaTypes DEF Wake
<1>5. /\ Received(v)' = Append(Received(v), frame[t]) /\ Received(v) \in Seq(Frame)
      /\ \A s \in Session \ {v} : Received(s)' = Received(s)
  BY <1>2, <1>t, <1>v, AppendHands, ReceivedType
<1>6. t[2] \in Session /\ (t = Loop(t[2]) \/ t = Relay(t[2]))
  BY <1>2, Handers
<1>7. t = Loop(t[2]) => v = t[2] /\ frame[t].from = v
  <2>1. t = Loop(t[2]) => t[1] = "loop"
    BY <1>6, ThreadNames
  <2>2. t[1] = "loop" => at[t] = t[2] /\ frame[t] = [from |-> t[2], seq |-> sent[t[2]]]
    BY <1>2 DEF InHand
  <2>3. QED
    BY <1>v, <2>1, <2>2
\* The frame is one of the player's own Pusher only when that Pusher's relay hands it out.
<1>8. ASSUME NEW u \in Session, v \in players[u], frame[t].from = u PROVE t = Relay(u)
  <2>1. t # Loop(t[2])
    BY <1>6, <1>7, <1>8, ServedBy
  <2>2. v \in players[t[2]]
    BY <1>2, <1>6, <1>v, <2>1, ServedBy
  <2>3. upstream[v] = u /\ upstream[v] = t[2]
    BY <1>6, <1>8, <2>2, ServedBy
  <2>4. QED
    BY <1>6, <2>1, <2>3
<1>9. ASSUME NEW u \in Session, NEW n \in 0 .. MaxFrames, Pipeline(u, n) PROVE Pipeline(u, n)'
  <2>1. /\ Loop(u) \in Thread /\ Relay(u) \in Thread /\ players[u] \subseteq Session
        /\ at[Relay(u)] \in Session
    BY <1>t, ThreadNames, MediaTypes
  <2>2. /\ Handing(Loop(u))' <=> Handing(Loop(u))
        /\ Handing(Relay(u))' <=> Handing(Relay(u))
        /\ Ranging(u)' <=> Ranging(u)
    BY <1>1, <1>4, <2>1 DEF Handing, Ranging
  <2>3. Has(todoFuncs'[Loop(u)], "pusher") <=> Has(todoFuncs[Loop(u)], "pusher")
    BY <1>3, <2>1
  <2>4. Produced(u)' = Produced(u)
    BY <1>1, <2>2, <2>3, ProducedKept DEF Has
  <2>5. Run(channel[u], u, n, Produced(u))'
    BY <1>1, <1>9, <2>4 DEF Pipeline, Run
  <2>6. Carries(u)' <=> Carries(u)
    BY <1>1, <2>2 DEF Carries
  <2>7. Carries(u)' => frame'[Relay(u)].seq = n
    BY <1>1, <1>9, <2>6 DEF Pipeline
  <2>8. ASSUME NEW s \in players[u], s # v \/ t # Relay(u) PROVE Pending(u, s)' <=> Pending(u, s)
    <3>1. CASE t = Relay(u)
      <4>1. at[Relay(u)] # s
        BY <1>v, <2>8, <3>1
      <4>2. QED
        BY <1>1, <4>1 DEF Pending
    <3>2. CASE t # Relay(u)
      <4>1. todoFuncs'[Relay(u)] = todoFuncs[Relay(u)]
        BY <1>3, <2>1, <3>2
      <4>2. QED
        BY <1>1, <2>2, <4>1 DEF Pending, Has
    <3>3. QED
      BY <3>1, <3>2
  <2>9. ASSUME NEW s \in players[u], ~stoped[s]
        PROVE  \E a \in 0 .. MaxFrames :
                 Run(Received(s)', u, a, IF (Carries(u) /\ Pending(u, s))' THEN n - 1 ELSE n)
    <3>1. PICK a \in 0 .. MaxFrames :
            Run(Received(s), u, a, IF Carries(u) /\ Pending(u, s) THEN n - 1 ELSE n)
      BY <1>9, <2>9 DEF Pipeline
    <3> DEFINE b == IF Carries(u) /\ Pending(u, s) THEN n - 1 ELSE n
    <3>2. CASE s # v
      <4>1. Received(s)' = Received(s) /\ (Pending(u, s)' <=> Pending(u, s))
        BY <1>5, <2>1, <2>8, <3>2
      <4>2. QED
        BY <2>6, <3>1, <4>1
    <3>3. CASE s = v /\ frame[t].from # u
      <4>1. Run(Received(s)', u, a, b)
        BY <1>2, <1>5, <3>1, <3>3, RunOther
      <4>2. CASE t = Relay(u)
        <5>1. ~Carries(u)
          BY <3>3, <4>2 DEF Carries
        <5>2. QED
          BY <2>6, <4>1, <5>1
      <4>3. CASE t # Relay(u)
        BY <2>6, <2>8, <4>1, <4>3
      <4>4. QED
        BY <4>2, <4>3
    <3>4. CASE s = v /\ frame[t].from = u
      <4>1. t = Relay(u)
        BY <1>8, <2>9, <3>4
      <4>2. Carries(u) /\ pc[Relay(u)] = "append" /\ frame[t].seq = n
        BY <1>1, <1>9, <3>4, <4>1 DEF Carries, Ranging, Pipeline
      <4>3. PICK c \in 0 .. MaxFrames : Run(Received(v), u, c, n - 1)
        BY <1>9, <1>v, <4>1, <4>2 DEF Pipeline
      <4>4. c \in Nat /\ n - 1 \in Int /\ n = (n - 1) + 1
        BY QueueAssumption
      <4>5. Run(Append(Received(v), frame[t]), u, c, n)
        BY <1>2, <1>5, <3>4, <4>2, <4>3, <4>4, RunNext
      <4>6. ~Pending(u, s)'
        <5>1. s \notin todo'[u]
          BY <1>1, <1>2, <1>v, <3>4, <4>1, ServedBy
        <5>2. ~Has(todoFuncs'[Relay(u)], "player")
          BY <1>3, <4>1
        <5>3. QED
          BY <5>1, <5>2 DEF Pending, Has
      <4>7. QED
        BY <1>5, <3>4, <4>5, <4>6
    <3>5. QED
      BY <3>2, <3>3, <3>4
  <2>10. ASSUME Carries(u)', pc'[Relay(u)] = "append"
         PROVE  \E a \in 0 .. MaxFrames : Run(Received(at[Relay(u)]), u, a, n - 1)'
    <3>1. t # Relay(u) /\ pc[Relay(u)] = "append" /\ Carries(u)
      BY <1>4, <2>1, <2>6, <2>10
    <3>2. PICK s \in Session : s = at[Relay(u)]
      BY <2>1
    <3>3. PICK a \in 0 .. MaxFrames : Run(Received(s), u, a, n - 1)
      BY <1>9, <3>1, <3>2 DEF Pipeline
    <3>4. s \in players[u]
      BY <3>1, <3>2, ServedBy DEF Handing
    <3>5. Run(Received(s)', u, a, n - 1)
      <4>1. CASE s = v
        <5>1. frame[t].from # u
          BY <1>8, <3>1, <3>4, <4>1
        <5>2. QED
          BY <1>2, <1>5, <3>3, <4>1, <5>1, RunOther
      <4>2. CASE s # v
        BY <1>5, <3>3, <4>2
      <4>3. QED
        BY <4>1, <4>2
    <3>6. Received(at[Relay(u)])' = Received(s)'
      BY <1>1, <3>2 DEF Received
    <3>7. QED
      BY <3>5, <3>6 DEF Run
  <2>11. \A s \in players'[u] : ~stoped'[s] =>
           \E a \in 0 .. MaxFrames :
             Run(Received(s), u, a, IF Carries(u) /\ Pending(u, s) THEN n - 1 ELSE n)'
    BY <1>1, <2>9 DEF Run
  <2>12. QED
    BY <2>5, <2>7, <2>10, <2>11 DEF Pipeline
<1>10. ASSUME NEW s \in Session
       PROVE  \E a, b \in 0 .. MaxFrames : Run(Received(s)', upstream[s], a, b)
  <2>1. PICK a \in 0 .. MaxFrames, b \in 0 .. MaxFrames : Run(Received(s), upstream[s], a, b)
    BY DEF Runs
  <2>2. CASE s # v
    BY <1>5, <2>1, <2>2
  <2>3. CASE s = v /\ frame[t].from # upstream[v]
    <3>1. Run(Received(v), upstream[v], a, b)
      BY <2>1, <2>3
    <3>2. Run(Append(Received(v), frame[t]), upstream[v], a, b)
      BY <1>2, <1>5, <2>3, <3>1, RunOther
    <3>3. QED
      BY <1>5, <2>3, <3>2
  <2>4. CASE s = v /\ frame[t].from = upstream[v]
    <3> DEFINE u == upstream[v]
    <3>1. u \in Session
      BY <1>2, <2>4, FrameFields
    <3>2. t # Loop(t[2])
      BY <1>7, <2>4, <3>1, NoneAssumption DEF NoCycle
    <3>3. v \in players[t[2]]
      BY <1>2, <1>6, <1>v, <3>2, ServedBy
    <3>4. t = Relay(u)
      BY <1>6, <3>2, <3>3, ServedBy
    <3>5. PICK n \in 0 .. MaxFrames : Pipeline(u, n)
      BY <3>1 DEF Pipelines
    <3>6. Carries(u) /\ pc[Relay(u)] = "append"
      BY <1>1, <2>4, <3>4 DEF Carries, Ranging
    <3>7. frame[t].seq = n /\ \E c \in 0 .. MaxFrames : Run(Received(v), u, c, n - 1)
      BY <1>v, <3>4, <3>5, <3>6 DEF Pipeline
    <3>8. PICK c \in 0 .. MaxFrames : Run(Received(v), u, c, n - 1)
      BY <3>7
    <3>9. c \in Nat /\ n - 1 \in Int /\ n = (n - 1) + 1
      BY QueueAssumption
    <3>10. Run(Append(Received(v), frame[t]), u, c, n)
      BY <1>2, <1>5, <2>4, <3>7, <3>8, <3>9, RunNext
    <3>11. QED
      BY <1>5, <2>4, <3>10
  <2>5. QED
    BY <2>2, <2>3, <2>4
<1>11. Runs'
  BY <1>1, <1>10 DEF Runs, Run
<1>12. QED
  BY <1>9, <1>11 DEF Pipelines

\* The Pusher's function extends the pipeline of the session whose frame it is.
LEMMA EnqueueKeeps ==
  ASSUME RelayInvariant, ~crashed, Joined, InRange, InHand, NoCycle, FromAbove, Pipelines,
         NEW t \in Thread, Enqueue(t)
  PROVE  Pipelines'
<1>t. TypeOK /\ at[t] \in Session
  BY DEF RelayInvariant, TypeOK, GoroutineTypeOK
<1>v. PICK v \in Session : v = at[t]
  BY <1>t
<1>1. /\ UNCHANGED <<pc, frame, at, todo, sent, players, stoped, got, queue>> /\ pc[t] = "deliver"
      /\ todoFuncs[t] # << >> /\ Head(todoFuncs[t]) = "pusher" /\ Called(t)
      /\ channel' = [channel EXCEPT ![v] = Append(@, frame[t])]
  BY <1>v DEF Enqueue, sessions, maps, playing, media
<1>2. /\ Has(todoFuncs[t], "pusher") /\ ~Has(todoFuncs'[t], "pusher")
      /\ Has(todoFuncs'[t], "player") <=> Has(todoFuncs[t], "player")
      /\ \A u \in Thread \ {t} : todoFuncs'[u] = todoFuncs[u]
  BY <1>1, CalledOne
<1>3. Handing(t) /\ frame[t] \in Frame /\ t[2] \in Session /\ (t = Loop(t[2]) \/ t = Relay(t[2]))
  BY <1>1, Handers DEF Handing
<1>4. /\ channel'[v] = Append(channel[v], frame[t]) /\ channel[v] \in Seq(Frame)
      /\ \A s \in Session \ {v} : channel'[s] = channel[s]
  BY <1>1, <1>t, MediaTypes
<1>5. \A s \in Session : Received(s)' = Received(s)
  BY <1>1 DEF Received
<1>6. ASSUME NEW u \in Session, NEW n \in 0 .. MaxFrames, Pipeline(u, n) PROVE Pipeline(u, n)'
  <2>1. /\ Loop(u) \in Thread /\ Relay(u) \in Thread /\ Loop(u)[1] = "loop" /\ Loop(u)[2] = u
        /\ Loop(u) # Relay(t[2])
    BY <1>3, ThreadNames
  <2>2. Carries(u)' <=> Carries(u)
    BY <1>1 DEF Carries, Ranging
  <2>3. Has(todoFuncs'[Relay(u)], "player") <=> Has(todoFuncs[Relay(u)], "player")
    BY <1>2, <2>1
  <2>4. \A s \in Session : Pending(u, s)' <=> Pending(u, s)
    BY <1>1, <2>3 DEF Pending, Handing, Has
  <2>5. Run(channel[u], u, n, Produced(u))
    BY <1>6 DEF Pipeline
  <2>6. Run(channel'[u], u, n, Produced(u)')
    <3>1. CASE t = Loop(u)
      <4>1. at[t] = u /\ frame[t] = [from |-> u, seq |-> sent[u]]
        BY <1>3, <2>1, <3>1 DEF InHand
      <4>2. v = u /\ frame[t].from = u /\ frame[t].seq = sent[u]
        BY <1>v, <4>1
      <4>3. Produced(u) = sent[u] - 1
        BY <1>2, <1>3, <3>1 DEF Produced
      <4>4. Produced(u)' = sent[u]
        BY <1>1, <1>2, <3>1 DEF Produced, Has
      <4>5. sent[u] \in Int /\ sent[u] - 1 \in Int /\ sent[u] = (sent[u] - 1) + 1 /\ n \in Nat
        BY <1>3, <4>2, FrameFields, QueueAssumption
      <4>6. Run(Append(channel[u], frame[t]), u, n, (sent[u] - 1) + 1)
        BY <1>3, <1>4, <2>5, <4>2, <4>3, <4>5, RunNext
      <4>7. QED
        BY <1>4, <4>2, <4>4, <4>5, <4>6
    <3>2. CASE t # Loop(u)
      <4>1. todoFuncs'[Loop(u)] = todoFuncs[Loop(u)]
        BY <1>2, <2>1, <3>2
      <4>2. Produced(u)' = Produced(u)
        BY <1>1, <4>1, ProducedKept DEF Handing, Has
      <4>3. CASE v # u
        BY <1>4, <2>5, <4>2, <4>3
      <4>4. CASE v = u
        <5>1. t = Relay(t[2])
          <6>1. t = Loop(t[2]) => t[1] = "loop"
            BY <1>3, ThreadNames
          <6>2. t[1] = "loop" => at[t] = t[2]
            BY <1>3 DEF InHand
          <6>3. QED
            BY <1>3, <1>v, <3>2, <4>4, <6>1, <6>2
        <5>2. Handing(Relay(t[2])) /\ Ranging(t[2]) /\ at[Relay(t[2])] = u
          BY <1>1, <1>v, <4>4, <5>1 DEF Handing, Ranging
        <5>3. upstream[u] = t[2]
          BY <1>3, <5>2, ServedBy
        <5>4. PICK set \in SUBSET Session : Closed(set) /\ upstream[u] \in set /\ u \notin set
          BY <1>3, <5>3, NoneAssumption DEF NoCycle
        <5>5. frame[t].from \in set
          BY <1>3, <5>1, <5>2, <5>3, <5>4 DEF FromAbove
        <5>6. Run(Append(channel[u], frame[t]), u, n, Produced(u))
          BY <1>3, <1>4, <2>5, <4>4, <5>4, <5>5, RunOther
        <5>7. QED
          BY <1>4, <4>2, <4>4, <5>6
      <4>5. QED
        BY <4>3, <4>4
    <3>3. QED
      BY <3>1, <3>2
  <2>7. Run(channel[u], u, n, Produced(u))'
    BY <2>6 DEF Run
  <2>8. players[u] \subseteq Session /\ at[Relay(u)] \in Session
    BY <1>t, <2>1, MediaTypes
  <2>9. QED
    BY <1>1, <1>5, <1>6, <2>2, <2>4, <2>7, <2>8, PipelineKept
<1>7. QED
  BY <1>6 DEF Pipelines

\* The end of a list hands nothing out.
LEMMA DeliveredKeeps ==
  ASSUME RelayInvariant, ~crashed, Pipelines, NEW t \in Thread, Delivered(t)
  PROVE  Pipelines'
<1>t. TypeOK
  BY DEF RelayInvariant
<1>1. /\ UNCHANGED <<channel, todoFuncs, frame, at, todo, sent, players, stoped, got, queue>>
      /\ pc[t] = "deliver" /\ todoFuncs[t] = << >>
      /\ t[1] # "loop" => pc' = [pc EXCEPT ![t] = "range"]
      /\ t[1] = "loop" => \E p \in {"read", "gone"} : pc' = [pc EXCEPT ![t] = p]
  BY DEF Delivered, Goto, Again, calls, sessions, pushers, maps, playing, media
<1>2. /\ \A u \in Thread \ {t} : pc'[u] = pc[u]
      /\ pc'[t] \in {"range", "read", "gone"} /\ (t[1] # "loop" => pc'[t] = "range")
      /\ \A r : ~Has(todoFuncs[t], r)
  BY <1>1, <1>t, MediaTypes DEF Has
<1>3. \A s \in Session : Received(s)' = Received(s)
  BY <1>1 DEF Received
<1>4. ASSUME NEW u \in Session, NEW n \in 0 .. MaxFrames, Pipeline(u, n) PROVE Pipeline(u, n)'
  <2>1. /\ Loop(u) \in Thread /\ Relay(u) \in Thread /\ Relay(u)[1] = "relay"
        /\ players[u] \subseteq Session /\ at[Relay(u)] \in Session
    BY <1>t, ThreadNames, MediaTypes
  <2>2. (Handing(Loop(u)) /\ Has(todoFuncs[Loop(u)], "pusher"))'
          <=> Handing(Loop(u)) /\ Has(todoFuncs[Loop(u)], "pusher")
    BY <1>1, <1>2, <2>1 DEF Handing, Has
  <2>3. Produced(u)' = Produced(u)
    BY <1>1, <2>2, ProducedKept
  <2>4. Run(channel[u], u, n, Produced(u))'
    BY <1>1, <1>4, <2>3 DEF Pipeline, Run
  <2>5. Ranging(u)' <=> Ranging(u)
    BY <1>1, <1>2, <2>1 DEF Ranging
  <2>6. Carries(u)' <=> Carries(u)
    BY <1>1, <2>5 DEF Carries
  <2>7. \A s \in Session : Pending(u, s)' <=> Pending(u, s)
    BY <1>1, <1>2, <2>1 DEF Pending, Handing, Has
  <2>8. pc'[Relay(u)] = "append" => pc[Relay(u)] = "append"
    BY <1>2, <2>1
  <2>9. QED
    BY <1>1, <1>3, <1>4, <2>1, <2>4, <2>6, <2>7, <2>8, PipelineKept
<1>5. QED
  BY <1>4 DEF Pipelines

\* Taking a frame off the channel puts it before every player that is served.
LEMMA TakeKeeps ==
  ASSUME RelayInvariant, ~crashed, Pipelines, NEW q \in Session, Take(q)
  PROVE  Pipelines'
<1>t. TypeOK /\ MaxFrames \in Nat
  BY QueueAssumption DEF RelayInvariant
<1>1. /\ UNCHANGED <<todoFuncs, at, sent, players, stoped, got, queue>>
      /\ pc[Relay(q)] = "select" /\ channel[q] # << >>
      /\ pc' = [pc EXCEPT ![Relay(q)] = "range"]
      /\ frame' = [frame EXCEPT ![Relay(q)] = Head(channel[q])]
      /\ channel' = [channel EXCEPT ![q] = Tail(@)]
      /\ todo' = [todo EXCEPT ![q] = players[q]]
  BY DEF Take, Goto, sessions, playing, media
<1>2. Relay(q) \in Thread /\ \A s \in Session : Received(s)' = Received(s)
  BY <1>1, ThreadNames DEF Received
<1>3. /\ pc'[Relay(q)] = "range" /\ frame'[Relay(q)] = Head(channel[q])
      /\ channel'[q] = Tail(channel[q]) /\ channel[q] \in Seq(Frame) /\ todo'[q] = players[q]
      /\ \A u \in Thread \ {Relay(q)} : pc'[u] = pc[u] /\ frame'[u] = frame[u]
      /\ \A u \in Session \ {q} : channel'[u] = channel[u] /\ todo'[u] = todo[u]
  BY <1>1, <1>2, <1>t, MediaTypes
<1>4. ASSUME NEW u \in Session PROVE Produced(u)' = Produced(u)
  <2>1. Loop(u) \in Thread /\ Loop(u) # Relay(q)
    BY ThreadNames, Distinct
  <2>2. QED
    BY <1>1, <1>3, <2>1, ProducedKept DEF Handing, Has
<1>5. ASSUME NEW u \in Session, NEW n \in 0 .. MaxFrames, Pipeline(u, n), u # q PROVE Pipeline(u, n)'
  <2>0. Relay(u) \in Thread \ {Relay(q)}
    BY <1>5, ThreadNames
  <2>1. /\ Relay(u) \in Thread \ {Relay(q)} /\ players[u] \subseteq Session
        /\ at[Relay(u)] \in Session
    BY <1>t, <2>0, MediaTypes
  <2>2. Run(channel[u], u, n, Produced(u))'
    BY <1>3, <1>4, <1>5 DEF Pipeline, Run
  <2>3. Carries(u)' <=> Carries(u)
    BY <1>3, <2>1 DEF Carries, Ranging
  <2>4. \A s \in Session : Pending(u, s)' <=> Pending(u, s)
    BY <1>1, <1>3, <1>5, <2>1 DEF Pending, Handing, Has
  <2>5. QED
    BY <1>1, <1>2, <1>3, <1>5, <2>1, <2>2, <2>3, <2>4, PipelineKept
<1>6. ASSUME NEW n \in 0 .. MaxFrames, Pipeline(q, n)
      PROVE  \E m \in 0 .. MaxFrames : Pipeline(q, m)'
  <2>0. PICK f : f = Head(channel[q])
    OBVIOUS
  <2>1. f \in Frame /\ f.from \in Session
    BY <1>1, <1>t, <2>0, TakenFrame, FrameFields
  <2>2. n \in Nat /\ Produced(q) \in Int
    <3>1. sent[q] \in 0 .. MaxFrames
      BY <1>t, MediaTypes
    <3>2. QED
      BY <1>t, <3>1 DEF Produced
  <2>3. /\ f.from # q => Run(Tail(channel[q]), q, n, Produced(q))
        /\ f.from = q => f.seq = n + 1 /\ Run(Tail(channel[q]), q, n + 1, Produced(q))
    BY <1>1, <1>3, <1>6, <2>0, <2>2, RunTail DEF Pipeline
  <2>4. PICK m \in 0 .. MaxFrames : /\ Run(Tail(channel[q]), q, m, Produced(q))
                                   /\ m = IF f.from = q THEN n + 1 ELSE n
    <3>1. f.from = q => n + 1 \in 0 .. MaxFrames
      <4>1. f.seq \in 1 .. MaxFrames
        BY <2>1, FrameFields
      <4>2. QED
        BY <1>t, <2>3, <4>1
    <3>2. CASE f.from = q
      BY <2>3, <3>1, <3>2
    <3>3. CASE f.from # q
      BY <2>3, <3>3
    <3>4. QED
      BY <3>2, <3>3
  <2>5. Run(channel[q], q, m, Produced(q))'
    <3>1. Run(channel'[q], q, m, Produced(q)')
      BY <1>3, <1>4, <2>4
    <3>2. QED
      BY <3>1 DEF Run
  <2>6. ~Carries(q) /\ (Carries(q)' <=> f.from = q)
    BY <1>1, <1>3, <2>0 DEF Carries, Ranging
  <2>7. Carries(q)' => frame'[Relay(q)].seq = m
    BY <1>3, <2>0, <2>3, <2>4, <2>6
  <2>8. ASSUME NEW s \in players[q], ~stoped[s]
        PROVE  \E a \in 0 .. MaxFrames :
                 Run(Received(s)', q, a, IF (Carries(q) /\ Pending(q, s))' THEN m - 1 ELSE m)
    <3>1. PICK a \in 0 .. MaxFrames : Run(Received(s), q, a, n)
      BY <1>6, <2>6, <2>8 DEF Pipeline
    <3>2. Received(s)' = Received(s)
      <4>1. s \in Session
        BY <1>t, <2>8, MediaTypes
      <4>2. QED
        BY <1>2, <4>1
    <3>3. Pending(q, s)'
      BY <1>3, <2>8 DEF Pending
    <3>4. (IF (Carries(q) /\ Pending(q, s))' THEN m - 1 ELSE m) = n
      BY <2>2, <2>4, <2>6, <3>3
    <3>5. QED
      BY <3>1, <3>2, <3>4
  <2>9. \A s \in players'[q] : ~stoped'[s] =>
           \E a \in 0 .. MaxFrames :
             Run(Received(s), q, a, IF Carries(q) /\ Pending(q, s) THEN m - 1 ELSE m)'
    BY <1>1, <2>8 DEF Run
  <2>10. pc'[Relay(q)] # "append"
    BY <1>3
  <2>11. Pipeline(q, m)'
    BY <2>5, <2>7, <2>9, <2>10 DEF Pipeline
  <2>12. QED
    BY <2>11
<1>7. QED
  BY <1>5, <1>6 DEF Pipelines

\* The next player of the range is served, the others still wait.
LEMMA SendKeeps ==
  ASSUME RelayInvariant, ~crashed, InRange, Pipelines, NEW q \in Session, NEW p \in Session, SendFrame(q, p)
  PROVE  Pipelines'
<1>t. TypeOK
  BY DEF RelayInvariant
<1>1. /\ UNCHANGED <<frame, channel, sent, players, stoped, got, queue>>
      /\ pc[Relay(q)] = "range" /\ p \in todo[q]
      /\ pc' = [pc EXCEPT ![Relay(q)] = "deliver"]
      /\ todo' = [todo EXCEPT ![q] = @ \ {p}]
      /\ at' = [at EXCEPT ![Relay(q)] = p]
      /\ todoFuncs' = [todoFuncs EXCEPT ![Relay(q)] = roles[p]]
  BY DEF SendFrame, Goto, sessions, pushers, playing, media
<1>2. Relay(q) \in Thread /\ \A s \in Session : Received(s)' = Received(s)
  BY <1>1, ThreadNames DEF Received
<1>3. /\ pc'[Relay(q)] = "deliver" /\ todo'[q] = todo[q] \ {p}
      /\ at'[Relay(q)] = p /\ todoFuncs'[Relay(q)] = roles[p]
      /\ \A u \in Thread \ {Relay(q)} :
           pc'[u] = pc[u] /\ at'[u] = at[u] /\ todoFuncs'[u] = todoFuncs[u]
      /\ \A u \in Session \ {q} : todo'[u] = todo[u]
  BY <1>1, <1>2, <1>t, MediaTypes
<1>4. Has(roles[p], "player")
  BY <1>1 DEF InRange, Ranging, RelayInvariant, Viewing, Plays
<1>5. ASSUME NEW u \in Session, NEW n \in 0 .. MaxFrames, Pipeline(u, n) PROVE Pipeline(u, n)'
  <2>0. Loop(u) \in Thread \ {Relay(q)} /\ Relay(u) \in Thread /\ (u # q => Relay(u) # Relay(q))
    BY ThreadNames
  <2>1. /\ Loop(u) \in Thread \ {Relay(q)} /\ Relay(u) \in Thread /\ (u # q => Relay(u) # Relay(q))
        /\ players[u] \subseteq Session /\ at[Relay(u)] \in Session
    BY <1>t, <2>0, MediaTypes
  <2>2. Produced(u)' = Produced(u)
    BY <1>1, <1>3, <2>1, ProducedKept DEF Handing, Has
  <2>3. Run(channel[u], u, n, Produced(u))'
    BY <1>1, <1>5, <2>2 DEF Pipeline, Run
  <2>4. Carries(u)' <=> Carries(u)
    BY <1>1, <1>3, <2>1 DEF Carries, Ranging
  <2>5. \A s \in Session : Pending(u, s)' <=> Pending(u, s)
    <3>1. CASE u = q
      BY <1>1, <1>3, <1>4, <3>1 DEF Pending, Handing, Has
    <3>2. CASE u # q
      BY <1>3, <2>1, <3>2 DEF Pending, Handing, Has
    <3>3. QED
      BY <3>1, <3>2
  <2>6. pc'[Relay(u)] = "append" => pc[Relay(u)] = "append" /\ at'[Relay(u)] = at[Relay(u)]
    BY <1>1, <1>3, <2>1
  <2>7. QED
    BY <1>1, <1>2, <1>5, <2>1, <2>3, <2>4, <2>5, <2>6, PipelineKept
<1>6. QED
  BY <1>5 DEF Pipelines

\* When a range ends everybody was served.
LEMMA RangeDoneKeeps ==
  ASSUME RelayInvariant, ~crashed, Pipelines, NEW q \in Session, RangeDone(q)
  PROVE  Pipelines'
<1>t. TypeOK
  BY DEF RelayInvariant
<1>1. /\ UNCHANGED <<todoFuncs, frame, at, channel, sent, players, stoped, got, queue, todo>>
      /\ pc[Relay(q)] = "range" /\ todo[q] = {}
      /\ \E p \in {"gone", "select"} : pc' = [pc EXCEPT ![Relay(q)] = p]
  BY DEF RangeDone, Goto, RelayAgain, calls, sessions, pushers, playing, media
<1>2. Relay(q) \in Thread /\ \A s \in Session : Received(s)' = Received(s)
  BY <1>1, ThreadNames DEF Received
<1>3. /\ pc'[Relay(q)] \in {"gone", "select"}
      /\ \A u \in Thread \ {Relay(q)} : pc'[u] = pc[u]
  BY <1>1, <1>2, <1>t, MediaTypes
<1>4. ASSUME NEW u \in Session, NEW n \in 0 .. MaxFrames, Pipeline(u, n) PROVE Pipeline(u, n)'
  <2>0. Loop(u) \in Thread \ {Relay(q)} /\ Relay(u) \in Thread /\ (u # q => Relay(u) # Relay(q))
    BY ThreadNames
  <2>1. /\ Loop(u) \in Thread \ {Relay(q)} /\ Relay(u) \in Thread /\ (u # q => Relay(u) # Relay(q))
        /\ players[u] \subseteq Session /\ at[Relay(u)] \in Session
    BY <1>t, <2>0, MediaTypes
  <2>2. Produced(u)' = Produced(u)
    BY <1>1, <1>3, <2>1, ProducedKept DEF Handing, Has
  <2>3. Run(channel[u], u, n, Produced(u))'
    BY <1>1, <1>4, <2>2 DEF Pipeline, Run
  <2>4. Carries(u)' => Carries(u)
    BY <1>1, <1>3, <2>1 DEF Carries, Ranging
  <2>5. \A s \in Session : (Carries(u) /\ Pending(u, s))' <=> Carries(u) /\ Pending(u, s)
    <3>1. CASE u = q
      BY <1>1, <1>3, <3>1 DEF Carries, Ranging, Pending, Handing, Has
    <3>2. CASE u # q
      BY <1>1, <1>3, <2>1, <3>2 DEF Carries, Ranging, Pending, Handing, Has
    <3>3. QED
      BY <3>1, <3>2
  <2>6. pc'[Relay(u)] = "append" => pc[Relay(u)] = "append"
    BY <1>3, <2>1
  <2>7. QED
    BY <1>1, <1>2, <1>4, <2>1, <2>3, <2>4, <2>5, <2>6, PipelineKept
<1>5. QED
  BY <1>4 DEF Pipelines


\* A frame that is read is the next one its session is to send on; a session that is no
\* Pusher sends nothing on, and has a pipeline that is always empty.
LEMMA ReadKeeps ==
  ASSUME RelayInvariant, ~crashed, Joined, NothingBefore, Pipelines, NEW q \in Session, ReadFrame(q)
  PROVE  Pipelines'
<1>t. TypeOK /\ MaxFrames \in Nat
  BY QueueAssumption DEF RelayInvariant
<1>1. /\ UNCHANGED <<channel, todo, players, stoped, got, queue>>
      /\ pc[Loop(q)] = "read" /\ sent[q] < MaxFrames
      /\ pc' = [pc EXCEPT ![Loop(q)] = "deliver"]
      /\ frame' = [frame EXCEPT ![Loop(q)] = [from |-> q, seq |-> sent[q] + 1]]
      /\ at' = [at EXCEPT ![Loop(q)] = q]
      /\ todoFuncs' = [todoFuncs EXCEPT ![Loop(q)] = roles[q]]
      /\ sent' = [sent EXCEPT ![q] = @ + 1]
  BY DEF ReadFrame, Goto, sessions, pushers, maps, playing
<1>2. Loop(q) \in Thread /\ \A s \in Session : Received(s)' = Received(s)
  BY <1>1, ThreadNames DEF Received
<1>3. /\ pc'[Loop(q)] = "deliver" /\ todoFuncs'[Loop(q)] = roles[q]
      /\ sent'[q] = sent[q] + 1 /\ sent[q] \in Nat /\ sent[q] + 1 \in 0 .. MaxFrames
      /\ \A t \in Thread \ {Loop(q)} : /\ pc'[t] = pc[t] /\ frame'[t] = frame[t]
                                       /\ at'[t] = at[t] /\ todoFuncs'[t] = todoFuncs[t]
      /\ \A u \in Session \ {q} : sent'[u] = sent[u]
  BY <1>1, <1>2, <1>t, MediaTypes
\* A pipeline whose last frame sent on stays the same.
<1>4. ASSUME NEW u \in Session, NEW n \in 0 .. MaxFrames, Pipeline(u, n), Produced(u)' = Produced(u)
      PROVE  Pipeline(u, n)'
  <2>0. Relay(u) \in Thread \ {Loop(q)}
    BY ThreadNames
  <2>1. players[u] \subseteq Session /\ at[Relay(u)] \in Session
    BY <1>t, <2>0, MediaTypes
  <2>2. Run(channel[u], u, n, Produced(u))'
    BY <1>1, <1>4 DEF Pipeline, Run
  <2>3. Carries(u)' <=> Carries(u)
    BY <1>3, <2>0 DEF Carries, Ranging
  <2>4. \A s \in Session : Pending(u, s)' <=> Pending(u, s)
    BY <1>1, <1>3, <2>0 DEF Pending, Handing, Has
  <2>5. QED
    BY <1>1, <1>2, <1>3, <1>4, <2>0, <2>1, <2>2, <2>3, <2>4, PipelineKept
<1>5. ASSUME NEW u \in Session, u # q PROVE Produced(u)' = Produced(u)
  <2>1. Loop(u) \in Thread \ {Loop(q)}
    BY <1>5, ThreadNames
  <2>2. QED
    BY <1>3, <1>5, <2>1, ProducedKept DEF Handing, Has
<1>6. CASE Pushes(q)
  <2>1. Produced(q) = sent[q]
    BY <1>1 DEF Produced, Handing
  <2>2. Produced(q)' = sent'[q] - 1
    BY <1>3, <1>6 DEF Produced, Handing, Pushes, Has
  <2>3. Produced(q)' = Produced(q)
    BY <1>3, <2>1, <2>2
  <2>4. QED
    BY <1>4, <1>5, <2>3 DEF Pipelines
<1>7. CASE ~Pushes(q)
  <2>1. channel[q] = << >> /\ pc[Relay(q)] = "none"
    BY <1>7 DEF NothingBefore, Joined
  <2>2. players[q] = {}
    <3>1. players[q] \subseteq Session
      BY <1>t, MediaTypes
    <3>2. QED
      BY <1>7, <3>1, NoneAssumption DEF Joined
  <2>3. Produced(q)' = sent[q] + 1
    BY <1>3, <1>7 DEF Produced, Handing, Pushes, Has
  <2>4. ~Carries(q)'
    <3>1. Relay(q) \in Thread \ {Loop(q)}
      BY ThreadNames
    <3>2. QED
      BY <1>3, <2>1, <3>1 DEF Carries, Ranging
  <2>5. PICK m \in 0 .. MaxFrames : m = sent[q] + 1
    BY <1>3
  <2>6. Run(channel'[q], q, m, Produced(q)')
    BY <1>1, <1>t, <2>1, <2>3, <2>5, RunEmpty
  <2>7. Run(channel[q], q, m, Produced(q))'
    BY <2>6 DEF Run
  <2>8. Pipeline(q, m)'
    BY <1>1, <2>2, <2>4, <2>7 DEF Pipeline
  <2>9. QED
    BY <1>4, <1>5, <2>8 DEF Pipelines
<1>8. QED
  BY <1>6, <1>7

\* A player joins between two ranges, and from the next frame on.
LEMMA AttachKeeps ==
  ASSUME RelayInvariant, ~crashed, InRange, NothingBefore, Pipelines, NEW v \in Session, Attach(v)
  PROVE  Pipelines'
<1>t. TypeOK /\ MaxFrames \in Nat
  BY QueueAssumption DEF RelayInvariant
<1>1. /\ UNCHANGED <<todoFuncs, frame, at, channel, todo, sent, stoped, got, queue>>
      /\ pc[Loop(v)] = "describe" /\ ~readLock[upstream[v]]
      /\ players' = [players EXCEPT ![upstream[v]] = @ \cup {v}]
      /\ \E p \in {"read", "gone"} : pc' = [pc EXCEPT ![Loop(v)] = p]
  BY DEF Attach, Goto, Again, calls, pushers, playing, media
<1>2. Loop(v) \in Thread /\ \A s \in Session : Received(s)' = Received(s)
  BY <1>1, ThreadNames DEF Received
<1>3. PICK q \in Session : q = upstream[v]
  BY <1>1, <1>t DEF RelayInvariant, Viewing, TypeOK, PlayerTypeOK
<1>4. Received(v) = << >>
  BY <1>1 DEF RelayInvariant, Viewing, NothingBefore
<1>5. /\ pc'[Loop(v)] \in {"read", "gone"} /\ \A t \in Thread \ {Loop(v)} : pc'[t] = pc[t]
      /\ players'[q] = players[q] \cup {v}
      /\ \A u \in Session \ {q} : players'[u] = players[u]
  BY <1>1, <1>2, <1>3, <1>t, MediaTypes
<1>6. ~Ranging(q)
  BY <1>1, <1>3 DEF InRange
<1>7. ASSUME NEW u \in Session, NEW n \in 0 .. MaxFrames, Pipeline(u, n) PROVE Pipeline(u, n)'
  <2>0. Relay(u) \in Thread \ {Loop(v)} /\ Loop(u) \in Thread
    BY ThreadNames
  <2>1. players[u] \subseteq Session /\ at[Relay(u)] \in Session
    BY <1>t, <2>0, MediaTypes
  <2>2. Handing(Loop(u))' <=> Handing(Loop(u))
    BY <1>1, <1>5, <2>0 DEF Handing
  <2>3. Produced(u)' = Produced(u)
    BY <1>1, <2>2, ProducedKept DEF Has
  <2>4. Run(channel[u], u, n, Produced(u))'
    BY <1>1, <1>7, <2>3 DEF Pipeline, Run
  <2>5. Carries(u)' <=> Carries(u)
    BY <1>1, <1>5, <2>0 DEF Carries, Ranging
  <2>6. CASE u # q
    <3>1. \A s \in Session : Pending(u, s)' <=> Pending(u, s)
      BY <1>1, <1>5, <2>0 DEF Pending, Handing, Has
    <3>2. QED
      BY <1>1, <1>2, <1>5, <1>7, <2>0, <2>1, <2>4, <2>5, <2>6, <3>1, PipelineKept
  <2>7. CASE u = q
    <3>1. ~Carries(u) /\ ~Carries(u)'
      BY <1>6, <2>5, <2>7 DEF Carries
    <3>2. ASSUME NEW s \in players'[u], ~stoped'[s]
          PROVE  \E a \in 0 .. MaxFrames : Run(Received(s)', u, a, n)
      <4>1. CASE s \in players[u]
        <5>1. \E a \in 0 .. MaxFrames : Run(Received(s), u, a, n)
          BY <1>1, <1>7, <3>1, <3>2, <4>1 DEF Pipeline
        <5>2. QED
          BY <1>2, <2>1, <4>1, <5>1
      <4>2. CASE s \notin players[u]
        <5>1. s = v
          BY <1>5, <2>7, <3>2, <4>2
        <5>2. Received(s)' = << >>
          BY <1>2, <1>4, <5>1
        <5>3. Run(<< >>, u, n, n)
          BY <1>t, RunEmpty
        <5>4. QED
          BY <5>2, <5>3
      <4>3. QED
        BY <4>1, <4>2
    <3>3. \A s \in players'[u] : ~stoped'[s] =>
            \E a \in 0 .. MaxFrames :
              Run(Received(s), u, a, IF Carries(u) /\ Pending(u, s) THEN n - 1 ELSE n)'
      BY <3>1, <3>2 DEF Run
    <3>4. QED
      BY <2>4, <3>1, <3>3 DEF Pipeline
  <2>8. QED
    BY <2>6, <2>7
<1>8. QED
  BY <1>7 DEF Pipelines

\* Every step that leaves the process alive keeps the pipelines.
LEMMA PipelinesStep ==
  ASSUME RelayInvariant, Runs, Joined, InRange, InHand, NothingBefore, NoCycle, FromAbove, Pipelines,
         Next, ~crashed'
  PROVE  Pipelines'
<1>t. ~crashed /\ TypeOK
  BY AliveStep DEF RelayInvariant
<1>1. CASE \A t \in Thread : ~Serves(t)
  BY <1>t, <1>1, QuietSteps, QuietPipelines
<1>2. ASSUME NEW t \in Thread, Serves(t) PROVE Pipelines'
  <2>0. t[2] \in Session
    BY ThreadSession
  <2>1. CASE Offer(t)
    BY <1>t, <2>1, OfferKeeps
  <2>2. CASE AppendFrame(t)
    BY <1>t, <2>2, AppendKeeps
  <2>3. CASE Enqueue(t)
    BY <1>t, <2>3, EnqueueKeeps
  <2>4. CASE Delivered(t)
    BY <1>t, <2>4, DeliveredKeeps
  <2>5. CASE Take(t[2])
    BY <1>t, <2>0, <2>5, TakeKeeps
  <2>6. CASE RangeDone(t[2])
    BY <1>t, <2>0, <2>6, RangeDoneKeeps
  <2>7. CASE \E p \in Session : SendFrame(t[2], p)
    BY <1>t, <2>0, <2>7, SendKeeps
  <2>8. CASE ReadFrame(t[2])
    BY <1>t, <2>0, <2>8, ReadKeeps
  <2>9. CASE Attach(t[2])
    BY <1>t, <2>0, <2>9, AttachKeeps
  <2>10. QED
    BY <1>2, <2>1, <2>2, <2>3, <2>4, <2>5, <2>6, <2>7, <2>8, <2>9 DEF Serves
<1>3. QED
  BY <1>1, <1>2

\* Every step keeps what was handed to players without a gap.
LEMMA RunsStep ==
  ASSUME RelayInvariant, DeliveryInvariant, Next
  PROVE  Runs'
<1>t. ~crashed /\ TypeOK /\ MaxFrames \in Nat /\ upstream \in [Session -> Session \cup {None}]
  BY AliveStep, QueueAssumption DEF RelayInvariant, TypeOK, PlayerTypeOK
<1>n. \A t \in Thread : t[2] \in Session
  BY ThreadSession
<1>s. ASSUME upstream' = upstream, \A s \in Session : Received(s)' = Received(s)
      PROVE  Runs'
  <2>1. ASSUME NEW s \in Session
        PROVE  \E a, b \in 0 .. MaxFrames : Run(Received(s), upstream[s], a, b)'
    <3>1. PICK a, b \in 0 .. MaxFrames : Run(Received(s), upstream[s], a, b)
      BY DEF DeliveryInvariant, Runs
    <3>2. Run(Received(s)', upstream'[s], a, b)
      BY <1>s, <3>1
    <3>3. QED
      BY <3>2 DEF Run
  <2>2. QED
    BY <2>1 DEF Runs
<1>h. UNCHANGED <<got, queue, upstream>> => Runs'
  <2>1. UNCHANGED <<got, queue>> => \A s \in Session : Received(s)' = Received(s)
    BY DEF Received
  <2>2. QED
    BY <1>s, <2>1
<1>1. ASSUME NEW t \in Thread, AppendFrame(t) PROVE Runs'
  BY <1>t, <1>1, AppendKeeps DEF DeliveryInvariant
<1>2. ASSUME NEW s \in Session, WriteFrame(s) PROVE Runs'
  <2>1. upstream' = upstream
    BY <1>2 DEF WriteFrame
  <2>2. QED
    BY <1>s, <1>t, <1>2, <2>1, WriteMoves
<1>3. ASSUME NEW v \in Session, NEW c \in Channel, Describe(v, c) PROVE Runs'
  <2>1. UNCHANGED <<got, queue>> /\ \A s \in Session \ {v} : upstream'[s] = upstream[s]
    BY <1>t, <1>3 DEF Describe, media
  <2>2. Received(v) = << >>
    BY <1>t, <1>3, NoPusherDescribes DEF DeliveryInvariant, NothingBefore
  <2>3. ASSUME NEW s \in Session
        PROVE  \E a, b \in 0 .. MaxFrames : Run(Received(s), upstream[s], a, b)'
    <3>1. Received(s)' = Received(s)
      BY <2>1 DEF Received
    <3>2. CASE s = v
      <4>1. Run(<< >>, upstream'[s], 0, 0)
        BY RunEmpty
      <4>2. Run(Received(s)', upstream'[s], 0, 0)
        BY <2>2, <3>1, <3>2, <4>1
      <4>3. 0 \in 0 .. MaxFrames
        BY <1>t
      <4>4. QED
        BY <4>2, <4>3 DEF Run
    <3>3. CASE s # v
      <4>1. PICK a, b \in 0 .. MaxFrames : Run(Received(s), upstream[s], a, b)
        BY DEF DeliveryInvariant, Runs
      <4>2. Run(Received(s)', upstream'[s], a, b)
        BY <2>1, <3>1, <3>3, <4>1
      <4>3. QED
        BY <4>2 DEF Run
    <3>4. QED
      BY <3>2, <3>3
  <2>4. QED
    BY <2>3 DEF Runs
<1> USE DEF playing, media
<1>4. ASSUME NEW t \in Thread, Proceed(t)
      PROVE  UNCHANGED <<got, queue, upstream>> \/ WriteFrame(t[2])
  <2>1. CASE Offer(t) \/ Delivered(t) \/ Stop(t) \/ Unregister(t) \/ HooksDone(t)
    BY <2>1 DEF Offer, Delivered, Stop, Unregister, HooksDone
  <2>2. CASE Mark(t) \/ CloseExit(t) \/ Close(t)
    BY <2>2 DEF Mark, CloseExit, Close
  <2>3. CASE RelayEnds(t[2]) \/ RangeDone(t[2]) \/ \E p \in Session : SendFrame(t[2], p)
    BY <2>3 DEF RelayEnds, RangeDone, SendFrame
  <2>4. CASE ReceiverTop(t[2]) \/ BreakOut(t[2])
    BY <2>4 DEF ReceiverTop, BreakOut
  <2>5. QED
    BY <1>4, <2>1, <2>2, <2>3, <2>4 DEF Proceed
<1>5. ASSUME NEW t \in Thread, Acquire(t)
      PROVE  UNCHANGED <<got, queue, upstream>> \/ AppendFrame(t)
  BY <1>5 DEF Acquire, Enqueue, Broadcast, Detach, Attach, Take, LockOrWait, Woken
<1>6. ASSUME NEW s \in Session, Client(s)
      PROVE  UNCHANGED <<got, queue, upstream>> \/ \E c \in Channel : Describe(s, c)
  BY <1>6 DEF Client, Announce, Record, Play, Teardown, ReadFails, ReadFrame
<1>7. QED
  BY <1>h, <1>n, <1>1, <1>2, <1>3, <1>4, <1>5, <1>6 DEF Next

-----------------------------------------------------------------------------
\* Initially nobody has sent or was handed a frame.
LEMMA DeliveryInit ==
  Init => DeliveryInvariant
<1> SUFFICES ASSUME Init PROVE DeliveryInvariant
  OBVIOUS
<1>0. MaxFrames \in Nat /\ 0 \in 0 .. MaxFrames
  BY QueueAssumption
<1>t. TypeOK /\ ~crashed
  BY InitInvariant DEF RelayInvariant, Init
<1>1. \A s \in Session :
        /\ channel[s] = << >> /\ players[s] = {} /\ upstream[s] = None /\ sent[s] = 0
        /\ got[s] = << >> /\ queue[s] = << >>
  BY DEF Init
<1>2. /\ \A t \in Thread : pc[t] \in {"read", "none"}
      /\ \A s \in Session : pc[Relay(s)] = "none"
  BY ThreadNames DEF Init
<1>3. \A t \in Thread : ~Handing(t)
  BY <1>2 DEF Handing
<1>4. \A s \in Session : ~Ranging(s)
  BY <1>2 DEF Ranging
<1>5. \A s \in Session : Received(s) = << >>
  BY <1>1 DEF Received
<1>6. Runs
  BY <1>0, <1>5, RunEmpty DEF Runs
<1>7. Joined
  BY <1>1, <1>2 DEF Joined
<1>8. InRange /\ InHand
  BY <1>3, <1>4 DEF InRange, InHand
<1>9. NothingBefore
  BY <1>1, <1>5 DEF NothingBefore
<1>10. NoCycle
  BY <1>1 DEF NoCycle
<1>11. FromAbove
  BY <1>1, <1>4 DEF FromAbove
<1>12. Pipelines
  <2>1. ASSUME NEW u \in Session PROVE Pipeline(u, 0)
    <3>1. Produced(u) = 0
      <4>1. ~Handing(Loop(u))
        BY <1>3, ThreadNames
      <4>2. QED
        BY <1>1, <4>1 DEF Produced
    <3>2. Run(channel[u], u, 0, Produced(u))
      BY <1>1, <3>1, RunEmpty
    <3>3. QED
      BY <1>1, <1>4, <3>2 DEF Pipeline, Carries
  <2>2. QED
    BY <1>0, <2>1 DEF Pipelines
<1>13. QED
  BY <1>6, <1>7, <1>8, <1>9, <1>10, <1>11, <1>12 DEF DeliveryInvariant

\* Every step keeps the parts of the invariant.
LEMMA DeliveryStep ==
  RelayInvariant /\ DeliveryInvariant /\ [Next]_vars => DeliveryInvariant'
<1> SUFFICES ASSUME RelayInvariant, DeliveryInvariant, [Next]_vars PROVE DeliveryInvariant'
  OBVIOUS
<1>1. CASE Next
  <2>1. Runs'
    BY <1>1, RunsStep
  <2>2. ASSUME ~crashed'
        PROVE  (/\ Joined /\ InRange /\ InHand /\ NothingBefore
                /\ NoCycle /\ FromAbove /\ Pipelines)'
    <3>1. ~crashed
      BY <1>1, AliveStep
    <3>2. Runs /\ Joined /\ InRange /\ InHand /\ NothingBefore /\ NoCycle /\ FromAbove /\ Pipelines
      BY <3>1 DEF DeliveryInvariant
    <3>3. Joined' /\ NoCycle'
      BY <1>1, <2>2, <3>2, JoinedStep, UpstreamStep
    <3>4. InRange' /\ InHand'
      BY <1>1, <2>2, <3>2, InRangeStep, InHandStep
    <3>5. NothingBefore' /\ FromAbove'
      BY <1>1, <2>2, <3>2, NothingBeforeStep, FromAboveStep
    <3>6. Pipelines'
      BY <1>1, <2>2, <3>2, PipelinesStep
    <3>7. QED
      BY <3>3, <3>4, <3>5, <3>6
  <2>3. QED
    BY <2>1, <2>2 DEF DeliveryInvariant
<1>2. CASE UNCHANGED vars
  <2>1. /\ UNCHANGED <<pc, frame, at, todoFuncs, roles, stoped, channel, players, readLock, todo>>
        /\ UNCHANGED <<upstream, queue, sent, got, crashed>>
    BY <1>2 DEF vars, calls, sessions, pushers, maps, playing, media
  <2>2. /\ \A s \in Session : /\ Received(s)' = Received(s) /\ Produced(s)' = Produced(s)
                              /\ Plays(s)' = Plays(s) /\ Pushes(s)' = Pushes(s)
                              /\ Ranging(s)' = Ranging(s) /\ Carries(s)' = Carries(s)
        /\ \A t : Handing(t)' = Handing(t)
    BY <2>1 DEF Received, Produced, Plays, Pushes, Ranging, Carries, Handing, Has
  <2>3. Runs' = Runs
    BY <2>1 DEF Runs, Run, Received
  <2>4. /\ Joined' = Joined /\ InRange' = InRange /\ InHand' = InHand
        /\ NothingBefore' = NothingBefore /\ NoCycle' = NoCycle /\ FromAbove' = FromAbove
    BY <2>1 DEF Joined, InRange, InHand, NothingBefore, NoCycle, FromAbove, Closed, Received, Plays,
       Pushes, Has, Ranging, Handing
  <2>5. Pipelines' = Pipelines
    BY <2>1 DEF Pipelines, Pipeline, Run, Produced, Carries, Pending, Ranging, Handing, Has, Received
  <2>6. QED
    BY <2>1, <2>3, <2>4, <2>5 DEF DeliveryInvariant
<1>3. QED
  BY <1>1, <1>2

(***************************************************************************)
(* DeliveryInvariant holds of every reachable state: the frames of every   *)
(* publisher pass from ReceiveRtp's channel to its players' queues and on  *)
(* to their clients without a gap, for as long as the process lives.       *)
(***************************************************************************)
THEOREM FramesFlow ==
  Spec => []DeliveryInvariant
<1>1. Spec => []RelayInvariant
  BY Invariance
<1>2. QED
  BY <1>1, DeliveryInit, DeliveryStep, PTL DEF Spec

(***************************************************************************)
(* Whatever receiverFrame has written to the client of a session, and will *)
(* write, holds the frames of the stream it plays in the order the         *)
(* publisher sent them, none missing and none twice from the first one on. *)
(***************************************************************************)
THEOREM FramesArriveInOrder ==
  Spec => []FramesInOrder
<1>1. RelayInvariant /\ DeliveryInvariant => FramesInOrder
  <2> SUFFICES ASSUME RelayInvariant, DeliveryInvariant, NEW s \in Session
               PROVE  Consecutive(Received(s), upstream[s])
    BY DEF FramesInOrder
  <2>1. PICK a, b \in 0 .. MaxFrames : Run(Received(s), upstream[s], a, b)
    BY DEF DeliveryInvariant, Runs
  <2>2. a \in Nat /\ b \in Nat /\ Received(s) \in Seq(Frame)
    BY ReceivedType, QueueAssumption DEF RelayInvariant
  <2>3. QED
    BY <2>1, <2>2, RunConsecutive
<1>2. QED
  BY <1>1, Invariance, FramesFlow, PTL
==============================================================================
