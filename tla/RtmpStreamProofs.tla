-------------------------- MODULE RtmpStreamProofs --------------------------
(***************************************************************************)
(* For every set of payloads, every chunk size and every interleaving: the *)
(* server is the client delayed by the chunks on their way.                *)
(***************************************************************************)
EXTENDS RtmpStream, ChunkFormatProofs

-----------------------------------------------------------------------------
(* The inductive invariant.                                                *)

ByteSeq == Seq(0 .. 255)
Bodies == {m \in [typeId : 0 .. 255, streamId : {0, 1}, timestamp : Nat, data : ByteSeq] :
             Len(m.data) <= Mark}
Messages == [typeId : 0 .. 255, streamId : {0, 1}, timestamp : Nat, data : ByteSeq, csId : Nat]
Priors == [known : BOOLEAN, step : Nat, m : Messages]
MomentSet == [at : Int, size : Nat \ {0}, prior : [CsIds -> Priors],
              pending : [CsIds -> ByteSeq], count : Nat]

\* What the client remembers of a chunk stream is a message it may send.
PriorOK(cs, p) ==
  p.known => /\ ChunkMessage(p.m) /\ p.m.csId = cs /\ p.step < Mark
             /\ p.m.typeId = SetChunkSize => ReadBE(p.m.data, 0, 4) \in Nat \ {0}

MomentOK(a) ==
  /\ a \in MomentSet
  /\ \A cs \in CsIds : PriorOK(cs, a.prior[cs]) /\ (a.pending[cs] # << >> => a.prior[cs].known)

ChunkOK(c) ==
  /\ c.extend = FALSE /\ c.timestamp \in Nat /\ c.length \in Nat
  /\ c.typeId \in 0 .. 255 /\ c.streamId \in Nat
  /\ c.remain \in Nat /\ c.data \in ByteSeq /\ Len(c.data) + c.remain = c.length

Typed ==
  /\ up \in ByteSeq /\ flight \in Seq(MomentSet) /\ sent \in Seq(Bodies)
  /\ aborted \in BOOLEAN /\ phase \in {"reading", "ended"}
  /\ peerSize \in Nat \ {0}
  /\ \A k \in DOMAIN chunks : ChunkOK(chunks[k])

MomentsOK ==
  \A k \in DOMAIN Moments : MomentOK(Moments[k]) /\ Moments[k].count <= Len(sent)

\* readMsg's messages are the first of those sent.
Prefix == Len(received) \in 0 .. Len(sent) /\ received = SubSeq(sent, 1, Len(received))

\* The chunks lie on the wire one behind the other.
Ordered ==
  phase = "reading" =>
    \A k \in DOMAIN Moments :
      /\ Moments[k].at \in Nat /\ Moments[k].at <= Len(up)
      /\ \A j \in DOMAIN Moments : j < k => Moments[j].at < Moments[k].at

StreamInv ==
  /\ Typed /\ MomentsOK /\ Prefix /\ Ordered
  /\ ServerLagsClient /\ EndsForAReason

-----------------------------------------------------------------------------
(* Moments and prefixes.                                                   *)

LEMMA MomentsAre ==
  ASSUME NEW S, flight \in Seq(S)
  PROVE  /\ DOMAIN Moments = 1 .. Len(flight) + 1
         /\ \A k \in 1 .. Len(flight) : Moments[k] = flight[k]
         /\ Moments[Len(flight) + 1] = Moment
<1>1. PICK a : a = Moment
  OBVIOUS
<1>2. PICK z : z = Append(flight, a)
  OBVIOUS
<1>3. /\ DOMAIN z = 1 .. Len(flight) + 1
      /\ \A k \in 1 .. Len(flight) : z[k] = flight[k]
      /\ z[Len(flight) + 1] = a
  BY <1>2
<1>4. QED
  BY <1>1, <1>2, <1>3 DEF Moments

Extended(st, longer) ==
  Len(st) <= Len(longer) /\ \A i \in 1 .. Len(st) : longer[i] = st[i]

LEMMA FirstsKept ==
  ASSUME NEW S, NEW st \in Seq(S), NEW longer \in Seq(S), Extended(st, longer),
         NEW n \in 0 .. Len(st)
  PROVE  SubSeq(longer, 1, n) = SubSeq(st, 1, n)
<1>1. Len(st) \in Nat /\ Len(longer) \in Nat
  BY LenProperties
<1>2. /\ \A i \in 1 .. n : st[i] \in S /\ longer[i] \in S /\ longer[i] = st[i]
      /\ n \in Nat /\ n <= Len(st)
  BY <1>1 DEF Extended
<1>3. PICK x : x = SubSeq(st, 1, n)
  OBVIOUS
<1>4. PICK y : y = SubSeq(longer, 1, n)
  OBVIOUS
<1>5. x \in Seq(S) /\ Len(x) = n /\ \A i \in 1 .. n : x[i] = st[i]
  BY <1>2, <1>3, SubSeqProperties
<1>6. y \in Seq(S) /\ Len(y) = n /\ \A i \in 1 .. n : y[i] = longer[i]
  BY <1>2, <1>4, SubSeqProperties
<1>7. x = y
  <2>1. x \in Seq(S)
    BY <1>5
  <2>2. y \in Seq(S)
    BY <1>6
  <2>3. Len(x) = Len(y) /\ \A i \in 1 .. Len(x) : x[i] = y[i]
    BY <1>2, <1>5, <1>6
  <2>4. QED
    BY <2>1, <2>2, <2>3, SeqEqual
<1>8. QED
  BY <1>3, <1>4, <1>7

-----------------------------------------------------------------------------
(* The client sends a chunk.                                               *)

LEMMA HeadBytes ==
  ASSUME NEW format \in 0 .. 3, NEW m, ChunkMessage(m), NEW time \in Nat, time < Mark
  PROVE  ClientHead(format, m, time) \in ByteSeq /\ Len(ClientHead(format, m, time)) \in Nat \ {0}
<1>1. PICK h : h = ClientHead(format, m, time)
  OBVIOUS
<1>2. PICK y : y = Basic(format, m.csId)
  OBVIOUS
<1>3. PICK f : f = Fields(format, m, time)
  OBVIOUS
<1>4. HeadJoins(h, y, f)
  BY <1>1, <1>2, <1>3, ClientHeadBytes
<1>5. h \in Seq(0 .. 255) /\ f \in Seq(0 .. 255) /\ Len(h) = Len(y) + Len(f) /\ Len(y) \in 1 .. 3
  BY <1>4 DEF HeadJoins
<1>6. Len(f) \in Nat
  BY <1>5, LenProperties
<1>7. Len(h) \in Nat \ {0}
  <2>1. PICK u \in 1 .. 3, v \in Nat : u = Len(y) /\ v = Len(f) /\ Len(h) = u + v
    BY <1>5, <1>6
  <2>2. QED
    BY <2>1
<1>8. QED
  BY <1>1, <1>5, <1>7 DEF ByteSeq

LEMMA ChunkLengthens ==
  ASSUME NEW a, NEW b, NEW cs \in CsIds, NEW format \in 0 .. 3,
         MomentOK(a), MomentOK(b), MessageAdvances(a, b, cs)
  PROVE  LET bytes == ClientHead(format, b.prior[cs].m, b.prior[cs].step) \o Piece(a, b, cs)
         IN bytes \in ByteSeq /\ Len(bytes) \in Nat \ {0}
<1> DEFINE m == b.prior[cs].m
           h == ClientHead(format, m, b.prior[cs].step)
           p == Piece(a, b, cs)
<1>1. b.prior[cs] \in Priors /\ a.pending[cs] \in ByteSeq /\ a.size \in Nat
  BY DEF MomentOK, MomentSet
<1>2. ChunkMessage(m) /\ b.prior[cs].step \in Nat /\ b.prior[cs].step < Mark /\ m.data \in ByteSeq
  BY <1>1 DEF MomentOK, PriorOK, MessageAdvances, Priors, Messages
<1>4. h \in Seq(0 .. 255) /\ Len(h) \in Nat \ {0}
  BY <1>2, HeadBytes DEF ByteSeq
<1>5. p \in Seq(0 .. 255)
  <2>1. PICK rest : rest = Rest(a, b, cs)
    OBVIOUS
  <2>2. rest \in Seq(0 .. 255)
    BY <1>1, <1>2, <2>1 DEF Rest, ByteSeq
  <2>3. Slice(rest, 0, a.size) \in Seq(0 .. 255)
    BY <1>1, <2>2, SliceBytes
  <2>4. QED
    BY <2>1, <2>3 DEF Piece
<1> HIDE DEF h, p
<1>6. PICK z : z = h \o p
  OBVIOUS
<1>7. z \in Seq(0 .. 255) /\ Len(z) = Len(h) + Len(p)
  <2>1. h \in Seq(0 .. 255)
    BY <1>4
  <2>2. QED
    BY <1>5, <1>6, <2>1, Joined
<1>8. Len(p) \in Nat
  BY <1>5, LenProperties
<1>9. z \in ByteSeq /\ Len(z) \in Nat \ {0}
  BY <1>4, <1>7, <1>8 DEF ByteSeq
<1>10. QED
  BY <1>6, <1>9 DEF h, p, m

\* What is on its way stays so while the client sends: its bytes stay where they
\* are, the messages counted stay counted, and giving up is for good.
LEMMA BetweenStays ==
  ASSUME NEW a, NEW b, MomentOK(a), MomentOK(b), a.at \in Nat, b.count <= Len(sent),
         up \in ByteSeq, sent \in Seq(Bodies), Len(sent') \in Nat,
         NEW x \in ByteSeq, up' = up \o x, Extended(sent, sent'), aborted => aborted',
         ChunkBetween(a, b)
  PROVE  ChunkBetween(a, b)'
<1>1. PICK cs \in CsIds, format \in 0 .. 3 :
        /\ HeadFits(a, b, cs, format) /\ MessageAdvances(a, b, cs)
        /\ OthersKept(a, b, cs) /\ BytesCarried(a, b, cs, format)
  BY DEF ChunkBetween
<1>2. MessageAdvances(a, b, cs)'
  <2>1. a.count \in Nat /\ b.count \in Nat
    BY DEF MomentOK, MomentSet
  <2>2. b.count = a.count + 1 => sent'[b.count] = sent[b.count]
    BY <2>1 DEF Extended
  <2>3. QED
    BY <1>1, <2>1, <2>2 DEF MessageAdvances
<1>3. OthersKept(a, b, cs)'
  BY <1>1 DEF OthersKept
<1>4. BytesCarried(a, b, cs, format)'
  <2> DEFINE bytes == ClientHead(format, b.prior[cs].m, b.prior[cs].step) \o Piece(a, b, cs)
  <2>1. bytes \in ByteSeq /\ Len(bytes) \in Nat \ {0}
    BY <1>1, ChunkLengthens
  <2>2. b.at = a.at + Len(bytes) /\ Slice(up, a.at, Len(bytes)) = bytes
    BY <1>1 DEF BytesCarried
  <2> HIDE DEF bytes
  <2>3. bytes \in Seq(0 .. 255) /\ up \in Seq(0 .. 255) /\ x \in Seq(0 .. 255)
    BY <2>1 DEF ByteSeq
  <2>4. Placed(up, a.at, bytes)
    BY <2>1, <2>2, <2>3, SlicePlaced
  <2>5. Placed(up \o x, a.at, bytes)
    BY <2>3, <2>4, PlacedMoves
  <2>6. Slice(up \o x, a.at, Len(bytes)) = bytes
    <3>1. PICK z : z = up \o x
      OBVIOUS
    <3>2. z \in Seq(0 .. 255)
      BY <2>3, <3>1, Joined
    <3>3. QED
      BY <2>3, <2>5, <3>1, <3>2, SlicePlaced, ZenonT(60)
  <2>7. b.at = a.at + Len(bytes) /\ Slice(up', a.at, Len(bytes)) = bytes
    BY <2>2, <2>6
  <2>8. QED
    BY <2>7 DEF BytesCarried, bytes
<1>5. HeadFits(a, b, cs, format)'
  BY <1>1 DEF HeadFits
<1>6. QED
  BY <1>1, <1>2, <1>3, <1>4, <1>5 DEF ChunkBetween

LEMMA Sends ==
  ASSUME StreamInv, NEW x \in ByteSeq, NEW a, NEW b, NEW cs \in CsIds, NEW format \in 0 .. 3,
         a = Moment, b = Moment', up' = up \o x, x # << >>, flight' = Append(flight, Moment),
         sent' \in Seq(Bodies), Extended(sent, sent'), b.count <= Len(sent'),
         aborted' \in BOOLEAN, aborted => aborted', UNCHANGED server,
         MomentOK(b), HeadFits(a, b, cs, format),
         MessageAdvances(a, b, cs)', OthersKept(a, b, cs)', BytesCarried(a, b, cs, format)'
  PROVE  StreamInv'
<1>0. /\ up \in ByteSeq /\ flight \in Seq(MomentSet) /\ sent \in Seq(Bodies)
      /\ aborted \in BOOLEAN /\ phase \in {"reading", "ended"} /\ peerSize \in Nat \ {0}
      /\ \A k \in DOMAIN chunks : ChunkOK(chunks[k])
  BY DEF StreamInv, Typed
<1>1. Len(flight) \in Nat
  BY <1>0, LenProperties
<1>1a. PICK n \in Nat : n = Len(flight)
  BY <1>1
<1>2. /\ DOMAIN Moments = 1 .. n + 1
      /\ \A k \in 1 .. n : Moments[k] = flight[k]
      /\ Moments[n + 1] = a
  BY <1>0, <1>1a, MomentsAre
<1>3. \A k \in 1 .. n + 1 : MomentOK(Moments[k]) /\ Moments[k].count <= Len(sent)
  BY <1>2 DEF StreamInv, MomentsOK
<1>4. MomentOK(a) /\ a \in MomentSet
  <2>1. MomentOK(a)
    BY <1>1a, <1>2, <1>3
  <2>2. QED
    BY <2>1 DEF MomentOK
<1>5. /\ flight' \in Seq(MomentSet) /\ Len(flight') = n + 1
      /\ \A k \in 1 .. n : flight'[k] = flight[k]
      /\ flight'[n + 1] = a
  BY <1>0, <1>1a, <1>4
<1>6. PICK old : old = Moments
  OBVIOUS
<1>7. PICK new : new = Moments'
  OBVIOUS
<1>8. /\ DOMAIN new = 1 .. n + 2
      /\ \A k \in 1 .. n + 1 : new[k] = flight'[k]
      /\ new[n + 2] = b
  <2>1. new = Append(flight', b)
    BY <1>7 DEF Moments
  <2>2. PICK f : f = flight'
    OBVIOUS
  <2>3. f \in Seq(MomentSet) /\ Len(f) = n + 1
    BY <1>5, <2>2
  <2>4. PICK z : z = Append(f, b)
    OBVIOUS
  <2>5. DOMAIN z = 1 .. n + 2 /\ (\A k \in 1 .. n + 1 : z[k] = f[k]) /\ z[n + 2] = b
    BY <2>3, <2>4
  <2>6. QED
    BY <2>1, <2>2, <2>4, <2>5
<1>9. (\A k \in 1 .. n + 1 : new[k] = old[k]) /\ new[n + 2] = b /\ old[n + 1] = a
  BY <1>1a, <1>2, <1>5, <1>6, <1>8
<1>10. Len(sent) \in Nat /\ Len(sent') \in Nat /\ Len(sent) <= Len(sent')
  BY <1>0, LenProperties DEF Extended
<1>11. Typed'
  <2>1. up' \in ByteSeq
    <3>1. PICK z : z = up \o x
      OBVIOUS
    <3>2. up \in Seq(0 .. 255) /\ x \in Seq(0 .. 255)
      BY <1>0 DEF ByteSeq
    <3>3. z \in Seq(0 .. 255)
      BY <3>1, <3>2, Joined
    <3>4. QED
      BY <3>1, <3>3 DEF ByteSeq
  <2>2. QED
    BY <1>0, <1>5, <2>1 DEF Typed, server
<1>12. MomentsOK'
  <2>1. ASSUME NEW k \in 1 .. n + 2 PROVE MomentOK(new[k]) /\ new[k].count <= Len(sent')
    <3>1. CASE k \in 1 .. n + 1
      <4>1. new[k] = old[k] /\ MomentOK(old[k]) /\ old[k].count <= Len(sent)
        BY <1>3, <1>6, <1>9, <3>1
      <4>2. old[k].count \in Nat
        BY <4>1 DEF MomentOK, MomentSet
      <4>3. QED
        BY <1>10, <4>1, <4>2, SMTT(60)
    <3>2. CASE k = n + 2
      BY <1>9, <3>2
    <3>3. QED
      BY <3>1, <3>2
  <2>2. QED
    BY <1>7, <1>8, <2>1 DEF MomentsOK
<1>13. Prefix'
  <2>1. Len(received) \in 0 .. Len(sent) /\ received = SubSeq(sent, 1, Len(received))
    BY DEF StreamInv, Prefix
  <2>2. SubSeq(sent', 1, Len(received)) = SubSeq(sent, 1, Len(received))
    BY <1>0, <2>1, FirstsKept
  <2>3. received' = received
    BY DEF server
  <2>4. Len(received) \in 0 .. Len(sent')
    BY <1>10, <2>1
  <2>5. received = SubSeq(sent', 1, Len(received))
    BY <2>1, <2>2
  <2>6. QED
    BY <2>3, <2>4, <2>5 DEF Prefix
<1>14. Ordered'
  <2>1. SUFFICES ASSUME phase = "reading"
                 PROVE  \A k \in 1 .. n + 2 :
                          /\ new[k].at \in Nat /\ new[k].at <= Len(up')
                          /\ \A j \in 1 .. n + 2 : j < k => new[j].at < new[k].at
    BY <1>7, <1>8 DEF Ordered, server
  <2>2. \A k \in 1 .. n + 1 :
          /\ old[k].at \in Nat /\ old[k].at <= Len(up)
          /\ \A j \in 1 .. n + 1 : j < k => old[j].at < old[k].at
    BY <1>2, <1>6, <2>1 DEF StreamInv, Ordered
  <2>3. Len(up) \in Nat /\ Len(up') = Len(up) + Len(x) /\ Len(x) \in Nat \ {0}
    <3>1. PICK z : z = up \o x
      OBVIOUS
    <3>2. up \in Seq(0 .. 255) /\ x \in Seq(0 .. 255)
      BY <1>0 DEF ByteSeq
    <3>3. Len(z) = Len(up) + Len(x)
      BY <3>1, <3>2, Joined
    <3>4. Len(x) \in Nat /\ Len(up) \in Nat /\ (Len(x) = 0 => x = << >>)
      BY <3>2, LenProperties, EmptySeq
    <3>5. QED
      BY <3>1, <3>3, <3>4
  <2>4. b.at = Len(up')
    BY DEF Moment
  <2>5. \A k \in 1 .. n + 1 :
          /\ new[k].at \in Nat /\ new[k].at <= Len(up) /\ new[k].at < new[n + 2].at
          /\ \A j \in 1 .. n + 1 : j < k => new[j].at < new[k].at
    <3>1. b.at > Len(up)
      BY <2>3, <2>4
    <3>2. TAKE k \in 1 .. n + 1
    <3>3. new[k].at = old[k].at /\ new[n + 2].at = b.at
      BY <1>9
    <3>4. new[k].at < new[n + 2].at
      BY <2>2, <2>3, <2>4, <3>1, <3>3, SMTT(60)
    <3>5. QED
      BY <1>9, <2>2, <3>3, <3>4
  <2>6. new[n + 2].at \in Nat /\ new[n + 2].at = Len(up')
    BY <1>9, <2>3, <2>4
  <2>7. TAKE k \in 1 .. n + 2
  <2>8. CASE k \in 1 .. n + 1
    BY <2>3, <2>5, <2>8
  <2>9. CASE k = n + 2
    BY <2>5, <2>6, <2>9
  <2>10. QED
    BY <2>8, <2>9
<1>15. ServerLagsClient'
  <2>1. SUFFICES ASSUME phase = "reading"
                 PROVE  /\ new[1].at = 0
                        /\ ServerAt(new[1])'
                        /\ \A k \in 1 .. n + 1 : ChunkBetween(new[k], new[k + 1])'
    <3>1. DOMAIN (flight') = 1 .. n + 1
      BY <1>5
    <3>2. QED
      BY <1>7, <3>1 DEF ServerLagsClient, server
  <2>2. /\ old[1].at = 0 /\ ServerAt(old[1])
        /\ \A k \in DOMAIN flight : ChunkBetween(old[k], old[k + 1])
    BY <1>6, <2>1 DEF StreamInv, ServerLagsClient
  <2>2a. DOMAIN flight = 1 .. n
    BY <1>0, <1>1a
  <2>3. new[1] = old[1]
    BY <1>9
  <2>4. ServerAt(old[1])'
    <3>1. PICK o : o = old[1]
      BY SMTT(60)
    <3>2. /\ peerSize = o.size /\ received = SubSeq(sent, 1, o.count)
          /\ \A c \in CsIds :
               IF o.prior[c].known
               THEN /\ c \in DOMAIN chunks
                    /\ chunks[c].timestamp = o.prior[c].m.timestamp
                    /\ chunks[c].length = Len(o.prior[c].m.data)
                    /\ chunks[c].typeId = o.prior[c].m.typeId
                    /\ chunks[c].streamId = o.prior[c].m.streamId
                    /\ chunks[c].remain = Len(o.pending[c])
                    /\ chunks[c].data \o o.pending[c] = o.prior[c].m.data
               ELSE c \in DOMAIN chunks /\ chunks[c].remain # 0 => aborted
      BY <2>2, <3>1 DEF ServerAt
    <3>3. SubSeq(sent', 1, o.count) = SubSeq(sent, 1, o.count)
      <4>1. o.count \in Nat /\ o.count <= Len(sent)
        <5>1. MomentOK(o) /\ o.count <= Len(sent)
          BY <1>3, <1>6, <3>1
        <5>2. QED
          BY <5>1 DEF MomentOK, MomentSet
      <4>2. o.count \in 0 .. Len(sent)
        BY <1>10, <4>1
      <4>3. QED
        BY <1>0, <4>2, FirstsKept
    <3>4. chunks' = chunks /\ peerSize' = peerSize /\ received' = received
      BY SMTT(60) DEF server
    <3>5. ServerAt(o)'
      BY <3>2, <3>3, <3>4 DEF ServerAt
    <3>6. QED
      BY <3>1, <3>5
  <2>5. ASSUME NEW k \in 1 .. n + 1 PROVE ChunkBetween(new[k], new[k + 1])'
    <3>1. CASE k \in 1 .. n
      <4>1. PICK c : c = old[k]
        OBVIOUS
      <4>2. PICK d : d = old[k + 1]
        OBVIOUS
      <4>3. new[k] = c /\ new[k + 1] = d
        BY <1>9, <3>1, <4>1, <4>2
      <4>3a. ChunkBetween(c, d)
        BY <2>2, <2>2a, <3>1, <4>1, <4>2
      <4>3b. k \in 1 .. n + 1 /\ k + 1 \in 1 .. n + 1
        BY <3>1
      <4>4. MomentOK(c) /\ MomentOK(d) /\ d.count <= Len(sent)
        BY <1>3, <1>6, <4>1, <4>2, <4>3b
      <4>5. c.at \in Nat
        BY <1>2, <1>6, <2>1, <4>1 DEF StreamInv, Ordered
      <4>6. ChunkBetween(c, d)'
        BY <1>0, <1>10, <4>3a, <4>4, <4>5, BetweenStays
      <4>7. QED
        BY <4>3, <4>6
    <3>2. CASE k = n + 1
      <4>1. new[k] = a /\ new[k + 1] = b
        BY <1>9, <3>2
      <4>2. ChunkBetween(a, b)'
        BY DEF ChunkBetween, HeadFits
      <4>3. QED
        BY <4>1, <4>2
    <3>3. QED
      BY <3>1, <3>2
  <2>6. QED
    BY <2>2, <2>3, <2>4, <2>5
<1>16. EndsForAReason'
  <2>1. EndsForAReason
    BY DEF StreamInv
  <2>2. QED
    BY <2>1 DEF EndsForAReason, server
<1>17. QED
  BY <1>11, <1>12, <1>13, <1>14, <1>15, <1>16 DEF StreamInv

LEMMA Behind ==
  ASSUME NEW s \in ByteSeq, NEW x \in ByteSeq
  PROVE  /\ s \o x \in ByteSeq /\ Len(s \o x) = Len(s) + Len(x)
         /\ Slice(s \o x, Len(s), Len(x)) = x
<1>0. s \in Seq(0 .. 255) /\ x \in Seq(0 .. 255)
  BY DEF ByteSeq
<1>1. PICK z : z = s \o x
  OBVIOUS
<1>2. z \in Seq(0 .. 255) /\ Len(z) = Len(s) + Len(x) /\ \A i \in 1 .. Len(x) : z[Len(s) + i] = x[i]
  BY <1>0, <1>1, Joined
<1>3. Len(s) \in Nat /\ Len(x) \in Nat
  BY <1>0, LenProperties
<1>4. Placed(z, Len(s), x)
  BY <1>2, <1>3 DEF Placed
<1>5. Slice(z, Len(s), Len(x)) = x
  BY <1>0, <1>2, <1>3, <1>4, SlicePlaced
<1>6. QED
  BY <1>1, <1>2, <1>5 DEF ByteSeq

\* What is left of a message, and whether that is nothing.
LEMMA LeftOf ==
  ASSUME NEW rest \in ByteSeq, NEW n \in Nat
  PROVE  LET piece == Slice(rest, 0, n)
             left == SubSeq(rest, Len(piece) + 1, Len(rest))
         IN /\ piece \in ByteSeq /\ left \in ByteSeq /\ piece \o left = rest
            /\ Len(piece) = Least(Len(rest), n) /\ Len(left) = Len(rest) - Len(piece)
<1>0. rest \in Seq(0 .. 255) /\ Len(rest) \in Nat
  BY LenProperties DEF ByteSeq
<1>1. PICK piece : piece = Slice(rest, 0, n)
  OBVIOUS
<1>2. piece \in Seq(0 .. 255) /\ Len(piece) = Least(Len(rest), n)
      /\ \A i \in 1 .. Len(piece) : piece[i] = rest[i]
  <2>0. PICK at \in Nat : at = 0
    OBVIOUS
  <2>1. /\ Slice(rest, at, n) \in Seq(0 .. 255)
        /\ Len(Slice(rest, at, n)) = IF at + n <= Len(rest) THEN n
                                     ELSE IF at <= Len(rest) THEN Len(rest) - at ELSE 0
        /\ \A i \in 1 .. Len(Slice(rest, at, n)) : Slice(rest, at, n)[i] = rest[at + i]
    <3>1. rest \in Seq(0 .. 255)
      BY <1>0
    <3>2. QED
      BY <3>1, SliceBytes, ZenonT(60)
  <2>2. \A i \in 1 .. Len(piece) : piece[i] = rest[i]
    <3>1. Len(piece) \in Nat
      BY <1>0, <1>1, <2>0, <2>1
    <3>2. \A i \in 1 .. Len(piece) : at + i = i
      BY <2>0, <3>1
    <3>3. QED
      BY <1>1, <2>0, <2>1, <3>2
  <2>3. Len(piece) = Least(Len(rest), n)
    BY <1>0, <1>1, <2>0, <2>1 DEF Least
  <2>4. QED
    BY <1>1, <2>0, <2>1, <2>2, <2>3
<1>3. PICK k \in Nat : k = Len(piece) /\ k <= Len(rest)
  BY <1>0, <1>2 DEF Least
<1>4. PICK left : left = SubSeq(rest, k + 1, Len(rest))
  BY ZenonT(60)
<1>5. /\ left \in Seq(0 .. 255) /\ Len(left) = Len(rest) - k
      /\ \A i \in 1 .. Len(rest) - k : left[i] = rest[k + i]
  <2>1. ASSUME NEW i \in k + 1 .. Len(rest) PROVE rest[i] \in 0 .. 255
    <3>1. i \in 1 .. Len(rest)
      BY <1>0
    <3>2. rest \in Seq(0 .. 255)
      BY <1>0
    <3>3. QED
      BY <3>1, <3>2, ElementOfSeq
  <2>2. /\ SubSeq(rest, k + 1, Len(rest)) \in Seq(0 .. 255)
        /\ Len(SubSeq(rest, k + 1, Len(rest))) =
             IF k + 1 <= Len(rest) THEN Len(rest) - (k + 1) + 1 ELSE 0
        /\ \A i \in 1 .. Len(rest) - (k + 1) + 1 :
             SubSeq(rest, k + 1, Len(rest))[i] = rest[k + 1 + i - 1]
    BY <1>0, <2>1, SubSeqProperties
  <2>3. \A i \in 1 .. Len(rest) - k : k + 1 + i - 1 = k + i
    BY <1>0
  <2>4. Len(rest) - (k + 1) + 1 = Len(rest) - k
    BY <1>0
  <2>5. Len(left) = Len(rest) - k
    BY <1>0, <1>3, <1>4, <2>2
  <2>6. QED
    BY <1>4, <2>2, <2>3, <2>4, <2>5, ZenonT(60)
<1>6. PICK z : z = piece \o left
  OBVIOUS
<1>7. /\ z \in Seq(0 .. 255) /\ Len(z) = Len(piece) + Len(left)
      /\ \A i \in 1 .. Len(piece) : z[i] = piece[i]
      /\ \A i \in 1 .. Len(left) : z[Len(piece) + i] = left[i]
  <2>1. piece \in Seq(0 .. 255)
    BY <1>2
  <2>2. left \in Seq(0 .. 255)
    BY <1>5
  <2>3. QED
    BY <1>6, <2>1, <2>2, Joined
<1>8. z = rest
  <2>1. Len(z) = Len(rest)
    BY <1>0, <1>3, <1>5, <1>7
  <2>2. ASSUME NEW i \in 1 .. Len(rest) PROVE z[i] = rest[i]
    <3>1. CASE i <= k
      BY <1>2, <1>3, <1>7, <3>1
    <3>2. CASE i > k
      <4>1. PICK j \in 1 .. Len(rest) - k : i = k + j
        <5>1. i - k \in 1 .. Len(rest) - k /\ i = k + (i - k)
          BY <1>0, <3>2
        <5>2. QED
          BY <5>1
      <4>2. left[j] = rest[k + j] /\ z[k + j] = left[j]
        BY <1>3, <1>5, <1>7
      <4>3. QED
        BY <4>1, <4>2
    <3>3. QED
      BY <3>1, <3>2
  <2>3. z \in Seq(0 .. 255)
    BY <1>7
  <2>4. QED
    BY <1>0, <2>1, <2>2, <2>3, SeqEqual
<1>9. QED
  BY <1>1, <1>2, <1>3, <1>4, <1>5, <1>6, <1>8, ZenonT(60) DEF ByteSeq

\* Whatever the message, sending its next chunk keeps the invariant.
LEMMA PieceKeeps ==
  ASSUME StreamInv, NEW cs \in CsIds, NEW format \in 0 .. 3, NEW q \in Priors,
         NEW rest \in ByteSeq, q.known, PriorOK(cs, q),
         rest = IF pending[cs] = << >> THEN q.m.data ELSE pending[cs],
         SendPiece(q.m, ClientHead(format, q.m, q.step), rest),
         prior' \in [CsIds -> Priors], prior'[cs] = q,
         \A k \in CsIds : k # cs => prior'[k] = prior[k],
         HeadFits(Moment, Moment', cs, format), UNCHANGED <<aborted, server>>
  PROVE  StreamInv'
<1>0. /\ up \in ByteSeq /\ flight \in Seq(MomentSet) /\ sent \in Seq(Bodies)
      /\ aborted \in BOOLEAN /\ Len(sent) \in Nat
  BY LenProperties DEF StreamInv, Typed
<1>1. PICK a : a = Moment
  OBVIOUS
<1>2. PICK b : b = Moment'
  OBVIOUS
<1>3. MomentOK(a)
  <2>1. Len(flight) + 1 \in DOMAIN Moments /\ Moments[Len(flight) + 1] = a
    <3>1. Len(flight) \in Nat
      BY <1>0, LenProperties
    <3>2. QED
      BY <1>0, <1>1, <3>1, MomentsAre
  <2>2. QED
    BY <2>1 DEF StreamInv, MomentsOK
<1>4. /\ a.at = Len(up) /\ a.size = size /\ a.prior = prior /\ a.pending = pending /\ a.count = Len(sent)
      /\ size \in Nat \ {0} /\ prior \in [CsIds -> Priors] /\ pending \in [CsIds -> ByteSeq]
  <2>1. /\ a.at = Len(up) /\ a.size = size /\ a.prior = prior /\ a.pending = pending
        /\ a.count = Len(sent)
    BY <1>1 DEF Moment
  <2>2. QED
    BY <1>3, <2>1 DEF MomentOK, MomentSet
<1>5. /\ b.at = Len(up') /\ b.size = size' /\ b.prior = prior' /\ b.pending = pending'
      /\ b.count = Len(sent') /\ b = [at |-> Len(up'), size |-> size', prior |-> prior',
                                      pending |-> pending', count |-> Len(sent')]
  BY <1>2 DEF Moment
<1>6. PICK h : h = ClientHead(format, q.m, q.step)
  OBVIOUS
<1>7. PICK piece : piece = Slice(rest, 0, size)
  OBVIOUS
<1>8. PICK left : left = SubSeq(rest, Len(piece) + 1, Len(rest))
  OBVIOUS
<1>9. piece \in ByteSeq /\ left \in ByteSeq
  BY <1>4, <1>7, <1>8, LeftOf
<1>10. PICK x : x = h \o piece
  OBVIOUS
<1>11. q.m.csId = cs /\ ChunkMessage(q.m) /\ q.step < Mark /\ q.m \in Messages /\ q.step \in Nat
       /\ (q.m.typeId = SetChunkSize => ReadBE(q.m.data, 0, 4) \in Nat \ {0})
  BY DEF PriorOK, Priors
<1>12. /\ up' = up \o x /\ flight' = Append(flight, a)
       /\ pending' = [pending EXCEPT ![cs] = left]
       /\ sent' = IF left = << >> THEN Append(sent, Body(q.m)) ELSE sent
       /\ size' = IF left = << >> /\ q.m.typeId = SetChunkSize THEN ReadBE(q.m.data, 0, 4) ELSE size
  BY <1>1, <1>6, <1>7, <1>8, <1>10, <1>11 DEF SendPiece
<1>13. Body(q.m) \in Bodies
  <2>1. Len(q.m.data) <= Mark
    BY <1>11 DEF ChunkMessage
  <2>2. QED
    BY <1>11, <2>1 DEF Body, Bodies, Messages
<1>14. /\ sent' \in Seq(Bodies) /\ Extended(sent, sent')
       /\ Len(sent') = Len(sent) + (IF left = << >> THEN 1 ELSE 0)
       /\ left = << >> => sent'[Len(sent) + 1] = Body(q.m)
  <2>1. CASE left = << >>
    <3>1. sent' = Append(sent, Body(q.m))
      BY <1>12, <2>1
    <3>2. PICK e \in Bodies : e = Body(q.m)
      BY <1>13
    <3>3. PICK z : z = Append(sent, e)
      OBVIOUS
    <3>4. /\ z \in Seq(Bodies) /\ Len(z) = Len(sent) + 1 /\ z[Len(sent) + 1] = e
          /\ \A i \in 1 .. Len(sent) : z[i] = sent[i]
      BY <1>0, <3>3
    <3>5. QED
      BY <1>0, <2>1, <3>1, <3>2, <3>3, <3>4 DEF Extended
  <2>2. CASE left # << >>
    BY <1>0, <1>12, <2>2 DEF Extended
  <2>3. QED
    BY <2>1, <2>2
<1>15. Len(sent') \in Nat
  BY <1>0, <1>14
<1>16. pending' \in [CsIds -> ByteSeq] /\ pending'[cs] = left
       /\ \A k \in CsIds : k # cs => pending'[k] = pending[k]
  BY <1>4, <1>9, <1>12
<1>17. size' \in Nat \ {0}
  BY <1>4, <1>11, <1>12
<1>18. h \in ByteSeq /\ Len(h) \in Nat \ {0}
  BY <1>6, <1>11, HeadBytes
<1>19. x \in ByteSeq /\ Len(x) = Len(h) + Len(piece) /\ x # << >>
  <2>1. x \in ByteSeq /\ Len(x) = Len(h) + Len(piece)
    BY <1>9, <1>10, <1>18, Behind
  <2>2. Len(piece) \in Nat
    BY <1>9, LenProperties DEF ByteSeq
  <2>3. Len(x) # 0
    BY <1>18, <2>1, <2>2
  <2>4. QED
    BY <2>1, <2>3
<1>20. up' \in ByteSeq /\ Len(up') = Len(up) + Len(x) /\ Slice(up', Len(up), Len(x)) = x
  BY <1>0, <1>12, <1>19, Behind
<1>21. MomentOK(b)
  <2>1. Len(up') \in Int
    BY <1>20, LenProperties DEF ByteSeq
  <2>2. b \in MomentSet
    BY <1>5, <1>15, <1>16, <1>17, <2>1 DEF MomentSet
  <2>3. ASSUME NEW k \in CsIds
        PROVE  PriorOK(k, prior'[k]) /\ (pending'[k] # << >> => prior'[k].known)
    <3>1. CASE k = cs
      BY <3>1
    <3>2. CASE k # cs
      BY <1>3, <1>4, <1>16, <3>2 DEF MomentOK
    <3>3. QED
      BY <3>1, <3>2
  <2>4. QED
    BY <1>5, <2>2, <2>3 DEF MomentOK
<1>22. Rest(a, b, cs) = rest /\ Piece(a, b, cs) = piece
  BY <1>4, <1>5, <1>7 DEF Rest, Piece
<1>23. MessageAdvances(a, b, cs)'
  <2>1. /\ b.prior[cs].known /\ b.pending[cs] = left
        /\ b.count = a.count + (IF left = << >> THEN 1 ELSE 0)
        /\ left = << >> => sent'[b.count] = Body(b.prior[cs].m)
        /\ b.size = IF left = << >> /\ b.prior[cs].m.typeId = SetChunkSize
                    THEN ReadBE(b.prior[cs].m.data, 0, 4) ELSE a.size
    <3>1. b.prior[cs] = q /\ b.pending[cs] = left
      BY <1>5, <1>16
    <3>2. b.count = a.count + (IF left = << >> THEN 1 ELSE 0)
      BY <1>4, <1>5, <1>14
    <3>3. left = << >> => sent'[b.count] = Body(q.m)
      BY <1>0, <1>5, <1>14
    <3>4. b.size = IF left = << >> /\ q.m.typeId = SetChunkSize THEN ReadBE(q.m.data, 0, 4) ELSE a.size
      BY <1>4, <1>5, <1>12
    <3>5. QED
      BY <3>1, <3>2, <3>3, <3>4
  <2>2. QED
    BY <1>8, <1>22, <2>1 DEF MessageAdvances
<1>24. OthersKept(a, b, cs)'
  BY <1>4, <1>5, <1>16, SMTT(60) DEF OthersKept
<1>25. BytesCarried(a, b, cs, format)'
  <2>1. b.at = a.at + Len(x) /\ Slice(up', a.at, Len(x)) = x
    BY <1>4, <1>5, <1>20
  <2>2. x = ClientHead(format, b.prior[cs].m, b.prior[cs].step) \o Piece(a, b, cs)
    BY <1>5, <1>6, <1>10, <1>22
  <2>3. QED
    BY <2>1, <2>2 DEF BytesCarried
<1>26. HeadFits(a, b, cs, format)
  BY <1>1, <1>2
<1>27. b.count <= Len(sent')
  BY <1>5, <1>15
<1>28. aborted' \in BOOLEAN /\ (aborted => aborted') /\ UNCHANGED server
  BY <1>0
<1>29. flight' = Append(flight, Moment)
  BY <1>1, <1>12
<1>30. QED
  BY <1>1, <1>2, <1>12, <1>14, <1>19, <1>21, <1>23, <1>24, <1>25, <1>26, <1>27, <1>28, <1>29, Sends

-----------------------------------------------------------------------------
(* What the client does.                                                   *)

\* The client now is one of the moments.
LEMMA NowOK ==
  ASSUME StreamInv
  PROVE  /\ MomentOK(Moment) /\ Moment.count <= Len(sent)
         /\ size \in Nat \ {0} /\ prior \in [CsIds -> Priors] /\ pending \in [CsIds -> ByteSeq]
         /\ sent \in Seq(Bodies) /\ Len(sent) \in Nat /\ up \in ByteSeq
<1>1. flight \in Seq(MomentSet) /\ sent \in Seq(Bodies) /\ up \in ByteSeq
  BY DEF StreamInv, Typed
<1>2. PICK a : a = Moment
  OBVIOUS
<1>3. MomentOK(a) /\ a.count <= Len(sent)
  <2>1. Len(flight) + 1 \in DOMAIN Moments /\ Moments[Len(flight) + 1] = a
    <3>1. Len(flight) \in Nat
      BY <1>1, LenProperties
    <3>2. QED
      BY <1>1, <1>2, <3>1, MomentsAre
  <2>2. QED
    BY <2>1 DEF StreamInv, MomentsOK
<1>4. a.size = size /\ a.prior = prior /\ a.pending = pending
  BY <1>2 DEF Moment
<1>5. a \in MomentSet
  BY <1>3 DEF MomentOK
<1>6. size \in Nat \ {0} /\ prior \in [CsIds -> Priors] /\ pending \in [CsIds -> ByteSeq]
  BY <1>4, <1>5 DEF MomentSet
<1>7. QED
  BY <1>1, <1>2, <1>3, <1>6, LenProperties

\* What a payload is, without the bounds of its chunk stream spelled out.
LEMMA PayloadIs ==
  ASSUME NEW p \in Payloads
  PROVE  /\ p.typeId \in 0 .. 255 /\ p.csId \in Nat /\ p.csId >= 2 /\ p.csId <= MaxCsId
         /\ p.csId \in CsIds /\ p.data \in ByteSeq /\ Len(p.data) <= Mark
         /\ p.typeId = SetChunkSize => ReadBE(p.data, 0, 4) \in Nat \ {0}
<1>1. MaxCsId \in Nat
  BY SMT DEF MaxCsId
<1>2. /\ p.typeId \in 0 .. 255 /\ p.csId \in 2 .. MaxCsId
      /\ p.data \in Seq(0 .. 255) /\ Len(p.data) <= Mark
      /\ p.typeId = 1 => Len(p.data) = 4 /\ ReadBE(p.data, 0, 4) # 0
  BY PayloadAssumption
<1>3. p.csId \in Nat /\ p.csId >= 2 /\ p.csId <= MaxCsId
  BY <1>1, <1>2
<1>4. p.typeId = 1 => ReadBE(p.data, 0, 4) \in Nat \ {0}
  <2>1. p.data \in Seq(0 .. 255)
    BY <1>2
  <2>2. ReadBE(p.data, 0, 4) \in Nat
    <3>1. PICK at \in Nat : at = 0
      OBVIOUS
    <3>2. ReadBE(p.data, at, 4) \in Nat
      BY <2>1, ReadBERange
    <3>3. QED
      BY <3>1, <3>2
  <2>3. QED
    BY <1>2, <2>2
<1>5. QED
  BY <1>2, <1>3, <1>4 DEF CsIds, ByteSeq, SetChunkSize

LEMMA BeginKeeps ==
  ASSUME StreamInv, PlainClient, NEW p \in Payloads, NEW step \in Steps, NEW format \in 0 .. 3,
         Begin(p, step, format)
  PROVE  StreamInv'
<1> DEFINE cs == p.csId
           last == prior[cs]
<1>1. /\ size \in Nat \ {0} /\ prior \in [CsIds -> Priors] /\ pending \in [CsIds -> ByteSeq]
      /\ cs \in CsIds
  BY NowOK, PayloadIs
<1>2. last \in Priors /\ last.m.timestamp \in Nat
  BY <1>1 DEF Priors, Messages
<1>3. step \in Nat /\ MaxField \in Nat /\ MaxField < Mark /\ RepeatSteps \subseteq {0} /\ Mark \in Nat
  BY StepAssumption, MarkNat DEF PlainClient
<1>4. PICK m : m = [typeId |-> p.typeId, csId |-> p.csId, data |-> p.data,
                    streamId |-> IF p.typeId \in {SetChunkSize, Abort} THEN 0 ELSE 1,
                    timestamp |-> last.m.timestamp + step]
  OBVIOUS
<1>5. PICK time : time = IF format = 0 THEN m.timestamp ELSE step
  OBVIOUS
<1>6. PICK q : q = [known |-> TRUE, step |-> time, m |-> m]
  OBVIOUS
<1>7. /\ ~Unsent(cs) /\ time <= MaxField
      /\ format # 0 => last.known /\ m.streamId = last.m.streamId
      /\ format \in {2, 3} => m.typeId = last.m.typeId /\ Len(m.data) = Len(last.m.data)
      /\ format = 3 => step \in RepeatSteps
      /\ prior' = [prior EXCEPT ![cs] = q]
      /\ SendPiece(m, ClientHead(format, m, time), m.data)
      /\ UNCHANGED <<aborted, server>>
  BY <1>4, <1>5, <1>6 DEF Begin
<1>8. m \in Messages /\ m.csId = cs /\ m.timestamp \in Nat /\ m.data = p.data /\ m.typeId = p.typeId
  BY <1>2, <1>3, <1>4, PayloadIs, SMTT(60) DEF Messages
<1>9. time \in Nat /\ time < Mark
  BY <1>3, <1>5, <1>7, <1>8
<1>10. q \in Priors /\ q.known /\ q.m = m /\ q.step = time
  BY <1>6, <1>8, <1>9 DEF Priors
<1>11. PriorOK(cs, q)
  <2>1. ChunkMessage(m)
    <3>1. m.streamId \in {0, 1}
      BY <1>8 DEF Messages
    <3>2. QED
      BY <1>8, <3>1, PayloadIs DEF ChunkMessage, ByteSeq
  <2>2. m.typeId = SetChunkSize => ReadBE(m.data, 0, 4) \in Nat \ {0}
    BY <1>8, PayloadIs
  <2>3. QED
    BY <1>8, <1>9, <1>10, <2>1, <2>2 DEF PriorOK
<1> HIDE DEF cs, last
<1>12. pending[cs] = << >>
  <2>1. pending[cs] \in Seq(0 .. 255)
    BY <1>1 DEF ByteSeq
  <2>2. Len(pending[cs]) = 0
    BY <1>7 DEF Unsent
  <2>3. QED
    BY <2>1, <2>2, EmptySeq
<1>13. prior' \in [CsIds -> Priors] /\ prior'[cs] = q /\ \A k \in CsIds : k # cs => prior'[k] = prior[k]
  BY <1>1, <1>7, <1>10
<1>14. HeadFits(Moment, Moment', cs, format)
  <2>1. PICK a : a = Moment
    OBVIOUS
  <2>2. PICK b : b = Moment'
    OBVIOUS
  <2>3. a.pending[cs] = << >> /\ a.prior[cs] = last /\ b.prior[cs] = q
    BY <1>12, <1>13, <2>1, <2>2 DEF Moment, last
  <2>4. format = 0 => m.timestamp = time
    BY <1>5
  <2>5. format # 0 => m.timestamp = last.m.timestamp + (IF format = 3 THEN 0 ELSE time)
    <3>1. m.timestamp = last.m.timestamp + step
      BY <1>4
    <3>2. format # 0 => time = step
      BY <1>5
    <3>3. format = 3 => step = 0
      BY <1>3, <1>7
    <3>4. QED
      BY <3>1, <3>2, <3>3
  <2>6. HeadFits(a, b, cs, format)
    BY <1>7, <1>10, <2>3, <2>4, <2>5 DEF HeadFits
  <2>7. QED
    BY <2>1, <2>2, <2>6
<1>15. PICK rest \in ByteSeq : rest = m.data
  BY <1>8 DEF Messages
<1>16. SendPiece(q.m, ClientHead(format, q.m, q.step), rest)
  BY <1>7, <1>10, <1>15
<1>17. rest = IF pending[cs] = << >> THEN q.m.data ELSE pending[cs]
  BY <1>10, <1>12, <1>15
<1>18. cs \in CsIds /\ UNCHANGED <<aborted, server>>
  BY <1>1, <1>7
<1>19. QED
  BY <1>10, <1>11, <1>13, <1>14, <1>15, <1>16, <1>17, <1>18, PieceKeeps

LEMMA ContinueKeeps ==
  ASSUME StreamInv, NEW cs \in CsIds, Continue(cs)
  PROVE  StreamInv'
<1>1. /\ prior \in [CsIds -> Priors] /\ pending \in [CsIds -> ByteSeq] /\ MomentOK(Moment)
  BY NowOK
<1>2. PICK q : q = prior[cs]
  OBVIOUS
<1>3. PICK rest : rest = pending[cs]
  OBVIOUS
<1>4. q \in Priors /\ rest \in ByteSeq
  BY <1>1, <1>2, <1>3
<1>5. /\ Unsent(cs) /\ SendPiece(q.m, ClientHead(3, q.m, q.step), rest)
      /\ prior' = prior /\ UNCHANGED <<aborted, server>>
  BY <1>2, <1>3 DEF Continue
<1>6. rest # << >>
  <2>1. Len(rest) # 0
    BY <1>3, <1>5 DEF Unsent
  <2>2. QED
    BY <2>1
<1>7. PriorOK(cs, q) /\ q.known
  <2>1. PICK a : a = Moment
    OBVIOUS
  <2>2. a.prior = prior /\ a.pending = pending /\ MomentOK(a)
    BY <1>1, <2>1 DEF Moment
  <2>3. QED
    BY <1>2, <1>3, <1>6, <2>2 DEF MomentOK
<1>8. HeadFits(Moment, Moment', cs, 3)
  <2>1. PICK a : a = Moment
    OBVIOUS
  <2>2. PICK b : b = Moment'
    OBVIOUS
  <2>3. a.pending[cs] # << >> /\ b.prior[cs] = a.prior[cs]
    BY <1>3, <1>5, <1>6, <2>1, <2>2 DEF Moment
  <2>4. HeadFits(a, b, cs, 3)
    BY <2>3 DEF HeadFits
  <2>5. QED
    BY <2>1, <2>2, <2>4
<1>9. rest = IF pending[cs] = << >> THEN q.m.data ELSE pending[cs]
  BY <1>3, <1>6
<1>10. prior' \in [CsIds -> Priors] /\ prior'[cs] = q /\ \A k \in CsIds : k # cs => prior'[k] = prior[k]
  BY <1>1, <1>2, <1>5
<1>11. PICK format \in 0 .. 3 : format = 3
  OBVIOUS
<1>12. SendPiece(q.m, ClientHead(format, q.m, q.step), rest) /\ HeadFits(Moment, Moment', cs, format)
       /\ UNCHANGED <<aborted, server>>
  BY <1>5, <1>8, <1>11
<1>13. QED
  BY <1>4, <1>7, <1>9, <1>10, <1>12, PieceKeeps

\* The Abort message takes one chunk, and the one message it is about is not touched
\* again: nothing is left of it.
LEMMA GiveUpKeeps ==
  ASSUME StreamInv, NEW p \in Payloads, NEW cs \in CsIds, GiveUp(p, cs)
  PROVE  StreamInv'
<1> DEFINE k == p.csId
<1>1. /\ size \in Nat \ {0} /\ prior \in [CsIds -> Priors] /\ pending \in [CsIds -> ByteSeq]
      /\ MomentOK(Moment) /\ sent \in Seq(Bodies) /\ Len(sent) \in Nat /\ up \in ByteSeq
  BY NowOK
<1>2. k \in CsIds /\ k \in Nat /\ k >= 2 /\ k <= MaxCsId
  BY PayloadIs
<1>3. cs \in Nat
  <2>1. PICK r \in Payloads : cs = r.csId
    BY DEF CsIds
  <2>2. QED
    BY <2>1, PayloadIs
<1>4. PICK data : data = BE(cs, 4)
  OBVIOUS
<1>5. data \in ByteSeq /\ Len(data) = 4
  <2>1. PICK n \in 1 .. 4 : n = 4
    OBVIOUS
  <2>2. BE(cs, n) \in Seq(0 .. 255) /\ Len(BE(cs, n)) = n
    BY <1>3, BEBytes, ZenonT(60)
  <2>3. QED
    BY <1>4, <2>1, <2>2 DEF ByteSeq
<1>6. PICK m : m = [typeId |-> Abort, csId |-> k, streamId |-> 0, timestamp |-> 0, data |-> data]
  OBVIOUS
<1>7. PICK q : q = [known |-> TRUE, step |-> 0, m |-> m]
  OBVIOUS
<1>8. PICK h : h = ClientHead(0, m, 0)
  OBVIOUS
<1>9. PICK x : x = h \o data
  OBVIOUS
<1>10. /\ Unsent(cs) /\ ~Unsent(k) /\ size >= 4
       /\ up' = up \o x
       /\ sent' = Append(sent, Body(m))
       /\ prior' = [prior EXCEPT ![cs] = NoPrior, ![k] = q]
       /\ pending' = [pending EXCEPT ![cs] = << >>]
       /\ flight' = Append(flight, Moment) /\ aborted' = TRUE
       /\ size' = size /\ UNCHANGED server
  BY <1>4, <1>6, <1>7, <1>8, <1>9 DEF GiveUp
<1> HIDE DEF k
<1>11. cs # k
  BY <1>10
<1>12. m \in Messages /\ m.csId = k /\ m.data = data /\ m.typeId = 2
  BY <1>2, <1>5, <1>6 DEF Messages, Abort
<1>13. ChunkMessage(m)
  <2>1. 4 <= Mark
    BY SMT DEF Mark
  <2>2. m.streamId \in {0, 1} /\ m.typeId \in 0 .. 255
    BY <1>12 DEF Messages
  <2>3. QED
    BY <1>2, <1>5, <1>12, <2>1, <2>2 DEF ChunkMessage, ByteSeq
<1>14. q \in Priors /\ q.known /\ q.m = m /\ q.step = 0
  BY <1>7, <1>12 DEF Priors
<1>15. 0 < Mark
  BY SMT DEF Mark
<1>16. PriorOK(k, q)
  BY <1>12, <1>13, <1>14, <1>15 DEF PriorOK, SetChunkSize
<1>17. h \in ByteSeq /\ Len(h) \in Nat \ {0}
  <2>1. PICK format \in 0 .. 3, time \in Nat : format = 0 /\ time = 0
    OBVIOUS
  <2>2. time < Mark
    BY <1>15, <2>1
  <2>3. ClientHead(format, m, time) \in ByteSeq /\ Len(ClientHead(format, m, time)) \in Nat \ {0}
    BY <1>13, <2>2, HeadBytes
  <2>4. QED
    BY <1>8, <2>1, <2>3
<1>18. x \in ByteSeq /\ x # << >>
  <2>1. x \in ByteSeq /\ Len(x) = Len(h) + Len(data)
    BY <1>5, <1>9, <1>17, Behind
  <2>2. Len(x) # 0
    BY <1>5, <1>17, <2>1
  <2>3. QED
    BY <2>1, <2>2
<1>19. up' \in ByteSeq /\ Len(up') = Len(up) + Len(x) /\ Slice(up', Len(up), Len(x)) = x
  BY <1>1, <1>10, <1>18, Behind
<1>20. prior' \in [CsIds -> Priors] /\ prior'[k] = q /\ prior'[cs] = NoPrior
       /\ \A j \in CsIds : j # k /\ j # cs => prior'[j] = prior[j]
  <2>1. NoPrior \in Priors
    <3>1. << >> \in ByteSeq
      BY DEF ByteSeq
    <3>2. QED
      BY <3>1 DEF NoPrior, Priors, Messages
  <2>2. QED
    BY <1>1, <1>2, <1>10, <1>11, <1>14, <2>1
<1>21. pending' \in [CsIds -> ByteSeq] /\ pending'[cs] = << >>
       /\ \A j \in CsIds : j # cs => pending'[j] = pending[j]
  <2>1. << >> \in ByteSeq
    BY DEF ByteSeq
  <2>2. QED
    BY <1>1, <1>10, <2>1
<1>22. pending[k] = << >>
  <2>1. pending[k] \in Seq(0 .. 255)
    BY <1>1, <1>2 DEF ByteSeq
  <2>2. Len(pending[k]) = 0
    BY <1>10 DEF Unsent
  <2>3. QED
    BY <2>1, <2>2, EmptySeq
<1>23. Body(m) \in Bodies
  <2>1. Len(m.data) <= Mark
    BY <1>12, <1>13 DEF ChunkMessage
  <2>2. QED
    BY <1>12, <2>1 DEF Body, Bodies, Messages
<1>24. /\ sent' \in Seq(Bodies) /\ Extended(sent, sent') /\ Len(sent') = Len(sent) + 1
       /\ sent'[Len(sent) + 1] = Body(m)
  <2>1. PICK e \in Bodies : e = Body(m)
    BY <1>23
  <2>2. PICK z : z = Append(sent, e)
    OBVIOUS
  <2>3. /\ z \in Seq(Bodies) /\ Len(z) = Len(sent) + 1 /\ z[Len(sent) + 1] = e
        /\ \A i \in 1 .. Len(sent) : z[i] = sent[i]
    BY <1>1, <2>2
  <2>4. QED
    BY <1>1, <1>10, <2>1, <2>2, <2>3 DEF Extended
<1>25. PICK a : a = Moment
  OBVIOUS
<1>26. PICK b : b = Moment'
  OBVIOUS
<1>27. /\ a.at = Len(up) /\ a.size = size /\ a.prior = prior /\ a.pending = pending /\ a.count = Len(sent)
  BY <1>25 DEF Moment
<1>28. /\ b.at = Len(up') /\ b.size = size /\ b.prior = prior' /\ b.pending = pending'
       /\ b.count = Len(sent') /\ b = [at |-> Len(up'), size |-> size', prior |-> prior',
                                       pending |-> pending', count |-> Len(sent')]
  BY <1>10, <1>26 DEF Moment
<1>29. MomentOK(b)
  <2>1. Len(up') \in Int
    BY <1>19, LenProperties DEF ByteSeq
  <2>2. b \in MomentSet
    <3>1. size' \in Nat \ {0} /\ Len(sent') \in Nat
      BY <1>1, <1>10, <1>24
    <3>2. QED
      BY <1>20, <1>21, <1>28, <2>1, <3>1 DEF MomentSet
  <2>3. ASSUME NEW j \in CsIds
        PROVE  PriorOK(j, prior'[j]) /\ (pending'[j] # << >> => prior'[j].known)
    <3>1. CASE j = k
      BY <1>11, <1>14, <1>16, <1>20, <3>1
    <3>2. CASE j = cs
      BY <1>20, <1>21, <3>2 DEF NoPrior, PriorOK
    <3>3. CASE j # k /\ j # cs
      <4>1. prior'[j] = prior[j] /\ pending'[j] = pending[j]
        BY <1>20, <1>21, <3>3
      <4>2. MomentOK(a)
        BY <1>1, <1>25
      <4>3. QED
        BY <1>27, <4>1, <4>2 DEF MomentOK
    <3>4. QED
      BY <3>1, <3>2, <3>3
  <2>4. QED
    BY <1>28, <2>2, <2>3 DEF MomentOK
<1>30. PICK piece : piece = Slice(data, 0, size)
  OBVIOUS
<1>31. PICK left : left = SubSeq(data, Len(piece) + 1, Len(data))
  OBVIOUS
<1>32. piece = data /\ left = << >>
  <2>1. /\ piece \in ByteSeq /\ left \in ByteSeq /\ piece \o left = data
        /\ Len(piece) = Least(Len(data), size) /\ Len(left) = Len(data) - Len(piece)
    BY <1>1, <1>5, <1>30, <1>31, LeftOf
  <2>2. Len(piece) = 4
    BY <1>1, <1>5, <1>10, <2>1 DEF Least
  <2>3. Len(left) = 0
    BY <1>5, <2>1, <2>2
  <2>4. left = << >>
    <3>1. left \in Seq(0 .. 255)
      BY <2>1 DEF ByteSeq
    <3>2. QED
      BY <2>3, <3>1, EmptySeq
  <2>5. piece \o << >> = piece
    <3>1. piece \in Seq(0 .. 255)
      BY <2>1 DEF ByteSeq
    <3>2. QED
      BY <3>1, ConcatEmptySeq
  <2>6. QED
    BY <2>1, <2>4, <2>5
<1>33. Rest(a, b, k) = data /\ Piece(a, b, k) = piece /\ b.prior[k] = q
  BY <1>12, <1>14, <1>20, <1>22, <1>27, <1>28, <1>30 DEF Rest, Piece
<1>34. HeadFits(a, b, k, 0)
  BY <1>12, <1>14, <1>6, <1>20, <1>22, <1>27, <1>28 DEF HeadFits
<1>35. MessageAdvances(a, b, k)'
  <2>1. /\ b.prior[k].known /\ b.pending[k] = left
        /\ b.count = a.count + 1 /\ sent'[b.count] = Body(b.prior[k].m)
        /\ b.prior[k].m.typeId # SetChunkSize /\ b.size = a.size
    <3>1. b.prior[k].known /\ b.prior[k].m = m
      BY <1>14, <1>33
    <3>2. b.pending[k] = left
      BY <1>2, <1>11, <1>21, <1>22, <1>28, <1>32
    <3>3. b.count = a.count + 1 /\ sent'[b.count] = Body(m)
      BY <1>1, <1>24, <1>27, <1>28
    <3>4. m.typeId # SetChunkSize
      BY <1>12 DEF SetChunkSize
    <3>5. QED
      BY <1>27, <1>28, <3>1, <3>2, <3>3, <3>4, ZenonT(60)
  <2>2. QED
    BY <1>31, <1>32, <1>33, <2>1, SMTT(60) DEF MessageAdvances
<1>36. OthersKept(a, b, k)'
  <2>1. ASSUME NEW j \in CsIds \ {k}
        PROVE  \/ b.prior[j] = a.prior[j] /\ b.pending[j] = a.pending[j]
               \/ aborted' /\ ~b.prior[j].known /\ b.pending[j] = << >>
    <3>1. CASE j = cs
      BY <1>10, <1>20, <1>21, <1>28, <3>1 DEF NoPrior
    <3>2. CASE j # cs
      BY <1>20, <1>21, <1>27, <1>28, <3>2, SMTT(60)
    <3>3. QED
      BY <3>1, <3>2
  <2>2. QED
    BY <2>1 DEF OthersKept
<1>37. BytesCarried(a, b, k, 0)'
  <2>1. /\ b.at = a.at + Len(x) /\ Slice(up', a.at, Len(x)) = x
    BY <1>19, <1>27, <1>28
  <2>2. x = ClientHead(0, b.prior[k].m, b.prior[k].step) \o Piece(a, b, k)
    BY <1>8, <1>9, <1>14, <1>32, <1>33
  <2>3. QED
    BY <2>1, <2>2 DEF BytesCarried
<1>38. b.count <= Len(sent')
  BY <1>24, <1>1, <1>28
<1>39. PICK format \in 0 .. 3 : format = 0
  OBVIOUS
<1>40. HeadFits(a, b, k, format) /\ BytesCarried(a, b, k, format)'
  BY <1>34, <1>37, <1>39
<1>41. aborted' \in BOOLEAN /\ (aborted => aborted') /\ UNCHANGED server
  BY <1>10
<1>42. flight' = Append(flight, Moment) /\ up' = up \o x
  BY <1>10
<1>43. sent' \in Seq(Bodies) /\ Extended(sent, sent')
  BY <1>24
<1>44. x \in ByteSeq /\ x # << >>
  BY <1>18
<1>45. QED
  BY <1>2, <1>25, <1>26, <1>29, <1>35, <1>36, <1>38, <1>40, <1>41, <1>42, <1>43, <1>44, Sends

\* A step that touches neither the client, nor what is on its way, nor the reader.
LEMMA QuietKeeps ==
  ASSUME StreamInv, UNCHANGED <<client, up, flight, chunks, peerSize, phase, received>>
  PROVE  StreamInv'
<1>1. Moment' = Moment
  BY DEF Moment, client
<1>2. Moments' = Moments
  BY <1>1 DEF Moments
<1>3. Typed'
  BY DEF StreamInv, Typed, client
<1>4. MomentsOK'
  BY <1>2 DEF StreamInv, MomentsOK, client
<1>5. Prefix'
  BY DEF StreamInv, Prefix, client
<1>6. Ordered'
  BY <1>2 DEF StreamInv, Ordered
<1>7. ServerLagsClient'
  <2>1. PICK ms : ms = Moments
    OBVIOUS
  <2>2. \A a : ServerAt(a) => ServerAt(a)'
    BY ZenonT(60) DEF ServerAt, client
  <2>3. \A a, b : ChunkBetween(a, b) => ChunkBetween(a, b)'
    <3>1. TAKE a, b
    <3>2. HAVE ChunkBetween(a, b)
    <3>3. PICK cs \in CsIds, format \in 0 .. 3 :
            /\ HeadFits(a, b, cs, format) /\ MessageAdvances(a, b, cs)
            /\ OthersKept(a, b, cs) /\ BytesCarried(a, b, cs, format)
      BY <3>2 DEF ChunkBetween
    <3>4. sent' = sent /\ up' = up /\ aborted' = aborted
      BY DEF client
    <3>5. MessageAdvances(a, b, cs)'
      BY <3>3, <3>4 DEF MessageAdvances
    <3>6. OthersKept(a, b, cs)' /\ BytesCarried(a, b, cs, format)'
      BY <3>3, <3>4 DEF OthersKept, BytesCarried
    <3>7. HeadFits(a, b, cs, format)'
      BY <3>3 DEF HeadFits
    <3>8. QED
      BY <3>3, <3>5, <3>6, <3>7 DEF ChunkBetween
  <2>4. phase = "reading" =>
          /\ ms[1].at = 0 /\ ServerAt(ms[1])
          /\ \A k \in DOMAIN flight : ChunkBetween(ms[k], ms[k + 1])
    BY <2>1 DEF StreamInv, ServerLagsClient
  <2>5. ms = Moments' /\ phase' = phase /\ flight' = flight
    BY <1>2, <2>1
  <2>6. phase = "reading" =>
          /\ ms[1].at = 0 /\ ServerAt(ms[1])'
          /\ \A k \in DOMAIN flight : ChunkBetween(ms[k], ms[k + 1])'
    BY <2>2, <2>3, <2>4
  <2>7. QED
    BY <2>5, <2>6 DEF ServerLagsClient
<1>8. EndsForAReason'
  BY DEF StreamInv, EndsForAReason, client
<1>9. QED
  BY <1>3, <1>4, <1>5, <1>6, <1>7, <1>8 DEF StreamInv

LEMMA InitHolds == Init => StreamInv
<1> SUFFICES ASSUME Init PROVE StreamInv
  OBVIOUS
<1>1. /\ size = ClientChunk /\ prior = [cs \in CsIds |-> NoPrior]
      /\ pending = [cs \in CsIds |-> << >>]
      /\ sent = << >> /\ aborted = FALSE /\ up = << >> /\ flight = << >>
      /\ chunks = << >> /\ peerSize = ClientChunk
      /\ phase = "reading" /\ received = << >>
  BY DEF Init
<1>2. ClientChunk \in Nat \ {0}
  BY SizeAssumption
<1>3. PICK a : a = Moment
  OBVIOUS
<1>4. a = [at |-> 0, size |-> size, prior |-> prior, pending |-> pending, count |-> 0]
  BY <1>1, <1>3 DEF Moment
<1>5. Moments = <<a>>
  BY <1>1, <1>3 DEF Moments
<1>6. DOMAIN Moments = {1} /\ Moments[1] = a /\ DOMAIN flight = {} /\ DOMAIN chunks = {}
  BY <1>1, <1>5
<1>7. Typed
  <2>1. up \in ByteSeq /\ flight \in Seq(MomentSet) /\ sent \in Seq(Bodies)
    BY <1>1 DEF ByteSeq
  <2>2. aborted \in BOOLEAN /\ phase \in {"reading", "ended"} /\ peerSize \in Nat \ {0}
    BY <1>1, <1>2
  <2>3. QED
    BY <1>6, <2>1, <2>2 DEF Typed
<1>8. MomentsOK
  <2>1. << >> \in ByteSeq
    BY DEF ByteSeq
  <2>2. NoPrior \in Priors /\ ~NoPrior.known
    BY <2>1 DEF NoPrior, Priors, Messages
  <2>3. prior \in [CsIds -> Priors] /\ pending \in [CsIds -> ByteSeq]
    BY <1>1, <2>1, <2>2
  <2>4. a \in MomentSet
    BY <1>1, <1>2, <1>4, <2>3 DEF MomentSet
  <2>5. \A cs \in CsIds : a.prior[cs] = NoPrior /\ a.pending[cs] = << >>
    BY <1>1, <1>4
  <2>6. MomentOK(a)
    BY <2>2, <2>4, <2>5 DEF MomentOK, PriorOK
  <2>7. a.count = 0 /\ Len(sent) = 0
    BY <1>1, <1>4
  <2>8. QED
    BY <1>6, <2>6, <2>7 DEF MomentsOK
<1>9. Prefix
  <2>1. Len(received) = 0 /\ Len(sent) = 0 /\ SubSeq(sent, 1, 0) = << >>
    BY <1>1
  <2>2. QED
    BY <1>1, <2>1 DEF Prefix
<1>10. Ordered
  <2>1. a.at = 0 /\ Len(up) = 0
    BY <1>1, <1>4
  <2>2. QED
    BY <1>6, <2>1 DEF Ordered
<1>11. ServerLagsClient
  <2>1. ServerAt(a)
    <3>1. a.count = 0 /\ peerSize = a.size /\ \A cs \in CsIds : ~a.prior[cs].known
      BY <1>1, <1>4 DEF NoPrior
    <3>2. received = SubSeq(sent, 1, 0)
      BY <1>1
    <3>3. QED
      BY <1>6, <3>1, <3>2 DEF ServerAt
  <2>2. a.at = 0
    BY <1>4
  <2>3. QED
    BY <1>6, <2>1, <2>2 DEF ServerLagsClient
<1>12. EndsForAReason
  BY <1>1 DEF EndsForAReason
<1>13. QED
  BY <1>7, <1>8, <1>9, <1>10, <1>11, <1>12 DEF StreamInv

-----------------------------------------------------------------------------
(* The server reads a chunk.                                               *)

\* A moment, counted from the u-th byte on.
Back(a, u) == [a EXCEPT !.at = @ - u]

LEMMA BackIs ==
  ASSUME NEW a, MomentOK(a), NEW u \in Int
  PROVE  /\ MomentOK(Back(a, u)) /\ Back(a, u).at = a.at - u
         /\ Back(a, u).size = a.size /\ Back(a, u).prior = a.prior
         /\ Back(a, u).pending = a.pending /\ Back(a, u).count = a.count
<1>1. a \in MomentSet
  BY DEF MomentOK
<1>2. PICK d : d = Back(a, u)
  OBVIOUS
<1>3. /\ d \in MomentSet /\ d.at = a.at - u
      /\ d.size = a.size /\ d.prior = a.prior /\ d.pending = a.pending /\ d.count = a.count
  BY <1>1, <1>2 DEF Back, MomentSet
<1>4. MomentOK(d)
  BY <1>3 DEF MomentOK
<1>5. QED
  BY <1>2, <1>3, <1>4

\* What is left of the bytes when the first u are read.
LEMMA RestOfBytes ==
  ASSUME NEW s \in ByteSeq, NEW u \in Nat, u <= Len(s)
  PROVE  SubSeq(s, u + 1, Len(s)) \in ByteSeq /\ Len(SubSeq(s, u + 1, Len(s))) = Len(s) - u
<1>1. s \in Seq(0 .. 255)
  BY DEF ByteSeq
<1>2. Len(s) \in Nat
  BY <1>1, LenProperties
<1>3. ASSUME NEW i \in u + 1 .. Len(s) PROVE s[i] \in 0 .. 255
  <2>1. i \in 1 .. Len(s)
    BY <1>2
  <2>2. QED
    BY <1>1, <2>1, ElementOfSeq
<1>4. PICK x : x = SubSeq(s, u + 1, Len(s))
  OBVIOUS
<1>5. x \in Seq(0 .. 255) /\ Len(x) = IF u + 1 <= Len(s) THEN Len(s) - (u + 1) + 1 ELSE 0
  BY <1>2, <1>3, <1>4, SubSeqProperties
<1>6. QED
  BY <1>2, <1>4, <1>5 DEF ByteSeq

\* What is still on its way stays so while the server reads what is before it.
LEMMA BetweenShifts ==
  ASSUME NEW a, NEW b, MomentOK(a), MomentOK(b), NEW u \in Nat, a.at \in Nat, u <= a.at,
         up \in ByteSeq, u <= Len(up), up' = SubSeq(up, u + 1, Len(up)), UNCHANGED <<sent, aborted>>,
         ChunkBetween(a, b)
  PROVE  ChunkBetween(Back(a, u), Back(b, u))'
<1>1. PICK cs \in CsIds, format \in 0 .. 3 :
        /\ HeadFits(a, b, cs, format) /\ MessageAdvances(a, b, cs)
        /\ OthersKept(a, b, cs) /\ BytesCarried(a, b, cs, format)
  BY DEF ChunkBetween
<1>2. PICK c : c = Back(a, u)
  OBVIOUS
<1>3. PICK d : d = Back(b, u)
  OBVIOUS
<1>4. /\ c.at = a.at - u /\ c.size = a.size /\ c.prior = a.prior /\ c.pending = a.pending
      /\ c.count = a.count
      /\ d.at = b.at - u /\ d.size = b.size /\ d.prior = b.prior /\ d.pending = b.pending
      /\ d.count = b.count
  <2>1. u \in Int
    OBVIOUS
  <2>2. QED
    BY <1>2, <1>3, <2>1, BackIs
<1>5. Rest(c, d, cs) = Rest(a, b, cs) /\ Piece(c, d, cs) = Piece(a, b, cs)
  BY <1>4 DEF Rest, Piece
<1>6. HeadFits(c, d, cs, format)'
  BY <1>1, <1>4 DEF HeadFits
<1>7. MessageAdvances(c, d, cs)'
  BY <1>1, <1>4, <1>5 DEF MessageAdvances
<1>8. OthersKept(c, d, cs)'
  BY <1>1, <1>4 DEF OthersKept
<1>9. BytesCarried(c, d, cs, format)'
  <2> DEFINE bytes == ClientHead(format, b.prior[cs].m, b.prior[cs].step) \o Piece(a, b, cs)
  <2>1. bytes \in ByteSeq /\ Len(bytes) \in Nat \ {0}
    BY <1>1, ChunkLengthens
  <2>2. b.at = a.at + Len(bytes) /\ Slice(up, a.at, Len(bytes)) = bytes
    BY <1>1 DEF BytesCarried
  <2>2a. bytes = ClientHead(format, d.prior[cs].m, d.prior[cs].step) \o Piece(c, d, cs)
    BY <1>4, <1>5
  <2> HIDE DEF bytes
  <2>3. bytes \in Seq(0 .. 255) /\ up \in Seq(0 .. 255)
    BY <2>1 DEF ByteSeq
  <2>4. Placed(up, a.at, bytes)
    BY <2>1, <2>2, <2>3, SlicePlaced
  <2>5. PICK less : less = SubSeq(up, u + 1, Len(up))
    OBVIOUS
  <2>6. u \in 0 .. a.at
    OBVIOUS
  <2>7. Placed(less, a.at - u, bytes)
    BY <2>3, <2>4, <2>5, <2>6, PlacedMoves
  <2>8. Slice(less, a.at - u, Len(bytes)) = bytes
    <3>1. less \in Seq(0 .. 255)
      BY <2>5, RestOfBytes DEF ByteSeq
    <3>2. PICK at \in Nat : at = a.at - u
      BY <2>6
    <3>3. QED
      BY <2>3, <2>7, <3>1, <3>2, SlicePlaced
  <2>9. d.at = c.at + Len(bytes)
    BY <1>4, <2>1, <2>2
  <2>10. Slice(up', c.at, Len(bytes)) = bytes
    BY <1>4, <2>5, <2>8
  <2>11. QED
    BY <2>2a, <2>9, <2>10 DEF BytesCarried
<1>10. ChunkBetween(c, d)'
  BY <1>1, <1>6, <1>7, <1>8, <1>9 DEF ChunkBetween
<1>11. QED
  BY <1>2, <1>3, <1>10

\* The moments that are left when the first chunk is read.
LEMMA MomentsShift ==
  ASSUME NEW n \in Nat, flight \in Seq(MomentSet), Len(flight) = n + 1, NEW u \in Int,
         \A k \in 1 .. n + 2 : MomentOK(Moments[k]),
         flight' = [k \in 1 .. Len(flight) - 1 |-> Back(flight[k + 1], u)],
         Moment' = Back(Moment, u)
  PROVE  /\ flight' \in Seq(MomentSet) /\ DOMAIN (flight') = 1 .. n
         /\ DOMAIN (Moments') = 1 .. n + 1
         /\ \A k \in 1 .. n + 1 : Moments'[k] = Back(Moments[k + 1], u)
<1>1. PICK a : a = Moment
  OBVIOUS
<1>2. PICK b : b = Moment'
  OBVIOUS
<1>3. PICK ms : ms = Moments
  OBVIOUS
<1>4. PICK f : f = flight'
  OBVIOUS
<1>5. /\ DOMAIN ms = 1 .. Len(flight) + 1
      /\ \A k \in 1 .. Len(flight) : ms[k] = flight[k]
      /\ ms[Len(flight) + 1] = a
  BY <1>1, <1>3, MomentsAre
<1>6. (\A k \in 1 .. n + 1 : ms[k] = flight[k]) /\ ms[n + 2] = a
  <2>1. Len(flight) + 1 = n + 2
    OBVIOUS
  <2>2. QED
    BY <1>5, <2>1
<1>7. f = [k \in 1 .. n |-> Back(flight[k + 1], u)]
  BY <1>4
<1>8. ASSUME NEW k \in 1 .. n PROVE f[k] = Back(ms[k + 1], u) /\ f[k] \in MomentSet
  <2>1. k + 1 \in 1 .. n + 1
    OBVIOUS
  <2>2. f[k] = Back(ms[k + 1], u)
    BY <1>6, <1>7, <2>1
  <2>3. MomentOK(ms[k + 1])
    BY <1>3, <2>1
  <2>4. MomentOK(Back(ms[k + 1], u))
    BY <2>3, BackIs
  <2>5. QED
    BY <2>2, <2>4 DEF MomentOK
<1>9. f \in [1 .. n -> MomentSet]
  BY <1>7, <1>8
<1>10. f \in Seq(MomentSet) /\ Len(f) = n
  BY <1>9, IsASeq
<1>11. PICK z : z = Append(f, b)
  OBVIOUS
<1>12. DOMAIN z = 1 .. n + 1 /\ (\A k \in 1 .. n : z[k] = f[k]) /\ z[n + 1] = b
  BY <1>10, <1>11
<1>13. ASSUME NEW k \in 1 .. n + 1 PROVE z[k] = Back(ms[k + 1], u)
  <2>1. CASE k \in 1 .. n
    BY <1>8, <1>12, <2>1
  <2>2. CASE k = n + 1
    BY <1>1, <1>2, <1>6, <1>12, <2>2
  <2>3. QED
    BY <2>1, <2>2
<1>14. Moments' = z
  BY <1>2, <1>4, <1>11 DEF Moments
<1>15. DOMAIN f = 1 .. n
  BY <1>7
<1>16. QED
  BY <1>3, <1>4, <1>10, <1>12, <1>13, <1>14, <1>15

\* The chunk at the front of the wire, which took the client from a to b, takes the
\* server from a to b: this much of it is used, and this is what the server then
\* holds of the message.  It can only be refused when a message was given up.
ReadsPiece(b, cs) ==
  LET r == NextChunk
      m == b.prior[cs].m
  IN /\ BasicHead(up).csId = cs /\ r.used = b.at
     /\ r.invalid \in BOOLEAN /\ (r.invalid => aborted)
     /\ ~r.invalid =>
          /\ ChunkOK(r.chunk)
          /\ r.chunk.timestamp = m.timestamp /\ r.chunk.length = Len(m.data)
          /\ r.chunk.typeId = m.typeId /\ r.chunk.streamId = m.streamId
          /\ r.chunk.remain = Len(b.pending[cs]) /\ r.chunk.data \o b.pending[cs] = m.data

\* What readMsg holds of the chunk stream before the chunk.
LEMMA OldChunkIs ==
  ASSUME NEW a, NEW cs \in CsIds, ServerAt(a), \A k \in DOMAIN chunks : ChunkOK(chunks[k]),
         MomentOK(a), NEW c, c = IF cs \in DOMAIN chunks THEN chunks[cs] ELSE NewChunk
  PROVE  /\ ChunkOK(c)
         /\ IF a.prior[cs].known
            THEN LET m == a.prior[cs].m
                 IN /\ c.timestamp = m.timestamp /\ c.length = Len(m.data)
                    /\ c.typeId = m.typeId /\ c.streamId = m.streamId
                    /\ c.remain = Len(a.pending[cs]) /\ c.data \o a.pending[cs] = m.data
            ELSE c.remain # 0 => aborted
<1>1. CASE cs \in DOMAIN chunks
  BY <1>1 DEF ServerAt
<1>2. CASE cs \notin DOMAIN chunks
  <2>1. ~a.prior[cs].known
    BY <1>2 DEF ServerAt
  <2>2. c = NewChunk
    BY <1>2
  <2>3. ChunkOK(c) /\ c.remain = 0
    <3>1. << >> \in ByteSeq /\ Len(<< >>) = 0
      BY DEF ByteSeq
    <3>2. QED
      BY <2>2, <3>1 DEF ChunkOK, NewChunk
  <2>4. QED
    BY <2>1, <2>3
<1>3. QED
  BY <1>1, <1>2

LEMMA NextChunkReads ==
  ASSUME NEW a, NEW b, NEW cs \in CsIds, NEW format \in 0 .. 3, MomentOK(a), MomentOK(b),
         HeadFits(a, b, cs, format), MessageAdvances(a, b, cs), BytesCarried(a, b, cs, format),
         up \in ByteSeq, \A k \in DOMAIN chunks : ChunkOK(chunks[k]), a.at = 0, ServerAt(a),
         aborted \in BOOLEAN
  PROVE  ReadsPiece(b, cs)
<1> DEFINE m == b.prior[cs].m
           time == b.prior[cs].step
           rest == Rest(a, b, cs)
           piece == Piece(a, b, cs)
           h == ClientHead(format, m, time)
           bytes == h \o piece
           c == IF cs \in DOMAIN chunks THEN chunks[cs] ELSE NewChunk
<1>1. /\ a.prior[cs] \in Priors /\ b.prior[cs] \in Priors /\ a.pending[cs] \in ByteSeq
      /\ a.size \in Nat \ {0} /\ b.prior[cs].known
  BY DEF MomentOK, MomentSet, MessageAdvances
<1>2. /\ ChunkMessage(m) /\ m.csId = cs /\ time \in Nat /\ time < Mark /\ m \in Messages
      /\ m.data \in ByteSeq /\ m.typeId \in 0 .. 255 /\ m.streamId \in {0, 1} /\ m.timestamp \in Nat
  BY <1>1, SMTT(60) DEF MomentOK, PriorOK, Priors, Messages
<1>3. rest \in ByteSeq
  BY <1>1, <1>2 DEF Rest
<1>4. piece = Slice(rest, 0, a.size)
  BY DEF Piece
<1>5. bytes \in ByteSeq /\ Len(bytes) \in Nat \ {0}
  BY ChunkLengthens
<1>6. b.at = 0 + Len(bytes) /\ Slice(up, 0, Len(bytes)) = bytes
  BY DEF BytesCarried
<1>7. b.pending[cs] = SubSeq(rest, Len(piece) + 1, Len(rest))
  BY DEF MessageAdvances
<1>8. ChunkOK(c)
      /\ IF a.prior[cs].known
         THEN /\ c.timestamp = a.prior[cs].m.timestamp /\ c.length = Len(a.prior[cs].m.data)
              /\ c.typeId = a.prior[cs].m.typeId /\ c.streamId = a.prior[cs].m.streamId
              /\ c.remain = Len(a.pending[cs]) /\ c.data \o a.pending[cs] = a.prior[cs].m.data
         ELSE c.remain # 0 => aborted
  BY OldChunkIs, ZenonT(60)
<1>9. rest = IF a.pending[cs] = << >> THEN m.data ELSE a.pending[cs]
  BY DEF Rest
<1>10. IF a.pending[cs] # << >> THEN format = 3 /\ b.prior[cs] = a.prior[cs]
       ELSE /\ format = 0 => m.timestamp = time
            /\ format # 0 =>
                 /\ a.prior[cs].known /\ m.streamId = a.prior[cs].m.streamId
                 /\ m.timestamp = a.prior[cs].m.timestamp + (IF format = 3 THEN 0 ELSE time)
            /\ format \in {2, 3} =>
                 m.typeId = a.prior[cs].m.typeId /\ Len(m.data) = Len(a.prior[cs].m.data)
  BY DEF HeadFits
<1>11. a.pending[cs] # << >> => a.prior[cs].known
  BY DEF MomentOK
<1>12. peerSize = a.size
  BY DEF ServerAt
<1> HIDE DEF m, time, rest, piece, h, c
<1>13. /\ piece \in ByteSeq /\ b.pending[cs] \in ByteSeq /\ piece \o b.pending[cs] = rest
       /\ Len(piece) = Least(Len(rest), a.size) /\ Len(b.pending[cs]) = Len(rest) - Len(piece)
  <2>1. PICK whole \in ByteSeq, n \in Nat : whole = rest /\ n = a.size
    BY <1>1, <1>3
  <2>2. PICK x : x = Slice(whole, 0, n)
    OBVIOUS
  <2>3. PICK y : y = SubSeq(whole, Len(x) + 1, Len(whole))
    OBVIOUS
  <2>4. /\ x \in ByteSeq /\ y \in ByteSeq /\ x \o y = whole
        /\ Len(x) = Least(Len(whole), n) /\ Len(y) = Len(whole) - Len(x)
    BY <2>2, <2>3, LeftOf
  <2>5. x = piece /\ y = b.pending[cs]
    BY <1>4, <1>7, <2>1, <2>2, <2>3
  <2>6. QED
    BY <2>1, <2>4, <2>5
<1>14. /\ h \in Seq(0 .. 255) /\ Len(h) \in Nat \ {0} /\ piece \in Seq(0 .. 255)
       /\ up \in Seq(0 .. 255) /\ bytes \in Seq(0 .. 255)
  <2>1. ClientHead(format, m, time) \in ByteSeq /\ Len(ClientHead(format, m, time)) \in Nat \ {0}
    <3>1. ChunkMessage(m) /\ time \in Nat /\ time < Mark
      BY <1>2
    <3>2. QED
      BY <3>1, HeadBytes
  <2>2. h \in Seq(0 .. 255) /\ Len(h) \in Nat \ {0}
    BY <2>1 DEF ByteSeq, h
  <2>3. piece \in Seq(0 .. 255) /\ up \in Seq(0 .. 255) /\ bytes \in Seq(0 .. 255)
    BY <1>5, <1>13 DEF ByteSeq
  <2>4. QED
    BY <2>2, <2>3
<1>15. Len(bytes) = Len(h) + Len(piece)
  <2>1. h \in Seq(0 .. 255)
    BY <1>14
  <2>2. piece \in Seq(0 .. 255)
    BY <1>14
  <2>3. PICK z : z = h \o piece
    OBVIOUS
  <2>4. Len(z) = Len(h) + Len(piece)
    BY <2>1, <2>2, <2>3, Joined
  <2>5. QED
    BY <2>3, <2>4
<1>16. Placed(up, 0, h) /\ Placed(up, Len(h), piece)
  <2> HIDE DEF bytes
  <2>1. PICK at \in Nat : at = 0
    OBVIOUS
  <2>2. Placed(up, at, bytes)
    <3>1. Len(bytes) # 0 /\ Slice(up, at, Len(bytes)) = bytes
      BY <1>5, <1>6, <2>1
    <3>2. bytes \in Seq(0 .. 255)
      BY <1>14
    <3>3. up \in Seq(0 .. 255)
      BY <1>14
    <3>4. QED
      BY <3>1, <3>2, <3>3, SlicePlaced
  <2>3. Placed(up, at, h) /\ Placed(up, at + Len(h), piece)
    <3>1. h \in Seq(0 .. 255)
      BY <1>14
    <3>2. piece \in Seq(0 .. 255)
      BY <1>14
    <3>3. up \in Seq(0 .. 255)
      BY <1>14
    <3>4. Placed(up, at, h \o piece)
      BY <2>2 DEF bytes
    <3>5. QED
      BY <3>1, <3>2, <3>3, <3>4, PlacedJoined
  <2>4. at + Len(h) = Len(h)
    BY <1>14, <2>1
  <2>5. QED
    BY <2>1, <2>3, <2>4
<1>17. StartsWith(up, h)
  <2>1. 0 + Len(h) <= Len(up) /\ \A i \in 1 .. Len(h) : up[0 + i] = h[i]
    BY <1>16 DEF Placed
  <2>2. \A i \in 1 .. Len(h) : 0 + i = i
    BY <1>14
  <2>3. 0 + Len(h) = Len(h)
    BY <1>14
  <2>4. QED
    BY <2>1, <2>2, <2>3 DEF StartsWith
<1>18. Slice(up, Len(h), Len(piece)) = piece
  <2>1. PICK n \in Nat : n = Len(h)
    BY <1>14
  <2>2. Placed(up, n, piece)
    BY <1>16, <2>1
  <2>3. up \in Seq(0 .. 255)
    BY <1>14
  <2>4. piece \in Seq(0 .. 255)
    BY <1>14
  <2>5. Slice(up, n, Len(piece)) = piece
    BY <2>2, <2>3, <2>4, SlicePlaced
  <2>6. QED
    BY <2>1, <2>5
<1>19. c.extend = FALSE
  BY <1>8 DEF ChunkOK
<1>20. ReadsHead(c, format, m, time, up)
  <2>1. up \in Seq(0 .. 255)
    BY <1>14
  <2>2. StartsWith(up, ClientHead(format, m, time))
    BY <1>17 DEF h
  <2>3. QED
    BY <1>2, <1>19, <2>1, <2>2, ClientHeadRead
<1>21. PICK used : used = BasicHead(up).used
  OBVIOUS
<1>22. PICK r : r = ReadChunkHead(c, format, up, used)
  OBVIOUS
<1>23. /\ BasicHead(up).format = format /\ BasicHead(up).csId = m.csId
       /\ used + r.used = Len(h)
       /\ r.chunk.extend = FALSE
       /\ r.chunk.length = (IF format <= 1 THEN Len(m.data) ELSE c.length)
       /\ r.chunk.timestamp = (IF format = 0 THEN time
                               ELSE IF format = 3 THEN c.timestamp ELSE c.timestamp + time)
       /\ r.chunk.typeId = (IF format <= 1 THEN m.typeId ELSE c.typeId)
       /\ r.chunk.streamId = (IF format = 0 THEN m.streamId ELSE c.streamId)
       /\ r.chunk.remain = (IF format # 3 \/ c.remain = 0 THEN r.chunk.length ELSE c.remain)
       /\ r.chunk.data = (IF format # 3 \/ c.remain = 0 THEN << >> ELSE c.data)
  BY <1>20, <1>21, <1>22 DEF ReadsHead, h
<1>24. Len(rest) \in Nat /\ Len(m.data) \in Nat /\ (Len(a.pending[cs]) = 0 <=> a.pending[cs] = << >>)
       /\ Len(a.pending[cs]) \in Nat
  <2>1. rest \in Seq(0 .. 255) /\ m.data \in Seq(0 .. 255) /\ a.pending[cs] \in Seq(0 .. 255)
    BY <1>1, <1>2, <1>3 DEF ByteSeq
  <2>2. QED
    BY <2>1, LenProperties, EmptySeq
\* A chunk that continues a message finds what was left of it; any other one
\* starts a message, unless one is open that was given up.
<1>25. /\ r.chunk.remain = Len(rest) /\ r.chunk.length = Len(m.data)
       /\ r.chunk.timestamp = m.timestamp /\ r.chunk.typeId = m.typeId
       /\ r.chunk.streamId = m.streamId
       /\ r.chunk.data \in ByteSeq /\ r.chunk.data \o rest = m.data
       /\ (format # 3 /\ c.remain # 0 => aborted)
  <2>1. CASE a.pending[cs] # << >>
    <3>1. /\ format = 3 /\ b.prior[cs] = a.prior[cs] /\ a.prior[cs].known
          /\ rest = a.pending[cs] /\ c.remain = Len(rest) /\ c.remain # 0
      BY <1>8, <1>9, <1>10, <1>11, <1>24, <2>1
    <3>2. /\ r.chunk.remain = Len(rest) /\ r.chunk.data = c.data /\ r.chunk.length = Len(m.data)
          /\ r.chunk.timestamp = m.timestamp /\ r.chunk.typeId = m.typeId
          /\ r.chunk.streamId = m.streamId
      BY <1>8, <1>23, <3>1 DEF m
    <3>3. c.data \o rest = m.data /\ c.data \in ByteSeq
      BY <1>8, <3>1 DEF m, ChunkOK
    <3>4. QED
      BY <3>1, <3>2, <3>3
  <2>2. CASE a.pending[cs] = << >>
    <3>1. rest = m.data /\ (a.prior[cs].known => c.remain = 0) /\ (~a.prior[cs].known => format = 0)
      BY <1>8, <1>9, <1>10, <1>24, <2>2
    <3>2. (format # 3 \/ c.remain = 0) /\ (format # 3 /\ c.remain # 0 => aborted)
      <4>1. CASE a.prior[cs].known
        BY <3>1, <4>1
      <4>2. CASE ~a.prior[cs].known
        <5>1. format = 0 /\ (c.remain # 0 => aborted)
          BY <1>8, <3>1, <4>2
        <5>2. QED
          BY <5>1
      <4>3. QED
        BY <4>1, <4>2
    <3>3. r.chunk.length = Len(m.data) /\ r.chunk.typeId = m.typeId /\ r.chunk.streamId = m.streamId
      <4>1. CASE format = 0
        BY <1>23, <4>1
      <4>2. CASE format = 1
        BY <1>8, <1>10, <1>23, <2>2, <4>2
      <4>3. CASE format \in {2, 3}
        <5>1. ~(format <= 1) /\ format # 0
          BY <4>3
        <5>2. QED
          BY <1>8, <1>10, <1>23, <2>2, <4>3, <5>1
      <4>4. QED
        BY <4>1, <4>2, <4>3
    <3>4. r.chunk.timestamp = m.timestamp
      <4>1. CASE format = 0
        BY <1>10, <1>23, <2>2, <4>1
      <4>2. CASE format \in {1, 2}
        <5>1. format # 0 /\ format # 3
          BY <4>2
        <5>2. QED
          BY <1>8, <1>10, <1>23, <2>2, <5>1
      <4>3. CASE format = 3
        <5>1. a.prior[cs].m.timestamp + 0 = a.prior[cs].m.timestamp
          BY <1>1 DEF Priors, Messages
        <5>2. QED
          BY <1>8, <1>10, <1>23, <2>2, <4>3, <5>1
      <4>4. QED
        BY <4>1, <4>2, <4>3
    <3>5. r.chunk.remain = Len(rest) /\ r.chunk.data = << >>
      BY <1>23, <3>1, <3>2, <3>3
    <3>6. << >> \o rest = rest /\ << >> \in ByteSeq
      <4>1. rest \in Seq(0 .. 255)
        BY <1>3 DEF ByteSeq
      <4>2. QED
        BY <4>1, ConcatEmptySeq DEF ByteSeq
    <3>7. QED
      BY <3>1, <3>2, <3>3, <3>4, <3>5, <3>6
  <2>3. QED
    BY <2>1, <2>2
<1>26. PICK k : k = r.chunk
  OBVIOUS
<1>27. k = [timestamp |-> k.timestamp, length |-> k.length, typeId |-> k.typeId,
            streamId |-> k.streamId, timeDelta |-> k.timeDelta, extend |-> k.extend,
            remain |-> k.remain, data |-> k.data]
  BY <1>22, <1>26 DEF ReadChunkHead
<1>28. Least(k.remain, peerSize) = Len(piece)
  BY <1>12, <1>13, <1>25, <1>26
<1>29. PICK new : new = [k EXCEPT !.remain = @ - Len(piece), !.data = @ \o piece]
  OBVIOUS
<1>30. NextChunk = [invalid |-> format # 3 /\ c.remain # 0, used |-> Len(h) + Len(piece), chunk |-> new]
  <2>1. NextChunk = ReadChunk(c, format, up, used, peerSize)
    BY <1>2, <1>21, <1>23 DEF NextChunk, c
  <2>2. Slice(up, used + r.used, Least(k.remain, peerSize)) = piece
    BY <1>18, <1>23, <1>28
  <2>3. used + r.used + Least(k.remain, peerSize) = Len(h) + Len(piece)
    BY <1>23, <1>28
  <2>4. QED
    BY <1>22, <1>26, <1>28, <1>29, <2>1, <2>2, <2>3 DEF ReadChunk
<1>31. /\ new.timestamp = k.timestamp /\ new.length = k.length /\ new.typeId = k.typeId
       /\ new.streamId = k.streamId /\ new.extend = k.extend
       /\ new.remain = k.remain - Len(piece) /\ new.data = k.data \o piece
  BY <1>27, <1>29
<1>32. new.data \in ByteSeq /\ Len(new.data) = Len(k.data) + Len(piece)
       /\ new.data \o b.pending[cs] = m.data /\ Len(k.data) + Len(rest) = Len(m.data)
  <2>1. k.data \in Seq(0 .. 255) /\ k.data \in ByteSeq
    BY <1>25, <1>26 DEF ByteSeq
  <2>2. new.data \in ByteSeq /\ Len(new.data) = Len(k.data) + Len(piece)
    <3>1. PICK x \in ByteSeq, y \in ByteSeq : x = k.data /\ y = piece
      BY <1>13, <2>1
    <3>2. x \o y \in ByteSeq /\ Len(x \o y) = Len(x) + Len(y)
      BY Behind
    <3>3. QED
      BY <1>31, <3>1, <3>2
  <2>3. (k.data \o piece) \o b.pending[cs] = k.data \o (piece \o b.pending[cs])
    <3>1. k.data \in Seq(0 .. 255)
      BY <2>1
    <3>2. piece \in Seq(0 .. 255)
      BY <1>14
    <3>3. b.pending[cs] \in Seq(0 .. 255)
      BY <1>13 DEF ByteSeq
    <3>4. PICK x \in Seq(0 .. 255), y \in Seq(0 .. 255), z \in Seq(0 .. 255) :
            x = k.data /\ y = piece /\ z = b.pending[cs]
      BY <3>1, <3>2, <3>3
    <3>5. (x \o y) \o z = x \o (y \o z)
      BY ConcatAssociative, SMTT(60)
    <3>6. QED
      BY <3>4, <3>5
  <2>4. k.data \o rest = m.data
    BY <1>25, <1>26
  <2>5. Len(k.data \o rest) = Len(k.data) + Len(rest)
    BY <1>3, <2>1, Behind
  <2>6. QED
    BY <1>13, <1>31, <2>2, <2>3, <2>4, <2>5
<1>33. new.remain = Len(b.pending[cs]) /\ new.remain \in Nat
  <2>1. new.remain = Len(b.pending[cs])
    BY <1>13, <1>25, <1>26, <1>31
  <2>2. b.pending[cs] \in Seq(0 .. 255)
    BY <1>13 DEF ByteSeq
  <2>3. QED
    BY <2>1, <2>2, LenProperties
<1>34. Len(new.data) + new.remain = Len(m.data)
  <2>1. Len(piece) \in Nat /\ Len(k.data) \in Nat
    <3>1. piece \in Seq(0 .. 255)
      BY <1>14
    <3>2. k.data \in Seq(0 .. 255)
      BY <1>25, <1>26 DEF ByteSeq
    <3>3. QED
      BY <3>1, <3>2, LenProperties
  <2>2. new.remain = Len(rest) - Len(piece)
    BY <1>13, <1>33
  <2>3. Len(new.data) = Len(k.data) + Len(piece) /\ Len(k.data) + Len(rest) = Len(m.data)
    BY <1>32
  <2>4. QED
    BY <1>24, <2>1, <2>2, <2>3, SMTT(60)
<1>35. /\ new.timestamp = m.timestamp /\ new.length = Len(m.data)
       /\ new.typeId = m.typeId /\ new.streamId = m.streamId /\ new.extend = FALSE
  BY <1>23, <1>25, <1>26, <1>31
<1>36. ChunkOK(new)
  <2>1. new.streamId \in Nat
    BY <1>2, <1>35
  <2>2. QED
    BY <1>2, <1>24, <1>32, <1>33, <1>34, <1>35, <2>1, ZenonT(60) DEF ChunkOK
<1>37. b.at = Len(h) + Len(piece)
  <2>1. PICK x \in Nat : x = Len(bytes)
    BY <1>5
  <2>2. b.at = 0 + x
    BY <1>6, <2>1
  <2>3. QED
    BY <1>15, <2>1, <2>2
<1>38. PICK next : next = NextChunk
  OBVIOUS
<1>39. /\ next.invalid \in BOOLEAN /\ (next.invalid => aborted) /\ next.used = b.at
       /\ next.chunk = new
  <2>1. (format # 3 /\ c.remain # 0) \in BOOLEAN
    OBVIOUS
  <2>2. QED
    BY <1>25, <1>30, <1>37, <1>38, <2>1
<1>40. BasicHead(up).csId = cs
  BY <1>2, <1>23
<1>41. QED
  BY <1>32, <1>33, <1>35, <1>36, <1>38, <1>39, <1>40 DEF ReadsPiece, m

\* Once the server has the chunk, and where it refuses it: what it keeps, returns and
\* decides.
TakesPiece(b, cs) ==
  LET m == b.prior[cs].m
      r == NextChunk
  IN \/ /\ phase' = "ended" /\ aborted
        /\ UNCHANGED <<chunks, peerSize, received>>
     \/ /\ chunks' = [k \in DOMAIN chunks \cup {cs} |-> IF k = cs THEN r.chunk ELSE chunks[k]]
        /\ ChunkOK(r.chunk)
        /\ r.chunk.timestamp = m.timestamp /\ r.chunk.length = Len(m.data)
        /\ r.chunk.typeId = m.typeId /\ r.chunk.streamId = m.streamId
        /\ r.chunk.remain = Len(b.pending[cs]) /\ r.chunk.data \o b.pending[cs] = m.data
        /\ peerSize' = b.size
        /\ \/ received' = received /\ b.pending[cs] # << >>
           \/ received' = Append(received, Body(m)) /\ b.pending[cs] = << >>
        /\ \/ phase' = "reading"
           \/ phase' = "ended" /\ received' = Append(received, Body(m))
              /\ IsMedia(Body(m)) /\ ~TagParses(Body(m))

LEMMA ReadMsgTakes ==
  ASSUME NEW a, NEW b, NEW cs \in CsIds, MomentOK(a), MomentOK(b),
         MessageAdvances(a, b, cs), ServerAt(a), ReadsPiece(b, cs), ReadMsg
  PROVE  TakesPiece(b, cs)
<1>1. PICK r : r = NextChunk
  OBVIOUS
<1>2. PICK m : m = b.prior[cs].m
  OBVIOUS
<1>3. PICK left : left = b.pending[cs]
  OBVIOUS
<1>4. left \in Seq(0 .. 255) /\ m \in Messages
  BY <1>2, <1>3 DEF MomentOK, MomentSet, Priors, ByteSeq
<1>5. Len(left) \in Nat /\ (Len(left) = 0 <=> left = << >>)
  BY <1>4, LenProperties, EmptySeq
<1>6. /\ BasicHead(up).csId = cs /\ (r.invalid => aborted) /\ r.invalid \in BOOLEAN
      /\ ~r.invalid =>
           /\ ChunkOK(r.chunk)
           /\ r.chunk.timestamp = m.timestamp /\ r.chunk.length = Len(m.data)
           /\ r.chunk.typeId = m.typeId /\ r.chunk.streamId = m.streamId
           /\ r.chunk.remain = Len(left) /\ r.chunk.data \o left = m.data
  BY <1>1, <1>2, <1>3 DEF ReadsPiece
<1>7. phase = "reading" /\ peerSize = a.size
  BY DEF ReadMsg, ServerAt
<1>8. CASE r.invalid
  <2>1. phase' = "ended" /\ UNCHANGED <<chunks, peerSize, received>>
    BY <1>1, <1>8 DEF ReadMsg
  <2>2. QED
    BY <1>6, <1>8, <2>1 DEF TakesPiece
<1>9. CASE ~r.invalid
  <2>1. /\ chunks' = [k \in DOMAIN chunks \cup {cs} |-> IF k = cs THEN r.chunk ELSE chunks[k]]
        /\ IF r.chunk.remain = 0 THEN Receive(Body(r.chunk))
           ELSE UNCHANGED <<peerSize, phase, received, packets, cache, file, player, down>>
    BY <1>1, <1>6, <1>9 DEF ReadMsg
  <2>2. left = SubSeq(Rest(a, b, cs), Len(Piece(a, b, cs)) + 1, Len(Rest(a, b, cs)))
    BY <1>3 DEF MessageAdvances
  <2>3. b.size = IF left = << >> /\ m.typeId = SetChunkSize THEN ReadBE(m.data, 0, 4) ELSE a.size
    BY <1>2, <1>3, <2>2 DEF MessageAdvances
  <2>4. CASE left # << >>
    <3>1. UNCHANGED <<peerSize, phase, received>>
      BY <1>5, <1>6, <1>9, <2>1, <2>4
    <3>2. QED
      BY <1>1, <1>2, <1>3, <1>6, <1>7, <1>9, <2>1, <2>3, <2>4, <3>1 DEF TakesPiece
  <2>5. CASE left = << >>
    <3>1. Receive(Body(r.chunk))
      BY <1>5, <1>6, <1>9, <2>1, <2>5
    <3>2. r.chunk.data = m.data
      <4>1. r.chunk.data \in Seq(0 .. 255)
        BY <1>6, <1>9 DEF ChunkOK, ByteSeq
      <4>2. r.chunk.data \o << >> = r.chunk.data
        <5>1. PICK d \in Seq(0 .. 255) : d = r.chunk.data
          BY <4>1
        <5>2. d \o << >> = d
          BY ConcatEmptySeq
        <5>3. QED
          BY <5>1, <5>2
      <4>3. QED
        BY <1>6, <1>9, <2>5, <4>2
    <3>3. Body(r.chunk) = Body(m)
      BY <1>6, <1>9, <3>2 DEF Body
    <3>4. PICK w : w = Body(m)
      OBVIOUS
    <3>5. w.typeId = m.typeId /\ w.data = m.data
      BY <3>4 DEF Body
    <3>6. /\ received' = Append(received, w)
          /\ peerSize' = IF w.typeId = SetChunkSize THEN ReadBE(w.data, 0, 4) ELSE peerSize
          /\ phase' = IF IsMedia(w) /\ ~TagParses(w) THEN "ended" ELSE phase
      BY <3>1, <3>3, <3>4 DEF Receive
    <3>7. peerSize' = b.size
      BY <1>7, <2>3, <2>5, <3>5, <3>6
    <3>8. phase' = "reading" \/ (phase' = "ended" /\ IsMedia(w) /\ ~TagParses(w))
      BY <1>7, <3>6
    <3>9. QED
      BY <1>1, <1>2, <1>3, <1>6, <1>9, <2>1, <2>5, <3>4, <3>6, <3>7, <3>8 DEF TakesPiece
  <2>6. QED
    BY <2>4, <2>5
<1>10. QED
  BY <1>6, <1>8, <1>9

LEMMA ReadMsgKeeps ==
  ASSUME StreamInv, ReadMsg
  PROVE  StreamInv'
<1>0. /\ up \in ByteSeq /\ flight \in Seq(MomentSet) /\ sent \in Seq(Bodies)
      /\ aborted \in BOOLEAN /\ phase \in {"reading", "ended"} /\ peerSize \in Nat \ {0}
      /\ \A k \in DOMAIN chunks : ChunkOK(chunks[k])
  BY DEF StreamInv, Typed
<1>1. phase = "reading" /\ up # << >> /\ UNCHANGED client
  BY DEF ReadMsg
<1>2. PICK ms : ms = Moments
  OBVIOUS
<1>3. PICK now : now = Moment
  OBVIOUS
<1>4. PICK l \in Nat : l = Len(flight)
  BY <1>0, LenProperties
<1>5. DOMAIN ms = 1 .. l + 1 /\ ms[l + 1] = now /\ \A k \in 1 .. l : ms[k] = flight[k]
  BY <1>0, <1>2, <1>3, <1>4, MomentsAre
<1>6. /\ ms[1].at = 0 /\ ServerAt(ms[1]) /\ \A k \in DOMAIN flight : ChunkBetween(ms[k], ms[k + 1])
  BY <1>1, <1>2 DEF StreamInv, ServerLagsClient
<1>7. PICK n \in Nat : l = n + 1
  <2>1. Len(up) # 0
    <3>1. up \in Seq(0 .. 255)
      BY <1>0 DEF ByteSeq
    <3>2. QED
      BY <1>1, <3>1, EmptySeq
  <2>2. now.at = Len(up)
    BY <1>3 DEF Moment
  <2>3. l # 0
    BY <1>5, <1>6, <2>1, <2>2
  <2>4. l - 1 \in Nat /\ l = (l - 1) + 1
    BY <2>3
  <2>5. QED
    BY <2>4
<1>8. DOMAIN ms = 1 .. n + 2 /\ ms[n + 2] = now /\ DOMAIN flight = 1 .. n + 1
  <2>1. l + 1 = n + 2
    BY <1>7
  <2>2. QED
    <3>1. DOMAIN ms = 1 .. n + 2 /\ ms[n + 2] = now
      BY <1>5, <2>1
    <3>2. DOMAIN flight = 1 .. Len(flight)
      BY <1>0
    <3>3. QED
      BY <1>4, <1>7, <3>1, <3>2
<1>9. \A k \in 1 .. n + 2 : MomentOK(ms[k]) /\ ms[k].count <= Len(sent)
  BY <1>2, <1>8 DEF StreamInv, MomentsOK
<1>10. \A k \in 1 .. n + 2 :
         /\ ms[k].at \in Nat /\ ms[k].at <= Len(up)
         /\ \A j \in 1 .. n + 2 : j < k => ms[j].at < ms[k].at
  BY <1>1, <1>2, <1>8 DEF StreamInv, Ordered
<1>11. PICK a : a = ms[1]
  OBVIOUS
<1>12. PICK b : b = ms[2]
  OBVIOUS
<1>13. /\ MomentOK(a) /\ MomentOK(b) /\ ChunkBetween(a, b) /\ a.at = 0 /\ ServerAt(a)
       /\ b.at \in Nat /\ b.at <= Len(up) /\ b.count <= Len(sent) /\ a.count <= Len(sent)
  <2>1. 1 \in 1 .. n + 2 /\ 2 \in 1 .. n + 2 /\ 1 \in 1 .. n + 1 /\ 1 + 1 = 2
    OBVIOUS
  <2>2. ChunkBetween(a, b)
    BY <1>6, <1>8, <1>11, <1>12, <2>1
  <2>3. QED
    BY <1>6, <1>9, <1>10, <1>11, <1>12, <2>1, <2>2
<1>14. PICK cs \in CsIds, format \in 0 .. 3 :
         /\ HeadFits(a, b, cs, format) /\ MessageAdvances(a, b, cs)
         /\ OthersKept(a, b, cs) /\ BytesCarried(a, b, cs, format)
  BY <1>13 DEF ChunkBetween
<1>15. ReadsPiece(b, cs)
  BY <1>0, <1>13, <1>14, NextChunkReads
<1>16. TakesPiece(b, cs)
  BY <1>13, <1>14, <1>15, ReadMsgTakes
<1>17. PICK u \in Nat : u = b.at
  BY <1>13
<1>18. /\ NextChunk.used = u /\ u <= Len(up) /\ u \in Int
       /\ up' = SubSeq(up, u + 1, Len(up))
       /\ flight' = [k \in 1 .. Len(flight) - 1 |-> Back(flight[k + 1], u)]
  <2>1. NextChunk.used = u
    BY <1>15, <1>17 DEF ReadsPiece
  <2>2. QED
    BY <1>13, <1>17, <2>1 DEF ReadMsg, Back
<1>19. up' \in ByteSeq /\ Len(up') = Len(up) - u /\ Len(up) \in Nat
  <2>1. Len(up) \in Nat
    BY <1>0, LenProperties DEF ByteSeq
  <2>2. QED
    BY <1>0, <1>18, <2>1, RestOfBytes
<1>20. Moment' = Back(Moment, u)
  BY <1>1, <1>19, SMTT(60) DEF Moment, Back, client
<1>21. PICK new : new = Moments'
  OBVIOUS
<1>22. /\ flight' \in Seq(MomentSet) /\ DOMAIN (flight') = 1 .. n
       /\ DOMAIN new = 1 .. n + 1
       /\ \A k \in 1 .. n + 1 : new[k] = Back(ms[k + 1], u)
  <2>1. \A k \in 1 .. n + 2 : MomentOK(Moments[k])
    BY <1>2, <1>9
  <2>2. Len(flight) = n + 1
    BY <1>4, <1>7
  <2>3. QED
    BY <1>0, <1>2, <1>18, <1>20, <1>21, <2>1, <2>2, MomentsShift
<1>23. \A k \in 1 .. n + 1 :
         /\ MomentOK(new[k]) /\ new[k].at = ms[k + 1].at - u
         /\ new[k].size = ms[k + 1].size /\ new[k].prior = ms[k + 1].prior
         /\ new[k].pending = ms[k + 1].pending /\ new[k].count = ms[k + 1].count
  <2>1. TAKE k \in 1 .. n + 1
  <2>2. k + 1 \in 1 .. n + 2
    OBVIOUS
  <2>3. MomentOK(ms[k + 1]) /\ new[k] = Back(ms[k + 1], u)
    BY <1>9, <1>22, <2>2
  <2>4. PICK d : d = ms[k + 1]
    OBVIOUS
  <2>5. /\ MomentOK(Back(d, u)) /\ Back(d, u).at = d.at - u
        /\ Back(d, u).size = d.size /\ Back(d, u).prior = d.prior
        /\ Back(d, u).pending = d.pending /\ Back(d, u).count = d.count
    BY <1>18, <2>3, <2>4, BackIs
  <2>6. QED
    BY <2>3, <2>4, <2>5
<1>24. sent' = sent /\ aborted' = aborted
  BY <1>1 DEF client
<1>25. PICK m : m = b.prior[cs].m
  OBVIOUS
<1>26. PICK r : r = NextChunk
  BY SMTT(60)
<1>27. \/ /\ phase' = "ended" /\ aborted
          /\ UNCHANGED <<chunks, peerSize, received>>
       \/ /\ chunks' = [k \in DOMAIN chunks \cup {cs} |-> IF k = cs THEN r.chunk ELSE chunks[k]]
          /\ ChunkOK(r.chunk)
          /\ r.chunk.timestamp = m.timestamp /\ r.chunk.length = Len(m.data)
          /\ r.chunk.typeId = m.typeId /\ r.chunk.streamId = m.streamId
          /\ r.chunk.remain = Len(b.pending[cs]) /\ r.chunk.data \o b.pending[cs] = m.data
          /\ peerSize' = b.size
          /\ \/ received' = received /\ b.pending[cs] # << >>
             \/ received' = Append(received, Body(m)) /\ b.pending[cs] = << >>
          /\ \/ phase' = "reading"
             \/ phase' = "ended" /\ received' = Append(received, Body(m))
                /\ IsMedia(Body(m)) /\ ~TagParses(Body(m))
  BY <1>16, <1>25, <1>26, ZenonT(60) DEF TakesPiece
<1>28. CASE phase' = "ended" /\ aborted /\ UNCHANGED <<chunks, peerSize, received>>
  <2>1. Typed'
    BY <1>0, <1>19, <1>22, <1>24, <1>28 DEF Typed
  <2>2. MomentsOK'
    <3>1. ASSUME NEW k \in 1 .. n + 1 PROVE MomentOK(new[k]) /\ new[k].count <= Len(sent')
      <4>1. k + 1 \in 1 .. n + 2
        OBVIOUS
      <4>2. QED
        BY <1>9, <1>23, <1>24, <4>1
    <3>2. QED
      BY <1>21, <1>22, <3>1 DEF MomentsOK
  <2>3. Prefix'
    BY <1>24, <1>28 DEF StreamInv, Prefix
  <2>4. Ordered' /\ ServerLagsClient'
    BY <1>28 DEF Ordered, ServerLagsClient
  <2>5. EndsForAReason'
    BY <1>24, <1>28 DEF EndsForAReason
  <2>6. QED
    BY <2>1, <2>2, <2>3, <2>4, <2>5 DEF StreamInv
<1>29. CASE ~(phase' = "ended" /\ aborted /\ UNCHANGED <<chunks, peerSize, received>>)
  <2>1. /\ chunks' = [k \in DOMAIN chunks \cup {cs} |-> IF k = cs THEN r.chunk ELSE chunks[k]]
        /\ ChunkOK(r.chunk)
        /\ r.chunk.timestamp = m.timestamp /\ r.chunk.length = Len(m.data)
        /\ r.chunk.typeId = m.typeId /\ r.chunk.streamId = m.streamId
        /\ r.chunk.remain = Len(b.pending[cs]) /\ r.chunk.data \o b.pending[cs] = m.data
        /\ peerSize' = b.size
        /\ \/ received' = received /\ b.pending[cs] # << >>
           \/ received' = Append(received, Body(m)) /\ b.pending[cs] = << >>
        /\ \/ phase' = "reading"
           \/ phase' = "ended" /\ received' = Append(received, Body(m))
              /\ IsMedia(Body(m)) /\ ~TagParses(Body(m))
    BY <1>27, <1>29
  <2>2. DOMAIN chunks' = DOMAIN chunks \cup {cs}
        /\ \A k \in DOMAIN chunks' : chunks'[k] = IF k = cs THEN r.chunk ELSE chunks[k]
    BY <2>1
  <2>3. b.size \in Nat \ {0} /\ a.count \in Nat /\ b.count \in Nat
    BY <1>13 DEF MomentOK, MomentSet
  <2>4. Typed'
    <3>1. \A k \in DOMAIN chunks' : ChunkOK(chunks'[k])
      BY <1>0, <2>1, <2>2
    <3>2. phase' \in {"reading", "ended"} /\ peerSize' \in Nat \ {0}
      BY <2>1, <2>3
    <3>3. QED
      BY <1>0, <1>19, <1>22, <1>24, <3>1, <3>2 DEF Typed
  <2>5. MomentsOK'
    <3>1. ASSUME NEW k \in 1 .. n + 1 PROVE MomentOK(new[k]) /\ new[k].count <= Len(sent')
      <4>1. k + 1 \in 1 .. n + 2
        OBVIOUS
      <4>2. QED
        BY <1>9, <1>23, <1>24, <4>1
    <3>2. QED
      BY <1>21, <1>22, <3>1 DEF MomentsOK
  <2>6. received' = SubSeq(sent, 1, b.count)
    <3>1. received = SubSeq(sent, 1, a.count)
      BY <1>13 DEF ServerAt
    <3>2. PICK left : left = SubSeq(Rest(a, b, cs), Len(Piece(a, b, cs)) + 1, Len(Rest(a, b, cs)))
      OBVIOUS
    <3>3. /\ b.pending[cs] = left /\ b.count = a.count + (IF left = << >> THEN 1 ELSE 0)
          /\ left = << >> => sent[b.count] = Body(m)
      BY <1>14, <1>25, <3>2 DEF MessageAdvances
    <3>4. CASE left # << >>
      BY <2>1, <2>3, <3>1, <3>3, <3>4
    <3>5. CASE left = << >>
      <4>1. b.count = a.count + 1 /\ received' = Append(received, sent[a.count + 1])
        BY <2>1, <3>3, <3>5
      <4>2. a.count + 1 <= Len(sent)
        BY <1>13, <4>1
      <4>3. SubSeq(sent, 1, a.count + 1) = Append(SubSeq(sent, 1, a.count), sent[a.count + 1])
        BY <1>0, <2>3, <4>2, FirstsNext
      <4>4. QED
        BY <3>1, <4>1, <4>3
    <3>6. QED
      BY <3>4, <3>5
  <2>7. Prefix'
    <3>1. Len(sent) \in Nat
      BY <1>0, LenProperties
    <3>2. b.count \in 0 .. Len(sent)
      BY <1>13, <2>3, <3>1
    <3>3. Len(received') = b.count
      BY <1>0, <2>6, <3>2, FirstsAre
    <3>4. QED
      BY <1>24, <2>6, <3>2, <3>3 DEF Prefix
  <2>8. Ordered'
    <3>1. ASSUME NEW k \in 1 .. n + 1
          PROVE  /\ new[k].at \in Nat /\ new[k].at <= Len(up')
                 /\ \A j \in 1 .. n + 1 : j < k => new[j].at < new[k].at
      <4>1. k + 1 \in 1 .. n + 2 /\ 2 \in 1 .. n + 2 /\ (2 < k + 1 \/ k + 1 = 2)
        OBVIOUS
      <4>2. u <= ms[k + 1].at /\ ms[k + 1].at \in Nat /\ ms[k + 1].at <= Len(up)
        <5>1. ms[2].at = u
          BY <1>12, <1>17
        <5>2. CASE k + 1 = 2
          BY <1>10, <4>1, <5>1, <5>2
        <5>3. CASE 2 < k + 1
          <6>1. ms[k + 1].at \in Nat /\ ms[k + 1].at <= Len(up) /\ ms[2].at < ms[k + 1].at
            BY <1>10, <4>1, <5>3
          <6>2. QED
            BY <5>1, <6>1
        <5>4. QED
          BY <4>1, <5>2, <5>3
      <4>3. new[k].at = ms[k + 1].at - u
        BY <1>23
      <4>4. ASSUME NEW j \in 1 .. n + 1, j < k PROVE new[j].at < new[k].at
        <5>1. j + 1 \in 1 .. n + 2 /\ j + 1 < k + 1
          BY <4>4
        <5>2. ms[j + 1].at < ms[k + 1].at /\ ms[j + 1].at \in Nat
          BY <1>10, <4>1, <5>1
        <5>3. new[j].at = ms[j + 1].at - u
          BY <1>23
        <5>4. QED
          BY <4>2, <4>3, <5>2, <5>3, SMTT(60)
      <4>5. QED
        BY <1>19, <4>2, <4>3, <4>4, SMTT(60)
    <3>2. QED
      BY <1>21, <1>22, <3>1 DEF Ordered
  <2>9. ServerLagsClient'
    <3>1. PICK c : c = new[1]
      OBVIOUS
    <3>2. /\ c.at = 0 /\ c.size = b.size /\ c.prior = b.prior /\ c.pending = b.pending
          /\ c.count = b.count
      <4>1. 1 \in 1 .. n + 1 /\ 1 + 1 = 2
        OBVIOUS
      <4>2. c.at = b.at - u /\ c.size = b.size /\ c.prior = b.prior /\ c.pending = b.pending
            /\ c.count = b.count
        BY <1>12, <1>23, <3>1, <4>1
      <4>3. QED
        BY <1>17, <4>2
    <3>3. ServerAt(c)'
      <4>1. ASSUME NEW k \in CsIds
            PROVE  IF b.prior[k].known
                   THEN /\ k \in DOMAIN chunks'
                        /\ chunks'[k].timestamp = b.prior[k].m.timestamp
                        /\ chunks'[k].length = Len(b.prior[k].m.data)
                        /\ chunks'[k].typeId = b.prior[k].m.typeId
                        /\ chunks'[k].streamId = b.prior[k].m.streamId
                        /\ chunks'[k].remain = Len(b.pending[k])
                        /\ chunks'[k].data \o b.pending[k] = b.prior[k].m.data
                   ELSE k \in DOMAIN chunks' /\ chunks'[k].remain # 0 => aborted
        <5>1. CASE k = cs
          <6>1. b.prior[cs].known
            BY <1>14 DEF MessageAdvances
          <6>2. chunks'[cs] = r.chunk /\ cs \in DOMAIN chunks'
            BY <2>2, SMTT(60)
          <6>3. QED
            BY <1>25, <2>1, <5>1, <6>1, <6>2
        <5>2. CASE k # cs
          <6>1. \/ b.prior[k] = a.prior[k] /\ b.pending[k] = a.pending[k]
                \/ aborted /\ ~b.prior[k].known /\ b.pending[k] = << >>
            BY <1>14, <5>2 DEF OthersKept
          <6>2. /\ (k \in DOMAIN chunks' <=> k \in DOMAIN chunks)
                /\ k \in DOMAIN chunks => chunks'[k] = chunks[k]
            BY <2>2, <5>2
          <6>3. CASE aborted /\ ~b.prior[k].known
            BY <6>3
          <6>4. CASE b.prior[k] = a.prior[k] /\ b.pending[k] = a.pending[k]
            <7>1. IF a.prior[k].known
                  THEN /\ k \in DOMAIN chunks
                       /\ chunks[k].timestamp = a.prior[k].m.timestamp
                       /\ chunks[k].length = Len(a.prior[k].m.data)
                       /\ chunks[k].typeId = a.prior[k].m.typeId
                       /\ chunks[k].streamId = a.prior[k].m.streamId
                       /\ chunks[k].remain = Len(a.pending[k])
                       /\ chunks[k].data \o a.pending[k] = a.prior[k].m.data
                  ELSE k \in DOMAIN chunks /\ chunks[k].remain # 0 => aborted
              BY <1>13 DEF ServerAt
            <7>2. QED
              BY <6>2, <6>4, <7>1
          <6>5. QED
            BY <6>1, <6>3, <6>4
        <5>3. QED
          BY <5>1, <5>2
      <4>2. peerSize' = c.size /\ received' = SubSeq(sent', 1, c.count)
        BY <1>24, <2>1, <2>6, <3>2
      <4>3. QED
        BY <1>24, <3>2, <4>1, <4>2, ZenonT(60) DEF ServerAt
    <3>4. ASSUME NEW k \in 1 .. n PROVE ChunkBetween(new[k], new[k + 1])'
      <4>1. PICK d : d = ms[k + 1]
        OBVIOUS
      <4>2. PICK e : e = ms[k + 2]
        OBVIOUS
      <4>3. k + 1 \in 1 .. n + 1 /\ k + 1 \in 1 .. n + 2 /\ k + 2 \in 1 .. n + 2 /\ (k + 1) + 1 = k + 2
            /\ 2 \in 1 .. n + 2 /\ (2 < k + 1 \/ k + 1 = 2) /\ k \in 1 .. n + 1
        OBVIOUS
      <4>4. ChunkBetween(d, e)
        BY <1>6, <1>8, <4>1, <4>2, <4>3
      <4>5. MomentOK(d) /\ MomentOK(e)
        BY <1>9, <4>1, <4>2, <4>3
      <4>6. d.at \in Nat /\ u <= d.at
        <5>1. ms[2].at = u /\ d.at \in Nat
          BY <1>10, <1>12, <1>17, <4>1, <4>3
        <5>2. CASE k + 1 = 2
          BY <4>1, <5>1, <5>2
        <5>3. CASE 2 < k + 1
          <6>1. ms[2].at < ms[k + 1].at
            BY <1>10, <4>3, <5>3
          <6>2. QED
            BY <4>1, <5>1, <6>1
        <5>4. QED
          BY <4>3, <5>2, <5>3
      <4>7. ChunkBetween(Back(d, u), Back(e, u))'
        BY <1>0, <1>18, <1>24, <4>4, <4>5, <4>6, BetweenShifts
      <4>8. new[k] = Back(d, u)
        BY <1>22, <4>1, <4>3
      <4>9. new[k + 1] = Back(e, u)
        BY <1>22, <4>2, <4>3
      <4>10. QED
        BY <4>7, <4>8, <4>9
    <3>5. c.at = 0 /\ c = new[1]
      BY <3>1, <3>2
    <3>6. new[1].at = 0 /\ ServerAt(new[1])'
      BY <3>3, <3>5
    <3>7. \A k \in DOMAIN (flight') : ChunkBetween(new[k], new[k + 1])'
      BY <1>22, <3>4
    <3>8. QED
      BY <1>21, <3>6, <3>7 DEF ServerLagsClient
  <2>10. EndsForAReason'
    <3>1. CASE phase' = "reading"
      BY <3>1 DEF EndsForAReason
    <3>2. CASE received' = Append(received, Body(m)) /\ IsMedia(Body(m)) /\ ~TagParses(Body(m))
      <4>1. PICK w : w = Body(m)
        OBVIOUS
      <4>2. received \in Seq(Bodies)
        <5>1. Len(received) \in 0 .. Len(sent) /\ received = SubSeq(sent, 1, Len(received))
          BY DEF StreamInv, Prefix
        <5>2. QED
          BY <1>0, <5>1, FirstsAre
      <4>3. PICK z : z = Append(received, w)
        OBVIOUS
      <4>4. Len(received) + 1 \in DOMAIN z /\ z[Len(received) + 1] = w
        BY <4>2, <4>3
      <4>5. z = received' /\ IsMedia(w) /\ ~TagParses(w)
        BY <3>2, <4>1, <4>3
      <4>6. \E i \in DOMAIN (received') : IsMedia(received'[i]) /\ ~TagParses(received'[i])
        BY <4>4, <4>5
      <4>7. QED
        BY <4>6 DEF EndsForAReason
    <3>3. QED
      BY <2>1, <3>1, <3>2
  <2>11. QED
    BY <2>4, <2>5, <2>7, <2>8, <2>9, <2>10 DEF StreamInv
<1>30. QED
  BY <1>28, <1>29

-----------------------------------------------------------------------------
(* What the server relays.                                                 *)

Kinds == {"meta", "vseq", "aseq"}

\* The messages readPacket can use, and those FlvWriter does not skip.
Media == {m \in Bodies : IsMedia(m) /\ TagParses(m)}
Uses == [m \in Bodies |-> IF IsMedia(m) /\ TagParses(m) THEN <<m>> ELSE << >>]
Keeps == [m \in Media |-> IF ~Unreformed(m) THEN <<m>> ELSE << >>]
OfKind(kind) == [m \in Media |-> IF CacheOf(m) = kind THEN <<m>> ELSE << >>]

\* The bytes a packet becomes in the file and on the way to a player.
Tags == [m \in Media |-> FlvTag(Recorded(m))]
Writes == [m \in Media |-> Written(Recorded(m))]

Used == Gathered(Uses, received)
Kept(u) == Gathered(Keeps, u)

LEMMA Makers ==
  /\ Makes(Uses, Bodies, Media) /\ Makes(Keeps, Media, Media)
  /\ \A kind : Makes(OfKind(kind), Media, Media)
<1>1. \A m \in Bodies : Uses[m] \in Seq(Media)
  <2>1. TAKE m \in Bodies
  <2>2. CASE IsMedia(m) /\ TagParses(m)
    <3>1. m \in Media
      BY <2>2 DEF Media
    <3>2. <<m>> \in Seq(Media)
      BY <3>1
    <3>3. QED
      BY <2>2, <3>2 DEF Uses
  <2>3. CASE ~(IsMedia(m) /\ TagParses(m))
    <3>1. << >> \in Seq(Media)
      OBVIOUS
    <3>2. QED
      BY <2>3, <3>1 DEF Uses
  <2>4. QED
    BY <2>2, <2>3
<1>2. ASSUME NEW m \in Media PROVE <<m>> \in Seq(Media) /\ << >> \in Seq(Media)
  OBVIOUS
<1>3. \A m \in Media : Keeps[m] \in Seq(Media)
  BY <1>2 DEF Keeps
<1>4. \A kind : \A m \in Media : OfKind(kind)[m] \in Seq(Media)
  BY <1>2 DEF OfKind
<1>5. Makes(Uses, Bodies, Media)
  BY <1>1 DEF Uses, Makes
<1>6. Makes(Keeps, Media, Media)
  BY <1>3 DEF Keeps, Makes
<1>7. \A kind : Makes(OfKind(kind), Media, Media)
  BY <1>4 DEF OfKind, Makes
<1>8. QED
  BY <1>5, <1>6, <1>7

\* Those is Gathered, for the three tests it is used with.
LEMMA UsableIs ==
  ASSUME received \in Seq(Bodies), received = SubSeq(sent, 1, Len(received))
  PROVE  Usable = Used /\ Usable \in Seq(Media)
<1>1. PICK seq \in Seq(Bodies) : seq = received
  OBVIOUS
<1>2. [i \in DOMAIN seq |-> IF IsMedia(seq[i]) /\ TagParses(seq[i]) THEN <<seq[i]>> ELSE << >>]
        = [i \in DOMAIN seq |-> Uses[seq[i]]]
  BY DEF Uses
<1>3. Usable = FlattenSeq([i \in DOMAIN seq |->
                 IF IsMedia(seq[i]) /\ TagParses(seq[i]) THEN <<seq[i]>> ELSE << >>])
  <2>1. SubSeq(sent, 1, Len(received)) = seq
    BY <1>1
  <2>2. QED
    BY <2>1 DEF Usable, Those
<1>4. Usable = Used
  BY <1>1, <1>2, <1>3 DEF Used, Gathered
<1>5. Gathered(Uses, seq) \in Seq(Media)
  BY Makers, GatheredBytes
<1>6. QED
  BY <1>1, <1>4, <1>5 DEF Used

LastOf(those) == IF those = << >> THEN << >> ELSE <<Last(those)>>

LEMMA ThoseAre ==
  ASSUME NEW u \in Seq(Media)
  PROVE  /\ Those(u, LAMBDA m : ~Unreformed(m)) = Kept(u)
         /\ \A kind : LatestOf(u, kind) = LastOf(Gathered(OfKind(kind), u))
<1>1. \A i \in DOMAIN u : u[i] \in Media
  OBVIOUS
<1>2. [i \in DOMAIN u |-> IF ~Unreformed(u[i]) THEN <<u[i]>> ELSE << >>]
        = [i \in DOMAIN u |-> Keeps[u[i]]]
  BY <1>1 DEF Keeps
<1>3. ASSUME NEW kind
      PROVE  [i \in DOMAIN u |-> IF CacheOf(u[i]) = kind THEN <<u[i]>> ELSE << >>]
               = [i \in DOMAIN u |-> OfKind(kind)[u[i]]]
  BY <1>1 DEF OfKind
<1>4. Those(u, LAMBDA m : ~Unreformed(m)) = Kept(u)
  BY <1>2 DEF Those, Kept, Gathered
<1>5. ASSUME NEW kind
      PROVE  Those(u, LAMBDA m : CacheOf(m) = kind) = Gathered(OfKind(kind), u)
  BY <1>3 DEF Those, Gathered
<1>6. ASSUME NEW kind
      PROVE  LatestOf(u, kind) = LastOf(Gathered(OfKind(kind), u))
  <2>1. LatestOf(u, kind) = LastOf(Those(u, LAMBDA m : CacheOf(m) = kind))
    BY DEF LatestOf, LastOf
  <2>2. QED
    BY <1>5, <2>1
<1>7. QED
  BY <1>4, <1>6

\* What a cache entry stands for, and what a new player gets.
Entry(u, i) == IF i = 0 THEN << >> ELSE <<u[i]>>
BurstOf(u) == LatestOf(u, "meta") \o LatestOf(u, "vseq") \o LatestOf(u, "aseq")
Shown(u, from) == BurstOf(SubSeq(u, 1, from + 1)) \o SubSeq(u, from + 2, Len(u))

\* The heap, the cache, the file and the player, as the messages used make them.
HeapOK(u, heap) ==
  heap \in Seq(Bodies) /\ Len(heap) = Len(u) /\ \A i \in 1 .. Len(u) : heap[i] = Recorded(u[i])

CacheOK(u, c) ==
  DOMAIN c = Kinds /\ \A k \in Kinds : c[k] \in 0 .. Len(u) /\ LatestOf(u, k) = Entry(u, c[k])

FileOK(u, f) == f = IF recorder = "open" THEN FlvHeader \o Gathered(Tags, Kept(u)) ELSE << >>

DownOK(u, p, from, d) ==
  /\ p \in {"none", "joined", "init"} /\ from \in 0 .. Len(u)
  /\ p = "joined" => from = Len(u)
  /\ p = "init" => from < Len(u)
  /\ d = IF p = "init" THEN Gathered(Writes, Shown(u, from)) ELSE << >>

RelayInv ==
  /\ received \in Seq(Bodies) /\ recorder \in {"off", "failed", "open"}
  /\ HeapOK(Used, packets) /\ CacheOK(Used, cache)
  /\ FileOK(Used, file) /\ DownOK(Used, player, joinedAt, down)

\* One more usable message.
LEMMA MoreIs ==
  ASSUME NEW S, NEW u \in Seq(S), NEW m \in S, NEW longer, OneMore(longer, u, m)
  PROVE  /\ longer \in Seq(S) /\ Len(longer) = Len(u) + 1 /\ longer[Len(u) + 1] = m
         /\ \A i \in 1 .. Len(u) : longer[i] = u[i]
<1>1. longer = Append(u, m)
  BY DEF OneMore
<1>2. QED
  BY <1>1

LEMMA LatestNext ==
  ASSUME NEW u \in Seq(Media), NEW m \in Media, NEW longer, OneMore(longer, u, m), NEW kind
  PROVE  LatestOf(longer, kind) = IF CacheOf(m) = kind THEN <<m>> ELSE LatestOf(u, kind)
<1>1. PICK f : f = OfKind(kind)
  OBVIOUS
<1>2. Makes(f, Media, Media)
  BY <1>1, Makers
<1>3. PICK x : x = Gathered(f, u)
  OBVIOUS
<1>4. PICK z : z = Gathered(f, longer)
  OBVIOUS
<1>5. x \in Seq(Media)
  BY <1>2, <1>3, GatheredBytes
<1>6. Joins(Gathered(f, longer), Gathered(f, u), f[m])
  BY <1>2, GatheredNext
<1>7. z = x \o f[m]
  BY <1>3, <1>4, <1>6 DEF Joins
<1>8. LatestOf(u, kind) = LastOf(x)
  BY <1>1, <1>3, ThoseAre
<1>9. longer \in Seq(Media)
  BY MoreIs
<1>10. LatestOf(longer, kind) = LastOf(z)
  BY <1>1, <1>4, <1>9, ThoseAre
<1>11. CASE CacheOf(m) = kind
  <2>1. f[m] = <<m>>
    BY <1>1, <1>11 DEF OfKind
  <2>2. PICK e : e = <<m>>
    OBVIOUS
  <2>3. e \in Seq(Media) /\ Len(e) = 1 /\ e[1] = m
    BY <2>2
  <2>4. z = x \o e
    BY <1>7, <2>1, <2>2
  <2>5. Len(z) = Len(x) + 1 /\ z[Len(x) + 1] = m /\ Len(x) \in Nat
    <3>1. e \in Seq(Media)
      BY <2>3
    <3>2. Len(z) = Len(x) + Len(e) /\ \A i \in 1 .. Len(e) : z[Len(x) + i] = e[i]
      BY <1>5, <2>4, <3>1, Joined
    <3>3. QED
      BY <1>5, <2>3, <3>2, LenProperties
  <2>6. z # << >> /\ Last(z) = m
    BY <2>5 DEF Last
  <2>7. QED
    BY <1>10, <1>11, <2>6 DEF LastOf
<1>12. CASE CacheOf(m) # kind
  <2>1. f[m] = << >>
    BY <1>1, <1>12 DEF OfKind
  <2>2. x \o << >> = x
    BY <1>5, ConcatEmptySeq
  <2>3. z = x
    BY <1>7, <2>1, <2>2
  <2>4. QED
    BY <1>8, <1>10, <1>12, <2>3
<1>13. QED
  BY <1>11, <1>12

LEMMA CacheNext ==
  ASSUME NEW u \in Seq(Media), NEW m \in Media, NEW longer, OneMore(longer, u, m), NEW c, CacheOK(u, c),
         NEW kept, kept = [k \in DOMAIN c |-> IF k = CacheOf(m) THEN Len(u) + 1 ELSE c[k]]
  PROVE  CacheOK(longer, kept)
<1>1. PICK n \in Nat : n = Len(u)
  BY LenProperties
<1>2. Len(longer) = n + 1 /\ longer[n + 1] = m /\ \A i \in 1 .. n : longer[i] = u[i]
  BY <1>1, MoreIs
<1>3. DOMAIN c = Kinds /\ \A k \in Kinds : c[k] \in 0 .. n /\ LatestOf(u, k) = Entry(u, c[k])
  BY <1>1 DEF CacheOK
<1>4. DOMAIN kept = Kinds /\ \A k \in Kinds : kept[k] = IF k = CacheOf(m) THEN n + 1 ELSE c[k]
  BY <1>1, <1>3
<1>5. ASSUME NEW k \in Kinds
      PROVE  kept[k] \in 0 .. n + 1 /\ LatestOf(longer, k) = Entry(longer, kept[k])
  <2>1. LatestOf(longer, k) = IF CacheOf(m) = k THEN <<m>> ELSE LatestOf(u, k)
    BY LatestNext
  <2>2. CASE CacheOf(m) = k
    <3>1. kept[k] = n + 1 /\ n + 1 # 0
      BY <1>4, <2>2
    <3>2. QED
      BY <1>2, <2>1, <2>2, <3>1 DEF Entry
  <2>3. CASE CacheOf(m) # k
    <3>1. kept[k] = c[k] /\ c[k] \in 0 .. n
      BY <1>3, <1>4, <2>3
    <3>2. c[k] # 0 => c[k] \in 1 .. n
      BY <3>1
    <3>3. Entry(longer, c[k]) = Entry(u, c[k])
      BY <1>2, <3>2 DEF Entry
    <3>4. QED
      BY <1>3, <2>1, <2>3, <3>1, <3>3
  <2>4. QED
    BY <2>2, <2>3
<1>6. QED
  BY <1>2, <1>4, <1>5 DEF CacheOK

\* The indices e stand for the messages l.
MapsTo(e, l, u) ==
  /\ e \in Seq(Nat) /\ l \in Seq(Media) /\ Len(e) = Len(l)
  /\ \A i \in 1 .. Len(e) : e[i] \in 1 .. Len(u) /\ l[i] = u[e[i]]

LEMMA MapsJoined ==
  ASSUME NEW u, NEW e, NEW l, NEW f, NEW g, MapsTo(e, l, u), MapsTo(f, g, u)
  PROVE  MapsTo(e \o f, l \o g, u)
<1>1. PICK x : x = e \o f
  OBVIOUS
<1>2. PICK y : y = l \o g
  OBVIOUS
<1>3. /\ e \in Seq(Nat) /\ f \in Seq(Nat) /\ l \in Seq(Media) /\ g \in Seq(Media)
      /\ Len(e) = Len(l) /\ Len(f) = Len(g)
  BY DEF MapsTo
<1>4. PICK n \in Nat : n = Len(e)
  BY <1>3, LenProperties
<1>5. PICK k \in Nat : k = Len(f)
  BY <1>3, LenProperties
<1>6. /\ x \in Seq(Nat) /\ Len(x) = n + k
      /\ (\A i \in 1 .. n : x[i] = e[i]) /\ \A i \in 1 .. k : x[n + i] = f[i]
  <2>1. e \in Seq(Nat)
    BY <1>3
  <2>2. f \in Seq(Nat)
    BY <1>3
  <2>3. QED
    BY <1>1, <1>4, <1>5, <2>1, <2>2, Joined
<1>7. /\ y \in Seq(Media) /\ Len(y) = n + k
      /\ (\A i \in 1 .. n : y[i] = l[i]) /\ \A i \in 1 .. k : y[n + i] = g[i]
  <2>1. l \in Seq(Media)
    BY <1>3
  <2>2. g \in Seq(Media)
    BY <1>3
  <2>3. Len(l) = n /\ Len(g) = k
    BY <1>3, <1>4, <1>5
  <2>4. /\ y \in Seq(Media) /\ Len(y) = Len(l) + Len(g)
        /\ (\A i \in 1 .. Len(l) : y[i] = l[i]) /\ \A i \in 1 .. Len(g) : y[Len(l) + i] = g[i]
    BY <1>2, <2>1, <2>2, Joined
  <2>5. QED
    BY <2>3, <2>4
<1>8. ASSUME NEW i \in 1 .. n + k PROVE x[i] \in 1 .. Len(u) /\ y[i] = u[x[i]]
  <2>1. CASE i \in 1 .. n
    BY <1>4, <1>6, <1>7, <2>1 DEF MapsTo
  <2>2. CASE i \notin 1 .. n
    <3>1. PICK j \in 1 .. k : i = n + j
      <4>1. i - n \in 1 .. k /\ i = n + (i - n)
        BY <2>2
      <4>2. QED
        BY <4>1
    <3>2. x[i] = f[j] /\ y[i] = g[j]
      BY <1>6, <1>7, <3>1
    <3>3. f[j] \in 1 .. Len(u) /\ g[j] = u[f[j]]
      BY <1>5, <3>1 DEF MapsTo
    <3>4. QED
      BY <3>2, <3>3
  <2>3. QED
    BY <2>1, <2>2
<1>9. QED
  BY <1>1, <1>2, <1>6, <1>7, <1>8 DEF MapsTo

LEMMA CachedMaps ==
  ASSUME NEW u \in Seq(Media), NEW c, CacheOK(u, c)
  PROVE  MapsTo(Cached(c), BurstOf(u), u)
<1> DEFINE entry(k) == IF c[k] = 0 THEN << >> ELSE <<c[k]>>
<1>1. ASSUME NEW k \in Kinds PROVE MapsTo(entry(k), LatestOf(u, k), u)
  <2>1. PICK i \in 0 .. Len(u) : i = c[k] /\ LatestOf(u, k) = Entry(u, i)
    BY DEF CacheOK
  <2>2. CASE i = 0
    <3>1. entry(k) = << >> /\ LatestOf(u, k) = << >>
      BY <2>1, <2>2 DEF Entry
    <3>2. MapsTo(<< >>, << >>, u)
      BY DEF MapsTo
    <3>3. QED
      BY <3>1, <3>2
  <2>3. CASE i # 0
    <3>1. entry(k) = <<i>> /\ LatestOf(u, k) = <<u[i]>>
      BY <2>1, <2>3 DEF Entry
    <3>2. Len(u) \in Nat
      BY LenProperties
    <3>3. i \in 1 .. Len(u) /\ i \in Nat
      BY <2>3, <3>2
    <3>4. PICK m \in Media : m = u[i]
      BY <3>3
    <3>5. PICK x : x = <<i>>
      OBVIOUS
    <3>6. PICK y : y = <<m>>
      OBVIOUS
    <3>7. x \in Seq(Nat) /\ Len(x) = 1 /\ x[1] = i
      BY <3>3, <3>5
    <3>8. y \in Seq(Media) /\ Len(y) = 1 /\ y[1] = m
      BY <3>6
    <3>9. MapsTo(x, y, u)
      BY <3>3, <3>4, <3>7, <3>8 DEF MapsTo
    <3>10. QED
      BY <3>1, <3>4, <3>5, <3>6, <3>9
  <2>4. QED
    BY <2>2, <2>3
<1>2. "meta" \in Kinds /\ "vseq" \in Kinds /\ "aseq" \in Kinds
  BY DEF Kinds
<1> HIDE DEF entry
<1>3. /\ MapsTo(entry("meta"), LatestOf(u, "meta"), u)
      /\ MapsTo(entry("vseq"), LatestOf(u, "vseq"), u)
      /\ MapsTo(entry("aseq"), LatestOf(u, "aseq"), u)
  BY <1>1, <1>2
<1>4. PICK e : e = entry("meta") \o entry("vseq")
  OBVIOUS
<1>5. PICK l : l = LatestOf(u, "meta") \o LatestOf(u, "vseq")
  OBVIOUS
<1>6. MapsTo(e, l, u)
  BY <1>3, <1>4, <1>5, MapsJoined
<1>7. MapsTo(e \o entry("aseq"), l \o LatestOf(u, "aseq"), u)
  BY <1>3, <1>6, MapsJoined
<1>8. BurstOf(u) = l \o LatestOf(u, "aseq")
  BY <1>5 DEF BurstOf
<1>9. Cached(c) = e \o entry("aseq")
  BY <1>4 DEF Cached, entry
<1>10. QED
  BY <1>7, <1>8, <1>9

\* The bytes written to a player for the packets with the indices e.
WrittenOf(heap, e) == FlattenSeq([i \in DOMAIN e |-> Written(heap[e[i]])])

\* What the heap holds under the indices is what the messages are written as.
LEMMA BurstWritten ==
  ASSUME NEW u, NEW heap, HeapOK(u, heap), NEW e, NEW l, MapsTo(e, l, u)
  PROVE  WrittenOf(heap, e) = Gathered(Writes, l)
<1>1. PICK n \in Nat : n = Len(e) /\ DOMAIN e = 1 .. n
  <2>1. e \in Seq(Nat)
    BY DEF MapsTo
  <2>2. QED
    BY <2>1, LenProperties
<1>2. l \in Seq(Media) /\ DOMAIN l = 1 .. n
  <2>1. l \in Seq(Media) /\ Len(l) = n
    BY <1>1 DEF MapsTo
  <2>2. QED
    BY <2>1
<1>3. ASSUME NEW i \in 1 .. n PROVE Written(heap[e[i]]) = Writes[l[i]]
  <2>1. e[i] \in 1 .. Len(u) /\ l[i] = u[e[i]]
    BY <1>1 DEF MapsTo
  <2>2. heap[e[i]] = Recorded(l[i])
    BY <2>1 DEF HeapOK
  <2>3. l[i] \in Media
    BY <1>2
  <2>4. QED
    BY <2>2, <2>3 DEF Writes
<1>4. [i \in DOMAIN e |-> Written(heap[e[i]])] = [i \in DOMAIN l |-> Writes[l[i]]]
  BY <1>1, <1>2, <1>3
<1>5. QED
  BY <1>4 DEF Gathered, WrittenOf

\* A shorter or an untouched payload is a payload still.
LEMMA RecordedIs ==
  ASSUME NEW m \in Media
  PROVE  Recorded(m) \in Bodies
<1>1. /\ m \in [typeId : 0 .. 255, streamId : {0, 1}, timestamp : Nat, data : ByteSeq]
      /\ Len(m.data) <= Mark /\ TagParses(m)
  BY DEF Media, Bodies
<1>2. m.data \in Seq(0 .. 255) /\ Len(m.data) \in Nat
  BY <1>1, LenProperties DEF ByteSeq
<1>3. m.data # << >> /\ Len(m.data) >= 1
  <2>1. Len(m.data) >= 5 \/ Len(m.data) >= 1
    BY <1>1 DEF TagParses
  <2>2. Len(m.data) >= 1
    BY <1>2, <2>1
  <2>3. QED
    BY <1>2, <2>2
<1>4. PICK d : d = Reform(m.data)
  OBVIOUS
<1>5. Tail(m.data) \in Seq(0 .. 255) /\ Len(Tail(m.data)) = Len(m.data) - 1
  BY <1>2, <1>3
<1>6. d \in Seq(0 .. 255) /\ Len(d) <= Len(m.data)
  <2>1. d = Tail(m.data) \/ d = << >> \/ d = m.data
    BY <1>4 DEF Reform
  <2>2. << >> \in Seq(0 .. 255) /\ Len(<< >>) = 0
    OBVIOUS
  <2>3. CASE d = Tail(m.data)
    BY <1>2, <1>5, <2>3
  <2>4. CASE d = << >>
    BY <1>2, <2>2, <2>4
  <2>5. CASE d = m.data
    BY <1>2, <2>5
  <2>6. QED
    BY <2>1, <2>3, <2>4, <2>5
<1>7. [m EXCEPT !.data = d] \in Bodies
  <2>1. Len(d) <= Mark
    <3>1. Len(d) \in Nat /\ Mark \in Nat
      BY <1>6, LenProperties, MarkNat
    <3>2. QED
      BY <1>1, <1>2, <1>6, <3>1
  <2>2. QED
    BY <1>1, <1>6, <2>1 DEF Bodies, ByteSeq
<1>8. Recorded(m) = m \/ Recorded(m) = [m EXCEPT !.data = d]
  BY <1>4 DEF Recorded
<1>9. QED
  BY <1>7, <1>8 DEF Media

LEMMA HeapNext ==
  ASSUME NEW u \in Seq(Media), NEW m \in Media, NEW longer, OneMore(longer, u, m), NEW heap, HeapOK(u, heap),
         NEW more, more = Append(heap, Recorded(m))
  PROVE  HeapOK(longer, more)
<1>1. PICK n \in Nat : n = Len(u)
  BY LenProperties
<1>2. Len(longer) = n + 1 /\ longer[n + 1] = m /\ \A i \in 1 .. n : longer[i] = u[i]
  BY <1>1, MoreIs
<1>3. PICK r \in Bodies : r = Recorded(m)
  BY RecordedIs
<1>4. heap \in Seq(Bodies) /\ Len(heap) = n /\ \A i \in 1 .. n : heap[i] = Recorded(u[i])
  BY <1>1 DEF HeapOK
<1>5. /\ more \in Seq(Bodies) /\ Len(more) = n + 1 /\ more[n + 1] = r
      /\ \A i \in 1 .. n : more[i] = heap[i]
  BY <1>3, <1>4
<1>6. ASSUME NEW i \in 1 .. n + 1 PROVE more[i] = Recorded(longer[i])
  <2>1. CASE i \in 1 .. n
    BY <1>2, <1>4, <1>5, <2>1
  <2>2. CASE i = n + 1
    BY <1>2, <1>3, <1>5, <2>2
  <2>3. i \in 1 .. n \/ i = n + 1
    OBVIOUS
  <2>4. QED
    BY <2>1, <2>2, <2>3
<1>7. QED
  BY <1>2, <1>5, <1>6 DEF HeapOK

-----------------------------------------------------------------------------
(* The bytes of a chunk and of a tag.                                      *)

LEMMA OutTypeIs ==
  ASSUME NEW m
  PROVE  OutType(m) \in {8, 9, 18}
BY DEF OutType, Audio, Video, DataAMF0

\* One after the other, the parts of a tag.
TagParts(m, p) ==
  /\ p[1] = <<OutType(m)>>
  /\ Joins(p[2], p[1], BE(Len(m.data), 3))
  /\ Joins(p[3], p[2], BE(m.timestamp % (Mark + 1), 3))
  /\ Joins(p[4], p[3], <<(m.timestamp \div (Mark + 1)) % 256>>)
  /\ Joins(p[5], p[4], BE(0, 3))
  /\ Joins(p[6], p[5], m.data)
  /\ Joins(p[7], p[6], BE(Len(m.data) + 11, 4))

LEMMA TagPartsAre ==
  ASSUME NEW m
  PROVE  \E p : TagParts(m, p) /\ FlvTag(m) = p[7]
<1>1. PICK p1 : p1 = <<OutType(m)>>
  OBVIOUS
<1>2. PICK p2 : p2 = p1 \o BE(Len(m.data), 3)
  OBVIOUS
<1>3. PICK p3 : p3 = p2 \o BE(m.timestamp % (Mark + 1), 3)
  OBVIOUS
<1>4. PICK p4 : p4 = p3 \o <<(m.timestamp \div (Mark + 1)) % 256>>
  OBVIOUS
<1>5. PICK p5 : p5 = p4 \o BE(0, 3)
  OBVIOUS
<1>6. PICK p6 : p6 = p5 \o m.data
  OBVIOUS
<1>7. PICK p7 : p7 = p6 \o BE(Len(m.data) + 11, 4)
  OBVIOUS
<1>8. FlvTag(m) = p7
  BY <1>1, <1>2, <1>3, <1>4, <1>5, <1>6, <1>7 DEF FlvTag
<1>9. PICK p : p = <<p1, p2, p3, p4, p5, p6, p7>>
  BY ZenonT(60)
<1>10. /\ p[1] = p1 /\ p[2] = p2 /\ p[3] = p3 /\ p[4] = p4 /\ p[5] = p5 /\ p[6] = p6 /\ p[7] = p7
  BY <1>9
<1>11. TagParts(m, p)
  BY <1>1, <1>2, <1>3, <1>4, <1>5, <1>6, <1>7, <1>10, ZenonT(60) DEF TagParts, Joins
<1>12. QED
  BY <1>8, <1>10, <1>11

TagSizes(m, p, len, B) ==
  /\ OfLength(p[1], B, 1) /\ OfLength(p[2], B, 4) /\ OfLength(p[3], B, 7) /\ OfLength(p[4], B, 8)
  /\ OfLength(p[5], B, 11) /\ OfLength(p[6], B, 11 + len) /\ OfLength(p[7], B, 15 + len)
  /\ OfLength(BE(len, 3), B, 3) /\ OfLength(BE(m.timestamp % (Mark + 1), 3), B, 3)
  /\ OfLength(<<(m.timestamp \div (Mark + 1)) % 256>>, B, 1) /\ OfLength(BE(0, 3), B, 3)
  /\ OfLength(m.data, B, len) /\ OfLength(BE(Len(m.data) + 11, 4), B, 4)

LEMMA TagLengths ==
  ASSUME NEW m, m.data \in Seq(0 .. 255), m.timestamp \in Nat, NEW p, TagParts(m, p),
         NEW len \in Nat, len = Len(m.data), NEW B, B = 0 .. 255
  PROVE  TagSizes(m, p, len, B)
<1>2. PICK low \in Nat : low = m.timestamp % (Mark + 1)
  <2>1. Mark + 1 = 16777216
    BY SMT DEF Mark
  <2>2. m.timestamp % 16777216 \in Nat
    BY LowBits, SMT
  <2>3. QED
    BY <2>1, <2>2, SMT
<1>3. PICK high \in 0 .. 255 : high = (m.timestamp \div (Mark + 1)) % 256
  <2>1. Mark + 1 = 16777216
    BY SMT DEF Mark
  <2>2. m.timestamp \div 16777216 \in Nat
    BY LowBits, SMT
  <2>3. PICK h \in Nat : h = m.timestamp \div (Mark + 1)
    BY <2>1, <2>2, SMT
  <2>4. h % 256 \in 0 .. 255
    BY DivMod, ZenonT(60)
  <2>5. QED
    BY <2>3, <2>4, Zenon
<1>4. PICK zero \in Nat : zero = 0
  OBVIOUS
<1>5. PICK end \in Nat : end = Len(m.data) + 11
  OBVIOUS
<1>6. 3 \in 1 .. 4 /\ 4 \in 1 .. 4
  OBVIOUS
<1>7. OfLength(BE(len, 3), B, 3)
  BY <1>6, NumberLength
<1>8. OfLength(BE(low, 3), B, 3)
  BY <1>6, NumberLength
<1>9. OfLength(BE(zero, 3), B, 3)
  BY <1>6, NumberLength
<1>10. OfLength(BE(end, 4), B, 4)
  BY <1>6, NumberLength
<1>11. OfLength(<<high>>, B, 1)
  <2>1. <<high>> \in Seq(0 .. 255) /\ Len(<<high>>) = 1
    OBVIOUS
  <2>2. QED
    BY <2>1 DEF OfLength
<1>12. OfLength(m.data, B, len)
  BY DEF OfLength
<1>13. /\ p[1] = <<OutType(m)>> /\ Joins(p[2], p[1], BE(len, 3)) /\ Joins(p[3], p[2], BE(low, 3))
       /\ Joins(p[4], p[3], <<high>>) /\ Joins(p[5], p[4], BE(zero, 3)) /\ Joins(p[6], p[5], m.data)
       /\ Joins(p[7], p[6], BE(end, 4))
  BY <1>2, <1>3, <1>4, <1>5 DEF TagParts
<1>14. OfLength(p[1], B, 1)
  <2>1. OutType(m) = 8 \/ OutType(m) = 9 \/ OutType(m) = 18
    BY OutTypeIs
  <2>2. PICK type \in 0 .. 255 : type = OutType(m)
    BY <2>1
  <2>3. <<type>> \in Seq(0 .. 255) /\ Len(<<type>>) = 1
    OBVIOUS
  <2>4. QED
    BY <1>13, <2>2, <2>3 DEF OfLength
<1>15. OfLength(p[2], B, 4)
  BY <1>7, <1>13, <1>14, JoinsLength
<1>16. OfLength(p[3], B, 7)
  BY <1>8, <1>13, <1>15, JoinsLength
<1>17. OfLength(p[4], B, 8)
  BY <1>11, <1>13, <1>16, JoinsLength
<1>18. OfLength(p[5], B, 11)
  BY <1>9, <1>13, <1>17, JoinsLength
<1>19. OfLength(p[6], B, 11 + len)
  BY <1>12, <1>13, <1>18, JoinsLength, SMTT(60)
<1>20. OfLength(p[7], B, 15 + len)
  <2>1. PICK n \in Nat : n = 11 + len
    OBVIOUS
  <2>2. PICK k \in Nat : k = 15 + len /\ k = n + 4
    BY <2>1
  <2>3. OfLength(p[6], B, n)
    BY <1>19, <2>1
  <2>4. OfLength(p[7], B, k)
    BY <1>10, <1>13, <2>2, <2>3, JoinsLength
  <2>5. QED
    BY <2>2, <2>4
<1>21. QED
  BY ZenonT(60), <1>2, <1>3, <1>4, <1>5, <1>7, <1>8, <1>9, <1>10, <1>11, <1>12, <1>14, <1>15, <1>16, <1>17, <1>18,
     <1>19, <1>20, Zenon DEF TagSizes

\* What a reader finds of a tag.
ReadsTag(s, at, m) ==
  /\ ByteAt(s, at + 1) = OutType(m) /\ ReadBE(s, at + 1, 3) = Len(m.data)
  /\ ReadBE(s, at + 4, 3) + ReadBE(s, at + 7, 1) * (Mark + 1) = m.timestamp
  /\ Slice(s, at + 11, Len(m.data)) = m.data
  /\ ReadBE(s, at + 11 + Len(m.data), 4) = 11 + Len(m.data)
  /\ at + 15 + Len(m.data) <= Len(s)

\* A timestamp of 32 bits.
ShortStamp(m) == m.timestamp \div (Mark + 1) < 256

LEMMA TagRead ==
  ASSUME NEW m \in Bodies, ShortStamp(m), NEW s \in Seq(0 .. 255), NEW at \in Nat, Placed(s, at, FlvTag(m))
  PROVE  ReadsTag(s, at, m)
<1>0. m.data \in Seq(0 .. 255) /\ m.timestamp \in Nat /\ Len(m.data) <= Mark
  BY DEF Bodies, ByteSeq
<1>1. PICK len \in Nat : len = Len(m.data) /\ len <= Mark
  BY <1>0, LenProperties
<1>2. PICK p : TagParts(m, p) /\ FlvTag(m) = p[7]
  BY TagPartsAre
<1>3. PICK B : B = 0 .. 255
  OBVIOUS
<1>4. PICK low \in Nat, high \in 0 .. 255 :
        /\ low = m.timestamp % (Mark + 1) /\ high = (m.timestamp \div (Mark + 1)) % 256
        /\ low <= Mark /\ low + high * (Mark + 1) = m.timestamp
  <2>1. /\ m.timestamp % (Mark + 1) \in Nat /\ m.timestamp % (Mark + 1) <= Mark
        /\ (m.timestamp \div (Mark + 1)) % 256 \in 0 .. 255
        /\ (m.timestamp % (Mark + 1)) + ((m.timestamp \div (Mark + 1)) % 256) * (Mark + 1) = m.timestamp
    BY <1>0, LowAndHigh, Zenon DEF ShortStamp
  <2>2. QED
    BY <2>1, ZenonT(60)
<1>5. PICK type \in 0 .. 255 : type = OutType(m)
  <2>1. OutType(m) = 8 \/ OutType(m) = 9 \/ OutType(m) = 18
    BY OutTypeIs
  <2>2. QED
    BY <2>1
<1>6. PICK end \in Nat : end = Len(m.data) + 11 /\ end = 11 + len
  BY <1>1
<1>7. Bits32(end)
  <2>1. end <= 16777226
    BY <1>1, <1>6, SMT DEF Mark
  <2>2. QED
    BY <2>1, SMT DEF Bits32
<1>8. PICK zero \in Nat : zero = 0
  OBVIOUS
<1>9. /\ OfLength(p[1], B, 1) /\ OfLength(p[2], B, 4) /\ OfLength(p[3], B, 7) /\ OfLength(p[4], B, 8)
      /\ OfLength(p[5], B, 11) /\ OfLength(p[6], B, 11 + len) /\ OfLength(p[7], B, 15 + len)
      /\ OfLength(BE(len, 3), B, 3) /\ OfLength(BE(low, 3), B, 3)
      /\ OfLength(<<high>>, B, 1) /\ OfLength(BE(zero, 3), B, 3)
      /\ OfLength(m.data, B, len) /\ OfLength(BE(end, 4), B, 4)
  <2>1. TagSizes(m, p, len, B)
    BY <1>0, <1>1, <1>2, <1>3, TagLengths
  <2>2. QED
    BY <1>4, <1>6, <1>8, <2>1, Zenon DEF TagSizes
<1>10. /\ p[1] = <<type>> /\ Joins(p[2], p[1], BE(len, 3)) /\ Joins(p[3], p[2], BE(low, 3))
       /\ Joins(p[4], p[3], <<high>>) /\ Joins(p[5], p[4], BE(zero, 3)) /\ Joins(p[6], p[5], m.data)
       /\ Joins(p[7], p[6], BE(end, 4))
  BY <1>1, <1>2, <1>4, <1>5, <1>6, <1>8, Zenon DEF TagParts
<1>11. PICK n \in Nat : n = 11 + len
  OBVIOUS
<1>12. OfLength(p[6], B, n)
  BY <1>9, <1>11
<1>13. PICK a1 \in Nat, a4 \in Nat, a7 \in Nat, a11 \in Nat, ae \in Nat :
         a1 = at + 1 /\ a4 = at + 4 /\ a7 = at + 7 /\ a11 = at + 11 /\ ae = at + n /\ ae = at + 11 + len
  BY <1>11
<1>14. s \in Seq(B) /\ Placed(s, at, p[7])
  BY <1>2, <1>3
<1>15. Placed(s, at, p[6])
  BY <1>9, <1>10, <1>12, <1>14, PlacedFront, SMTT(60)
<1>16. Placed(s, ae, BE(end, 4))
  BY <1>9, <1>10, <1>12, <1>13, <1>14, PlacedBack, ZenonT(60)
<1>17. Placed(s, at, p[5])
  <2>1. OfLength(p[5], B, 11) /\ OfLength(m.data, B, len) /\ Joins(p[6], p[5], m.data)
    BY <1>9, <1>10
  <2>2. QED
    BY <1>14, <1>15, <2>1, PlacedFront
<1>18. Placed(s, a11, m.data)
  BY <1>9, <1>10, <1>13, <1>14, <1>15, PlacedBack, ZenonT(60)
<1>19. Placed(s, at, p[4])
  BY <1>9, <1>10, <1>14, <1>17, PlacedFront, SMTT(60)
<1>20. Placed(s, at, p[3])
  BY <1>9, <1>10, <1>14, <1>19, PlacedFront, SMTT(60)
<1>21. Placed(s, a7, <<high>>)
  BY <1>9, <1>10, <1>13, <1>14, <1>19, PlacedBack
<1>22. Placed(s, at, p[2])
  <2>1. OfLength(p[2], B, 4) /\ OfLength(BE(low, 3), B, 3) /\ Joins(p[3], p[2], BE(low, 3))
    BY <1>9, <1>10
  <2>2. QED
    BY <1>14, <1>20, <2>1, PlacedFront
<1>23. Placed(s, a4, BE(low, 3))
  BY <1>9, <1>10, <1>13, <1>14, <1>20, PlacedBack
<1>24. Placed(s, at, p[1])
  <2>1. OfLength(p[1], B, 1) /\ OfLength(BE(len, 3), B, 3) /\ Joins(p[2], p[1], BE(len, 3))
    BY <1>9, <1>10
  <2>2. QED
    BY <1>14, <1>22, <2>1, PlacedFront
<1>25. Placed(s, a1, BE(len, 3))
  BY <1>9, <1>10, <1>13, <1>14, <1>22, PlacedBack
<1>26. ByteAt(s, at + 1) = type
  BY <1>10, <1>24, PlacedByte
<1>27. ReadBE(s, a1, 3) = len
  BY <1>1, <1>25, PlacedNumber
<1>28. ReadBE(s, a4, 3) = low
  BY <1>4, <1>23, PlacedNumber
<1>29. ReadBE(s, a7, 1) = high
  BY <1>21, PlacedByte
<1>30. Slice(s, a11, len) = m.data
  BY <1>0, <1>1, <1>18, SlicePlaced
<1>31. ReadBE(s, ae, 4) = end
  BY <1>7, <1>16, PlacedWide
<1>32. at + 15 + len <= Len(s)
  <2>1. at + Len(p[7]) <= Len(s) /\ Len(p[7]) = 15 + len
    BY <1>9, <1>14 DEF Placed, OfLength
  <2>2. Len(s) \in Nat
    BY LenProperties
  <2>3. QED
    BY <2>1, <2>2
<1>33. ReadBE(s, at + 4, 3) + ReadBE(s, at + 7, 1) * (Mark + 1) = m.timestamp
  BY <1>4, <1>13, <1>28, <1>29
<1>34. QED
  BY <1>1, <1>5, <1>6, <1>13, <1>26, <1>27, <1>30, <1>31, <1>32, <1>33 DEF ReadsTag

-----------------------------------------------------------------------------
(* A recording.                                                            *)

\* The states of a reader of the file s, tag after tag.
FlvRuns(g, s, n) == g = [i \in 0 .. n |-> IF i = 0 THEN FlvStart(s) ELSE FlvReads(g[i - 1], s)]

LEMMA FlvRunExists ==
  ASSUME NEW s, NEW n \in Nat
  PROVE  \E g : FlvRuns(g, s, n)
<1> DEFINE G == {k \in 0 .. n : \E g : FlvRuns(g, s, k)}
<1>1. 0 \in G
  <2>1. PICK g : g = [i \in 0 .. 0 |-> FlvStart(s)]
    OBVIOUS
  <2>2. FlvRuns(g, s, 0)
    BY <2>1 DEF FlvRuns
  <2>3. QED
    BY <2>2
<1>2. ASSUME NEW k \in 0 .. n, k < n, k \in G PROVE k + 1 \in G
  <2>1. PICK g : FlvRuns(g, s, k)
    BY <1>2
  <2>2. g = [i \in 0 .. k |-> IF i = 0 THEN FlvStart(s) ELSE FlvReads(g[i - 1], s)]
    BY <2>1 DEF FlvRuns
  <2>3. PICK h : h = [i \in 0 .. k + 1 |-> IF i <= k THEN g[i] ELSE FlvReads(g[k], s)]
    OBVIOUS
  <2>4. ASSUME NEW i \in 0 .. k + 1
        PROVE  h[i] = IF i = 0 THEN FlvStart(s) ELSE FlvReads(h[i - 1], s)
    <3>1. CASE i <= k
      <4>1. i \in 0 .. k /\ (i # 0 => i - 1 \in 0 .. k + 1 /\ i - 1 <= k)
        BY <3>1
      <4>2. h[i] = g[i] /\ (i # 0 => h[i - 1] = g[i - 1])
        BY <2>3, <3>1, <4>1
      <4>3. g[i] = IF i = 0 THEN FlvStart(s) ELSE FlvReads(g[i - 1], s)
        BY <2>2, <4>1
      <4>4. QED
        BY <4>2, <4>3
    <3>2. CASE i = k + 1
      <4>1. i - 1 = k /\ k \in 0 .. k + 1 /\ k <= k /\ i # 0 /\ ~(i <= k)
        BY <3>2
      <4>2. h[i] = FlvReads(g[k], s) /\ h[i - 1] = g[k]
        BY <2>3, <4>1
      <4>3. QED
        BY <4>1, <4>2
    <3>3. i <= k \/ i = k + 1
      OBVIOUS
    <3>4. QED
      BY <3>1, <3>2, <3>3
  <2>5. h = [i \in 0 .. k + 1 |-> IF i = 0 THEN FlvStart(s) ELSE FlvReads(h[i - 1], s)]
    BY <2>3, <2>4
  <2>6. k + 1 \in 0 .. n
    BY <1>2
  <2>7. FlvRuns(h, s, k + 1)
    BY <2>5 DEF FlvRuns
  <2>8. QED
    BY <2>6, <2>7
<1>3. \A k \in 0 .. n : k \in G
  <2> HIDE DEF G
  <2>1. \A k \in 0 .. n : k < n /\ k \in G => k + 1 \in G
    BY <1>2
  <2>2. QED
    BY <1>1, <2>1, Upwards
<1>4. n \in 0 .. n
  OBVIOUS
<1>5. QED
  BY <1>3, <1>4

LEMMA FlvDecoded ==
  ASSUME NEW s, NEW n \in Nat, n = Len(s)
  PROVE  \E g : FlvRuns(g, s, n) /\ FlvDecodes(s) = IF g[n].good THEN g[n].tags ELSE << >>
<1> DEFINE f == CHOOSE f : f = [i \in 0 .. Len(s) |->
                                  IF i = 0 THEN FlvStart(s) ELSE FlvReads(f[i - 1], s)]
<1>1. FlvDecodes(s) = IF f[Len(s)].good THEN f[Len(s)].tags ELSE << >>
  BY DEF FlvDecodes
<1>2. \E g : g = [i \in 0 .. Len(s) |-> IF i = 0 THEN FlvStart(s) ELSE FlvReads(g[i - 1], s)]
  BY FlvRunExists DEF FlvRuns
<1>3. f = [i \in 0 .. Len(s) |-> IF i = 0 THEN FlvStart(s) ELSE FlvReads(f[i - 1], s)]
  BY <1>2
<1> HIDE DEF f
<1>4. FlvRuns(f, s, n)
  BY <1>3 DEF FlvRuns
<1>5. QED
  BY <1>1, <1>4

LEMMA HeaderBytes == FlvHeader \in Seq(0 .. 255) /\ Len(FlvHeader) = 13
<1>1. PICK zero \in Nat : zero = 0
  OBVIOUS
<1>2. 4 \in 1 .. 4
  OBVIOUS
<1>3. BE(zero, 4) \in Seq(0 .. 255) /\ Len(BE(zero, 4)) = 4
  BY <1>2, BEBytes
<1>4. PICK x : x = <<70, 76, 86, 1, 5, 0, 0, 0, 9>>
  OBVIOUS
<1>5. x \in Seq(0 .. 255) /\ Len(x) = 9
  BY <1>4
<1>6. PICK y : y = BE(zero, 4)
  OBVIOUS
<1>7. PICK z : z = x \o y
  OBVIOUS
<1>8. z \in Seq(0 .. 255) /\ Len(z) = Len(x) + Len(y)
  <2>1. x \in Seq(0 .. 255)
    BY <1>5
  <2>2. y \in Seq(0 .. 255)
    BY <1>3, <1>6
  <2>3. QED
    BY <1>7, <2>1, <2>2, Joined
<1>9. FlvHeader = z
  BY <1>1, <1>4, <1>6, <1>7 DEF FlvHeader
<1>10. Len(y) = 4
  BY <1>3, <1>6
<1>11. z \in Seq(0 .. 255) /\ Len(z) = 13
  BY <1>5, <1>8, <1>10
<1>12. QED
  BY <1>9, <1>11

\* The first bytes of a concatenation.
LEMMA FrontOf ==
  ASSUME NEW S, NEW x \in Seq(S), NEW y \in Seq(S), NEW z, z = x \o y
  PROVE  SubSeq(z, 1, Len(x)) = x
<1>1. Len(x) \in Nat /\ Len(y) \in Nat
  BY LenProperties
<1>2. z \in Seq(S) /\ Len(z) = Len(x) + Len(y) /\ \A i \in 1 .. Len(x) : z[i] = x[i]
  BY Joined
<1>3. Len(x) \in 0 .. Len(z)
  BY <1>1, <1>2
<1>4. PICK f : f = SubSeq(z, 1, Len(x))
  OBVIOUS
<1>5. f \in Seq(S) /\ Len(f) = Len(x) /\ \A i \in 1 .. Len(x) : f[i] = z[i]
  BY <1>2, <1>3, <1>4, FirstsAre
<1>6. f = x
  <2>1. f \in Seq(S)
    BY <1>5
  <2>2. Len(f) = Len(x) /\ \A i \in 1 .. Len(f) : f[i] = x[i]
    BY <1>2, <1>5
  <2>3. QED
    BY <2>1, <2>2, SeqEqual
<1>7. QED
  BY <1>4, <1>6

LEMMA TagsMake ==
  /\ Makes(Tags, Media, 0 .. 255)
  /\ \A m \in Media : Len(Tags[m]) = 15 + Len(Recorded(m).data)
<1>1. ASSUME NEW m \in Media
      PROVE  Tags[m] \in Seq(0 .. 255) /\ Len(Tags[m]) = 15 + Len(Recorded(m).data)
  <2>1. PICK r \in Bodies : r = Recorded(m)
    BY RecordedIs
  <2>2. r.data \in Seq(0 .. 255) /\ r.timestamp \in Nat
    BY DEF Bodies, ByteSeq
  <2>3. PICK len \in Nat : len = Len(r.data)
    BY <2>2, LenProperties
  <2>4. PICK p : TagParts(r, p) /\ FlvTag(r) = p[7]
    BY TagPartsAre
  <2>5. PICK B : B = 0 .. 255
    OBVIOUS
  <2>6. TagSizes(r, p, len, B)
    BY <2>2, <2>3, <2>4, <2>5, TagLengths
  <2>7. p[7] \in Seq(B) /\ Len(p[7]) = 15 + len
    BY <2>6 DEF TagSizes, OfLength
  <2>8. Tags[m] = p[7]
    BY <2>1, <2>4 DEF Tags
  <2>9. QED
    BY <2>1, <2>3, <2>5, <2>7, <2>8
<1>2. Makes(Tags, Media, 0 .. 255)
  BY <1>1 DEF Tags, Makes
<1>3. QED
  BY <1>1, <1>2

\* The tag a message is recorded as.
TagOf(m) == [typeId |-> OutType(m), timestamp |-> m.timestamp, data |-> Recorded(m).data]

\* The reader has k tags and stands at the next.
StandsAt(r, at, k, u) == r = [at |-> at, good |-> TRUE, tags |-> [i \in 1 .. k |-> TagOf(u[i])]]

LEMMA ReadsNextTag ==
  ASSUME NEW u \in Seq(Media), NEW k \in Nat, k + 1 \in 1 .. Len(u), NEW s \in Seq(0 .. 255), NEW at \in Nat,
         NEW r, StandsAt(r, at, k, u), ReadsTag(s, at, Recorded(u[k + 1]))
  PROVE  StandsAt(FlvReads(r, s), at + 15 + Len(Recorded(u[k + 1]).data), k + 1, u)
<1>1. PICK m \in Media : m = u[k + 1]
  OBVIOUS
<1>2. PICK q \in Bodies : q = Recorded(m)
  BY RecordedIs
<1>3. OutType(q) = OutType(m) /\ q.timestamp = m.timestamp
  BY <1>2 DEF Recorded, OutType, IsVideo, IsMetadata, Media, Bodies
<1>4. PICK len \in Nat : len = Len(q.data)
  <2>1. q.data \in Seq(0 .. 255)
    BY DEF Bodies, ByteSeq
  <2>2. QED
    BY <2>1, LenProperties
<1>5. /\ ByteAt(s, at + 1) = OutType(q) /\ ReadBE(s, at + 1, 3) = len
      /\ ReadBE(s, at + 4, 3) + ReadBE(s, at + 7, 1) * (Mark + 1) = q.timestamp
      /\ Slice(s, at + 11, len) = q.data
      /\ ReadBE(s, at + 11 + len, 4) = 11 + len
      /\ at + 15 + len <= Len(s)
  BY <1>1, <1>2, <1>4 DEF ReadsTag
<1>6. PICK tags : tags = [i \in 1 .. k |-> TagOf(u[i])]
  OBVIOUS
<1>7. r.at = at /\ r.good = TRUE /\ r.tags = tags
  BY <1>6 DEF StandsAt
<1>8. ~(at >= Len(s))
  BY <1>5, LenProperties
<1>9. PICK tag : tag = TagOf(m)
  OBVIOUS
<1>10. tag = [typeId |-> ByteAt(s, at + 1),
              timestamp |-> ReadBE(s, at + 4, 3) + ReadBE(s, at + 7, 1) * (Mark + 1),
              data |-> Slice(s, at + 11, len)]
  BY <1>2, <1>3, <1>5, <1>9 DEF TagOf
<1>11. FlvReads(r, s) = [at |-> at + 15 + len, tags |-> Append(tags, tag), good |-> TRUE]
  BY <1>5, <1>7, <1>8, <1>10 DEF FlvReads
<1>12. Append(tags, tag) = [i \in 1 .. k + 1 |-> TagOf(u[i])]
  <2>1. PICK T : T = {TagOf(u[i]) : i \in 1 .. k + 1}
    OBVIOUS
  <2>2. tags \in [1 .. k -> T] /\ tag \in T
    BY <1>1, <1>6, <1>9, <2>1
  <2>3. tags \in Seq(T) /\ Len(tags) = k
    BY <2>2, IsASeq
  <2>4. PICK more : more = Append(tags, tag)
    OBVIOUS
  <2>5. more \in Seq(T) /\ Len(more) = k + 1 /\ more[k + 1] = tag /\ \A i \in 1 .. k : more[i] = tags[i]
    BY <2>2, <2>3, <2>4
  <2>6. DOMAIN more = 1 .. k + 1 /\ more = [i \in 1 .. k + 1 |-> more[i]]
    BY <2>5
  <2>7. ASSUME NEW i \in 1 .. k + 1 PROVE more[i] = TagOf(u[i])
    <3>1. CASE i \in 1 .. k
      BY <1>6, <2>5, <3>1
    <3>2. CASE i = k + 1
      BY <1>1, <1>9, <2>5, <3>2
    <3>3. i \in 1 .. k \/ i = k + 1
      OBVIOUS
    <3>4. QED
      BY <3>1, <3>2, <3>3
  <2>8. QED
    BY <2>4, <2>6, <2>7
<1>13. QED
  BY <1>1, <1>2, <1>4, <1>11, <1>12 DEF StandsAt

LEMMA FileDecoded ==
  ASSUME NEW u \in Seq(Media), \A i \in DOMAIN u : ShortStamp(u[i]),
         NEW z, z = Gathered(Tags, u), NEW s, s = FlvHeader \o z
  PROVE  FlvDecodes(s) = [i \in DOMAIN u |-> TagOf(u[i])]
<1>1. PICK n \in Nat : n = Len(u) /\ DOMAIN u = 1 .. n
  BY LenProperties
<1>2. Makes(Tags, Media, 0 .. 255)
  BY TagsMake
<1>3. z \in Seq(0 .. 255) /\ FlvHeader \in Seq(0 .. 255) /\ Len(FlvHeader) = 13
  BY <1>2, GatheredBytes, HeaderBytes
<1>4. PICK l \in Nat : l = Len(z)
  BY <1>3, LenProperties
<1>5. s \in Seq(0 .. 255) /\ Len(s) = 13 + l
  <2>1. z \in Seq(0 .. 255)
    BY <1>3
  <2>2. FlvHeader \in Seq(0 .. 255)
    BY <1>3
  <2>3. s \in Seq(0 .. 255) /\ Len(s) = Len(FlvHeader) + Len(z)
    BY <2>1, <2>2, Joined
  <2>4. QED
    BY <1>3, <1>4, <2>3
<1>6. SubSeq(s, 1, 13) = FlvHeader
  <2>1. z \in Seq(0 .. 255)
    BY <1>3
  <2>2. FlvHeader \in Seq(0 .. 255)
    BY <1>3
  <2>3. SubSeq(s, 1, Len(FlvHeader)) = FlvHeader
    BY <2>1, <2>2, FrontOf
  <2>4. QED
    BY <1>3, <2>3
<1>7. PICK off : Tiles(off, z, Tags, u)
  BY <1>2, GatheredTiles
<1>8. /\ off \in [0 .. n -> Nat] /\ off[0] = 0 /\ off[n] = l
      /\ \A i \in 1 .. n : off[i] = off[i - 1] + Len(Tags[u[i]]) /\ Placed(z, off[i - 1], Tags[u[i]])
  BY <1>1, <1>4, <1>7 DEF Tiles
<1>9. PICK g : /\ FlvRuns(g, s, 13 + l)
               /\ FlvDecodes(s) = IF g[13 + l].good THEN g[13 + l].tags ELSE << >>
  <2>1. PICK len \in Nat : len = 13 + l /\ len = Len(s)
    BY <1>5
  <2>2. \E g : FlvRuns(g, s, len) /\ FlvDecodes(s) = IF g[len].good THEN g[len].tags ELSE << >>
    BY <2>1, FlvDecoded
  <2>3. QED
    BY <2>1, <2>2
<1>10. \A i \in 0 .. 13 + l : g[i] = IF i = 0 THEN FlvStart(s) ELSE FlvReads(g[i - 1], s)
  BY <1>9 DEF FlvRuns
<1> DEFINE G == {k \in 0 .. n : k <= off[k] /\ k <= 13 + l /\ StandsAt(g[k], 13 + off[k], k, u)}
<1>11. 0 \in G
  <2>1. 0 \in 0 .. n /\ 0 \in 0 .. 13 + l
    OBVIOUS
  <2>2. g[0] = FlvStart(s)
    BY <1>10, <2>1
  <2>3. [i \in 1 .. 0 |-> TagOf(u[i])] = << >>
    OBVIOUS
  <2>4. 13 + off[0] = 13 /\ off[0] = 0
    BY <1>8
  <2>5. FlvStart(s) = [at |-> 13, good |-> TRUE, tags |-> << >>]
    BY <1>6 DEF FlvStart
  <2>6. StandsAt(g[0], 13, 0, u)
    BY <2>2, <2>3, <2>5 DEF StandsAt
  <2>7. StandsAt(g[0], 13 + off[0], 0, u)
    BY <2>4, <2>6
  <2>8. QED
    BY <2>1, <2>4, <2>7
<1>12. ASSUME NEW k \in 0 .. n, k < n, k \in G PROVE k + 1 \in G
  <2>1. k \in Nat /\ k + 1 \in 1 .. n /\ k + 1 \in 0 .. n /\ (k + 1) - 1 = k /\ k + 1 \in 1 .. Len(u)
    BY <1>1, <1>12
  <2>2. PICK o \in Nat : o = off[k]
    BY <1>8
  <2>3. k <= o /\ StandsAt(g[k], 13 + o, k, u)
    BY <1>12, <2>2
  <2>4. PICK m \in Media : m = u[k + 1]
    BY <2>1
  <2>5. PICK t \in Seq(0 .. 255) : t = Tags[m]
    BY <1>2 DEF Makes
  <2>6. Placed(z, o, t) /\ off[k + 1] = o + Len(t)
    BY <1>8, <2>1, <2>2, <2>4, <2>5
  <2>7. PICK at \in Nat : at = 13 + o
    BY <2>2
  <2>8. Placed(s, at, t)
    <3>1. Placed(FlvHeader \o z, Len(FlvHeader) + o, t)
      <4>1. z \in Seq(0 .. 255)
        BY <1>3
      <4>2. FlvHeader \in Seq(0 .. 255)
        BY <1>3
      <4>3. QED
        BY <2>6, <4>1, <4>2, PlacedAfter
    <3>2. QED
      BY <1>3, <2>7, <3>1
  <2>9. PICK q \in Bodies : q = Recorded(m)
    BY RecordedIs
  <2>10. ShortStamp(q)
    <3>1. ShortStamp(m)
      BY <1>1, <2>1, <2>4
    <3>2. q.timestamp = m.timestamp
      BY <2>9 DEF Recorded, Media, Bodies
    <3>3. QED
      BY <3>1, <3>2 DEF ShortStamp
  <2>11. ReadsTag(s, at, q)
    <3>1. t = FlvTag(q)
      BY <2>5, <2>9 DEF Tags
    <3>2. Placed(s, at, FlvTag(q)) /\ s \in Seq(0 .. 255)
      BY <1>5, <2>8, <3>1
    <3>3. QED
      BY <2>10, <3>2, TagRead
  <2>12. PICK len \in Nat : len = Len(q.data)
    <3>1. q.data \in Seq(0 .. 255)
      BY DEF Bodies, ByteSeq
    <3>2. QED
      BY <3>1, LenProperties
  <2>13. Len(t) = 15 + len
    BY <2>5, <2>9, <2>12, TagsMake
  <2>14. PICK next \in Nat : next = at + 15 + len /\ next = 13 + off[k + 1]
    BY <2>6, <2>7, <2>13
  <2>15. StandsAt(FlvReads(g[k], s), next, k + 1, u)
    <3>1. StandsAt(g[k], at, k, u) /\ ReadsTag(s, at, Recorded(u[k + 1])) /\ s \in Seq(0 .. 255)
      BY <1>5, <2>3, <2>4, <2>7, <2>9, <2>11
    <3>2. StandsAt(FlvReads(g[k], s), at + 15 + Len(Recorded(u[k + 1]).data), k + 1, u)
      BY <2>1, <3>1, ReadsNextTag
    <3>3. QED
      BY <2>4, <2>9, <2>12, <2>14, <3>2
  <2>16. next <= 13 + l
    BY <1>5, <2>11, <2>12, <2>14 DEF ReadsTag
  <2>17. k + 1 <= off[k + 1] /\ k + 1 <= 13 + l /\ k + 1 \in 0 .. 13 + l
    <3>1. off[k + 1] = o + (15 + len)
      BY <2>6, <2>13
    <3>2. QED
      BY <2>1, <2>3, <2>7, <2>14, <2>16, <3>1
  <2>18. g[k + 1] = FlvReads(g[k], s)
    BY <1>10, <2>1, <2>17
  <2>19. QED
    BY <2>1, <2>14, <2>15, <2>17, <2>18
<1>13. n \in G
  <2> HIDE DEF G
  <2>1. \A k \in 0 .. n : k < n /\ k \in G => k + 1 \in G
    BY <1>12
  <2>2. \A k \in 0 .. n : k \in G
    BY <1>11, <2>1, Upwards
  <2>3. QED
    BY <2>2
<1>14. n <= 13 + l /\ StandsAt(g[n], 13 + l, n, u)
  BY <1>8, <1>13
\* From the end of the file the reader does not move.
<1>15. FlvReads(g[n], s) = g[n]
  <2>1. g[n].at = 13 + l
    BY <1>14 DEF StandsAt
  <2>2. g[n].at >= Len(s)
    BY <1>5, <2>1
  <2>3. QED
    BY <2>2 DEF FlvReads
<1>16. PICK j \in Nat : n + j = 13 + l
  <2>1. (13 + l) - n \in Nat /\ n + ((13 + l) - n) = 13 + l
    BY <1>14
  <2>2. QED
    BY <2>1
<1>17. g[13 + l] = g[n]
  <2> DEFINE H == {k \in 0 .. j : g[n + k] = g[n]}
  <2>1. 0 \in H
    OBVIOUS
  <2>2. ASSUME NEW k \in 0 .. j, k < j, k \in H PROVE k + 1 \in H
    <3>1. n + (k + 1) \in 0 .. 13 + l /\ (n + (k + 1)) - 1 = n + k /\ n + (k + 1) # 0 /\ k + 1 \in 0 .. j
      BY <1>16, <2>2
    <3>2. g[n + (k + 1)] = FlvReads(g[n + k], s)
      BY <1>10, <3>1
    <3>3. QED
      BY <1>15, <2>2, <3>1, <3>2
  <2>3. j \in H
    <3> HIDE DEF H
    <3>1. \A k \in 0 .. j : k < j /\ k \in H => k + 1 \in H
      BY <2>2
    <3>2. \A k \in 0 .. j : k \in H
      BY <2>1, <3>1, Upwards
    <3>3. QED
      BY <3>2
  <2>4. QED
    BY <1>16, <2>3
<1>18. g[n].good = TRUE /\ g[n].tags = [i \in 1 .. n |-> TagOf(u[i])]
  BY <1>14 DEF StandsAt
<1>19. QED
  BY <1>1, <1>9, <1>17, <1>18

-----------------------------------------------------------------------------
(* One more usable message, in the file and to the player.                 *)

LEMMA KeptNext ==
  ASSUME NEW u \in Seq(Media), NEW m \in Media, NEW longer, OneMore(longer, u, m)
  PROVE  IF Unreformed(m) THEN Kept(longer) = Kept(u) ELSE OneMore(Kept(longer), Kept(u), m)
<1>1. PICK x : x = Kept(u)
  OBVIOUS
<1>2. PICK z : z = Kept(longer)
  OBVIOUS
<1>3. Makes(Keeps, Media, Media)
  BY Makers
<1>4. x \in Seq(Media)
  BY <1>1, <1>3, GatheredBytes DEF Kept
<1>5. Joins(Gathered(Keeps, longer), Gathered(Keeps, u), Keeps[m])
  BY <1>3, GatheredNext
<1>6. z = x \o Keeps[m]
  BY <1>1, <1>2, <1>5 DEF Joins, Kept
<1>7. CASE Unreformed(m)
  <2>1. Keeps[m] = << >>
    BY <1>7 DEF Keeps
  <2>2. x \o << >> = x
    BY <1>4, ConcatEmptySeq
  <2>3. QED
    BY <1>1, <1>2, <1>6, <1>7, <2>1, <2>2
<1>8. CASE ~Unreformed(m)
  <2>1. Keeps[m] = <<m>>
    BY <1>8 DEF Keeps
  <2>2. x \o <<m>> = Append(x, m)
    BY <1>4
  <2>3. z = Append(x, m)
    BY <1>6, <2>1, <2>2
  <2>4. QED
    BY <1>1, <1>2, <1>8, <2>3 DEF OneMore
<1>9. QED
  BY <1>7, <1>8

LEMMA FileNext ==
  ASSUME NEW u \in Seq(Media), NEW m \in Media, NEW longer, OneMore(longer, u, m),
         NEW f, FileOK(u, f), NEW more,
         more = IF recorder = "open" /\ ~Unreformed(m) THEN f \o FlvTag(Recorded(m)) ELSE f
  PROVE  FileOK(longer, more)
<1>1. CASE recorder # "open"
  BY <1>1 DEF FileOK
<1>2. CASE recorder = "open" /\ Unreformed(m)
  <2>1. Kept(longer) = Kept(u)
    BY <1>2, KeptNext
  <2>2. QED
    BY <1>2, <2>1 DEF FileOK
<1>3. CASE recorder = "open" /\ ~Unreformed(m)
  <2>1. PICK x : x = Kept(u)
    OBVIOUS
  <2>2. PICK z : z = Kept(longer)
    OBVIOUS
  <2>3. OneMore(z, x, m)
    BY <1>3, <2>1, <2>2, KeptNext
  <2>4. x \in Seq(Media)
    <3>1. Makes(Keeps, Media, Media)
      BY Makers
    <3>2. QED
      BY <2>1, <3>1, GatheredBytes DEF Kept
  <2>5. Makes(Tags, Media, 0 .. 255)
    BY TagsMake
  <2>6. Joins(Gathered(Tags, z), Gathered(Tags, x), Tags[m])
    BY <2>3, <2>4, <2>5, GatheredNext
  <2>7. PICK h \in Seq(0 .. 255) : h = FlvHeader
    BY HeaderBytes
  <2>8. PICK a \in Seq(0 .. 255) : a = Gathered(Tags, x)
    BY <2>4, <2>5, GatheredBytes
  <2>9. PICK b \in Seq(0 .. 255) : b = Tags[m]
    BY <2>5 DEF Makes
  <2>10. (h \o a) \o b = h \o (a \o b)
    BY ConcatAssociative, SMTT(60)
  <2>11. f = h \o a
    BY <1>3, <2>1, <2>7, <2>8 DEF FileOK
  <2>12. more = (h \o a) \o b
    BY <1>3, <2>9, <2>11 DEF Tags
  <2>13. Gathered(Tags, z) = a \o b
    BY <2>6, <2>8, <2>9 DEF Joins
  <2>14. QED
    BY <1>3, <2>2, <2>7, <2>10, <2>12, <2>13 DEF FileOK
<1>4. QED
  BY <1>1, <1>2, <1>3

\* A packet by itself.
LEMMA OneWritten ==
  ASSUME NEW u \in Seq(Media), NEW heap, HeapOK(u, heap), NEW n \in 1 .. Len(u), NEW e, e = <<n>>,
         NEW S, Makes(Writes, Media, S)
  PROVE  WrittenOf(heap, e) = Writes[u[n]]
<1>1. PICK m \in Media : m = u[n]
  OBVIOUS
<1>2. PICK l : l = <<m>>
  OBVIOUS
<1>3. l \in Seq(Media) /\ Len(l) = 1 /\ l[1] = m /\ l = Append(<< >>, m)
  BY <1>2
<1>4. n \in Nat
  BY LenProperties
<1>5. e \in Seq(Nat) /\ Len(e) = 1 /\ e[1] = n
  BY <1>4
<1>6. MapsTo(e, l, u)
  BY <1>1, <1>3, <1>5 DEF MapsTo
<1>7. WrittenOf(heap, e) = Gathered(Writes, l)
  BY <1>6, BurstWritten
<1>8. PICK none \in Seq(Media) : none = << >>
  <2>1. << >> \in Seq(Media)
    OBVIOUS
  <2>2. QED
    BY <2>1
<1>9. Joins(Gathered(Writes, l), Gathered(Writes, none), Writes[m])
  <2>1. OneMore(l, none, m)
    BY <1>3, <1>8 DEF OneMore
  <2>2. QED
    BY <2>1, GatheredNext
<1>10. Gathered(Writes, none) = << >>
  BY <1>8, GatheredNone
<1>11. Writes[m] \in Seq(S)
  BY DEF Makes
<1>12. << >> \o Writes[m] = Writes[m]
  BY <1>11, ConcatEmptySeq
<1>13. QED
  BY <1>1, <1>7, <1>9, <1>10, <1>12 DEF Joins

LEMMA LatestOnes ==
  ASSUME NEW u \in Seq(Media), NEW kind
  PROVE  LatestOf(u, kind) \in Seq(Media)
<1>1. PICK f : f = OfKind(kind)
  OBVIOUS
<1>2. PICK x : x = Gathered(f, u)
  OBVIOUS
<1>3. Makes(f, Media, Media)
  BY <1>1, Makers
<1>4. x \in Seq(Media)
  BY <1>2, <1>3, GatheredBytes
<1>5. LatestOf(u, kind) = LastOf(x)
  BY <1>1, <1>2, ThoseAre
<1>6. LastOf(x) \in Seq(Media)
  <2>1. CASE x = << >>
    BY <2>1 DEF LastOf
  <2>2. CASE x # << >>
    <3>1. Len(x) \in Nat \ {0}
      BY <1>4, <2>2, LenProperties, EmptySeq
    <3>2. x[Len(x)] \in Media
      BY <1>4, <3>1
    <3>3. QED
      BY <2>2, <3>2 DEF LastOf, Last
  <2>3. QED
    BY <2>1, <2>2
<1>7. QED
  BY <1>5, <1>6

LEMMA BurstIs ==
  ASSUME NEW u \in Seq(Media)
  PROVE  BurstOf(u) \in Seq(Media)
<1>1. PICK x \in Seq(Media) : x = LatestOf(u, "meta")
  BY LatestOnes
<1>2. PICK y \in Seq(Media) : y = LatestOf(u, "vseq")
  BY LatestOnes
<1>3. PICK z \in Seq(Media) : z = LatestOf(u, "aseq")
  BY LatestOnes
<1>4. (x \o y) \o z \in Seq(Media)
  OBVIOUS
<1>5. QED
  BY <1>1, <1>2, <1>3, <1>4 DEF BurstOf

\* What a player has been shown.
LEMMA RestNext ==
  ASSUME NEW S, NEW u \in Seq(S), NEW m \in S, NEW longer, OneMore(longer, u, m),
         NEW k \in Nat \ {0}, k <= Len(u) + 1
  PROVE  /\ SubSeq(u, k, Len(u)) \in Seq(S)
         /\ OneMore(SubSeq(longer, k, Len(longer)), SubSeq(u, k, Len(u)), m)
<1>1. PICK n \in Nat : n = Len(u)
  BY LenProperties
<1>2. longer \in Seq(S) /\ Len(longer) = n + 1 /\ longer[n + 1] = m /\ \A i \in 1 .. n : longer[i] = u[i]
  BY <1>1, MoreIs
<1>3. PICK x : x = SubSeq(u, k, n)
  OBVIOUS
<1>4. PICK y : y = SubSeq(longer, k, n + 1)
  OBVIOUS
<1>5. PICK j \in Nat : j = n + 1 - k
  <2>1. n + 1 - k \in Nat
    BY <1>1
  <2>2. QED
    BY <2>1
<1>6. x \in Seq(S) /\ Len(x) = j /\ \A i \in 1 .. j : x[i] = u[k + i - 1]
  <2>1. \A i \in k .. n : u[i] \in S
    BY <1>1
  <2>2. x = [i \in 1 .. j |-> u[k + i - 1]]
    BY <1>3, <1>5
  <2>3. \A i \in 1 .. j : k + i - 1 \in k .. n
    BY <1>5
  <2>4. x \in [1 .. j -> S]
    BY <2>1, <2>2, <2>3
  <2>5. x \in Seq(S) /\ Len(x) = j
    BY <2>4, IsASeq
  <2>6. QED
    BY <2>2, <2>5
<1>7. y \in Seq(S) /\ Len(y) = j + 1 /\ \A i \in 1 .. j + 1 : y[i] = longer[k + i - 1]
  <2>1. \A i \in k .. n + 1 : longer[i] \in S
    BY <1>2
  <2>2. y = [i \in 1 .. j + 1 |-> longer[k + i - 1]]
    BY <1>4, <1>5
  <2>3. \A i \in 1 .. j + 1 : k + i - 1 \in k .. n + 1
    BY <1>5
  <2>4. y \in [1 .. j + 1 -> S]
    BY <2>1, <2>2, <2>3
  <2>5. y \in Seq(S) /\ Len(y) = j + 1
    BY <2>4, IsASeq
  <2>6. QED
    BY <2>2, <2>5
<1>8. PICK z : z = Append(x, m)
  OBVIOUS
<1>9. z \in Seq(S) /\ Len(z) = j + 1 /\ z[j + 1] = m /\ \A i \in 1 .. j : z[i] = x[i]
  BY <1>6, <1>8
<1>10. ASSUME NEW i \in 1 .. j + 1 PROVE y[i] = z[i]
  <2>1. CASE i \in 1 .. j
    <3>1. k + i - 1 \in 1 .. n
      BY <1>5, <2>1
    <3>2. QED
      BY <1>2, <1>6, <1>7, <1>9, <2>1, <3>1
  <2>2. CASE i = j + 1
    <3>1. k + i - 1 = n + 1
      BY <1>5, <2>2
    <3>2. QED
      BY <1>2, <1>7, <1>9, <2>2, <3>1
  <2>3. i \in 1 .. j \/ i = j + 1
    BY <1>10
  <2>4. QED
    BY <2>1, <2>2, <2>3
<1>11. y = z
  <2>1. y \in Seq(S)
    BY <1>7
  <2>2. z \in Seq(S)
    BY <1>9
  <2>3. Len(y) = Len(z) /\ \A i \in 1 .. Len(y) : y[i] = z[i]
    BY <1>7, <1>9, <1>10
  <2>4. QED
    BY <2>1, <2>2, <2>3, SeqEqual
<1>12. QED
  BY <1>1, <1>2, <1>3, <1>4, <1>6, <1>8, <1>11 DEF OneMore

LEMMA ShownNext ==
  ASSUME NEW u \in Seq(Media), NEW m \in Media, NEW longer, OneMore(longer, u, m),
         NEW from \in Nat, from < Len(u)
  PROVE  Shown(u, from) \in Seq(Media) /\ OneMore(Shown(longer, from), Shown(u, from), m)
<1>1. PICK n \in Nat : n = Len(u)
  BY LenProperties
<1>2. longer \in Seq(Media) /\ Len(longer) = n + 1 /\ \A i \in 1 .. n : longer[i] = u[i]
  BY <1>1, MoreIs
<1>3. PICK k \in Nat \ {0} : k = from + 2 /\ k <= n + 1
  <2>1. from + 2 \in Nat \ {0} /\ from + 2 <= n + 1
    BY <1>1
  <2>2. QED
    BY <2>1
<1>4. SubSeq(longer, 1, from + 1) = SubSeq(u, 1, from + 1) /\ SubSeq(u, 1, from + 1) \in Seq(Media)
  <2>1. from + 1 \in 0 .. Len(u)
    BY <1>1
  <2>2. Extended(u, longer)
    BY <1>1, <1>2 DEF Extended
  <2>3. QED
    BY <1>2, <2>1, <2>2, FirstsKept, FirstsAre
<1>5. PICK b \in Seq(Media) : b = BurstOf(SubSeq(u, 1, from + 1))
  BY <1>4, BurstIs
<1>6. PICK x : x = SubSeq(u, k, Len(u))
  OBVIOUS
<1>7. PICK y : y = SubSeq(longer, k, Len(longer))
  OBVIOUS
<1>8. x \in Seq(Media) /\ OneMore(y, x, m)
  <2>1. k <= Len(u) + 1
    BY <1>1, <1>3
  <2>2. QED
    BY <1>6, <1>7, <2>1, RestNext
<1>9. y = Append(x, m)
  BY <1>8 DEF OneMore
<1>10. PICK z : z = b \o x
  OBVIOUS
<1>11. x \in Seq(Media)
  BY <1>8
<1>12. z \in Seq(Media)
  BY <1>10, <1>11
<1>13. b \o y = Append(z, m)
  <2>1. PICK w \in Seq(Media) : w = <<m>>
    <3>1. <<m>> \in Seq(Media)
      OBVIOUS
    <3>2. QED
      BY <3>1
  <2>2. y = x \o w /\ Append(z, m) = z \o w
    BY <1>9, <1>11, <1>12, <2>1
  <2>3. (b \o x) \o w = b \o (x \o w)
    BY <1>11, ConcatAssociative, SMTT(60)
  <2>4. QED
    BY <1>10, <2>2, <2>3
<1>14. Shown(u, from) = z
  BY <1>3, <1>5, <1>6, <1>10 DEF Shown
<1>15. Shown(longer, from) = b \o y
  BY <1>3, <1>4, <1>5, <1>7 DEF Shown
<1>16. QED
  BY <1>12, <1>13, <1>14, <1>15 DEF OneMore

\* When a packet makes the player init, it is shown the burst.
LEMMA ShownFirst ==
  ASSUME NEW u \in Seq(Media), NEW from \in Nat, from + 1 = Len(u)
  PROVE  Shown(u, from) = BurstOf(u)
<1>1. PICK n \in Nat : n = Len(u) /\ from + 1 = n /\ from + 2 = n + 1
  BY LenProperties
<1>2. SubSeq(u, 1, n) = u
  <2>1. n \in 0 .. Len(u)
    BY <1>1
  <2>2. PICK x : x = SubSeq(u, 1, n)
    OBVIOUS
  <2>3. x \in Seq(Media) /\ Len(x) = n /\ \A i \in 1 .. n : x[i] = u[i]
    BY <2>1, <2>2, FirstsAre
  <2>4. x = u
    <3>1. x \in Seq(Media)
      BY <2>3
    <3>2. Len(x) = Len(u) /\ \A i \in 1 .. Len(x) : x[i] = u[i]
      BY <1>1, <2>3
    <3>3. QED
      BY <3>1, <3>2, SeqEqual
  <2>5. QED
    BY <2>2, <2>4
<1>3. SubSeq(u, n + 1, n) = << >>
  BY <1>1
<1>4. BurstOf(u) \in Seq(Media)
  BY BurstIs
<1>5. PICK b \in Seq(Media) : b = BurstOf(u)
  BY <1>4
<1>6. b \o << >> = b
  BY ConcatEmptySeq
<1>7. QED
  BY <1>1, <1>2, <1>3, <1>5, <1>6 DEF Shown

LEMMA DownNext ==
  ASSUME NEW u \in Seq(Media), NEW m \in Media, NEW longer, OneMore(longer, u, m),
         NEW heap, HeapOK(longer, heap), NEW kept, CacheOK(longer, kept),
         NEW p, NEW from, NEW d, DownOK(u, p, from, d), NEW S, Makes(Writes, Media, S),
         NEW todo, todo = IF p = "none" THEN << >> ELSE IF p = "init" THEN <<Len(longer)>> ELSE Cached(kept),
         NEW more, more = d \o WrittenOf(heap, todo),
         NEW q, q = IF p = "none" THEN "none" ELSE "init"
  PROVE  DownOK(longer, q, from, more)
<1>1. PICK n \in Nat : n = Len(u)
  BY LenProperties
<1>2. longer \in Seq(Media) /\ Len(longer) = n + 1 /\ longer[n + 1] = m
  BY <1>1, MoreIs
<1>3. p \in {"none", "joined", "init"} /\ from \in 0 .. n /\ from \in Nat /\ from \in 0 .. n + 1
  BY <1>1 DEF DownOK
<1>4. PICK w : w = WrittenOf(heap, todo)
  OBVIOUS
<1>5. more = d \o w
  BY <1>4
<1>6. CASE p = "none"
  <2>1. todo = << >> /\ d = << >>
    BY <1>6 DEF DownOK
  <2>2. [i \in DOMAIN todo |-> Written(heap[todo[i]])] = << >>
    BY <2>1, SMTT(60)
  <2>3. w = << >>
    BY <1>4, <2>2, ZenonT(60) DEF FlattenSeq, WrittenOf
  <2>4. << >> \o << >> = << >>
    OBVIOUS
  <2>5. more = << >>
    BY <1>5, <2>1, <2>3, <2>4
  <2>6. QED
    BY <1>2, <1>3, <1>6, <2>5 DEF DownOK
<1>7. CASE p = "joined"
  <2>1. todo = Cached(kept) /\ d = << >> /\ from = n
    BY <1>1, <1>7 DEF DownOK
  <2>2. MapsTo(todo, BurstOf(longer), longer)
    BY <1>2, <2>1, CachedMaps
  <2>3. w = Gathered(Writes, BurstOf(longer))
    BY <1>4, <2>2, BurstWritten
  <2>4. Shown(longer, from) = BurstOf(longer)
    BY <1>2, <1>3, <2>1, ShownFirst
  <2>5. w \in Seq(S)
    <3>1. BurstOf(longer) \in Seq(Media)
      BY <1>2, BurstIs
    <3>2. QED
      BY <2>3, <3>1, GatheredBytes
  <2>6. << >> \o w = w
    BY <2>5, ConcatEmptySeq
  <2>7. more = Gathered(Writes, Shown(longer, from))
    BY <1>5, <2>1, <2>3, <2>4, <2>6
  <2>8. from < Len(longer)
    BY <1>2, <2>1
  <2>9. QED
    BY <1>2, <1>3, <1>7, <2>7, <2>8 DEF DownOK
<1>8. CASE p = "init"
  <2>1. todo = <<n + 1>> /\ d = Gathered(Writes, Shown(u, from)) /\ from < n
    BY <1>1, <1>2, <1>8 DEF DownOK
  <2>2. w = Writes[m]
    <3>1. PICK k \in 1 .. Len(longer) : k = n + 1
      BY <1>2
    <3>2. longer \in Seq(Media)
      BY <1>2
    <3>3. todo = <<k>>
      BY <2>1, <3>1
    <3>4. WrittenOf(heap, todo) = Writes[longer[k]]
      BY <3>2, <3>3, OneWritten
    <3>5. w = Writes[longer[k]]
      BY <1>4, <3>4
    <3>6. QED
      BY <1>2, <3>1, <3>5
  <2>3. PICK x : x = Shown(u, from)
    OBVIOUS
  <2>4. PICK y : y = Shown(longer, from)
    OBVIOUS
  <2>5. x \in Seq(Media) /\ OneMore(y, x, m)
    BY <1>1, <1>3, <2>1, <2>3, <2>4, ShownNext
  <2>6. Joins(Gathered(Writes, y), Gathered(Writes, x), Writes[m])
    BY <2>5, GatheredNext
  <2>7. more = Gathered(Writes, Shown(longer, from))
    BY <1>5, <2>1, <2>2, <2>3, <2>4, <2>6 DEF Joins
  <2>8. from < Len(longer)
    BY <1>2, <1>3, <2>1
  <2>9. QED
    BY <1>2, <1>3, <1>8, <2>7, <2>8 DEF DownOK
<1>9. QED
  BY <1>3, <1>6, <1>7, <1>8

\* What a message is written as.
LEMMA WrittenIs ==
  ASSUME NEW m \in Bodies
  PROVE  \E out : /\ OutMessage(out) /\ out.data = m.data /\ out.timestamp = m.timestamp
                  /\ Plain(out) = [typeId |-> OutType(m), streamId |-> m.streamId,
                                   timestamp |-> m.timestamp, data |-> m.data]
                  /\ Written(m) = FlattenSeq(ChunksOf(out, ServerChunk))
<1>1. PICK type, stream, ts, data :
        type = OutType(m) /\ stream = m.streamId /\ ts = m.timestamp /\ data = m.data
  OBVIOUS
<1>2. PICK w : w = [csId |-> 0, typeId |-> type, streamId |-> stream, timestamp |-> ts, data |-> data]
  OBVIOUS
<1>3. PICK cs : cs = OutCsId(w)
  OBVIOUS
<1>4. PICK out : out = [w EXCEPT !.csId = cs]
  OBVIOUS
<1>5. out = [csId |-> cs, typeId |-> type, streamId |-> stream, timestamp |-> ts, data |-> data]
  BY <1>2, <1>4
<1>6. type = 8 \/ type = 9 \/ type = 18
  BY <1>1, OutTypeIs
<1>7. cs \in {4, 6}
  BY <1>2, <1>3, <1>6 DEF OutCsId
<1>8. stream \in {0, 1} /\ ts \in Nat /\ data \in Seq(0 .. 255) /\ Len(data) <= Mark
  BY <1>1 DEF Bodies, ByteSeq
<1>9. OutMessage(out)
  <2>1. type \in 0 .. 255
    BY <1>6
  <2>2. QED
    BY <1>5, <1>7, <1>8, <2>1 DEF OutMessage
<1>10. Plain(out) = [typeId |-> type, streamId |-> stream, timestamp |-> ts, data |-> data]
  BY <1>5 DEF Plain
<1>11. Written(m) = FlattenSeq(ChunksOf(out, ServerChunk))
  <2>1. Written(m) = WriteChunk(w, ServerChunk)
    BY <1>1, <1>2 DEF Written
  <2>2. out = [w EXCEPT !.csId = OutCsId(w)] /\ out.data = w.data
    BY <1>2, <1>3, <1>4, <1>5
  <2>3. WriteChunk(w, ServerChunk) = FlattenSeq(ChunksOf(out, ServerChunk))
    BY <2>2, WriteChunkIs
  <2>4. QED
    BY <2>1, <2>3
<1>12. QED
  BY <1>1, <1>5, <1>9, <1>10, <1>11

LEMMA WritesMake == Makes(Writes, Media, 0 .. 255)
<1>1. ASSUME NEW m \in Media PROVE Written(Recorded(m)) \in Seq(0 .. 255)
  <2>1. PICK q \in Bodies : q = Recorded(m)
    BY RecordedIs
  <2>2. PICK out : OutMessage(out) /\ Written(q) = FlattenSeq(ChunksOf(out, ServerChunk))
    BY WrittenIs
  <2>3. ServerChunk \in Nat \ {0}
    BY SizeAssumption
  <2>4. PICK n \in Nat : Makes(ChunksOf(out, ServerChunk), 1 .. n, 0 .. 255)
    BY <2>2, <2>3, ChunksMake
  <2>5. FlattenSeq(ChunksOf(out, ServerChunk)) \in Seq(0 .. 255)
    BY <2>4, ChunksLaidOut
  <2>6. QED
    BY <2>1, <2>2, <2>5
<1>2. QED
  BY <1>1 DEF Makes, Writes

-----------------------------------------------------------------------------
(* The relay keeps its invariant.                                          *)

LEMMA SendPacketKeeps ==
  ASSUME NEW u \in Seq(Media), NEW m \in Media, NEW longer, OneMore(longer, u, m),
         HeapOK(u, packets), CacheOK(u, cache), FileOK(u, file), DownOK(u, player, joinedAt, down),
         SendPacket(m)
  PROVE  /\ HeapOK(longer, packets') /\ CacheOK(longer, cache')
         /\ FileOK(longer, file') /\ DownOK(longer, player', joinedAt, down')
<1>1. PICK n \in Nat : n = Len(u) /\ n = Len(packets)
  BY LenProperties DEF HeapOK
<1>2. longer \in Seq(Media) /\ Len(longer) = n + 1
  <2>1. longer \in Seq(Media) /\ Len(longer) = Len(u) + 1
    BY MoreIs
  <2>2. QED
    BY <1>1, <2>1
<1>3. PICK heap : heap = Append(packets, Recorded(m))
  OBVIOUS
<1>4. PICK kept : kept = [k \in DOMAIN cache |-> IF k = CacheOf(m) THEN n + 1 ELSE cache[k]]
  OBVIOUS
<1>5. PICK todo : todo = IF player = "none" THEN << >> ELSE IF player = "init" THEN <<n + 1>> ELSE Cached(kept)
  BY ZenonT(60)
<1>6. packets' = heap /\ cache' = kept
  BY <1>1, <1>3, <1>4, ZenonT(60) DEF SendPacket
<1>7. file' = IF recorder = "open" /\ ~Unreformed(m) THEN file \o FlvTag(Recorded(m)) ELSE file
  BY SMTT(60) DEF SendPacket
<1>8. player' = IF player = "none" THEN "none" ELSE "init"
  BY SMTT(60) DEF SendPacket
<1>9. down' = down \o WrittenOf(heap, todo)
  BY <1>1, <1>3, <1>4, <1>5, ZenonT(60) DEF SendPacket, WrittenOf
<1>10. HeapOK(longer, heap)
  BY <1>3, HeapNext
<1>11. CacheOK(longer, kept)
  BY <1>1, <1>4, CacheNext
<1>12. PICK f, more, p, from, d, next : /\ f = file /\ more = file' /\ p = player /\ from = joinedAt
                                        /\ d = down /\ next = down'
  OBVIOUS
<1>13. FileOK(longer, more)
  <2>1. FileOK(u, f) /\ more = IF recorder = "open" /\ ~Unreformed(m) THEN f \o FlvTag(Recorded(m)) ELSE f
    BY <1>7, <1>12
  <2>2. QED
    BY <2>1, FileNext
<1>14. DownOK(longer, player', from, next)
  <2>1. DownOK(u, p, from, d)
    BY <1>12
  <2>2. todo = IF p = "none" THEN << >> ELSE IF p = "init" THEN <<Len(longer)>> ELSE Cached(kept)
    BY <1>2, <1>5, <1>12
  <2>3. next = d \o WrittenOf(heap, todo)
    BY <1>9, <1>12
  <2>4. PICK B : B = 0 .. 255
    OBVIOUS
  <2>5. Makes(Writes, Media, B)
    BY <2>4, WritesMake
  <2>6. PICK q : q = player'
    OBVIOUS
  <2>7. q = IF p = "none" THEN "none" ELSE "init"
    BY <1>8, <1>12, <2>6
  <2>8. DownOK(longer, q, from, next)
    BY <1>10, <1>11, <2>1, <2>2, <2>3, <2>5, <2>7, DownNext
  <2>9. QED
    BY <2>6, <2>8
<1>15. QED
  BY <1>6, <1>8, <1>10, <1>11, <1>12, <1>13, <1>14

\* The predicates depend on the state by the recorder alone.
LEMMA SameRecorder ==
  ASSUME recorder' = recorder, NEW u, NEW heap, NEW c, NEW f, NEW p, NEW from, NEW d,
         HeapOK(u, heap), CacheOK(u, c), FileOK(u, f), DownOK(u, p, from, d)
  PROVE  HeapOK(u, heap)' /\ CacheOK(u, c)' /\ FileOK(u, f)' /\ DownOK(u, p, from, d)'
<1>1. HeapOK(u, heap)'
  BY DEF HeapOK, Recorded
<1>2. CacheOK(u, c)'
  BY DEF CacheOK
<1>3. PICK t : t = Tags
  OBVIOUS
<1>4. t = Tags'
  BY <1>3 DEF Tags, Recorded
<1>5. FileOK(u, f)'
  BY <1>3, <1>4 DEF FileOK
<1>6. PICK w : w = Writes
  OBVIOUS
<1>7. w = Writes'
  BY <1>6 DEF Writes, Recorded
<1>8. DownOK(u, p, from, d)'
  BY <1>6, <1>7 DEF DownOK
<1>9. QED
  BY <1>1, <1>2, <1>5, <1>8

LEMMA UsedIs ==
  ASSUME RelayInv
  PROVE  Used \in Seq(Media)
<1>1. received \in Seq(Bodies)
  BY DEF RelayInv
<1>2. Makes(Uses, Bodies, Media)
  BY Makers
<1>3. QED
  BY <1>1, <1>2, GatheredBytes DEF Used

\* Named values in the place of the next state's.
LEMMA RelayedNext ==
  ASSUME recorder' = recorder, recorder \in {"off", "failed", "open"}, received' \in Seq(Bodies),
         NEW u, u = Used', NEW heap, heap = packets', NEW c, c = cache', NEW f, f = file',
         NEW p, p = player', NEW from, from = joinedAt', NEW d, d = down',
         HeapOK(u, heap), CacheOK(u, c), FileOK(u, f), DownOK(u, p, from, d)
  PROVE  RelayInv'
<1>1. HeapOK(u, heap)' /\ CacheOK(u, c)' /\ FileOK(u, f)' /\ DownOK(u, p, from, d)'
  BY SameRecorder
<1>2. HeapOK(Used, packets)'
  BY <1>1
<1>3. CacheOK(Used, cache)'
  BY <1>1
<1>4. FileOK(Used, file)'
  BY <1>1
<1>5. DownOK(Used, player, joinedAt, down)'
  BY <1>1
<1>6. QED
  BY <1>2, <1>3, <1>4, <1>5 DEF RelayInv

LEMMA ReceiveRelays ==
  ASSUME RelayInv, NEW m \in Bodies, Receive(m), recorder' = recorder, joinedAt' = joinedAt
  PROVE  RelayInv'
<1>1. PICK u : u = Used
  OBVIOUS
<1>2. PICK more : more = Used'
  OBVIOUS
<1>3. u \in Seq(Media)
  BY <1>1, UsedIs
<1>4. received \in Seq(Bodies) /\ recorder \in {"off", "failed", "open"}
  BY DEF RelayInv
<1>5. PICK all : all = received'
  OBVIOUS
<1>6. all = Append(received, m)
  BY <1>5 DEF Receive
<1>7. all \in Seq(Bodies)
  BY <1>4, <1>6
<1>8. Joins(more, u, Uses[m])
  <2>1. Makes(Uses, Bodies, Media)
    BY Makers
  <2>2. OneMore(all, received, m)
    BY <1>6 DEF OneMore
  <2>3. Joins(Gathered(Uses, all), Gathered(Uses, received), Uses[m])
    BY <1>4, <2>1, <2>2, GatheredNext
  <2>4. more = Gathered(Uses, all)
    BY <1>2, <1>5 DEF Used
  <2>5. u = Gathered(Uses, received)
    BY <1>1 DEF Used
  <2>6. QED
    BY <2>3, <2>4, <2>5
<1>9. HeapOK(u, packets) /\ CacheOK(u, cache) /\ FileOK(u, file) /\ DownOK(u, player, joinedAt, down)
  BY <1>1 DEF RelayInv
<1>10. PICK heap : heap = packets'
  OBVIOUS
<1>11. PICK c : c = cache'
  OBVIOUS
<1>12. PICK f : f = file'
  OBVIOUS
<1>13. PICK p : p = player'
  OBVIOUS
<1>14. PICK from : from = joinedAt
  OBVIOUS
<1>15. PICK d : d = down'
  OBVIOUS
<1>16. HeapOK(more, heap) /\ CacheOK(more, c) /\ FileOK(more, f) /\ DownOK(more, p, from, d)
  <2>1. CASE IsMedia(m) /\ TagParses(m)
    <3>1. m \in Media /\ Uses[m] = <<m>>
      BY <2>1 DEF Media, Uses
    <3>2. OneMore(more, u, m)
      <4>1. more = u \o <<m>>
        BY <1>8, <3>1 DEF Joins
      <4>2. u \o <<m>> = Append(u, m)
        BY <1>3, <3>1
      <4>3. QED
        BY <4>1, <4>2 DEF OneMore
    <3>3. SendPacket(m)
      BY <2>1 DEF Receive
    <3>4. /\ HeapOK(more, packets') /\ CacheOK(more, cache')
          /\ FileOK(more, file') /\ DownOK(more, player', joinedAt, down')
      BY <1>3, <1>9, <3>1, <3>2, <3>3, SendPacketKeeps
    <3>5. QED
      BY <1>10, <1>11, <1>12, <1>13, <1>14, <1>15, <3>4
  <2>2. CASE ~(IsMedia(m) /\ TagParses(m))
    <3>1. Uses[m] = << >>
      BY <2>2 DEF Uses
    <3>2. more = u
      <4>1. more = u \o << >>
        BY <1>8, <3>1 DEF Joins
      <4>2. u \o << >> = u
        BY <1>3, ConcatEmptySeq
      <4>3. QED
        BY <4>1, <4>2
    <3>3. UNCHANGED <<packets, cache, file, player, down>>
      BY <2>2 DEF Receive
    <3>4. QED
      BY <1>9, <1>10, <1>11, <1>12, <1>13, <1>14, <1>15, <3>2, <3>3
  <2>3. QED
    BY <2>1, <2>2
<1>17. received' \in Seq(Bodies)
  BY <1>5, <1>7
<1>18. from = joinedAt'
  BY <1>14
<1>19. QED
  BY <1>2, <1>4, <1>10, <1>11, <1>12, <1>13, <1>15, <1>16, <1>17, <1>18, RelayedNext

\* A step that reads no message and changes neither packets, cache, file nor player.
LEMMA SameRelay ==
  ASSUME RelayInv, UNCHANGED <<received, packets, cache, recorder, file, player, joinedAt, down>>
  PROVE  RelayInv'
<1>1. PICK u : u = Used
  OBVIOUS
<1>2. u = Used'
  BY <1>1 DEF Used
<1>3. PICK heap : heap = packets
  OBVIOUS
<1>4. PICK c : c = cache
  OBVIOUS
<1>5. PICK f : f = file
  OBVIOUS
<1>6. PICK p : p = player
  OBVIOUS
<1>7. PICK from : from = joinedAt
  OBVIOUS
<1>8. PICK d : d = down
  OBVIOUS
<1>9. HeapOK(u, heap) /\ CacheOK(u, c) /\ FileOK(u, f) /\ DownOK(u, p, from, d)
  BY <1>1, <1>3, <1>4, <1>5, <1>6, <1>7, <1>8 DEF RelayInv
<1>10. received' \in Seq(Bodies) /\ recorder' = recorder /\ recorder \in {"off", "failed", "open"}
  BY DEF RelayInv
<1>11. /\ heap = packets' /\ c = cache' /\ f = file' /\ p = player' /\ from = joinedAt' /\ d = down'
  BY <1>3, <1>4, <1>5, <1>6, <1>7, <1>8
<1>12. QED
  BY <1>2, <1>9, <1>10, <1>11, RelayedNext

\* readMsg relays what it returns; the messages it returns are bodies.
LEMMA ReadMsgRelays ==
  ASSUME RelayInv, ReadMsg, StreamInv'
  PROVE  RelayInv'
<1>1. PICK r : r = NextChunk
  OBVIOUS
<1>2. recorder' = recorder /\ joinedAt' = joinedAt
  BY DEF ReadMsg
<1>3. CASE UNCHANGED <<peerSize, received, packets, cache, file, player, down>>
  BY <1>2, <1>3, SameRelay
<1>4. CASE Receive(Body(r.chunk))
  <2>1. PICK m : m = Body(r.chunk)
    OBVIOUS
  <2>2. PICK all : all = received'
    OBVIOUS
  <2>3. all = Append(received, m)
    BY <1>4, <2>1, <2>2 DEF Receive
  <2>4. all \in Seq(Bodies)
    <3>1. PICK s : s = sent'
      OBVIOUS
    <3>2. s \in Seq(Bodies)
      BY <3>1 DEF StreamInv, Typed
    <3>3. all = SubSeq(s, 1, Len(all)) /\ Len(all) \in 0 .. Len(s)
      BY <2>2, <3>1, SMTT(60) DEF StreamInv, Prefix
    <3>4. PICK k \in 0 .. Len(s) : k = Len(all)
      BY <3>3
    <3>5. PICK x : x = SubSeq(s, 1, k)
      OBVIOUS
    <3>6. x \in Seq(Bodies)
      BY <3>2, <3>5, FirstsAre
    <3>7. QED
      BY <3>3, <3>4, <3>5, <3>6
  <2>5. m \in Bodies
    <3>1. received \in Seq(Bodies)
      BY DEF RelayInv
    <3>2. PICK n \in Nat : n = Len(received)
      BY <3>1, LenProperties
    <3>3. Len(all) = n + 1 /\ all[n + 1] = m
      BY <2>3, <3>1, <3>2
    <3>4. n + 1 \in 1 .. Len(all)
      BY <3>2, <3>3
    <3>5. QED
      BY <2>4, <3>3, <3>4, ElementOfSeq
  <2>6. Receive(m)
    BY <1>4, <2>1
  <2>7. QED
    BY <1>2, <2>5, <2>6, ReceiveRelays
<1>5. QED
  BY <1>1, <1>3, <1>4 DEF ReadMsg

LEMMA JoinRelays ==
  ASSUME RelayInv, Join
  PROVE  RelayInv'
<1>1. PICK u : u = Used
  OBVIOUS
<1>2. UNCHANGED <<received, packets, cache, recorder, file, down>> /\ player = "none"
      /\ player' = "joined" /\ joinedAt' = Len(packets)
  BY DEF Join
<1>3. u = Used'
  BY <1>1, <1>2 DEF Used
<1>4. PICK heap : heap = packets
  OBVIOUS
<1>5. PICK c : c = cache
  OBVIOUS
<1>6. PICK f : f = file
  OBVIOUS
<1>7. PICK p : p = player'
  OBVIOUS
<1>8. PICK from : from = joinedAt'
  OBVIOUS
<1>9. PICK d : d = down
  OBVIOUS
<1>10. HeapOK(u, heap) /\ CacheOK(u, c) /\ FileOK(u, f) /\ DownOK(u, player, joinedAt, d)
  BY <1>1, <1>4, <1>5, <1>6, <1>9 DEF RelayInv
<1>11. p = "joined" /\ from = Len(u)
  BY <1>2, <1>4, <1>7, <1>8, <1>10 DEF HeapOK
<1>12. d = << >>
  BY <1>2, <1>10 DEF DownOK
<1>13. DownOK(u, p, from, d)
  <2>1. u \in Seq(Media)
    BY <1>1, UsedIs
  <2>2. Len(u) \in 0 .. Len(u)
    BY <2>1, LenProperties
  <2>3. QED
    BY <1>11, <1>12, <2>2 DEF DownOK
<1>14. received' \in Seq(Bodies) /\ recorder' = recorder /\ recorder \in {"off", "failed", "open"}
  BY <1>2 DEF RelayInv
<1>15. heap = packets' /\ c = cache' /\ f = file' /\ d = down'
  BY <1>2, <1>4, <1>5, <1>6, <1>9
<1>16. QED
  BY <1>3, <1>7, <1>8, <1>10, <1>13, <1>14, <1>15, RelayedNext

LEMMA InitRelays ==
  ASSUME Init
  PROVE  RelayInv
<1>1. received = << >> /\ packets = << >> /\ cache = [k \in Kinds |-> 0] /\ down = << >>
      /\ player = "none" /\ joinedAt = 0 /\ recorder \in {"off", "failed", "open"}
      /\ file = IF recorder = "open" THEN FlvHeader ELSE << >>
  BY DEF Init, Kinds
<1>2. PICK u : u = Used
  OBVIOUS
<1>3. u = << >>
  BY <1>1, <1>2, GatheredNone DEF Used
<1>4. received \in Seq(Bodies)
  BY <1>1
<1>5. PICK n \in Nat : n = Len(u) /\ n = 0
  BY <1>3
<1>6. HeapOK(u, packets)
  <2>1. packets \in Seq(Bodies)
    BY <1>1
  <2>2. Len(packets) = Len(u)
    BY <1>1, <1>3
  <2>3. \A i \in 1 .. Len(u) : FALSE
    BY <1>5
  <2>4. QED
    BY <2>1, <2>2, <2>3 DEF HeapOK
<1>7. u \in Seq(Media)
  BY <1>3
<1>8. CacheOK(u, cache)
  <2>1. ASSUME NEW k \in Kinds PROVE cache[k] \in 0 .. Len(u) /\ LatestOf(u, k) = Entry(u, cache[k])
    <3>1. cache[k] = 0
      BY <1>1, <2>1
    <3>2. LatestOf(u, k) = LastOf(Gathered(OfKind(k), u))
      BY <1>7, ThoseAre
    <3>3. Gathered(OfKind(k), u) = << >>
      BY <1>3, GatheredNone
    <3>4. LatestOf(u, k) = << >>
      BY <3>2, <3>3 DEF LastOf
    <3>5. Entry(u, cache[k]) = << >>
      BY <3>1 DEF Entry
    <3>6. 0 \in 0 .. Len(u)
      BY <1>5
    <3>7. QED
      BY <3>1, <3>4, <3>5, <3>6
  <2>2. QED
    BY <1>1, <2>1 DEF CacheOK
<1>9. FileOK(u, file)
  <2>1. Kept(u) = << >>
    BY <1>3, GatheredNone DEF Kept
  <2>2. Gathered(Tags, Kept(u)) = << >>
    BY <2>1, GatheredNone
  <2>3. PICK h \in Seq(0 .. 255) : h = FlvHeader
    BY HeaderBytes
  <2>4. h \o << >> = h
    BY ConcatEmptySeq
  <2>5. QED
    BY <1>1, <2>2, <2>3, <2>4 DEF FileOK
<1>10. DownOK(u, player, joinedAt, down)
  <2>1. 0 \in 0 .. Len(u)
    BY <1>5
  <2>2. QED
    BY <1>1, <2>1 DEF DownOK
<1>11. QED
  BY <1>1, <1>2, <1>4, <1>6, <1>8, <1>9, <1>10 DEF RelayInv

\* Only readMsg and addPlayer change what is relayed.
LEMMA NextRelays ==
  ASSUME RelayInv, StreamInv', [Next]_vars
  PROVE  RelayInv'
<1>1. ASSUME NEW p \in Payloads, NEW step \in Steps, NEW format \in 0 .. 3, Begin(p, step, format)
      PROVE  RelayInv'
  <2>1. UNCHANGED server
    BY <1>1 DEF Begin
  <2>2. QED
    BY <2>1, SameRelay DEF server
<1>2. ASSUME NEW cs \in CsIds, Continue(cs) PROVE RelayInv'
  <2>1. UNCHANGED server
    BY <1>2 DEF Continue
  <2>2. QED
    BY <2>1, SameRelay DEF server
<1>3. ASSUME NEW p \in Payloads, NEW cs \in CsIds, GiveUp(p, cs) PROVE RelayInv'
  <2>1. UNCHANGED server
    BY <1>3 DEF GiveUp
  <2>2. QED
    BY <2>1, SameRelay DEF server
<1>4. CASE ReadMsg
  BY <1>4, ReadMsgRelays
<1>5. CASE Join
  BY <1>5, JoinRelays
<1>6. CASE UNCHANGED vars
  <2>1. UNCHANGED server
    BY <1>6 DEF vars
  <2>2. QED
    BY <2>1, SameRelay DEF server
<1>7. QED
  BY <1>1, <1>2, <1>3, <1>4, <1>5, <1>6 DEF Next, Client

\* Of messages in T, a part that is in T.
LEMMA GatheredWithin ==
  ASSUME NEW T, NEW S, NEW f, \A m \in T : f[m] \in Seq(S), NEW seq \in Seq(T)
  PROVE  Gathered(f, seq) \in Seq(S)
<1>1. PICK g : g = [m \in T |-> f[m]]
  OBVIOUS
<1>2. Makes(g, T, S)
  BY <1>1 DEF Makes
<1>3. PICK n \in Nat : n = Len(seq)
  BY LenProperties
<1>4. \A i \in DOMAIN seq : seq[i] \in T
  BY <1>3
<1>5. [i \in DOMAIN seq |-> f[seq[i]]] = [i \in DOMAIN seq |-> g[seq[i]]]
  BY <1>1, <1>4
<1>6. Gathered(f, seq) = Gathered(g, seq)
  BY <1>5 DEF Gathered
<1>7. QED
  BY <1>2, <1>6, GatheredBytes

LEMMA Widened ==
  ASSUME NEW S, NEW T, T \subseteq S, NEW seq \in Seq(T)
  PROVE  seq \in Seq(S)
<1>1. PICK n \in Nat : n = Len(seq)
  BY LenProperties
<1>2. seq \in [1 .. n -> S]
  BY <1>1
<1>3. QED
  BY <1>2, IsASeq

LEMMA LatestWithin ==
  ASSUME NEW T, T \subseteq Media, NEW u \in Seq(T), NEW kind
  PROVE  LatestOf(u, kind) \in Seq(T)
<1>1. PICK f : f = OfKind(kind)
  OBVIOUS
<1>2. PICK x : x = Gathered(f, u)
  OBVIOUS
<1>3. ASSUME NEW m \in T PROVE f[m] \in Seq(T)
  <2>1. <<m>> \in Seq(T) /\ << >> \in Seq(T)
    OBVIOUS
  <2>2. m \in Media
    OBVIOUS
  <2>3. QED
    BY <1>1, <2>1, <2>2 DEF OfKind
<1>4. x \in Seq(T)
  BY <1>2, <1>3, GatheredWithin
<1>5. LatestOf(u, kind) = LastOf(x)
  <2>1. u \in Seq(Media)
    BY Widened
  <2>2. QED
    BY <1>1, <1>2, <2>1, ThoseAre
<1>6. LastOf(x) \in Seq(T)
  <2>1. CASE x = << >>
    BY <2>1 DEF LastOf
  <2>2. CASE x # << >>
    <3>1. Len(x) \in Nat \ {0}
      BY <1>4, <2>2, LenProperties, EmptySeq
    <3>2. x[Len(x)] \in T
      BY <1>4, <3>1
    <3>3. QED
      BY <2>2, <3>2 DEF LastOf, Last
  <2>3. QED
    BY <2>1, <2>2
<1>7. QED
  BY <1>5, <1>6

LEMMA ShownWithin ==
  ASSUME NEW T, T \subseteq Media, NEW u \in Seq(T), NEW from \in Nat, from < Len(u)
  PROVE  Shown(u, from) \in Seq(T)
<1>1. PICK n \in Nat : n = Len(u) /\ n # 0
  BY LenProperties
<1>2. PICK first \in Seq(T) : first = SubSeq(u, 1, from + 1)
  <2>1. from + 1 \in 0 .. Len(u)
    BY <1>1
  <2>2. SubSeq(u, 1, from + 1) \in Seq(T)
    BY <2>1, FirstsAre
  <2>3. QED
    BY <2>2
<1>3. PICK x \in Seq(T) : x = LatestOf(first, "meta")
  BY LatestWithin
<1>4. PICK y \in Seq(T) : y = LatestOf(first, "vseq")
  BY LatestWithin
<1>5. PICK z \in Seq(T) : z = LatestOf(first, "aseq")
  BY LatestWithin
<1>6. PICK b \in Seq(T) : b = BurstOf(first)
  <2>1. (x \o y) \o z \in Seq(T)
    OBVIOUS
  <2>2. QED
    BY <1>3, <1>4, <1>5, <2>1 DEF BurstOf
<1>7. PICK rest \in Seq(T) : rest = SubSeq(u, from + 2, Len(u))
  <2>1. 1 \in 1 .. Len(u)
    BY <1>1
  <2>2. PICK m \in T : m = u[1]
    BY <2>1, ElementOfSeq
  <2>3. PICK longer : OneMore(longer, u, m)
    BY DEF OneMore
  <2>4. PICK k \in Nat \ {0} : k = from + 2 /\ k <= Len(u) + 1
    <3>1. from + 2 \in Nat \ {0} /\ from + 2 <= Len(u) + 1
      BY <1>1
    <3>2. QED
      BY <3>1
  <2>5. SubSeq(u, k, Len(u)) \in Seq(T)
    BY <2>3, <2>4, RestNext
  <2>6. QED
    BY <2>4, <2>5
<1>8. b \o rest \in Seq(T)
  OBVIOUS
<1>9. QED
  BY <1>2, <1>6, <1>7, <1>8 DEF Shown

LEMMA TypesOf ==
  ASSUME StreamInv, RelayInv
  PROVE  TypeOK
<1>1. PICK u \in Seq(Media) : u = Used
  BY UsedIs
<1>2. PICK n \in Nat : n = Len(u) /\ n = Len(packets)
  <2>1. Len(packets) = Len(u)
    BY <1>1 DEF RelayInv, HeapOK
  <2>2. QED
    BY <2>1, LenProperties
<1>3. size \in Nat \ {0} /\ \A cs \in CsIds : pending[cs] \in Seq(0 .. 255)
  <2>1. flight \in Seq(MomentSet)
    BY DEF StreamInv, Typed
  <2>2. PICK l \in Nat : l = Len(flight)
    BY <2>1, LenProperties
  <2>3. PICK ms : ms = Moments
    OBVIOUS
  <2>4. DOMAIN ms = 1 .. l + 1 /\ ms[l + 1] = Moment
    BY <2>1, <2>2, <2>3, MomentsAre
  <2>5. l + 1 \in DOMAIN ms
    BY <2>2, <2>4
  <2>6. MomentOK(ms[l + 1])
    BY <2>3, <2>5 DEF StreamInv, MomentsOK
  <2>7. PICK a : a = Moment
    OBVIOUS
  <2>8. a \in MomentSet
    BY <2>4, <2>6, <2>7 DEF MomentOK
  <2>9. a.size = size /\ a.pending = pending
    BY <2>7 DEF Moment
  <2>10. a.size \in Nat \ {0} /\ a.pending \in [CsIds -> Seq(0 .. 255)]
    BY <2>8 DEF MomentSet, ByteSeq
  <2>11. QED
    BY <2>9, <2>10
<1>4. peerSize \in Nat \ {0} /\ up \in Seq(0 .. 255) /\ phase \in {"reading", "ended"}
  BY DEF StreamInv, Typed, ByteSeq
<1>5. \A k \in DOMAIN chunks : Len(chunks[k].data) + chunks[k].remain = chunks[k].length
  BY DEF StreamInv, Typed, ChunkOK
<1>6. CacheOK(u, cache) /\ FileOK(u, file) /\ DownOK(u, player, joinedAt, down)
  BY <1>1 DEF RelayInv
<1>7. player \in {"none", "joined", "init"} /\ joinedAt \in 0 .. Len(packets)
  BY <1>2, <1>6 DEF DownOK
<1>8. \A k \in DOMAIN cache : cache[k] \in 0 .. Len(packets)
  BY <1>2, <1>6 DEF CacheOK
<1>9. down \in Seq(0 .. 255)
  <2>1. CASE player = "init"
    <3>1. PICK from \in Nat : from = joinedAt /\ from < Len(u)
      <4>1. joinedAt \in Nat /\ joinedAt < Len(u)
        BY <1>2, <1>6, <2>1 DEF DownOK
      <4>2. QED
        BY <4>1
    <3>2. Shown(u, from) \in Seq(Media)
      <4>1. Media \subseteq Media
        OBVIOUS
      <4>2. QED
        BY <3>1, <4>1, ShownWithin
    <3>3. PICK B : B = 0 .. 255
      OBVIOUS
    <3>4. Makes(Writes, Media, B)
      BY <3>3, WritesMake
    <3>5. Gathered(Writes, Shown(u, from)) \in Seq(B)
      BY <3>2, <3>4, GatheredBytes
    <3>6. QED
      BY <1>6, <2>1, <3>1, <3>3, <3>5 DEF DownOK
  <2>2. CASE player # "init"
    <3>1. down = << >>
      BY <1>6, <2>2 DEF DownOK
    <3>2. QED
      BY <3>1
  <2>3. QED
    BY <2>1, <2>2
<1>10. file \in Seq(0 .. 255)
  <2>1. CASE recorder = "open"
    <3>1. PICK z : z = Gathered(Tags, Kept(u))
      OBVIOUS
    <3>2. z \in Seq(0 .. 255)
      <4>1. Kept(u) \in Seq(Media)
        BY Makers, GatheredBytes DEF Kept
      <4>2. PICK B : B = 0 .. 255
        OBVIOUS
      <4>3. Makes(Tags, Media, B)
        BY <4>2, TagsMake
      <4>4. z \in Seq(B)
        BY <3>1, <4>1, <4>3, GatheredBytes
      <4>5. QED
        BY <4>2, <4>4
    <3>3. PICK h \in Seq(0 .. 255) : h = FlvHeader
      BY HeaderBytes
    <3>4. h \o z \in Seq(0 .. 255)
      BY <3>2
    <3>5. QED
      BY <1>6, <2>1, <3>1, <3>3, <3>4 DEF FileOK
  <2>2. CASE recorder # "open"
    <3>1. file = << >>
      BY <1>6, <2>2 DEF FileOK
    <3>2. QED
      BY <3>1
  <2>3. QED
    BY <2>1, <2>2
<1>11. QED
  BY <1>3, <1>4, <1>5, <1>7, <1>8, <1>9, <1>10 DEF TypeOK


\* The timestamps the readers of the two formats get right.
ShortStamps == \A i \in DOMAIN received : ShortStamp(received[i])
ClearStamps == \A i \in DOMAIN received : ClearStamp(received[i])

LEMMA UsedWithin ==
  ASSUME RelayInv, NEW T, T \subseteq Bodies, \A i \in DOMAIN received : received[i] \in T
  PROVE  Used \in Seq(Media \cap T)
<1>1. received \in Seq(Bodies)
  BY DEF RelayInv
<1>2. PICK n \in Nat : n = Len(received)
  BY <1>1, LenProperties
<1>3. received \in [1 .. n -> T]
  BY <1>1, <1>2
<1>4. received \in Seq(T)
  BY <1>3, IsASeq
<1>5. PICK S : S = Media \cap T
  OBVIOUS
<1>6. ASSUME NEW m \in T PROVE Uses[m] \in Seq(S)
  <2>1. m \in Bodies
    OBVIOUS
  <2>2. CASE IsMedia(m) /\ TagParses(m)
    <3>1. m \in S
      BY <1>5, <2>1, <2>2 DEF Media
    <3>2. <<m>> \in Seq(S)
      BY <3>1
    <3>3. QED
      BY <2>1, <2>2, <3>2 DEF Uses
  <2>3. CASE ~(IsMedia(m) /\ TagParses(m))
    <3>1. << >> \in Seq(S)
      OBVIOUS
    <3>2. QED
      BY <2>1, <2>3, <3>1 DEF Uses
  <2>4. QED
    BY <2>2, <2>3
<1>7. Gathered(Uses, received) \in Seq(S)
  BY <1>4, <1>6, GatheredWithin
<1>8. QED
  BY <1>5, <1>7 DEF Used

LEMMA RecordedData ==
  ASSUME NEW m \in Media
  PROVE  Recorded(m).data = Relayed(m).data
<1>1. m.data \in Seq(0 .. 255) /\ m \in [typeId : 0 .. 255, streamId : {0, 1}, timestamp : Nat, data : ByteSeq]
  BY DEF Media, Bodies, ByteSeq
<1>2. PICK d : d = Reform(m.data)
  OBVIOUS
<1>3. CASE recorder = "open" /\ IsMetadata(m)
  <2>1. Recorded(m) = [m EXCEPT !.data = d]
    BY <1>2, <1>3 DEF Recorded
  <2>2. Recorded(m).data = d
    BY <1>1, <2>1
  <2>3. QED
    BY <1>2, <1>3, <2>2 DEF Relayed
<1>4. CASE ~(recorder = "open" /\ IsMetadata(m))
  BY <1>4 DEF Recorded, Relayed
<1>5. QED
  BY <1>3, <1>4

LEMMA RecordingOf ==
  ASSUME StreamInv, RelayInv, ShortStamps
  PROVE  RecordingPlays
<1>1. SUFFICES ASSUME recorder = "open" PROVE RecordingPlays
  BY DEF RecordingPlays
<1>2. received \in Seq(Bodies) /\ received = SubSeq(sent, 1, Len(received))
  BY DEF RelayInv, StreamInv, Prefix
<1>3. Usable = Used
  BY <1>2, UsableIs
<1>4. PICK T : T = {m \in Bodies : ShortStamp(m)}
  OBVIOUS
<1>5. Used \in Seq(Media \cap T)
  <2>1. PICK n \in Nat : n = Len(received)
    BY <1>2, LenProperties
  <2>2. \A i \in DOMAIN received : received[i] \in Bodies
    BY <1>2, <2>1
  <2>3. \A i \in DOMAIN received : received[i] \in T
    BY <1>4, <2>2 DEF ShortStamps
  <2>4. T \subseteq Bodies
    BY <1>4
  <2>5. QED
    BY <2>3, <2>4, UsedWithin
<1>6. PICK A : A = Media \cap T
  OBVIOUS
<1>7. PICK u \in Seq(A) : u = Used
  BY <1>5, <1>6
<1>8. PICK kept : kept = Kept(u)
  OBVIOUS
<1>9. kept \in Seq(A)
  <2>1. ASSUME NEW m \in A PROVE Keeps[m] \in Seq(A)
    <3>1. <<m>> \in Seq(A) /\ << >> \in Seq(A)
      OBVIOUS
    <3>2. m \in Media
      BY <1>6
    <3>3. QED
      BY <3>1, <3>2 DEF Keeps
  <2>2. QED
    BY <1>8, <2>1, GatheredWithin DEF Kept
<1>10. u \in Seq(Media) /\ kept \in Seq(Media)
  BY <1>6, <1>9, Widened
<1>11. \A i \in DOMAIN kept : kept[i] \in Media /\ ShortStamp(kept[i])
  <2>1. PICK n \in Nat : n = Len(kept)
    BY <1>9, LenProperties
  <2>2. \A i \in DOMAIN kept : kept[i] \in A
    BY <1>9, <2>1
  <2>3. QED
    BY <1>4, <1>6, <2>2
<1>12. PICK z : z = Gathered(Tags, kept)
  OBVIOUS
<1>13. file = FlvHeader \o z
  BY <1>1, <1>7, <1>8, <1>12 DEF RelayInv, FileOK
<1>14. FlvDecodes(file) = [i \in DOMAIN kept |-> TagOf(kept[i])]
  BY <1>10, <1>11, <1>12, <1>13, FileDecoded
<1>15. PICK F : F = [i \in DOMAIN kept |-> [typeId |-> OutType(kept[i]), timestamp |-> kept[i].timestamp,
                                             data |-> Relayed(kept[i]).data]]
  OBVIOUS
<1>16. [i \in DOMAIN kept |-> TagOf(kept[i])] = F
  <2>1. \A i \in DOMAIN kept : Recorded(kept[i]).data = Relayed(kept[i]).data
    BY <1>11, RecordedData
  <2>2. QED
    BY <1>15, <2>1 DEF TagOf
<1>17. Those(Usable, LAMBDA m : ~Unreformed(m)) = kept
  BY <1>3, <1>7, <1>8, <1>10, ThoseAre
<1>18. QED
  BY <1>14, <1>15, <1>16, <1>17 DEF RecordingPlays

-----------------------------------------------------------------------------
(* What a client decodes of what is written to a player.                   *)

Forms == {Relayed(m) : m \in Media}
Gets == [m \in Media |-> IF Relayed(m).data # << >> THEN <<Relayed(m)>> ELSE << >>]

LEMMA GetsMake == Makes(Gets, Media, Forms)
<1>1. ASSUME NEW m \in Media PROVE Gets[m] \in Seq(Forms)
  <2>1. PICK r \in Forms : r = Relayed(m)
    BY DEF Forms
  <2>2. <<r>> \in Seq(Forms) /\ << >> \in Seq(Forms)
    OBVIOUS
  <2>3. QED
    BY <2>1, <2>2 DEF Gets
<1>2. QED
  BY <1>1 DEF Makes, Gets

\* A message of no bytes takes no chunk.
LEMMA NoChunks ==
  ASSUME NEW m, Len(m.data) = 0, NEW cut \in Nat \ {0}
  PROVE  FlattenSeq(ChunksOf(m, cut)) = << >>
<1>1. PICK n : n = (0 + cut - 1) \div cut
  OBVIOUS
<1>2. n = 0
  <2>1. 0 \in Nat
    OBVIOUS
  <2>2. n = 0 <=> 0 = 0
    BY <1>1, <2>1, PieceCount
  <2>3. QED
    BY <2>2
<1>3. Count(m, cut) = 0
  BY <1>1, <1>2 DEF Count
<1>4. ChunksOf(m, cut) = << >>
  BY <1>3 DEF ChunksOf
<1>5. QED
  BY <1>4 DEF FlattenSeq

\* One message, as the heap holds it.
LEMMA MessageShown ==
  ASSUME NEW m \in Media, ClearStamp(m), NEW s \in Seq(0 .. 255), NEW o \in Nat,
         NEW t, t = Writes[m], Placed(s, o, t), NEW n \in Nat, n = Len(s),
         NEW g, ClientRuns(g, s, ServerChunk, n), NEW j \in Nat, j <= o,
         NEW got \in Seq(Forms), ClientAt(g[j], o, got), NEW e \in Nat, e = o + Len(t)
  PROVE  \E i \in Nat : i <= e /\ ClientAt(g[i], e, got \o Gets[m])
<1>1. PICK q \in Bodies : q = Recorded(m)
  BY RecordedIs
<1>2. /\ q.typeId = m.typeId /\ q.streamId = m.streamId /\ q.timestamp = m.timestamp
      /\ q.data = Relayed(m).data
  <2>1. m \in [typeId : 0 .. 255, streamId : {0, 1}, timestamp : Nat, data : ByteSeq]
    BY DEF Media, Bodies
  <2>2. q.typeId = m.typeId /\ q.streamId = m.streamId /\ q.timestamp = m.timestamp
    BY <1>1, <2>1 DEF Recorded
  <2>3. QED
    BY <1>1, <2>2, RecordedData
<1>3. PICK out : /\ OutMessage(out) /\ out.data = q.data /\ out.timestamp = q.timestamp
                 /\ Plain(out) = [typeId |-> OutType(q), streamId |-> q.streamId,
                                  timestamp |-> q.timestamp, data |-> q.data]
                 /\ Written(q) = FlattenSeq(ChunksOf(out, ServerChunk))
  BY WrittenIs
<1>4. PICK r \in Forms : r = Relayed(m)
  BY DEF Forms
<1>5. Plain(out) = r
  <2>1. OutType(q) = OutType(m)
    BY <1>2 DEF OutType, IsVideo, IsMetadata
  <2>2. r = [typeId |-> OutType(m), streamId |-> m.streamId, timestamp |-> m.timestamp, data |-> Relayed(m).data]
    BY <1>4 DEF Relayed
  <2>3. QED
    BY <1>2, <1>3, <2>1, <2>2
<1>6. t = FlattenSeq(ChunksOf(out, ServerChunk))
  BY <1>1, <1>3 DEF Writes
<1>7. PICK cut \in Nat \ {0} : cut = ServerChunk
  BY SizeAssumption
<1>8. out.data \in Seq(0 .. 255) /\ r.data = out.data
  BY <1>2, <1>3, <1>4 DEF OutMessage
<1>9. CASE out.data = << >>
  <2>1. t = << >>
    <3>1. Len(out.data) = 0
      BY <1>9
    <3>2. QED
      BY <1>6, <1>7, <3>1, NoChunks
  <2>2. e = o
    BY <2>1
  <2>3. Gets[m] = << >>
    BY <1>4, <1>8, <1>9 DEF Gets
  <2>4. got \o << >> = got
    BY ConcatEmptySeq
  <2>5. QED
    BY <2>2, <2>3, <2>4
<1>10. CASE out.data # << >>
  <2>1. 0 < Len(out.data)
    <3>1. PICK l \in Nat : l = Len(out.data) /\ l # 0
      BY <1>8, <1>10, LenProperties, EmptySeq
    <3>2. QED
      BY <3>1
  <2>2. ClearStamp(out)
    BY <1>2, <1>3 DEF ClearStamp
  <2>3. ClientRuns(g, s, cut, n) /\ t = FlattenSeq(ChunksOf(out, cut))
    BY <1>6, <1>7
  <2>4. PICK i \in Nat : i <= o + Len(t) /\ ClientAt(g[i], o + Len(t), Append(got, Plain(out)))
    BY <1>3, <2>1, <2>2, <2>3, MessageRead
  <2>5. Gets[m] = <<r>>
    BY <1>4, <1>8, <1>10 DEF Gets
  <2>6. got \o <<r>> = Append(got, r)
    OBVIOUS
  <2>7. QED
    BY <1>5, <2>4, <2>5, <2>6
<1>11. QED
  BY <1>9, <1>10

\* At the end of what is written the client does not move.
LEMMA ClientRests ==
  ASSUME NEW s, NEW cut, NEW n \in Nat, n = Len(s), NEW g, ClientRuns(g, s, cut, n),
         NEW j \in Nat, j <= n, NEW got, ClientAt(g[j], n, got)
  PROVE  ClientAt(g[n], n, got)
<1>1. \A i \in 0 .. n : g[i] = IF i = 0 THEN ClientStart ELSE ClientReads(g[i - 1], s, cut)
  BY DEF ClientRuns
<1>2. PICK r : r = g[j]
  OBVIOUS
<1>3. r.at = n /\ r.got = got
  BY <1>2 DEF ClientAt
<1>4. ClientReads(r, s, cut) = r
  <2>1. r.at >= Len(s)
    BY <1>3
  <2>2. QED
    BY <2>1, ClientReadsIs
<1>5. PICK l \in Nat : j + l = n
  <2>1. n - j \in Nat /\ j + (n - j) = n
    OBVIOUS
  <2>2. QED
    BY <2>1
<1>6. g[n] = r
  <2> DEFINE H == {k \in 0 .. l : g[j + k] = r}
  <2>1. 0 \in H
    <3>1. j + 0 = j /\ 0 \in 0 .. l
      OBVIOUS
    <3>2. QED
      BY <1>2, <3>1
  <2>2. ASSUME NEW k \in 0 .. l, k < l, k \in H PROVE k + 1 \in H
    <3>1. j + (k + 1) \in 0 .. n /\ (j + (k + 1)) - 1 = j + k /\ j + (k + 1) # 0 /\ k + 1 \in 0 .. l
      BY <1>5, <2>2
    <3>2. g[j + (k + 1)] = ClientReads(g[j + k], s, cut)
      BY <1>1, <3>1
    <3>3. QED
      BY <1>4, <2>2, <3>1, <3>2
  <2>3. l \in H
    <3> HIDE DEF H
    <3>1. \A k \in 0 .. l : k < l /\ k \in H => k + 1 \in H
      BY <2>2
    <3>2. \A k \in 0 .. l : k \in H
      BY <2>1, <3>1, Upwards
    <3>3. QED
      BY <3>2
  <2>4. QED
    BY <1>5, <2>3
<1>7. QED
  BY <1>2, <1>6

\* The first k messages, and one more.
LEMMA OneMoreFirst ==
  ASSUME NEW S, NEW u \in Seq(S), NEW k \in Nat, k + 1 \in 1 .. Len(u)
  PROVE  SubSeq(u, 1, k) \in Seq(S) /\ OneMore(SubSeq(u, 1, k + 1), SubSeq(u, 1, k), u[k + 1])
<1>1. PICK n \in Nat : n = Len(u) /\ k < n
  BY LenProperties
<1>2. k \in 0 .. Len(u) /\ k + 1 \in 0 .. Len(u)
  BY <1>1
<1>3. PICK x : x = SubSeq(u, 1, k)
  OBVIOUS
<1>4. x \in Seq(S) /\ Len(x) = k /\ \A i \in 1 .. k : x[i] = u[i]
  BY <1>2, <1>3, FirstsAre
<1>5. PICK y : y = SubSeq(u, 1, k + 1)
  OBVIOUS
<1>6. y \in Seq(S) /\ Len(y) = k + 1 /\ \A i \in 1 .. k + 1 : y[i] = u[i]
  BY <1>2, <1>5, FirstsAre
<1>7. PICK m \in S : m = u[k + 1]
  BY ElementOfSeq
<1>8. PICK z : z = Append(x, m)
  OBVIOUS
<1>9. z \in Seq(S) /\ Len(z) = k + 1 /\ z[k + 1] = m /\ \A i \in 1 .. k : z[i] = x[i]
  BY <1>4, <1>8
<1>10. ASSUME NEW i \in 1 .. k + 1 PROVE y[i] = z[i]
  <2>1. i \in 1 .. k \/ i = k + 1
    BY <1>10
  <2>2. QED
    BY <1>4, <1>6, <1>7, <1>9, <2>1
<1>11. y = z
  <2>1. y \in Seq(S)
    BY <1>6
  <2>2. z \in Seq(S)
    BY <1>9
  <2>3. Len(y) = Len(z) /\ \A i \in 1 .. Len(y) : y[i] = z[i]
    BY <1>6, <1>9, <1>10
  <2>4. QED
    BY <2>1, <2>2, <2>3, SeqEqual
<1>12. QED
  BY <1>3, <1>4, <1>5, <1>7, <1>8, <1>11 DEF OneMore

LEMMA DownDecoded ==
  ASSUME NEW u \in Seq(Media), \A i \in DOMAIN u : ClearStamp(u[i]), NEW s, s = Gathered(Writes, u)
  PROVE  ClientDecodes(s, ServerChunk) = Gathered(Gets, u)
<1>1. PICK n \in Nat : n = Len(u) /\ DOMAIN u = 1 .. n
  BY LenProperties
<1>2. PICK B : B = 0 .. 255
  OBVIOUS
<1>3. Makes(Writes, Media, B)
  BY <1>2, WritesMake
<1>4. s \in Seq(B)
  BY <1>3, GatheredBytes
<1>5. PICK l \in Nat : l = Len(s)
  BY <1>4, LenProperties
<1>6. PICK off : Tiles(off, s, Writes, u)
  BY <1>3, GatheredTiles
<1>7. /\ off \in [0 .. n -> Nat] /\ off[0] = 0 /\ off[n] = l
      /\ \A i \in 1 .. n : off[i] = off[i - 1] + Len(Writes[u[i]]) /\ Placed(s, off[i - 1], Writes[u[i]])
  BY <1>1, <1>5, <1>6 DEF Tiles
<1>8. PICK g : ClientRuns(g, s, ServerChunk, l) /\ ClientDecodes(s, ServerChunk) = g[l].got
  BY <1>5, ClientDecoded
<1>9. Makes(Gets, Media, Forms)
  BY GetsMake
<1>10. PICK got : got = [k \in 0 .. n |-> Gathered(Gets, SubSeq(u, 1, k))]
  OBVIOUS
<1> DEFINE G == {k \in 0 .. n : \E j \in Nat : j <= off[k] /\ ClientAt(g[j], off[k], got[k])}
<1>11. 0 \in G
  <2>1. 0 \in 0 .. n /\ 0 \in 0 .. l
    OBVIOUS
  <2>2. g[0] = ClientStart
    BY <1>8, <2>1 DEF ClientRuns
  <2>3. SubSeq(u, 1, 0) = << >>
    OBVIOUS
  <2>4. got[0] = << >>
    BY <1>10, <2>1, <2>3, GatheredNone
  <2>5. ClientAt(g[0], 0, << >>)
    BY <2>2 DEF ClientAt, ClientStart
  <2>6. 0 \in Nat /\ 0 <= off[0] /\ ClientAt(g[0], off[0], got[0])
    BY <1>7, <2>4, <2>5
  <2>7. QED
    BY <2>1, <2>6
<1>12. ASSUME NEW k \in 0 .. n, k < n, k \in G PROVE k + 1 \in G
  <2>1. k \in Nat /\ k + 1 \in 1 .. n /\ k + 1 \in 0 .. n /\ (k + 1) - 1 = k /\ k + 1 \in 1 .. Len(u)
    BY <1>1, <1>12
  <2>2. PICK o \in Nat : o = off[k]
    BY <1>7
  <2>3. PICK j \in Nat : j <= o /\ ClientAt(g[j], o, got[k])
    BY <1>12, <2>2
  <2>4. PICK m \in Media : m = u[k + 1]
    BY <2>1
  <2>5. PICK t \in Seq(B) : t = Writes[m]
    BY <1>3 DEF Makes
  <2>6. Placed(s, o, t) /\ off[k + 1] = o + Len(t)
    BY <1>7, <2>1, <2>2, <2>4, <2>5
  <2>7. PICK e \in Nat : e = off[k + 1] /\ e = o + Len(t)
    BY <1>7, <2>1, <2>6
  <2>8. PICK x \in Seq(Forms) : x = got[k]
    <3>1. SubSeq(u, 1, k) \in Seq(Media)
      BY <2>1, OneMoreFirst
    <3>2. Gathered(Gets, SubSeq(u, 1, k)) \in Seq(Forms)
      BY <1>9, <3>1, GatheredBytes
    <3>3. QED
      BY <1>10, <3>2
  <2>9. ClearStamp(m) /\ ClientAt(g[j], o, x)
    BY <1>1, <2>1, <2>3, <2>4, <2>8
  <2>10. s \in Seq(0 .. 255)
    BY <1>2, <1>4
  <2>11. \E i \in Nat : i <= e /\ ClientAt(g[i], e, x \o Gets[m])
    <3>1. ClientRuns(g, s, ServerChunk, l)
      BY <1>8
    <3>2. ClearStamp(m)
      BY <2>9
    <3>3. Placed(s, o, t)
      BY <2>6
    <3>4. j <= o
      BY <2>3
    <3>5. ClientAt(g[j], o, x)
      BY <2>9
    <3>6. e = o + Len(t)
      BY <2>7
    <3>7. QED
      BY <1>5, <2>5, <2>10, <3>1, <3>2, <3>3, <3>4, <3>5, <3>6, MessageShown
  <2>12. got[k + 1] = x \o Gets[m]
    <3>1. PICK a \in Seq(Media) : a = SubSeq(u, 1, k)
      BY <2>1, OneMoreFirst
    <3>2. PICK b : b = SubSeq(u, 1, k + 1)
      OBVIOUS
    <3>3. OneMore(b, a, m)
      BY <2>1, <2>4, <3>1, <3>2, OneMoreFirst
    <3>4. Joins(Gathered(Gets, b), Gathered(Gets, a), Gets[m])
      BY <1>9, <3>3, GatheredNext
    <3>5. got[k + 1] = Gathered(Gets, b) /\ x = Gathered(Gets, a)
      BY <1>10, <2>1, <2>8, <3>1, <3>2
    <3>6. QED
      BY <3>4, <3>5 DEF Joins
  <2>13. QED
    BY <2>1, <2>7, <2>11, <2>12
<1>13. n \in G
  <2> HIDE DEF G
  <2>1. \A k \in 0 .. n : k < n /\ k \in G => k + 1 \in G
    BY <1>12
  <2>2. \A k \in 0 .. n : k \in G
    BY <1>11, <2>1, Upwards
  <2>3. QED
    BY <2>2
<1>14. PICK j \in Nat : j <= l /\ ClientAt(g[j], l, got[n])
  BY <1>7, <1>13
<1>15. g[l].got = got[n]
  <2>1. ClientRuns(g, s, ServerChunk, l)
    BY <1>8
  <2>2. PICK w : w = got[n]
    OBVIOUS
  <2>3. j <= l
    BY <1>14
  <2>4. ClientAt(g[j], l, w)
    BY <1>14, <2>2
  <2>5. ClientAt(g[l], l, w)
    BY <1>5, <2>1, <2>3, <2>4, ClientRests
  <2>6. QED
    BY <2>2, <2>5 DEF ClientAt
<1>16. got[n] = Gathered(Gets, u)
  <2>1. n \in 0 .. Len(u) /\ n \in 0 .. n
    BY <1>1
  <2>2. PICK x : x = SubSeq(u, 1, n)
    OBVIOUS
  <2>3. x \in Seq(Media) /\ Len(x) = n /\ \A i \in 1 .. n : x[i] = u[i]
    BY <2>1, <2>2, FirstsAre
  <2>4. x = u
    <3>1. x \in Seq(Media)
      BY <2>3
    <3>2. Len(x) = Len(u) /\ \A i \in 1 .. Len(x) : x[i] = u[i]
      BY <1>1, <2>3
    <3>3. QED
      BY <3>1, <3>2, SeqEqual
  <2>5. QED
    BY <1>10, <2>1, <2>2, <2>4
<1>17. QED
  BY <1>8, <1>15, <1>16

\* Those is Gathered here too.
LEMMA GetsAre ==
  ASSUME NEW u \in Seq(Media), NEW relayed, relayed = [i \in DOMAIN u |-> Relayed(u[i])]
  PROVE  Those(relayed, LAMBDA m : m.data # << >>) = Gathered(Gets, u)
<1>1. \A i \in DOMAIN u : u[i] \in Media
  OBVIOUS
<1>2. DOMAIN relayed = DOMAIN u
  OBVIOUS
<1>3. [i \in DOMAIN relayed |-> IF relayed[i].data # << >> THEN <<relayed[i]>> ELSE << >>]
        = [i \in DOMAIN u |-> Gets[u[i]]]
  <2>1. \A i \in DOMAIN u : (IF relayed[i].data # << >> THEN <<relayed[i]>> ELSE << >>) = Gets[u[i]]
    BY <1>1 DEF Gets
  <2>2. QED
    BY <1>2, <2>1
<1>4. QED
  BY <1>3 DEF Those, Gathered

LEMMA ViewerOf ==
  ASSUME StreamInv, RelayInv, ClearStamps
  PROVE  ViewerSeesStream
<1>1. received \in Seq(Bodies) /\ received = SubSeq(sent, 1, Len(received))
  BY DEF RelayInv, StreamInv, Prefix
<1>2. Usable = Used
  BY <1>1, UsableIs
<1>3. PICK T : T = {m \in Bodies : ClearStamp(m)}
  OBVIOUS
<1>4. Used \in Seq(Media \cap T)
  <2>1. PICK n \in Nat : n = Len(received)
    BY <1>1, LenProperties
  <2>2. \A i \in DOMAIN received : received[i] \in Bodies
    BY <1>1, <2>1
  <2>3. \A i \in DOMAIN received : received[i] \in T
    BY <1>3, <2>2 DEF ClearStamps
  <2>4. T \subseteq Bodies
    BY <1>3
  <2>5. QED
    BY <2>3, <2>4, UsedWithin
<1>5. PICK A : A = Media \cap T
  OBVIOUS
<1>6. PICK u \in Seq(A) : u = Used
  BY <1>4, <1>5
<1>7. DownOK(u, player, joinedAt, down)
  BY <1>6 DEF RelayInv
<1>8. PICK shown : shown = IF player # "init" THEN << >> ELSE Shown(u, joinedAt)
  OBVIOUS
<1>9. shown \in Seq(A) /\ down = Gathered(Writes, shown)
  <2>1. CASE player = "init"
    <3>1. PICK from \in Nat : from = joinedAt /\ from < Len(u)
      <4>1. joinedAt \in Nat /\ joinedAt < Len(u)
        BY <1>7, <2>1 DEF DownOK
      <4>2. QED
        BY <4>1
    <3>2. A \subseteq Media
      BY <1>5
    <3>3. Shown(u, from) \in Seq(A)
      BY <3>1, <3>2, ShownWithin
    <3>4. shown = Shown(u, from)
      BY <1>8, <2>1, <3>1
    <3>5. down = Gathered(Writes, Shown(u, from))
      BY <1>7, <2>1, <3>1 DEF DownOK
    <3>6. QED
      BY <3>3, <3>4, <3>5
  <2>2. CASE player # "init"
    <3>1. shown = << >> /\ down = << >>
      BY <1>7, <1>8, <2>2 DEF DownOK
    <3>2. << >> \in Seq(A)
      OBVIOUS
    <3>3. QED
      BY <3>1, <3>2, GatheredNone
  <2>3. QED
    BY <2>1, <2>2
<1>10. shown \in Seq(Media)
  <2>1. A \subseteq Media /\ shown \in Seq(A)
    BY <1>5, <1>9
  <2>2. QED
    BY <2>1, Widened
<1>11. \A i \in DOMAIN shown : ClearStamp(shown[i])
  <2>1. PICK n \in Nat : n = Len(shown)
    BY <1>10, LenProperties
  <2>2. \A i \in DOMAIN shown : shown[i] \in A
    BY <1>9, <2>1
  <2>3. QED
    BY <1>3, <1>5, <2>2
<1>12. ClientDecodes(down, ServerChunk) = Gathered(Gets, shown)
  BY <1>9, <1>10, <1>11, DownDecoded
<1>13. PICK relayed : relayed = [i \in DOMAIN shown |-> Relayed(shown[i])]
  OBVIOUS
<1>14. Those(relayed, LAMBDA m : m.data # << >>) = Gathered(Gets, shown)
  BY <1>10, <1>13, GetsAre
<1>15. shown = IF player # "init" THEN << >>
               ELSE (LatestOf(SubSeq(Usable, 1, joinedAt + 1), "meta")
                       \o LatestOf(SubSeq(Usable, 1, joinedAt + 1), "vseq")
                       \o LatestOf(SubSeq(Usable, 1, joinedAt + 1), "aseq"))
                     \o SubSeq(Usable, joinedAt + 2, Len(Usable))
  BY <1>2, <1>6, <1>8 DEF Shown, BurstOf
<1>16. QED
  BY <1>12, <1>13, <1>14, <1>15, Zenon DEF ViewerSeesStream

-----------------------------------------------------------------------------
(* The theorems.                                                           *)

LEMMA NextKeeps ==
  ASSUME PlainClient, StreamInv, [Next]_vars
  PROVE  StreamInv'
<1>1. ASSUME NEW p \in Payloads, NEW step \in Steps, NEW format \in 0 .. 3, Begin(p, step, format)
      PROVE  StreamInv'
  BY <1>1, BeginKeeps
<1>2. ASSUME NEW cs \in CsIds, Continue(cs) PROVE StreamInv'
  BY <1>2, ContinueKeeps
<1>3. ASSUME NEW p \in Payloads, NEW cs \in CsIds, GiveUp(p, cs) PROVE StreamInv'
  BY <1>3, GiveUpKeeps
<1>4. CASE ReadMsg
  BY <1>4, ReadMsgKeeps
<1>5. CASE Join
  <2>1. UNCHANGED <<client, up, flight, chunks, peerSize, phase, received>>
    BY <1>5 DEF Join
  <2>2. QED
    BY <2>1, QuietKeeps
<1>6. CASE UNCHANGED vars
  <2>1. UNCHANGED <<client, up, flight, chunks, peerSize, phase, received>>
    BY <1>6 DEF vars, server
  <2>2. QED
    BY <2>1, QuietKeeps
<1>7. QED
  BY <1>1, <1>2, <1>3, <1>4, <1>5, <1>6 DEF Next, Client

\* For a client that never needs a time field of 32 bits nor leaves a step to a format
\* 3 chunk, the inductive invariant holds: the server is the client delayed by the
\* chunks on their way, whatever the chunk sizes and however messages interleave.
THEOREM StreamInvHolds == ASSUME PlainClient PROVE Spec => []StreamInv
<1>1. Init => StreamInv
  BY InitHolds
<1>2. StreamInv /\ [Next]_vars => StreamInv'
  BY NextKeeps
<1>3. QED
  BY <1>1, <1>2, PTL DEF Spec

\* Chunk size changes, messages and what is held of them reach the server (Session.readMsg)
\* in step with the bytes: it is where the client was before the chunks on their way.
THEOREM ServerLags == ASSUME PlainClient PROVE Spec => []ServerLagsClient
<1>1. StreamInv => ServerLagsClient
  BY DEF StreamInv
<1>2. QED
  BY <1>1, StreamInvHolds, PTL

\* readMsg returns the messages the client sent, whole, in the order it completed them.
THEOREM InOrder == ASSUME PlainClient PROVE Spec => []ReceivedAsSent
<1>1. ASSUME StreamInv PROVE ReceivedAsSent
  <2>1. sent \in Seq(Bodies) /\ Len(received) \in 0 .. Len(sent)
        /\ received = SubSeq(sent, 1, Len(received))
    BY <1>1 DEF StreamInv, Typed, Prefix
  <2>2. Len(received) <= Len(sent) /\ Len(sent) \in Nat
    BY <2>1, LenProperties
  <2>3. QED
    BY <2>1, <2>2 DEF ReceivedAsSent, IsPrefix
<1>2. StreamInv => ReceivedAsSent
  BY <1>1
<1>3. QED
  BY <1>2, StreamInvHolds, PTL

\* The reader stops for a tag too short for it, or because a message was given up.
THEOREM EndsOnlyForAReason == ASSUME PlainClient PROVE Spec => []EndsForAReason
<1>1. StreamInv => EndsForAReason
  BY DEF StreamInv
<1>2. QED
  BY <1>1, StreamInvHolds, PTL

\* What is on the wire is a whole chunk or nothing, and once it has been read every
\* message sent whole has been received.
THEOREM NothingIsHeldBack == ASSUME PlainClient PROVE Spec => []NothingHeldBack
<1>1. ASSUME StreamInv, phase = "reading"
      PROVE  IF up = << >> THEN received = sent ELSE NextChunk.used <= Len(up)
  <2>0. /\ up \in ByteSeq /\ flight \in Seq(MomentSet) /\ sent \in Seq(Bodies)
        /\ aborted \in BOOLEAN /\ \A k \in DOMAIN chunks : ChunkOK(chunks[k])
    BY <1>1 DEF StreamInv, Typed
  <2>1. PICK ms : ms = Moments
    OBVIOUS
  <2>2. PICK l \in Nat : l = Len(flight)
    BY <2>0, LenProperties
  <2>3. DOMAIN ms = 1 .. l + 1 /\ ms[l + 1] = Moment
    BY <2>0, <2>1, <2>2, MomentsAre
  <2>4. /\ ms[1].at = 0 /\ ServerAt(ms[1]) /\ \A k \in DOMAIN flight : ChunkBetween(ms[k], ms[k + 1])
    BY <1>1, <2>1 DEF StreamInv, ServerLagsClient
  <2>5. \A k \in 1 .. l + 1 :
          /\ MomentOK(ms[k]) /\ ms[k].at \in Nat /\ ms[k].at <= Len(up)
          /\ \A j \in 1 .. l + 1 : j < k => ms[j].at < ms[k].at
    BY <1>1, <2>1, <2>3 DEF StreamInv, MomentsOK, Ordered
  <2>6. Len(up) \in Nat /\ (Len(up) = 0 <=> up = << >>)
    <3>1. up \in Seq(0 .. 255)
      BY <2>0 DEF ByteSeq
    <3>2. QED
      BY <3>1, LenProperties, EmptySeq
  <2>7. Moment.at = Len(up) /\ Moment.count = Len(sent)
    BY DEF Moment
  <2>8. CASE l = 0
    <3>1. l + 1 = 1
      BY <2>8
    <3>2. ms[1] = Moment
      BY <2>3, <3>1
    <3>3. up = << >>
      BY <2>4, <2>6, <2>7, <3>2
    <3>4. received = SubSeq(sent, 1, Len(sent))
      <4>1. received = SubSeq(sent, 1, ms[1].count)
        BY <2>4 DEF ServerAt
      <4>2. QED
        BY <2>7, <3>2, <4>1
    <3>5. SubSeq(sent, 1, Len(sent)) = sent
      <4>1. Len(sent) \in 0 .. Len(sent) /\ Len(sent) \in Nat
        BY <2>0, LenProperties
      <4>2. PICK x : x = SubSeq(sent, 1, Len(sent))
        OBVIOUS
      <4>3. x \in Seq(Bodies) /\ Len(x) = Len(sent) /\ \A i \in 1 .. Len(sent) : x[i] = sent[i]
        BY <2>0, <4>1, <4>2, FirstsAre
      <4>4. x = sent
        BY <2>0, <4>3, SeqEqual
      <4>5. QED
        BY <4>2, <4>4
    <3>6. QED
      BY <3>3, <3>4, <3>5
  <2>9. CASE l # 0
    <3>1. 1 \in 1 .. l + 1 /\ 2 \in 1 .. l + 1 /\ 1 \in 1 .. l /\ 1 + 1 = 2 /\ 1 < 2
      BY <2>2, <2>9
    <3>2. PICK a : a = ms[1]
      OBVIOUS
    <3>3. PICK b : b = ms[2]
      OBVIOUS
    <3>4. DOMAIN flight = 1 .. l
      BY <2>0, <2>2
    <3>5. ChunkBetween(a, b) /\ MomentOK(a) /\ MomentOK(b) /\ a.at = 0 /\ ServerAt(a)
      BY <2>4, <2>5, <3>1, <3>2, <3>3, <3>4
    <3>6. PICK cs \in CsIds, format \in 0 .. 3 :
            /\ HeadFits(a, b, cs, format) /\ MessageAdvances(a, b, cs)
            /\ OthersKept(a, b, cs) /\ BytesCarried(a, b, cs, format)
      BY <3>5 DEF ChunkBetween
    <3>7. ReadsPiece(b, cs)
      BY <2>0, <3>5, <3>6, NextChunkReads
    <3>8. NextChunk.used = b.at
      BY <3>7 DEF ReadsPiece
    <3>9. b.at <= Len(up) /\ b.at > 0
      <4>1. b.at \in Nat /\ b.at <= Len(up) /\ ms[1].at < b.at
        BY <2>5, <3>1, <3>3
      <4>2. QED
        BY <2>4, <4>1
    <3>10. up # << >>
      BY <2>5, <2>6, <3>1, <3>3, <3>9
    <3>11. QED
      BY <3>8, <3>9, <3>10
  <2>10. QED
    BY <2>8, <2>9
<1>2. StreamInv => NothingHeldBack
  BY <1>1 DEF NothingHeldBack
<1>3. QED
  BY <1>2, StreamInvHolds, PTL

\* The heap, the cache, the file and the player are what Pusher, Cache, FlvWriter and
\* Player make of the messages readMsg returned, the latest of each kind in the cache.
THEOREM RelayInvHolds == ASSUME PlainClient PROVE Spec => []RelayInv
<1>1. Init => RelayInv
  BY InitRelays
<1>2. RelayInv /\ StreamInv' /\ [Next]_vars => RelayInv'
  BY NextRelays
<1>3. QED
  BY <1>1, <1>2, StreamInvHolds, PTL DEF Spec

\* The variables keep their types: what is on the wires and in the file are bytes, the
\* chunks of Session.chunks add up, and the cache points to packets that exist.
THEOREM TypesHold == ASSUME PlainClient PROVE Spec => []TypeOK
<1>1. StreamInv /\ RelayInv => TypeOK
  BY TypesOf
<1>2. QED
  BY <1>1, StreamInvHolds, RelayInvHolds, PTL

\* What FlvWriter has written plays from end to end, every message one tag with its own
\* timestamp, as long as the timestamps fit in the 32 bits a tag has for them.
THEOREM Recording == ASSUME PlainClient PROVE Spec => [](ShortStamps => RecordingPlays)
<1>1. StreamInv /\ RelayInv => (ShortStamps => RecordingPlays)
  BY RecordingOf
<1>2. QED
  BY <1>1, StreamInvHolds, RelayInvHolds, PTL

\* What Player.HandlePacket has written decodes to the latest metadata and sequence
\* headers and then every later message, each with its own timestamp and bytes, as long
\* as timestamps have 32 bits and none is 0xffffff: WriteChunk writes that one as the
\* mark of an extended timestamp that does not follow.
THEOREM Viewer == ASSUME PlainClient PROVE Spec => [](ClearStamps => ViewerSeesStream)
<1>1. StreamInv /\ RelayInv => (ClearStamps => ViewerSeesStream)
  BY ViewerOf
<1>2. QED
  BY <1>1, StreamInvHolds, RelayInvHolds, PTL
=============================================================================
