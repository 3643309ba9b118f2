---------------------------- MODULE ChunkFormat ----------------------------
(***************************************************************************)
(* The bytes of an RTMP connection: integers (internal/RichConn), the      *)
(* chunks Session.writeChunk writes and Session.readMsg reads, and, as     *)
(* external peers, the writer and the reader of the RTMP specification     *)
(* that a client runs.  Everything here is a pure operator.                *)
(*                                                                         *)
(* A byte sequence is read at an offset; bytes that have not arrived count *)
(* as 0, and the caller waits until "used" bytes are there.                *)
(***************************************************************************)
EXTENDS Integers, Sequences, SequencesExt

Mark == 16777215          \* 0xffffff: the 24-bit field that announces 32 more
ReaderMark == 268435455   \* 0xfffffff, 28 bits: what the server compares the field with
MaxCsId == 65599          \* the largest chunk stream id of a three-byte header

Place == <<1, 256, 65536, 16777216>>

\* WriteUintBE, WriteUintLE (and bigEndian of the flv writer).
BE(v, n) == [i \in 1 .. n |-> (v \div Place[n + 1 - i]) % 256]
LE(v, n) == [i \in 1 .. n |-> (v \div Place[i]) % 256]

ByteAt(s, i) == IF i <= Len(s) THEN s[i] ELSE 0

\* ReadUintBE(n) and ReadUintLE(n) of the bytes of s that follow the first "at".
ReadBE(s, at, n) ==
  LET digit(i) == IF i <= n THEN ByteAt(s, at + i) * Place[n + 1 - i] ELSE 0
  IN digit(1) + digit(2) + digit(3) + digit(4)

ReadLE(s, at, n) ==
  LET digit(i) == IF i <= n THEN ByteAt(s, at + i) * Place[i] ELSE 0
  IN digit(1) + digit(2) + digit(3) + digit(4)

Least(a, b) == IF a < b THEN a ELSE b

\* The n bytes of s after the first "at", as far as they have arrived.
Slice(s, at, n) == SubSeq(s, at + 1, Least(at + n, Len(s)))

-----------------------------------------------------------------------------
(* The server's writer.  A message has csId, typeId, timestamp, streamId   *)
(* and data.                                                               *)

WriteBasicHead(format, csId) ==
  CASE csId < 64 -> BE(format * 64 + csId, 1)
    [] 64 <= csId /\ csId < 320 -> BE(format * 64, 1) \o BE(csId - 64, 1)
    [] csId >= 320 -> BE(format * 64 + 1, 1) \o BE(csId - 64, 2)

WriteChunkHead(format, m) ==
  LET wide == m.timestamp > Mark
      stamp == BE(IF wide THEN Mark ELSE m.timestamp, 3)
      kind == BE(Len(m.data), 3) \o BE(m.typeId, 1)
      fields == CASE format = 0 -> stamp \o kind \o LE(m.streamId, 4)
                  [] format = 1 -> stamp \o kind
                  [] format = 2 -> stamp
                  [] format = 3 -> << >>
  IN WriteBasicHead(format, m.csId) \o fields
       \o (IF wide THEN BE(m.timestamp, 4) ELSE << >>)

\* The payloads of the chunks a message is cut into; an empty one has none.
Pieces(data, size) ==
  [k \in 1 .. (Len(data) + size - 1) \div size |-> Slice(data, (k - 1) * size, size)]

\* Audio goes out on chunk stream 4, video and data on 6, others as asked.
OutCsId(m) == CASE m.typeId = 8 -> 4
                [] m.typeId \in {9, 15, 18} -> 6
                [] OTHER -> m.csId

WriteChunk(m, size) ==
  LET out == [m EXCEPT !.csId = OutCsId(m)]
      pieces == Pieces(m.data, size)
      head(k) == WriteChunkHead(IF k = 1 THEN 0 ELSE 3, out)
  IN FlattenSeq([k \in DOMAIN pieces |-> head(k) \o pieces[k]])

-----------------------------------------------------------------------------
(* The server's reader.  "extend", "timeDelta" and "remain" are the        *)
(* Chunk's; data is Data[:index].                                          *)

NewChunk == [timestamp |-> 0, length |-> 0, typeId |-> 0, streamId |-> 0,
             timeDelta |-> 0, extend |-> FALSE, remain |-> 0, data |-> << >>]

HeadLength == [format \in 0 .. 3 |-> <<11, 7, 3, 0>>[format + 1]]

\* Where readMsg finds the chunk stream id, and how many bytes it takes.
BasicHead(s) ==
  LET low == s[1] % 64
  IN [format |-> s[1] \div 64,
      csId |-> CASE low = 0 -> 64 + ReadLE(s, 1, 1)
                 [] low = 1 -> 64 + ReadLE(s, 1, 2)
                 [] OTHER -> low,
      used |-> CASE low = 0 -> 2 [] low = 1 -> 3 [] OTHER -> 1]

TimestampNotAdded(c, format, time) == IF format = 3 THEN c.timestamp ELSE time

Timestamp(c, format, time) ==
  CASE format = 0 -> time
    [] format \in {1, 2} -> c.timestamp + time
    [] format = 3 -> c.timestamp

\* The header of a chunk, after reInit where the code calls it.  The 24-bit
\* field is compared with 28 bits.  A format 3 chunk that starts a
\* message only calls reInit: the switch around it is on the format, 3 there.
ReadChunkHead(c, format, s, at) ==
  LET field == ReadBE(s, at, 3)
      wide == format # 3 /\ field = ReaderMark
      time == IF wide THEN ReadBE(s, at + HeadLength[format], 4) ELSE field
      again == /\ format = 3 /\ c.remain # 0 /\ c.extend
               /\ ReadBE(s, at, 4) = c.timestamp
      length == IF format <= 1 THEN ReadBE(s, at + 3, 3) ELSE c.length
      starts == format # 3 \/ c.remain = 0
  IN [used |-> HeadLength[format] + (IF wide \/ again THEN 4 ELSE 0),
      chunk |->
        [timestamp |-> Timestamp(c, format, time),
         length |-> length,
         typeId |-> IF format <= 1 THEN ReadBE(s, at + 6, 1) ELSE c.typeId,
         streamId |-> IF format = 0 THEN ReadLE(s, at + 7, 4) ELSE c.streamId,
         timeDelta |-> IF format \in {1, 2} THEN time ELSE c.timeDelta,
         extend |-> IF format = 3 THEN c.extend ELSE wide,
         remain |-> IF starts THEN length ELSE c.remain,
         data |-> IF starts THEN << >> ELSE c.data]]

ReadChunkRefusesOpen(c, format, s, at, size) ==
  LET head == ReadChunkHead(c, format, s, at)
      take == Least(head.chunk.remain, size)
  IN [invalid |-> c.remain # 0, used |-> at + head.used + take,
      chunk |-> [head.chunk EXCEPT !.remain = @ - take, !.data = @ \o Slice(s, at + head.used, take)]]

ReadChunkWhole(c, format, s, at, size) ==
  LET head == ReadChunkHead(c, format, s, at)
      take == head.chunk.remain
  IN [invalid |-> format # 3 /\ c.remain # 0, used |-> at + head.used + take,
      chunk |-> [head.chunk EXCEPT !.remain = 0, !.data = @ \o Slice(s, at + head.used, take)]]

ReadChunkKeepsIndex(c, format, s, at, size) ==
  LET head == ReadChunkHead(c, format, s, at)
      take == Least(head.chunk.remain, size)
  IN [invalid |-> format # 3 /\ c.remain # 0, used |-> at + head.used + take,
      chunk |-> [head.chunk EXCEPT !.remain = @ - take, !.data = c.data \o Slice(s, at + head.used, take)]]

\* One chunk of the chunk stream c: its header and its share of the payload.
ReadChunk(c, format, s, at, size) ==
  LET head == ReadChunkHead(c, format, s, at)
      take == Least(head.chunk.remain, size)
  IN [invalid |-> format # 3 /\ c.remain # 0,
      used |-> at + head.used + take,
      chunk |-> [head.chunk EXCEPT
                   !.remain = @ - take,
                   !.data = @ \o Slice(s, at + head.used, take)]]

-----------------------------------------------------------------------------
(* External: the RTMP specification's chunk format, as a client has it.    *)

\* A chunk header whose time field (a timestamp in format 0, a delta in 1 and
\* 2) has the value "time"; every chunk of a message repeats a wide one.
ClientHead(format, m, time) ==
  LET stamp == BE(Least(time, Mark), 3)
      kind == BE(Len(m.data), 3) \o BE(m.typeId, 1)
      basic == CASE m.csId < 64 -> <<format * 64 + m.csId>>
                 [] 64 <= m.csId /\ m.csId < 320 -> <<format * 64, m.csId - 64>>
                 [] m.csId >= 320 -> <<format * 64 + 1>> \o LE(m.csId - 64, 2)
      fields == <<stamp \o kind \o LE(m.streamId, 4), stamp \o kind, stamp, << >> >>
  IN basic \o fields[format + 1] \o (IF time >= Mark THEN BE(time, 4) ELSE << >>)

\* A client over one chunk of formats 0 and 3 that a server sends on a one-byte
\* chunk stream, "size" bytes of payload to a chunk.
ClientStart == [at |-> 0, open |-> << >>, got |-> << >>]

ClientReads(r, s, size) ==
  LET format == s[r.at + 1] \div 64
      cs == s[r.at + 1] % 64
      old == IF format = 0 \/ cs \notin DOMAIN r.open THEN NewChunk ELSE r.open[cs]
      field == ReadBE(s, r.at + 1, 3)
      wide == IF format = 0 THEN field = Mark ELSE old.extend
      head == r.at + (IF format = 0 THEN 12 ELSE 1)
      body == head + (IF wide THEN 4 ELSE 0)
      new == IF format # 0 THEN old
             ELSE [NewChunk EXCEPT
                    !.timestamp = IF wide THEN ReadBE(s, head, 4) ELSE field,
                    !.remain = ReadBE(s, r.at + 4, 3),
                    !.typeId = ReadBE(s, r.at + 7, 1),
                    !.streamId = ReadLE(s, r.at + 8, 4),
                    !.extend = wide]
      take == Least(new.remain, size)
      full == [new EXCEPT !.remain = @ - take, !.data = @ \o Slice(s, body, take)]
  IN IF r.at >= Len(s) THEN r
     ELSE [at |-> body + take,
           open |-> [k \in DOMAIN r.open \cup {cs} |-> IF k = cs THEN full ELSE r.open[k]],
           got |-> IF full.remain # 0 THEN r.got
                   ELSE Append(r.got, [typeId |-> full.typeId, streamId |-> full.streamId,
                                       timestamp |-> full.timestamp, data |-> full.data])]

\* What it decodes of all of them.
ClientDecodes(s, size) ==
  LET run[n \in 0 .. Len(s)] == IF n = 0 THEN ClientStart ELSE ClientReads(run[n - 1], s, size)
  IN run[Len(s)].got
=============================================================================
