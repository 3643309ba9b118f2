---------------------------- MODULE MCRtmpStream ----------------------------
(* Instances of RtmpStream for TLC: the messages of a publisher. *)
EXTENDS RtmpStream

Msg(typeId, csId, data) == [typeId |-> typeId, csId |-> csId, data |-> data]

Metadata == {Msg(DataAMF0, 400, <<SetFrame, 7, 7, 8>>), Msg(DataAMF3, 400, <<Broken, 7>>)}
VideoHeader == Msg(Video, 6, <<23, 0, 0, 0, 0, 9>>)
VideoFrame == Msg(Video, 6, <<39, 1, 0, 0, 0, 8>>)
CommandFrame == Msg(Video, 6, <<87, 0>>)
AudioHeader == Msg(Audio, 70, <<175, 0, 5>>)
LargerChunks == Msg(SetChunkSize, 2, BE(5, 4))
AbortMessage == Msg(Abort, 2, << >>)

All == Metadata \cup {VideoHeader, VideoFrame, CommandFrame, AudioHeader, LargerChunks, AbortMessage}

\* Steps whose sum passes 0xffffff while each of them stays below.
LongSteps == {0, 16777200}

\* Four hours and a half and more after the first message: past 0xffffff milliseconds.
LaterStep == {0, 16777216}
OneAudio == {AudioHeader}
=============================================================================
