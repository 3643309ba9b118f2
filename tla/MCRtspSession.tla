---------------------------- MODULE MCRtspSession ----------------------------
(* An instance of RtspSession for TLC: the channel pairs clients ask for, and  *)
(* descriptions with both tracks, one track, and controls that do not serve.   *)
EXTENDS RtspSession

TwoPairs == {[rtp |-> 0, rtcp |-> 1], [rtp |-> 2, rtcp |-> 3]}

Described(video, audio) == [t \in Track |-> IF t = "video" THEN video ELSE audio]
Varied == {Described("usable", "usable"), Described("usable", "absent"),
           Described("absent", "usable"), Described("bad", "bare")}
==============================================================================
