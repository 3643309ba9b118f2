---------------------------- MODULE MCRtmpSession ----------------------------
(* An instance of RtmpSession for TLC. *)
EXTENDS RtmpSession
==============================================================================
