----------------------------- MODULE MCRtmpRelay -----------------------------
(* Instances of RtmpRelay for TLC. *)
EXTENDS RtmpRelay, TLC

CONSTANTS s1, s2, s3

Symmetry == Permutations({s1, s2, s3})
==============================================================================
