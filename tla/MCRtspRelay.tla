----------------------------- MODULE MCRtspRelay -----------------------------
(* Instances of RtspRelay for TLC. *)
EXTENDS RtspRelay, TLC

CONSTANTS s1, s2, s3

\* s1 and s3 are both publishers only.
Symmetry == Permutations({s1, s3})
==============================================================================
