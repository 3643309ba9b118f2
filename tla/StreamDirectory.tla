--------------------------- MODULE StreamDirectory ---------------------------
(***************************************************************************)
(* What a PusherManager promises to the rest of the server: a stream name  *)
(* has at most one publisher, a publisher that is live can be found under  *)
(* its name, and only the publisher itself gives the name up.  Both        *)
(* servers (internal/RTMP and internal/RTSP) keep such a map and both       *)
(* relay models are compared with this specification.                      *)
(***************************************************************************)
EXTENDS Naturals

CONSTANTS Session,  \* the connections that may publish
          Name,     \* the stream names (RTMP) or channel codes (RTSP)
          None      \* no publisher

VARIABLES owner,    \* owner[n]: the publisher found under n, or None
          phase     \* phase[s]: "idle", "live" or "over"

dvars == <<owner, phase>>

DirectoryTypeOK ==
  /\ owner \in [Name -> Session \cup {None}]
  /\ phase \in [Session -> {"idle", "live", "over"}]

DirectoryInit ==
  /\ owner = [n \in Name |-> None]
  /\ phase = [s \in Session |-> "idle"]

\* A publisher takes a name nobody holds; a taken name is refused (a stutter).
Publish(s, n) ==
  /\ phase[s] = "idle"
  /\ owner[n] = None
  /\ owner' = [owner EXCEPT ![n] = s]
  /\ phase' = [phase EXCEPT ![s] = "live"]

\* The publisher leaves and its name is free again.
Withdraw(s, n) ==
  /\ owner[n] = s
  /\ owner' = [owner EXCEPT ![n] = None]
  /\ phase' = [phase EXCEPT ![s] = "over"]

DirectoryNext == \E s \in Session, n \in Name : Publish(s, n) \/ Withdraw(s, n)

DirectorySpec == DirectoryInit /\ [][DirectoryNext]_dvars

\* A live publisher is found under exactly one name, and nobody else is.
LiveIsFound ==
  \A s \in Session :
    /\ phase[s] = "live" <=> \E n \in Name : owner[n] = s
    /\ \A m, n \in Name : owner[m] = s /\ owner[n] = s => m = n
==============================================================================
