------------------------ MODULE StreamDirectoryProofs ------------------------
(***************************************************************************)
(* The directory's own invariant, for every set of sessions and names.  A  *)
(* component shown to implement DirectorySpec inherits it.                 *)
(***************************************************************************)
EXTENDS StreamDirectory, TLAPS

\* Types, and: who is live is found under one name, and only who is live is found.
DirectoryInvariant == DirectoryTypeOK /\ LiveIsFound

\* A live publisher can be found, under exactly one name (getPusher, pusherIsExit).
THEOREM FoundWhileLive ==
  ASSUME None \notin Session
  PROVE  DirectorySpec => [](DirectoryTypeOK /\ LiveIsFound)
<1> USE DEF DirectoryInvariant, DirectoryTypeOK, LiveIsFound
<1>1. DirectoryInit => DirectoryInvariant
  BY DEF DirectoryInit
<1>2. DirectoryInvariant /\ [DirectoryNext]_dvars => DirectoryInvariant'
  <2> SUFFICES ASSUME DirectoryInvariant, [DirectoryNext]_dvars
               PROVE  DirectoryInvariant'
    OBVIOUS
  <2>1. CASE UNCHANGED dvars
    BY <2>1 DEF dvars
  <2>2. ASSUME NEW s \in Session, NEW n \in Name, Publish(s, n)
        PROVE  DirectoryInvariant'
    BY <2>2 DEF Publish
  <2>3. ASSUME NEW s \in Session, NEW n \in Name, Withdraw(s, n)
        PROVE  DirectoryInvariant'
    BY <2>3 DEF Withdraw
  <2>4. QED
    BY <2>1, <2>2, <2>3 DEF DirectoryNext
<1>3. QED
  BY <1>1, <1>2, PTL DEF DirectorySpec
==============================================================================
