---------------------------- MODULE ReaderHandoff ----------------------------
(***************************************************************************)
(* What the follower promises about its readers, whoever asks for a stream *)
(* and whatever fails: the readers nobody has cancelled are never more     *)
(* than the handoff mode allows, a new one is newer than all before it,    *)
(* and one that was let go of does not come back.                          *)
(***************************************************************************)
EXTENDS Naturals, FiniteSets

CONSTANT Limit    \* uncancelled readers at a time, at least one

VARIABLES
  started,  \* how many readers there have been
  active    \* those that run and have not been cancelled

Init == started = 0 /\ active = {}

\* A reader starts; those before it may be let go of in the same step.
Start ==
  /\ started' = started + 1
  /\ \E kept \in SUBSET active :
       /\ Cardinality(kept) < Limit
       /\ active' = kept \cup {started + 1}

\* Readers are cancelled, or end.
LetGo ==
  /\ active' \in SUBSET active
  /\ UNCHANGED started

Next == Start \/ LetGo

Spec == Init /\ [][Next]_<<started, active>>
=============================================================================
