--------------------------- MODULE MC_RumbleSession ---------------------------
(***************************************************************************)
(* Symmetry for the model checking of RumbleSession.                       *)
(***************************************************************************)
EXTENDS RumbleSession

MCSymmetry == Permutations(Accounts) \cup Permutations(Streams)
=============================================================================
