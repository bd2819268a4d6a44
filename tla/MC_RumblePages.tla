---------------------------- MODULE MC_RumblePages ----------------------------
(***************************************************************************)
(* The embed ids of a page mean the same to both parsers.                   *)
(***************************************************************************)
EXTENDS RumblePages, TLC

EmbedSymmetry == Permutations(Embeds)
=============================================================================
