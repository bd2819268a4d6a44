------------------------------ MODULE MC_TabEmit ------------------------------
(***************************************************************************)
(* Values for the constants of TabEmit.                                    *)
(***************************************************************************)
EXTENDS TabEmit

TwoSockets == 1 .. 2
MCDests == {"a", "b"}
=============================================================================
