------------------------ MODULE MC_RumbleConnection ------------------------
(***************************************************************************)
(* Values for the constants of RumbleConnection.                           *)
(***************************************************************************)
EXTENDS RumbleConnection, TLC

\* Every publication after which the handler looks again at its generations.
\* The one it does not look after, "cleared", has a run of its own.
CheckedPublications == {"delegate"} \cup PublishedAt \cup CheckedAt

\* An earlier connection, retired, leaves the state it had reached.
AnyInherited == States \ {"Closed"}

LocatorSymmetry == Permutations(Locators)
=============================================================================
