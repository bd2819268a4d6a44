--------------------------- MODULE MC_PrIntegration ---------------------------
(***************************************************************************)
(* PrIntegration with one reviewer, two checks and a ruleset, which may be    *)
(* off, ask for checks, for an approval or for both, name branches by a       *)
(* pattern the tool does not know, or ask for what it cannot verify.         *)
(***************************************************************************)
EXTENDS PrIntegration

Ruling(include, exclude, checks, approvals) ==
  [active |-> TRUE, include |-> include, exclude |-> exclude, checks |-> checks,
   approvals |-> approvals, complete |-> TRUE, identity |-> FALSE]

MCRulings ==
  {[Ruling({"DEFAULT"}, {}, {}, 0) EXCEPT !.active = FALSE],
   Ruling({"DEFAULT"}, {}, {"c1", "c2"}, 0),
   Ruling({"main", "DEFAULT"}, {}, {}, 1),
   Ruling({"feature"}, {}, {"c1"}, 1),
   Ruling({"ALL"}, {"feature"}, {"c1"}, 0),
   [Ruling({"DEFAULT"}, {}, {}, 1) EXCEPT !.identity = TRUE]}
=============================================================================
