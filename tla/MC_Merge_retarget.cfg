CONSTANTS
  Authors = {a1}
  Contexts = {"c1", "c2"}
  Rulings <- MCRulings
  RulesetIds = {1}
  MaxChanges = 2
SPECIFICATION Spec
INVARIANT MergedIntoExpectedBase
CHECK_DEADLOCK FALSE
