SPECIFICATION Spec
CONSTANTS
  a = a
  b = b
  Embeds = {a, b}
  MaxNest = 2
  MaxUnlike = 1
SYMMETRY EmbedSymmetry
INVARIANTS PrefixNeverFlips PagesAgree
CHECK_DEADLOCK FALSE
