SPECIFICATION Spec
CONSTANTS
  a = a
  b = b
  Embeds = {a, b}
  MaxNest = 2
  MaxUnlike = 1
SYMMETRY EmbedSymmetry
INVARIANTS StreamsPlayable
CHECK_DEADLOCK FALSE
