SPECIFICATION Spec
CONSTANTS
  Ingestions = {i1, i2}
  Lookups = {l1}
  Sources = {"refunds"}
  MaxChunks = 2
SYMMETRY Symmetry
INVARIANT OneVersion
CHECK_DEADLOCK FALSE
