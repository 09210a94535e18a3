SPECIFICATION Spec
CONSTANTS
  Ingestions = {i1, i2, i3}
  Lookups = {l1}
  Sources = {"refunds", "shipping"}
  MaxChunks = 2
SYMMETRY Symmetry
INVARIANTS TypeOK WholeVersions ReplacedIsGone LookupFindsPolicy
PROPERTY DocumentStays
CHECK_DEADLOCK FALSE
