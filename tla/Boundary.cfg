SPECIFICATION Spec
CONSTANTS
  Calls = {c1, c2, c3}
  Clients = {"worker"}
  Tools = {"execute_refund", "get_order"}
  NoClient = "unknown"
  Allowlist <- MCAllowlist
  Limit = 1
  MaxConcurrent = 2
SYMMETRY Symmetry
INVARIANTS TypeOK ToolOnlyWhenAuthorized OvershootBounded
CHECK_DEADLOCK FALSE
