SPECIFICATION Spec
CONSTANTS
  name = name
  slot = slot
  row = row
  spare = spare
  None = None
  Chains <- MCChains
  Rank <- MCRank
  Pages <- MCPages
  Positional = {row}
  Templated = {slot}
  Converge = 2
INVARIANTS RepairOK
CHECK_DEADLOCK FALSE
