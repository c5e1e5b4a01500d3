SPECIFICATION LiveSpec
CONSTANTS
  p1 = p1
  p2 = p2
  p3 = p3
  Nobody = Nobody
  Proc = {p1, p2, p3}
  Mortal = {p2}
  MayAge = TRUE
PROPERTIES Refines StaleRetired NoStall
