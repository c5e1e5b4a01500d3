SPECIFICATION Spec
CONSTANTS
  p1 = p1
  p2 = p2
  a = a
  b = b
  Absent = Absent
  Proc = {p1, p2}
  Id = {a, b}
  Legacy = {b}
  Removable = {b}
  MaxEdits = 2
SYMMETRY Symmetry
INVARIANTS NoLostUpdate RevisionIdentifies
PROPERTY RevisionGrows
CHECK_DEADLOCK FALSE
