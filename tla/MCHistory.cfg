SPECIFICATION Spec
CONSTANTS
  p1 = p1
  p2 = p2
  r1 = r1
  x = x
  y = y
  final = final
  n1 = n1
  n2 = n2
  Processes = {p1, p2}
  Ids = {r1}
  Contents = {x, y}
  Final = final
  Notes = {n1, n2}
  MaxLines = 3
  MaxFaults = 2
SYMMETRY MCSymmetry
INVARIANTS ForksAreNoticed ReportedIsKept MissingNotesAreOwed
           ResumeFindsItsHistory
CHECK_DEADLOCK FALSE
