CONSTANTS
  s1 = s1  s2 = s2  r1 = r1  r2 = r2
  Session = {s1, s2}
  Request = {r1}
  MaxEdits = 1
  MaxFaults = 1
  Overlaps = FALSE
SPECIFICATION Spec
SYMMETRY Twins
INVARIANTS TypeOK NothingLeft OneProcess
PROPERTIES ToldWhatIs
CHECK_DEADLOCK FALSE
