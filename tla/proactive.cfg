CONSTANTS
  c1 = c1  c2 = c2  r1 = r1  r2 = r2  x = x  y = y
  Call = {c1, c2}
  Ref = {r1, r2}
  Name = {x, y}
  MaxRuns = 2
  KeepRuns = 1
  MaxPending = 1
  MaxMoves = 2
  MaxRestarts = 1
  Windows = {}
SPECIFICATION Spec
INVARIANTS TypeOK RefsBelong RunsSettle InboxBounded
SYMMETRY Alike
CHECK_DEADLOCK FALSE
