CONSTANTS
  Field = {"command", "args"}
  a1 = a1  a2 = a2
  Asks = {a1, a2}
  MaxEdits = 2
  MaxWrites = 2
  Races = {}
SPECIFICATION Spec
SYMMETRY Twins
INVARIANTS TypeOK HeldIsCurrent
PROPERTIES LandsAsShown LinkStaysPut
CHECK_DEADLOCK FALSE
