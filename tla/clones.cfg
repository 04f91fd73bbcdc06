CONSTANTS
  a = a  b = b  c = c  repo = repo  lib = lib
  Session = {a, b, c}
  Clone = {repo, lib}
  Mode <- Mixed
  Caps = {0, 1, 2}
  MaxPend = 1
  Contracted = {}
  Limitable = {}
  Masking = FALSE
  Configured = {a}
  Prompted = {}
  Faulty = {}
  Handled = {}
  FailingStops = {}
  MaxCalls = 1
  MaxRestarts = 0
SPECIFICATION Spec
INVARIANTS StartsNeverCollide
PROPERTIES ImplementsAdmission
CHECK_DEADLOCK FALSE
