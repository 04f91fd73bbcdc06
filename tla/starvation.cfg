CONSTANTS
  a = a  b = b  c = c  repo = repo  lib = lib
  Session = {a, b, c}
  Clone = {repo}
  Mode <- ReadersWriter
  Caps = {0}
  MaxPend = 1
  Contracted = {a}
  Limitable = {}
  Masking = FALSE
  Configured = {b}
  Prompted = {b}
  Faulty = {}
  Handled = {}
  FailingStops = {}
  MaxCalls = 1
  MaxRestarts = 0
SPECIFICATION FairSpec
PROPERTIES EveryoneGetsATurn
CHECK_DEADLOCK FALSE
