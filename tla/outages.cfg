CONSTANTS
  a = a  b = b  c = c  repo = repo  lib = lib
  Session = {a, b}
  Clone = {repo}
  Mode <- Writers
  Caps = {0}
  MaxPend = 1
  Contracted = {}
  Limitable = {}
  Masking = FALSE
  Configured = {a}
  Prompted = {a}
  Faulty = {}
  Handled = {a}
  FailingStops = {}
  MaxCalls = 1
  MaxRestarts = 1
SPECIFICATION Spec
INVARIANTS AgentIsVisible
PROPERTIES PausedUntilAsked
CHECK_DEADLOCK FALSE
