CONSTANTS
  a = a  b = b  c = c  repo = repo  lib = lib
  Session = {a, b}
  Clone = {repo}
  Mode <- Writers
  Caps = {0}
  MaxPend = 1
  Contracted = {}
  Limitable = {a}
  Masking = TRUE
  Configured = {a}
  Prompted = {b}
  Faulty = {b}
  Handled = {}
  FailingStops = {"queue"}
  MaxCalls = 1
  MaxRestarts = 0
SPECIFICATION Spec
INVARIANTS TypeOK QueueMoves PromptsMove
 
CHECK_DEADLOCK FALSE
