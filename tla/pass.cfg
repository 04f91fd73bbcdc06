CONSTANTS
  a = a  b = b  c = c  repo = repo  lib = lib
  Session = {a, b, c}
  Clone = {repo, lib}
  Mode <- Mixed
  Caps = {0, 1, 2, 3}
  MaxPend = 1
  Limitable = {a, b}
  Masking = TRUE
SPECIFICATION Spec
INVARIANTS PassIsSchedule
CHECK_DEADLOCK FALSE
