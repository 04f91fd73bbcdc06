CONSTANTS
  p = p  q = q
  Prompts = {p, q}
  Starts <- Working
  Masking = FALSE
  FailingWrites = {"mark", "clear", "prompt", "timer"}
  MaxFailures = 1
  MaxRestarts = 1
SPECIFICATION Spec
INVARIANTS MarkedWhileWorking SentInOrder AcceptedIsSafe
CHECK_DEADLOCK FALSE
