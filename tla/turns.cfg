CONSTANTS
  p = p  q = q
  Prompts = {p, q}
  Starts <- WorkingOrStarting
  Masking = TRUE
  FailingWrites = {}
  MaxFailures = 0
  MaxRestarts = 0
SPECIFICATION FairSpec
INVARIANTS TypeOK NothingStalls
PROPERTIES ContractPerTurn EveryPromptSettles
CHECK_DEADLOCK FALSE
