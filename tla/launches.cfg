CONSTANTS
  MaxBoxes = 2
  Internal = TRUE
  Interrupts = {"stop", "edit", "collect", "delete"}
  Overlaps = FALSE
  MaxFaults = 1
SPECIFICATION Spec
INVARIANTS TypeOK NoContainerOutlives OneAgent AgentIsIsolated AgentIsServed AgentIsRecorded
PROPERTIES BootKeepsSessions
CHECK_DEADLOCK FALSE
