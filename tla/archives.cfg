CONSTANTS
  s1 = s1  s2 = s2
  Session = {s1, s2}
  Name = {"home", "other"}
  Home = "home"
  Id = {1}
  MaxRecords = 1
  MaxOps = 3
  MaxTroubles = 1
  Windows = {}
SPECIFICATION Spec
INVARIANTS TypeOK NothingLost DiskIsMemory ArchivedWhole
SYMMETRY Alike
CHECK_DEADLOCK FALSE
