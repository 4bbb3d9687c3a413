\* Every log of at most 3 events over one chained cell and one anchor.
CONSTANTS
  Chained = {r1}
  Anchors = {k1}
  FieldCells = {}
  Value = {0, 1}
  Zero = 0
  Initial <- MCInitial
  ClockEnd = 4
  MaxEvents = 3
SPECIFICATION AdoptSpec
INVARIANTS
  SelfCheckMeansMemory
  ChainedRefusalsNameTheFault
CHECK_DEADLOCK FALSE
