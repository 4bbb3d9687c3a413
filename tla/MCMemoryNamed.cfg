\* The same logs: what a refusal names at an anchor.
CONSTANTS
  Chained = {r1}
  Anchors = {k1}
  FieldCells = {}
  Value = {0, 1}
  Zero = 0
  Initial <- MCInitial
  ClockEnd = 4
  MaxEvents = 3
SPECIFICATION AdoptSpec
INVARIANTS
  RefusalsNameTheFault
CHECK_DEADLOCK FALSE
