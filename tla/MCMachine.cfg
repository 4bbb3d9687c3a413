\* Two cycles of any instructions and base delegations, or of field delegations.
CONSTANTS
  x0 = x0
  a0 = a0
  w1 = w1
  w2 = w2
  pc = pc
  f1 = f1
  f2 = f2
  k1 = k1
  Registers = {x0, a0}
  X0 = x0
  A0 = a0
  A7 = a0
  Words = {w1, w2}
  Pc = pc
  Chained <- MCChained
  Anchors = {k1}
  FieldCells = {f1, f2}
  Value = {0, 1}
  Zero = 0
  Fall = 1
  Halt = 0
  Initial <- MCInitial
  Frames <- MCFrames
  AnchorOf <- MCAnchorOf
  Blocks <- MCBlocks
  Vectors <- MCVectors
  None = None
  ClockEnd = 12
SYMMETRY FieldSymmetry
SPECIFICATION MCMachineSpec
INVARIANTS
  NoQueryIsRefused
  HonestLogsPassTheCheck
  RecordedReadsAreLastWrites
  TheTablesAreTheMachine
  EventsRouteByTheirSlot
CHECK_DEADLOCK FALSE
