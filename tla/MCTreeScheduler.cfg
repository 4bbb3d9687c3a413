SPECIFICATION Spec
CONSTANTS
    Nodes = {1, 2, 3, 4, 5}
    Root = 5
    Children <- MCChildren
    InFlight = 3
    ShardsInFlight = 1
    Pid = {p1, p2, p3, p4, p5}
    MaxStops = 1
CHECK_DEADLOCK FALSE
INVARIANTS
    SharesAreWithinTheBudget
    ReadyNodesStart
PROPERTIES
    StoppedRunsFinish
