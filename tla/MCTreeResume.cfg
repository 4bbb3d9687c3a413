SPECIFICATION Spec
CONSTANTS
    Nodes = {1, 2, 3}
    Root = 3
    Children <- MCSmallChildren
    InFlight = 2
    ShardsInFlight = 1
    Pid = {p1, p2, p3}
    MaxStops = 1
CHECK_DEADLOCK FALSE
INVARIANTS
    StoppedRunsResume
