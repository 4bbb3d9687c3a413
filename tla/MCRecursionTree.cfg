CONSTANTS
    Families <- MCFamilies
    CycleOwning = {"ADD", "JUMP"}
    Clock = 4
    RamOrigin = 3
    AdviceOrigin = 16
    RamEnd = 32
    PublicAt <- MCPublicAt
    KeyHeights <- MCKeyHeights
    Tuples <- MCTuples
    TraceOf <- MCTraceOf
    FinalsOf <- MCFinalsOf
    Plans <- MCPlans
    PlanGrid <- MCPlanGrid
    Statements <- MCStatements
    Departures = 1
    Forgeries = TRUE
    Executions <- MCExecutions
    InFlight = 2
    Running = Running
    Done = Done
    Reraised = Reraised
SPECIFICATION BlockSpec
INVARIANTS
    AcceptedRootsAreAcceptedBlocks
    PlannedTreesAreAccepted
    PlansAreTrees
    StreamedAnswersAreTheExecutions
