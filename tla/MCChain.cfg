CONSTANTS
    Families <- MCFamilies
    CycleOwning = {"ADD", "JUMP"}
    RamOrigin = 3
    AdviceOrigin = 16
    RamEnd = 32
    PublicAt <- MCPublicAt
    Shapes <- MCShapes
SPECIFICATION ChainSpec
INVARIANTS
    CutChainsDrawTheGlobalChallenges
    ThePendingInputIsPredicted
    WordsHaveOneInitRow
