SPECIFICATION Spec
CONSTANTS
    ByteBits = 1
    P = 521
    RamWords = {4, 8}
    EcallNumber <- MCEcallNumber
    FrameWords <- MCFrameWords
    BaseTypes = {"squeeze"}
    SystemCode <- MCSystemCode
    Steps <- MCSteps
CHECK_DEADLOCK FALSE
INVARIANTS
    SatisfiedRowsAreSteps
    HonestRowsSatisfy
