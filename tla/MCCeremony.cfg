SPECIFICATION Spec
CONSTANTS
    Q = 11
    Wires = {1, 2, 3}
    Class <- MCClass
    A <- MCA
    B <- MCB
    C <- MCC
    H = 3
    Secrets <- MCSecrets
    MaxRecords = 6
INVARIANTS
    ReadableStatesVerify
    VerifiedStatesAreOfTheContributions
    KeysAreOfTheCircuit
