\* Two workers over a guest of up to four cycles, with every fault and work
\* that need not end.
CONSTANTS
  CycleFamilies <- MCCycleFamilies
  DelegationFamilies <- MCDelegationFamilies
  EcallFamily = 0
  BufferOrder <- MCBufferOrder
  Height <- MCHeight
  MaxCycles = 4
  Faults = {"trap", "journal", "work", "panic", "executor panic"}
  Workers = {w1, w2}
  NoWorker = NoWorker
  NoShard = NoShard
  NoFailure = NoFailure
  Running = Running
  Done = Done
  Reraised = Reraised
SPECIFICATION SlowSpec
INVARIANTS
  ShardsAreThePlannedCut
  FinishedMeansThePlan
  WorkingCountsTheHands
  ClaimedOnceInFillOrder
  OneShardPerFamilyWaiting
  FirstFailureIsReturned
  DoneIsThePlan
  JoinExpectationsHold
PROPERTIES
  StopIsFinal
  Terminates
  NoBarrier
  ImplementsTheQueue
