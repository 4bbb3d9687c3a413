\* Three shards, a recursion program among the executions.
CONSTANTS
  Empty = Empty
  Garbled = Garbled
  MaxShards = 3
  Execution <- MCExecution
  Time = {1}
  MaxDamage = 0
SPECIFICATION Spec
INVARIANTS
  EveryArchiveCanBeExported
