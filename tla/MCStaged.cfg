\* Three shards on every schedule, with crashes and torn files; and two shards,
\* a file changed twice.
CONSTANTS
  Empty = Empty
  Garbled = Garbled
  MaxShards = 3
  Execution <- MCExecution
  Time = {1}
  MaxDamage = 2
SPECIFICATION MCStagedSpec
INVARIANTS
  StagedTypeOK
  ArchivesAreWellFormed
  StoredPhasesAreTheRun
  AnswersDoNotDependOnTheSchedule
  LoadsReturnWhatWasSaved
PROPERTIES
  CallsReturn
