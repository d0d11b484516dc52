SPECIFICATION FairSpec
CONSTANTS
  N = 2
  LogModes = {"none", "text", "zstd"}
  kCapacity = 1
  kBatchSize = 2
  kMaxStall = 2
  MaxEntries = 2
  Faults = {"listen", "bound", "open", "ring", "spawn", "start"}
  SinkStates = {"ok", "stalled", "broken"}
  MaxSinkChanges = 2
INVARIANTS UsesWhatExists LeavesNothing LogFaithful
PROPERTIES Exits
