SPECIFICATION ShardSpec
CONSTANTS
  Reqs = {r1}
  MaxVersion = 3
  kCapacity = 2
  Wrap = 4
  Entries <- TwoEntries
  MaxPushes = 10
  MaxConns = 2
  GrowStep = 4
  Word = 32
  MaxBytes = 8
  MaxRead = 3
CHECK_DEADLOCK FALSE
INVARIANTS LastUpdateApplied RingOutlivesUse PinnedConfig LentOnce NeverStarved DecodesTheBody
PROPERTIES UpdatesInOrder ThreadResponds ImplementsFifo
