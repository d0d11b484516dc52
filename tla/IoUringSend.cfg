SPECIFICATION FairSpec
CONSTANTS
  c1 = c1
  c2 = c2
  f1 = f1
  f2 = f2
  None = None
  Conns <- TwoConns
  Fds <- TwoFds
  MaxLen = 2
  SqSize = 1
CHECK_DEADLOCK FALSE
INVARIANTS SentInFull OwedInQueues
PROPERTIES ClientSendReported
