SPECIFICATION TimersSpec
CONSTANTS
  c1 = c1
  c2 = c2
  Off = Off
  Slots = 4
  KeepAlive = 2
  Second = 2
  MaxTicks = 1
  Conns <- TwoConns
  Waits = {1, 2, 3}
  MaxNow = 7
  MaxGen = 1
  HeapCap = 3
  UringWaits = {2, 3, 6, 7}
  UringMaxNow = 9
  UringMaxGen = 3
  Deadlines = {1, 2, 3}
  HeapSize = 6
CHECK_DEADLOCK FALSE
INVARIANTS AlwaysGuarded TimerCoversTop NoneEarly HeapOfEntries
PROPERTIES DueIsServed
