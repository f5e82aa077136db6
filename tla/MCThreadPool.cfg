CONSTANTS
  c1 = c1
  c2 = c2
  c3 = c3
  Thread = {w1, w2}
  Caller = {c1, c2, c3}
  Inside = {c3}
  Nesting = {c1, c2, c3}
  OuterTasks <- MCOuter
  InnerTasks <- MCInner
SPECIFICATION FairSpec
INVARIANTS
  NoDanglingItem
  ReturnsWhenFinished
PROPERTIES
  CallsReturn
  DestroyReturns
CHECK_DEADLOCK FALSE
