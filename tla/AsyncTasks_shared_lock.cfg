SPECIFICATION Spec
CONSTANTS
  e1 = e1
  e2 = e2
  w1 = w1
  s1 = s1
  Exports = {e1, e2}
  NoExport = NoExport
  NumCoros = 2
  Waitables = {w1, s1}
  NoWaitable = NoWaitable
  Ends = {s1}
  Locks = {e1, e2}
  LockOf <- OneLock
  MaxOps = 2
  Ops = {"lock"}
INVARIANT AssertWaitableSet
