SPECIFICATION Spec
CONSTANTS
  e1 = e1
  e2 = e2
  w1 = w1
  s1 = s1
  Exports = {e1, e2}
  NoExport = NoExport
  NumCoros = 3
  Waitables = {w1, s1}
  NoWaitable = NoWaitable
  Ends = {s1}
  Locks = {e1, e2}
  LockOf <- OneLock
  MaxOps = 2
  Ops = {"spawn", "plain", "cancel", "lock", "raise", "unsupported"}
INVARIANTS ScheduledOnce WaitablesRouted AssertPendingCount NoEarlyExit
\* Two exports that share a lock may leave each other waiting for ever (see the
\* shared_lock instance); what is checked here holds all the same.
CHECK_DEADLOCK FALSE
