SPECIFICATION FairSpec
CONSTANTS
  e1 = e1
  e2 = e2
  w1 = w1
  s1 = s1
  Exports = {e1, e2}
  NoExport = NoExport
  NumCoros = 3
  Waitables = {w1, s1}
  NoWaitable = NoWaitable
  Ends = {s1}
  Locks = {e1, e2}
  LockOf <- OwnLocks
  MaxOps = 2
  Ops = {"spawn", "join", "yield", "lock", "raise"}
INVARIANTS TypeOK PendingIsLiveWork WaitHasCause ExitIsClean NeverAborts
PROPERTIES ImplementsLifecycle EventuallyExits
