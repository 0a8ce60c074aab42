SPECIFICATION MCSpec
CONSTANTS
  sr = sr
  fr = fr
  fw = fw
  k1 = k1
  k2 = k2
  Objects = {sr, fr, fw}
  KindOf <- Classes
  Calls = {k1, k2}
  NoObject = NoObject
  Ops = {"with", "transfer", "send", "overlap", "cancel", "nomem", "lost default"}
INVARIANTS TypeOK CopiesAreLegal CarefulNeverTraps CarefulNeverLeaks
PROPERTY ForgottenIsClosed
