SPECIFICATION FairSpec
CONSTANTS
  NoOne = NoOne
  Guests = {g1}
  Closers = {x1, x2}
CHECK_DEADLOCK FALSE
INVARIANTS
  ShutdownMissesNone
  NothingLeft
  NoLeak
  IInv
PROPERTIES
  NeverRevived
  GuestsAnswered
  CloseReturns
  HangUpEndsBoth
  CopiesEnd
