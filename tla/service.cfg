SPECIFICATION FairSpec
CONSTANTS
  i1 = i1
  i2 = i2
  n = n
  l = l
  x = x
  Unversioned = Unversioned
  a = a
  b = b
  c = c
  d = d
  v1 = v1
  v2 = v2
  u = u
  data = data
  undeclared = undeclared
  path = path
  event = event
  k1 = k1
  k2 = k2
  Paths = {path}
  Ids = {i1, i2}
  Names = {n, l}
  Versions = {Unversioned, x}
  Layers = {a, b, c, d}
  Owner <- MCOwner
  Copies <- MCCopies
  IdOf <- MCIdOf
  RefOf <- MCRefOf
  Body <- MCBody
  Serves <- MCServes
  NoCopy = NoCopy
  Calls = {k1, k2}
  Starts <- MCStarts
INVARIANTS TypeOK IInv OneCopyRuns OnlySoftLinksAreRefused OnlyCutCallsMeetAClosedStore
PROPERTIES KillTakesAll PulledIsStarted ExitCloses ShutdownEnds
