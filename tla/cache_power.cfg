SPECIFICATION Spec
CONSTANTS
  j1 = j1  j2 = j2  j3 = j3
  g1 = g1  g2 = g2
  s = s  f = f  t = t
  v1 = v1  v2 = v2  w = w
  A = A  B = B
  NoJob = NoJob  NoVersion = NoVersion  NoImage = NoImage
  Jobs = {j1, j2, j3}
  Groups = {g1, g2}
  Group <- MCGroup
  Limit = 2
  Sources = {s, f, t}
  SourceOf <- MCSourceOf
  Pulled = {s, f, t}
  Versions = {v1, v2, w}
  Offers <- MCOffers
  Images = {A, B}
  Built <- MCBuilt
  Kernelless = {B}
  Faults = {"network", "store", "disk", "crash", "power", "moves"}
INVARIANTS
  ResolvedIsWhole
  OneBuildPerKey
  IInv
  NoForeignImage
PROPERTIES
  RefinesStore
