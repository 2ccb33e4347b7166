SPECIFICATION FairSpec
CONSTANTS
  j1 = j1  j2 = j2  j3 = j3
  g1 = g1  g2 = g2
  s = s  f = f  t = t
  v1 = v1  v2 = v2  w = w
  A = A  B = B
  NoJob = NoJob  NoVersion = NoVersion  NoImage = NoImage
  Jobs = {j1, j2, j3}
  Groups = {g1, g2}
  Group <- MCGroup
  Limit = 1
  Sources = {s, f, t}
  SourceOf <- MCSourceOf
  Pulled = {t}
  Versions = {v1, v2, w}
  Offers <- MCOffers
  Images = {A, B}
  Built <- MCBuilt
  Kernelless = {B}
  Faults = {"network", "cancel", "crash"}
INVARIANTS
  IndexIsBacked
PROPERTIES
  PublishedIsIndexed
  PackagesGo
  ResolutionsReturn
