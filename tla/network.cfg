SPECIFICATION FairSpec
CONSTANTS
  Absent = Absent
  Bare = Bare
  MaxLinks = 1
  Addresses <- MCAddresses
  Sizes <- MCSizes
INVARIANTS
  GatewayHeld
  IInv
PROPERTIES
  CreatedApart
  StartsAfterReboot
