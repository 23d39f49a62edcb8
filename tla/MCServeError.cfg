SPECIFICATION Spec
CONSTANTS
  Units <- OnlyEdit
  Manifest <- MCManifest
  SafeName <- MCSafeName
  SafeBranch <- MCSafeBranch
  MaxAdmissions = 1
  MaxFaults = 2
  Faults = {"io"}
INVARIANTS
  NothingLost
