SPECIFICATION FairSpec
CONSTANTS
  Units <- MoreUnits
  Manifest <- MCManifest
  SafeName <- MCSafeName
  SafeBranch <- MCSafeBranch
  MaxAdmissions = 2
  MaxFaults = 1
  Faults = {"crash", "push"}
INVARIANTS
  AcceptedIsVerified
  RefsResolve
PROPERTIES
  Answered
