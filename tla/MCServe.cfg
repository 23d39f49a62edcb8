SPECIFICATION Spec
CONSTANTS
  Units <- MCUnits
  Manifest <- MCManifest
  SafeName <- MCSafeName
  SafeBranch <- MCSafeBranch
  MaxAdmissions = 2
  MaxFaults = 2
  Faults = {"crash", "torn", "io", "push", "overlap"}
INVARIANTS
  TypeOK
  CrashLosesNothing
  NothingLeftBehind
  AcceptedIsDelivered
  TreeIsOwn
