SPECIFICATION FairSpec
CONSTANTS
  Units <- MCUnits
  Manifests <- MCManifests
  MaxAdmissions = 3
  MaxRejections = 1
  MaxDiscoveries = 1
INVARIANTS
  TypeOK
  ViewsAgree
  OneFate
  VerdictsClimb
PROPERTIES
  OrderKept
  WorkedOff
