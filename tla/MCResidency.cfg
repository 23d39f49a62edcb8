SPECIFICATION FairSpec
CONSTANTS
  Faults <- AllFaults
INVARIANTS
  TypeOK
  MirrorsBarringFaults
  ServedByOwnHost
  ConfirmedIsUp
  NoOrphan
PROPERTIES
  Heals
