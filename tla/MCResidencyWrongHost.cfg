SPECIFICATION Spec
CONSTANTS
  Faults <- OnlyRetire
INVARIANTS
  QueueServesQueue
