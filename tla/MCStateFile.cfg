SPECIFICATION Spec
CONSTANTS
  Processes = {p1, p2}
  Watched = p1
  Units <- MCUnits
  Manifests <- MCManifests
  Backstop = 2
  MaxCommands = 4
  Faults = {"overlap", "diskfull"}
CHECK_DEADLOCK FALSE
INVARIANTS
  TypeOK
  AcknowledgedSticks
  FileIsWhole
  AnsweredAsPublished
  OncePerWriter
PROPERTIES
  CommandsUseEngine
