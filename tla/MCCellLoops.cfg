SPECIFICATION Spec
CONSTANTS
  Graphs <- MCGraphs
  WorkGraphs <- MCWorkGraphs
  Frontiers <- MCFrontiers
  Responses <- MCResponses
  Calls <- MCCalls
  Capacity = 2
  Commands <- MCCommands
  Recorded <- MCRecorded
  MaxEvents = 5
CHECK_DEADLOCK FALSE
INVARIANTS
  TypeOK
  WalkIsExact
  NoUnderflow
  TopoOrdersCells
  PassedIsWhole
  PromptsQuotePrerequisites
  BatchesPartition
  ConformAnswers
  ViewsFollow
  CallReturns
