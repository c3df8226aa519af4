SPECIFICATION Spec
CONSTANTS
  Inputs <- MCInputs
  Memories <- MCMemories
  TypesToStub = {"SharedMutex"}
  ContainerSizeThreshold = 100
INVARIANTS
  TypeOK
  PassesSucceed
  MembersKept
  DefinitionsInOrder
  LayoutPreserved
  ReadsWhatWasWritten
  BytesCountedOnce
  ResultIsTree
PROPERTY
  Ends
CHECK_DEADLOCK FALSE
