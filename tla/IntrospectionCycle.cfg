SPECIFICATION Spec
CONSTANTS
  Inputs <- CyclicInputs
  Memories <- MCMemories
  TypesToStub = {"SharedMutex"}
  ContainerSizeThreshold = 100
INVARIANT MembersKept
CHECK_DEADLOCK FALSE
