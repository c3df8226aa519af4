CONSTANTS
  Window = 3
  SlotCount = 4
  JitRetAddr = 14
  FuncDescs <- MCFuncDescs
  Requests <- MCRequests
SPECIFICATION Spec
CHECK_DEADLOCK FALSE
INVARIANTS
  TypeOK
  Int3sAreActiveTraps
  TextRestored
  ReplayIsOriginal
