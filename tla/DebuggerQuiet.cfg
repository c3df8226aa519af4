CONSTANTS
  Threads = {m, t1, t2}
  Main = m
  Unborn = {}
  Rets = {"ret1", "ret2"}
  Probe = "retarg"
  Env = {"jit_segv", "locate_fail"}
SPECIFICATION Spec
INVARIANTS
  TypeOK
  CleanDetach
  NoSelfWait
PROPERTY Transparent
CHECK_DEADLOCK FALSE
