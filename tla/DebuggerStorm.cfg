CONSTANTS
  Threads = {m, t1}
  Main = m
  Unborn = {t1}
  Rets = {"ret1", "ret2"}
  Probe = "retarg"
  Env = {"main_calls", "clone", "clone_attach", "exit", "patch_fail", "locate_fail", "jit_segv", "jit_bus", "user_segv", "user_bus", "user_ill", "interrupt"}
SPECIFICATION Spec
INVARIANTS OneProbeAtATime JitHasWayBack
CHECK_DEADLOCK FALSE
