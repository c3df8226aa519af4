CONSTANTS
  Threads = {m, t1, t2}
  Main = m
  Unborn = {}
  Rets = {"ret"}
  Probe = "retarg"
  Env = {"timeout", "jit_segv", "locate_fail"}
SPECIFICATION BusySpec
PROPERTIES Detaches StoppedThreadsResume
CHECK_DEADLOCK FALSE
