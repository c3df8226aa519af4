SPECIFICATION Spec
CONSTANTS
  Debuggers <- Two
  LastFd = 2
  Envs <- StaleEnvs
INVARIANTS
  CodeMatchesHierarchy
