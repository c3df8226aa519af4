SPECIFICATION Spec
CONSTANTS
  PageSize = 2
  TextSegSize = 1
  DataSegSize = 3
  TargetPages = {1}
  Envs <- Grow
PROPERTIES
  TargetUntouched
