SPECIFICATION Spec
CONSTANTS
  Debuggers <- Two
  LastFd = 2
  Envs <- AllEnvs
INVARIANTS
  TypeOK
  HierarchyOfRequest
  SteadyCodeMatches
  LeftoversHarmless
  CodeLinked
  FeaturesClosed
PROPERTIES
  ClosesLogOnly
