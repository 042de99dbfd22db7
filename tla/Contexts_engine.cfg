SPECIFICATION Spec
CONSTANTS
  N = 2
  Kinds = {"engine"}
  Capable <- MCCapable
  Lives = 2
  Careful = {"demote", "claim"}
INVARIANT EngineStreamsHaveContext
