SPECIFICATION Spec
CONSTANTS
  N = 2
  Kinds = {"pool", "engine"}
  Capable <- MCCapable
  Lives = 2
  Careful = {"demote", "claim"}
INVARIANTS
  StackIsRestored
  StreamsAreAligned
  EnabledIsMapped
  NothingLeft
  HostMemoryInUseIsMapped
  PoolStreamsHaveContext

