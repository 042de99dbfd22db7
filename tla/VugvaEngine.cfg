SPECIFICATION Spec
CONSTANTS
  N = 3
  Vram = 4
  Names <- MCNames
  Generated <- MCGenerated
  Sizes <- MCSizes
  SINGLE_GPU_LIMIT = 3
  Failures = {"query", "alloc", "free"}
  Careful = {"names", "failed"}
INVARIANTS
  ChunksAreLive
  LeaksAreReported
  ResidentIsWhole
  OwnChunkIsServed
