SPECIFICATION Spec
CONSTANTS
  NULL = NULL
  NoJob = NoJob
  Units = {"main.c", "foo.c", "cb.c"}
  Builds <- StaticNames
  MaxRepeats = 0
  Ignored = {"puts"}
  Intrinsics = {"llvm.memcpy"}
INVARIANT
  EdgesKept
