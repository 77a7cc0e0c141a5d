SPECIFICATION Spec
CONSTANTS
  NULL = NULL
  NoJob = NoJob
  Units = {"main.c", "foo.c", "cb.c"}
  Builds <- SeveralFiles
  MaxRepeats = 1
  Ignored = {"puts"}
  Intrinsics = {"llvm.memcpy"}
INVARIANTS
  IdentifiersAgree
  EdgesKept
  NoFalseCalls
  EntryPointsOnce
  LoaderAccepts
PROPERTY
  JobsEnd
