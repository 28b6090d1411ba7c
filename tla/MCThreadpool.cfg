SPECIFICATION Spec
CONSTANTS
  MaxThreads = 3
  Plans <- SteadyPlans
  NNodes = 2
  RawChunks <- FewChunks
  PassMod = 6
  CanPause = TRUE
  CanAbort = TRUE
INVARIANTS TypeOK ChunkSeesItsOperand ChunkOnce
PROPERTIES ImplementsGraphExec GraphCompletes FreeCompletes
