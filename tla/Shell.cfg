SPECIFICATION Spec
CONSTANTS
  NPROC = 4
  NOFILE = 5
  NFILE = 4
  NPIPE = 1
  PIPESIZE = 1
  Commands <- MCCommands
INVARIANT FileRefs CommandDone
PROPERTY PromptReturns
