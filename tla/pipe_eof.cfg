CONSTANTS
 PipeProcs = {1,2}
 FirstProc = 1
 MAX_PIPES = 2
 PIPE_BUF_SIZE = 2
 PROCESS_MAX_FDS = 6
 PipeData <- Data
 PipeWants <- Wants
 PipeSteps = 4
SPECIFICATION PipeSpec
INVARIANT SleeperHasWriter
CHECK_DEADLOCK FALSE
