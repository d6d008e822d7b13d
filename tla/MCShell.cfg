CONSTANTS
    NENV = 6
    MAXFD = 4
    MAXARGS = 2
    BY2PIPE = 1
    NObj = 10
    NPipe = 3
    Lines <- MCLines
    MaxLines = 1
    MaxInterrupts = 1
    Programs <- MCPrograms
    Files <- MCFiles
SPECIFICATION FairSpec
INVARIANTS ShellTypeOK WordsEnd PipeEndsAreStdio PromptIsClean
PROPERTIES WaitIsOver 
