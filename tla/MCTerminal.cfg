CONSTANTS
    BY2CONS = 3
    CRT_COLS = 2
    CRT_SIZE = 4
    BufSize = 3
    Keys <- MCKeys
    Serial <- MCSerial
    MaxKeys = 4
CONSTRAINTS OneModifier
SPECIFICATION FairSpec
INVARIANTS TerminalTypeOK LineIsEcho
PROPERTIES ImplementsKeyQueue 
CHECK_DEADLOCK FALSE
