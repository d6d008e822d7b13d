CONSTANTS
    c1 = c1
    c2 = c2
    Client = {c1, c2}
    file1 = file1
    file2 = file2
    Name = {file1}
    NoName = NoName
    Program <- MCProgram
    Entry <- MCEntry
    MAXOPEN = 2
    IdMod = 6
    NBLK = 2
    BY2PG = 8
SPECIFICATION FairSpec
INVARIANT ModifiedNotified
CHECK_DEADLOCK FALSE
