CONSTANTS
    NBlock = 6
    NDIRECT = 2
    NINDIRECT = 4
    FILE2BLK = 1
    file1 = file1
    file2 = file2
    Name = {file1, file2}
    NoName = NoName
    RootName = RootName
    NPages = {5, 6}
    Image <- MCImage
    MaxWord = 1
    Sizes = {0, 3}
    MaxDir = 2
    MaxOpen = 1
    MaxShared = 1
    CutIndirect = FALSE
    OffDirty = FALSE
SPECIFICATION Spec
INVARIANTS FsTypeOK   NamesUnique
 
CHECK_DEADLOCK FALSE
