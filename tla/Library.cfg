CONSTANTS
    Images <- MCImages
    BlockSize = 4
    PtrSize = 2
    Direct = 3
    Word = 200
    MaxWrite = 3
    MaxWrites = 3
    TreeKeys = {1, 2, 3, 4}
    MaxOps = 5
    ListMax = 3
    Cells = 5
    Values = {1, 200}
    High = {200}
    MaxNum = 50
    Base = 10

SPECIFICATION Spec
INVARIANT ImageRight
 
INVARIANT ContainersRight
 
