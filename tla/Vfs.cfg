CONSTANTS
    MaxNodes = 30
    Machines <- MCMachines
    Programs <- MCPrograms
    Parts <- MCParts
    Disk <- MCDisk
    Archive <- MCArchive
    TmpPaths <- MCTmpPaths

SPECIFICATION Spec
INVARIANT TreeSound
INVARIANT PathsRight
 
 
