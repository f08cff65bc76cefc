CONSTANTS
    Ticks = {0, 1, 3}
    Keys <- MCKeys
    Layouts <- MCLayouts
    Shift = 42
    MaxLine = 2
    Moves <- MCMoves
    Half = 2
    MaxX = 4
    MaxY = 3
    Readers = {"loader", "reader"}
    Cli = {"reader"}
    Requests <- MCRequests
    Sectors = 4
    CountMod = 3
    Kinds = {"none", "float", "ata", "atapi"}
    Drives = {0, 1, 2}
    Slowest = 2
    Timeout = 4
    ResetAt = 2
    Hardware <- MCHardware
    Polls = 1
    Tries = 2
    MaxFaults = 2
    Terms = {"vesa", "vga"}
    Writers = {"shell", "prog"}
    CliWriters = {"prog"}
    Chars = {"a", "NL", "BS", "TAB"}
    Cols = 3
    Rows = 2
    TabWidth = 2
    Wrap = 64
    MaxText = 5
    MaxMixed = 2
    Tasks2 = {"t1", "t2", "t3"}
    MaxSlow = 2

SPECIFICATION Spec
 
 
INVARIANT PointerRight
INVARIANT DriveRight
 
 
INVARIANT FirstExclusive
 
