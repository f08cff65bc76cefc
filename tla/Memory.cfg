CONSTANTS
  p = p
  q = q
  Programs = {p, q}
  Maps <- MCMaps
  WordBits = 2
  TableSize = 24
  KernelStart = 18
  KernelFrames = 2
  Placement <- MCPlacement
  KerDir = 19
  HeapStart = 48
  Framebuffer = 528
  SegmentPages <- MCSegmentPages
  StackPage <- MCStackPage
  MaxSegments = 2
SPECIFICATION Spec
SYMMETRY ProgramSymmetry
CONSTRAINT Sound
INVARIANT HandedOnce
INVARIANT KernelKept
INVARIANT Isolated
INVARIANT SpacesRight
CHECK_DEADLOCK FALSE
